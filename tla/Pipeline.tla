------------------------------ MODULE Pipeline ------------------------------
(***************************************************************************)
(* The INTEL-L1 workers (main.rs) and the rehydrator                       *)
(* (bin/intel-l1-rehydration-worker.rs, workflow/rehydration.rs) at work   *)
(* on one bucket, one output stream and one clock.  They never call each   *)
(* other: the rehydrator reads what the workers have stored at revision 0  *)
(* of a structured packet and writes revision 1 under keys and message ids *)
(* of its own.                                                             *)
(*                                                                         *)
(* Rehydration knows the workers by RevisionZero alone.  Here it has the   *)
(* workers themselves, whose bucket it sees through a mapping.             *)
(***************************************************************************)
EXTENDS IntelWorker, Integers

CONSTANTS
  Rehydrators, Available, Pending, Unavailable, ObservedHour, RetryAfter, ExpireAt,
  MaxPackets, MaxFailures

VARIABLES
  revised,    \* packets at revision 1 in the output bucket
  manifests,  \* their manifests
  index,      \* their revision indexes
  revisions,  \* pointers to revision 1 on the output stream
  pass,       \* the passes of the rehydrator
  failures    \* its failed calls and crashes

rehydratorVars == <<revised, manifests, index, revisions, pass, failures>>

(* The rehydrator finds a packet by listing structured keys, and its       *)
(* context in the packet.                                                  *)
Rehydrator == INSTANCE RehydrationProofs WITH
  Families  <- Events,
  announced <- revisions,
  packet    <- [e \in Events |->
                  IF Exists(EventKey("structured", e))
                  THEN store[EventKey("structured", e)].ctx ELSE None],
  indexed   <- {e \in Events : Exists(EventKey("revision_index", e))},
  told      <- {e \in Events : announced[<<"structured", e>>] # {}}

(* The snapshots the workers look up are those the rehydrator looks up.    *)
ConstantsFit ==
  /\ Contexts = Available \cup {Pending}
  /\ Pending \notin Available \cup {Unavailable, None}
  /\ Unavailable \notin Available \cup {None}
  /\ None \notin Available \cup Rehydrator!Entries
  /\ ObservedHour \in [Events -> Nat]
  /\ RetryAfter \in [Events -> Nat]
  /\ ExpireAt \in [Events -> Nat]
  /\ MaxPackets \in Nat \ {0}
  /\ MaxFailures \in Nat

PipelineInit == Init /\ Rehydrator!Init

Intelligence == Next /\ UNCHANGED rehydratorVars

Rehydrate ==
  /\ UNCHANGED vars
  /\ \E r \in Rehydrators :
       Rehydrator!Start(r) \/ Rehydrator!Proceed(r) \/ Rehydrator!Fail(r)

PipelineNext == Intelligence \/ Rehydrate

PipelineSpec == PipelineInit /\ [][PipelineNext]_<<vars, rehydratorVars>>

-----------------------------------------------------------------------------
(* A revision 1 supersedes a pending packet and nothing else: once one is  *)
(* announced, the bucket holds the event's revision 0 as pending, and      *)
(* whatever pointer to revision 0 any delivery has announced or will       *)
(* announce, before or after it, says pending too.                         *)
RevisionsSupersedePending ==
  \A e \in Events :
    revisions[e] # {} =>
      /\ Exists(EventKey("structured", e))
      /\ store[EventKey("structured", e)].ctx = Pending
      /\ \A payload \in announced[<<"structured", e>>] : payload.ctx = Pending

(* What a consumer is told of an event's market context, whether by the    *)
(* workers or by the rehydrator, in whatever order it arrives: at most one *)
(* thing at each revision.                                                 *)
ToldOnce ==
  \A e \in Events :
    /\ \A p, q \in announced[<<"structured", e>>] : p = q
    /\ \A p, q \in revisions[e] : p = q
=============================================================================
