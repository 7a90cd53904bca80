--------------------------- MODULE PipelineProofs ---------------------------
(***************************************************************************)
(* What holds of the workers and the rehydrator together.                  *)
(*                                                                         *)
(* The rehydrator was verified against RevisionZero, which promises what   *)
(* the workers do; the workers were shown to keep that promise.  Here the  *)
(* two meet: the composition implements Rehydration, whose theorems hold   *)
(* of it therefore, and the rest follows from both invariants.             *)
(***************************************************************************)
EXTENDS Pipeline, IntelWorkerRefinement

pipelineVars == <<vars, rehydratorVars>>

-----------------------------------------------------------------------------
(***************************************************************************)
(* The workers are not disturbed                                           *)
(***************************************************************************)

LEMMA PipelineStep ==
  ASSUME [PipelineNext]_pipelineVars
  PROVE  [Next]_vars
BY DEF PipelineNext, Intelligence, Rehydrate, pipelineVars

LEMMA WorkersRun == PipelineSpec => Spec
<1>1. PipelineInit => Init
  BY DEF PipelineInit
<1>2. [PipelineNext]_pipelineVars => [Next]_vars
  BY PipelineStep
<1>. QED
  BY <1>1, <1>2, PTL DEF PipelineSpec, Spec, pipelineVars

LEMMA WorkerInvariance == PipelineSpec => [](Inv /\ DraftInv)
BY WorkersRun, DraftInvariance, PTL

-----------------------------------------------------------------------------
(***************************************************************************)
(* The rehydrator runs as in Rehydration                                   *)
(***************************************************************************)

(* What the rehydrator sees of the bucket is what RevisionZero is about.   *)
LEMMA SameMapping ==
  /\ Rehydrator!ZeroNext <=> Revisions!ZeroNext
  /\ Rehydrator!zeroVars = Revisions!zeroVars
BY DEF Rehydrator!ZeroNext, Revisions!ZeroNext, Rehydrator!zeroVars, Revisions!zeroVars,
       Rehydrator!StoreZero, Rehydrator!IndexZero, Rehydrator!TellZero,
       Revisions!StoreZero, Revisions!IndexZero, Revisions!TellZero

(* The rehydrator's state, as far as it is its own.                        *)
LEMMA OwnVars ==
  UNCHANGED rehydratorVars =>
    UNCHANGED <<Rehydrator!bucketVars, revisions, pass, failures>>
BY DEF rehydratorVars, Rehydrator!bucketVars

(* A step of a worker is WorkerStep, the clock's Tick, or not seen.        *)
LEMMA IntelligenceIsSeen ==
  ASSUME Inv, DraftInv, Intelligence
  PROVE  [Rehydrator!Next]_(Rehydrator!vars)
<1>1. /\ Next
      /\ UNCHANGED <<Rehydrator!bucketVars, revisions, pass, failures>>
  BY OwnVars DEF Intelligence
<1>2. CASE clock' = clock /\ [Revisions!ZeroNext]_(Revisions!zeroVars)
  <2>1. CASE Revisions!ZeroNext
    <3>1. Rehydrator!WorkerStep
      BY <1>1, <1>2, <2>1, SameMapping DEF Rehydrator!WorkerStep
    <3>. QED
      BY <3>1 DEF Rehydrator!Next
  <2>2. CASE UNCHANGED Revisions!zeroVars
    BY <1>1, <1>2, <2>2, SameMapping
       DEF Rehydrator!vars, Rehydrator!zeroVars, Revisions!zeroVars
  <2>. QED
    BY <1>2, <2>1, <2>2
<1>3. CASE Tick
  <2>1. UNCHANGED Rehydrator!zeroVars
    BY <1>3 DEF Tick, Rehydrator!zeroVars, Exists, EventKey
  <2>2. Rehydrator!Tick
    BY <1>1, <1>3, <2>1 DEF Tick, Rehydrator!Tick
  <2>. QED
    BY <2>2 DEF Rehydrator!Next
<1>4. CASE ~Tick
  <2>1. clock' = clock
    BY <1>1, <1>4 DEF Next, Receive, Fetch, Abandon, AckWaitExpires, Work,
         RejectPointer, CheckIndex, RejectRecord, FailRecord, Structure, ReadMember,
         AcceptDraft, PutObject, PutConflict, SkipFlag, Publish, WriteQuarantine,
         QuarantineConflict, Ack
  <2>2. [Revisions!ZeroNext]_(Revisions!zeroVars)
    <3>1. CASE UNCHANGED <<store, announced>>
      BY <3>1 DEF Revisions!zeroVars, Exists, EventKey
    <3>2. CASE \E w \in Workers, k \in ObjectKinds : PutObject(w, k)
      BY <3>2, PutZero
    <3>3. CASE \E w \in Workers, k \in PublishKinds : Publish(w, k)
      BY <3>3, PublishZero
    <3>. QED
      BY <1>1, <3>1, <3>2, <3>3, BucketChanges
  <2>. QED
    BY <1>2, <2>1, <2>2
<1>. QED
  BY <1>3, <1>4

LEMMA PipelineIsSeen ==
  ASSUME Inv, DraftInv, [PipelineNext]_pipelineVars
  PROVE  [Rehydrator!Next]_(Rehydrator!vars)
<1>1. CASE Intelligence
  BY <1>1, IntelligenceIsSeen
<1>2. CASE Rehydrate
  BY <1>2 DEF Rehydrate, Rehydrator!Next
<1>3. CASE UNCHANGED pipelineVars
  BY <1>3 DEF pipelineVars, vars, rehydratorVars, Rehydrator!vars, Rehydrator!zeroVars,
              Rehydrator!bucketVars, Exists, EventKey
<1>. QED
  BY <1>1, <1>2, <1>3 DEF PipelineNext

(* The rehydrator that runs against the real workers, which retry, crash,  *)
(* conflict and redeliver, is one that runs against RevisionZero: each of  *)
(* its runs, seen through its bucket, is a run of Rehydration.             *)
THEOREM ImplementsRehydration == PipelineSpec => Rehydrator!Spec
<1>1. PipelineInit => Rehydrator!Init
  BY DEF PipelineInit
<1>2. Inv /\ DraftInv /\ [PipelineNext]_pipelineVars => [Rehydrator!Next]_(Rehydrator!vars)
  BY PipelineIsSeen
<1>. QED
  BY WorkerInvariance, <1>1, <1>2, PTL DEF PipelineSpec, Rehydrator!Spec, pipelineVars

-----------------------------------------------------------------------------
(***************************************************************************)
(* What follows                                                            *)
(***************************************************************************)

LEMMA RehydratorInvariance ==
  ASSUME ConstantsFit
  PROVE  PipelineSpec => []Rehydrator!IInv
<1>1. Rehydrator!Spec => []Rehydrator!IInv
  BY EventsAssumption, LimitsAssumption, Rehydrator!InvariantHolds DEF ConstantsFit
<1>. QED
  BY <1>1, ImplementsRehydration, PTL

(* Next to real workers too, consumers are told of one revision 1 of an    *)
(* event at most, and find what it says in the bucket; it was due; it is   *)
(* left unannounced by a failure only; and no two writers of a manifest    *)
(* conflict.                                                               *)
THEOREM RehydrationHolds ==
  ASSUME ConstantsFit
  PROVE  PipelineSpec => [](/\ Rehydrator!OneRevision
                            /\ Rehydrator!RevisionIsDue
                            /\ Rehydrator!LostOnlyByFailure
                            /\ Rehydrator!ManifestsNeverConflict)
<1>1. Rehydrator!Spec => []Rehydrator!OneRevision
  BY EventsAssumption, LimitsAssumption, Rehydrator!OneRevisionAlways DEF ConstantsFit
<1>2. Rehydrator!Spec => []Rehydrator!RevisionIsDue
  BY EventsAssumption, LimitsAssumption, Rehydrator!RevisionIsDueAlways DEF ConstantsFit
<1>3. Rehydrator!Spec => []Rehydrator!LostOnlyByFailure
  BY EventsAssumption, LimitsAssumption, Rehydrator!LostOnlyByFailureAlways DEF ConstantsFit
<1>4. Rehydrator!Spec => []Rehydrator!ManifestsNeverConflict
  BY EventsAssumption, LimitsAssumption, Rehydrator!ManifestsNeverConflictAlways
     DEF ConstantsFit
<1>. QED
  BY <1>1, <1>2, <1>3, <1>4, ImplementsRehydration, PTL

(* What a revision of e says of e's packet.                                *)
LEMMA RevisionMeansPending ==
  ASSUME ConstantsFit, Rehydrator!IInv, NEW e \in Events, revisions[e] # {}
  PROVE  /\ Exists(EventKey("structured", e))
         /\ store[EventKey("structured", e)].ctx = Pending
<1>1. PICK p : p \in revisions[e]
  OBVIOUS
<1>2. revisions[e] \subseteq Rehydrator!Entries
  BY DEF Rehydrator!IInv, Rehydrator!TypeOK
<1>3. index[e] = p /\ p # None
  BY <1>1, <1>2
     DEF Rehydrator!IInv, Rehydrator!BucketAgrees, Rehydrator!AnnouncedAgree, ConstantsFit
<1>4. (IF Exists(EventKey("structured", e))
       THEN store[EventKey("structured", e)].ctx ELSE None) = Pending
  BY <1>3 DEF Rehydrator!IInv, Rehydrator!BucketAgrees, Rehydrator!IndexAgrees
<1>5. Pending # None
  BY DEF ConstantsFit
<1>. QED
  BY <1>4, <1>5

(* The two components agree on what a revision is about: after revision 1  *)
(* of an event has been announced, no retry or redelivery of its message   *)
(* announces a revision 0 that already has a context, because the packet   *)
(* the rehydrator read is the one every attempt must announce.             *)
THEOREM RevisionsSupersedePendingAlways ==
  ASSUME ConstantsFit
  PROVE  PipelineSpec => []RevisionsSupersedePending
<1>1. Inv /\ Rehydrator!IInv => RevisionsSupersedePending
  <2>. SUFFICES ASSUME Inv, Rehydrator!IInv, NEW e \in Events, revisions[e] # {}
                PROVE  /\ Exists(EventKey("structured", e))
                       /\ store[EventKey("structured", e)].ctx = Pending
                       /\ \A payload \in announced[<<"structured", e>>] :
                            payload.ctx = Pending
    BY DEF RevisionsSupersedePending
  <2>1. /\ Exists(EventKey("structured", e))
        /\ store[EventKey("structured", e)].ctx = Pending
    BY RevisionMeansPending
  <2>2. \A payload \in announced[<<"structured", e>>] :
          store[EventKey("structured", e)] = payload
    BY DEF Inv, PointersResolve, PublishKinds
  <2>. QED
    BY <2>1, <2>2
<1>. QED
  BY WorkerInvariance, RehydratorInvariance, <1>1, PTL

(* Two pointers to one revision of an event never differ, whichever worker *)
(* or pass announced them and however often.                               *)
THEOREM ToldOnceAlways ==
  ASSUME ConstantsFit
  PROVE  PipelineSpec => []ToldOnce
<1>1. Inv /\ Rehydrator!IInv => ToldOnce
  <2>. SUFFICES ASSUME Inv, Rehydrator!IInv, NEW e \in Events
                PROVE  /\ \A p, q \in announced[<<"structured", e>>] : p = q
                       /\ \A p, q \in revisions[e] : p = q
    BY DEF ToldOnce
  <2>1. \A p \in announced[<<"structured", e>>] : p = store[EventKey("structured", e)]
    BY DEF Inv, PointersResolve, PublishKinds
  <2>2. \A p \in revisions[e] : p = index[e]
    BY DEF Rehydrator!IInv, Rehydrator!BucketAgrees, Rehydrator!AnnouncedAgree
  <2>. QED
    BY <2>1, <2>2
<1>. QED
  BY WorkerInvariance, RehydratorInvariance, <1>1, PTL

(* What the two components together show a consumer is MarketContext: the  *)
(* first context of an event's packet is the one its worker looked up, a   *)
(* pending one is settled by one final context when its time has come, and *)
(* nobody is told of either before it is stored, whichever worker or pass  *)
(* retries, crashes or loses a race for a key.                             *)
THEOREM ContextsAreSettledOnce ==
  ASSUME ConstantsFit
  PROVE  PipelineSpec => Rehydrator!ImplementsMarketContext
<1>1. Rehydrator!Spec => Rehydrator!ImplementsMarketContext
  BY EventsAssumption, LimitsAssumption, Rehydrator!ContextIsSettledOnce DEF ConstantsFit
<1>. QED
  BY <1>1, ImplementsRehydration, PTL
=============================================================================
