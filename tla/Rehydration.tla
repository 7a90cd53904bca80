----------------------------- MODULE Rehydration -----------------------------
(***************************************************************************)
(* The rehydrator (workflow/rehydration.rs): a process that is started     *)
(* again and again, makes one pass over the structured packets, and for    *)
(* each pending one reads the market context again.  It then writes and    *)
(* announces revision 1 of the packet: with the context, or, once the      *)
(* packet has expired, with the terminal status "unavailable".             *)
(*                                                                         *)
(* Nothing keeps two passes from overlapping.  They share the bucket and   *)
(* the output stream with each other and with the workers, of which they   *)
(* see what RevisionZero says.                                             *)
(*                                                                         *)
(* A packet at revision 1 is never pending, so there is no revision 2.     *)
(***************************************************************************)
EXTENDS RevisionZero, Integers, FiniteSets

CONSTANTS
  Rehydrators,   \* processes running the rehydration binary
  Available,     \* contexts with a market snapshot
  Pending,       \* the context of a packet without one
  Unavailable,   \* the context of a packet that will never have one
  ObservedHour,  \* [Families -> Nat]: hour under which revision 0 is filed
  RetryAfter,    \* [Families -> Nat]: market_context_retry_after_ms
  ExpireAt       \* [Families -> Nat]: market_context_expire_at_ms

CONSTANTS
  MaxPackets,    \* --max-packets: keys one pass lists
  HourLength,    \* clock ticks in an hour
  MaxClock,      \* bound on the clock
  MaxFailures    \* bound on failed calls and crashes

ASSUME FamiliesAssumption == Families \subseteq Nat
ASSUME ContextsAssumption ==
  /\ Contexts = Available \cup {Pending}
  /\ Pending \notin Available \cup {Unavailable, None}
  /\ Unavailable \notin Available \cup {None}
  /\ None \notin Available
ASSUME TimesAssumption ==
  /\ ObservedHour \in [Families -> Nat]
  /\ RetryAfter \in [Families -> Nat]
  /\ ExpireAt \in [Families -> Nat]
ASSUME LimitsAssumption ==
  /\ MaxPackets \in Nat \ {0}
  /\ HourLength \in Nat \ {0}
  /\ MaxClock \in Nat
  /\ MaxFailures \in Nat

VARIABLES
  revised,    \* [RevisedKeys -> Revisions \cup {None}]: packets at revision 1
  manifests,  \* set of Manifests
  index,      \* [Families -> Entries \cup {None}]: index of revision 1
  announced,  \* [Families -> SUBSET Entries]: pointers to revision 1
  pass,       \* [Rehydrators -> PassState]
  clock,      \* now_ms()
  failures    \* how many calls have failed or processes crashed

bucketVars == <<revised, manifests, index>>
vars == <<zeroVars, bucketVars, announced, pass, clock, failures>>

-----------------------------------------------------------------------------
(* time_part: the part of a time that a key holds.                         *)
HourOf(t) == t \div HourLength

Revisions == Available \cup {Unavailable}

(* A structured packet is filed under an hour: revision 0 under that of    *)
(* the observation, revision 1 under that of its writing.                  *)
PacketKeys == [hour : Nat, family : Families, revision : {0, 1}]

ZeroKey(f) == [hour |-> ObservedHour[f], family |-> f, revision |-> 0]

(* What the index and the pointer of a revision say: when it was made      *)
(* (which names the packet's key and the manifest) and which context the   *)
(* packet has (of which the index holds the status, the pointer a hash).   *)
Entries == [at : Nat, context : Revisions]

ASSUME NoneAssumption == None \notin Entries

Manifests == [family : Families, at : Nat, context : Revisions]

RevisedKeys == [family : Families, hour : 0..HourOf(MaxClock)]

Before(a, b) ==
  \/ a.hour < b.hour
  \/ a.hour = b.hour /\ a.family < b.family
  \/ a.hour = b.hour /\ a.family = b.family /\ a.revision < b.revision

StoredKeys ==
  {ZeroKey(f) : f \in {g \in Families : packet[g] # None}} \cup
  {[hour |-> k.hour, family |-> k.family, revision |-> 1] :
     k \in {l \in RevisedKeys : revised[l] # None}}

(* list_keys: the first MaxPackets keys.                                   *)
Listing == {k \in StoredKeys : Cardinality({l \in StoredKeys : Before(l, k)}) < MaxPackets}

(* idle:     not running                                                   *)
(* scan:     has the keys of todo before it                                *)
(* due:      read a pending packet whose retry time has come               *)
(* current:  found no newer revision of it                                 *)
(* packet, manifest, index, publish: is about to write or publish that     *)
PassState ==
  [pc : {"idle", "scan", "due", "current", "packet", "manifest", "index", "publish"},
   todo : SUBSET PacketKeys,
   family : Families \cup {None},
   at : Nat,
   context : Revisions \cup {None}]

Holding(pc, todo, f) ==
  [pc |-> pc, todo |-> todo, family |-> f, at |-> 0, context |-> None]

Stopped == Holding("idle", {}, None)

Scanning(todo) == Holding("scan", todo, None)

Becomes(r, state) == pass' = [pass EXCEPT ![r] = state]

At(r, pc) == pass[r].pc = pc

Moves(r, pc) == Becomes(r, [pass[r] EXCEPT !.pc = pc])

Family(r) == pass[r].family

(* Leave the packet in hand for the next one of the listing.               *)
NextPacket(r) == Becomes(r, Scanning(pass[r].todo))

Entry(r) == [at |-> pass[r].at, context |-> pass[r].context]

-----------------------------------------------------------------------------
Start(r) ==
  /\ At(r, "idle")
  /\ Becomes(r, Scanning(Listing))
  /\ UNCHANGED <<zeroVars, bucketVars, announced, clock, failures>>

Finish(r) ==
  /\ At(r, "scan")
  /\ pass[r].todo = {}
  /\ Becomes(r, Stopped)
  /\ UNCHANGED <<zeroVars, bucketVars, announced, clock, failures>>

(* Only a pending packet is looked at, and not before its retry time.      *)
IsDue(k) ==
  /\ k.revision = 0
  /\ packet[k.family] = Pending
  /\ RetryAfter[k.family] <= clock

ReadPacket(r, k) ==
  /\ At(r, "scan")
  /\ k \in pass[r].todo
  /\ \A l \in pass[r].todo : ~Before(l, k)
  /\ LET rest == pass[r].todo \ {k} IN
     Becomes(r, IF IsDue(k) THEN Holding("due", rest, k.family) ELSE Scanning(rest))
  /\ UNCHANGED <<zeroVars, bucketVars, announced, clock, failures>>

(* Faulty: a packet is superseded by the index of its own revision.        *)
SupersededByItself(f) == f \in indexed \/ index[f] # None

(* is_not_latest_revision of a packet at revision 0                        *)
Superseded(f) == index[f] # None

CheckLatest(r) ==
  /\ At(r, "due")
  /\ IF Superseded(Family(r)) THEN NextPacket(r) ELSE Moves(r, "current")
  /\ UNCHANGED <<zeroVars, bucketVars, announced, clock, failures>>

(* Faulty: a packet expires without regard to the time.                    *)
ExpiredAlways(f) == TRUE

Expired(f) == ExpireAt[f] <= clock

Revise(r, c) ==
  Becomes(r, [pass[r] EXCEPT !.pc = "packet", !.at = clock, !.context = c])

(* Faulty: any answer of the market reader makes a revision.               *)
ReadMarketUnchecked(r, answer) ==
  /\ At(r, "current")
  /\ Revise(r, answer)
  /\ UNCHANGED <<zeroVars, bucketVars, announced, clock, failures>>

(* context_for answers; the revision is dated before its first write.      *)
ReadMarket(r, answer) ==
  /\ At(r, "current")
  /\ \/ answer \in Available /\ Revise(r, answer)
     \/ answer = Pending /\ Expired(Family(r)) /\ Revise(r, Unavailable)
     \/ answer = Pending /\ ~Expired(Family(r)) /\ NextPacket(r)
  /\ UNCHANGED <<zeroVars, bucketVars, announced, clock, failures>>

-----------------------------------------------------------------------------
(***************************************************************************)
(* publish_revision.  A conflict is an error, and an error ends the pass:  *)
(* the packets left in todo are not looked at.                             *)
(***************************************************************************)
BucketKey(r) == [family |-> Family(r), hour |-> HourOf(pass[r].at)]

(* Faulty: a packet replaces what another pass has written.                *)
PacketAcceptsAny(key, context) == TRUE

PacketAccepts(key, context) == revised[key] \in {None, context}

PutPacket(r) ==
  /\ At(r, "packet")
  /\ IF PacketAccepts(BucketKey(r), pass[r].context)
     THEN /\ revised' = [revised EXCEPT ![BucketKey(r)] = pass[r].context]
          /\ Moves(r, "manifest")
     ELSE /\ Becomes(r, Stopped)
          /\ UNCHANGED revised
  /\ UNCHANGED <<zeroVars, manifests, index, announced, clock, failures>>

Manifest(r) == [family |-> Family(r), at |-> pass[r].at, context |-> pass[r].context]

(* The manifest's key holds the millisecond, its content the context by    *)
(* way of the packet's size.                                               *)
ManifestAccepts(m) == \A n \in manifests : n.family = m.family /\ n.at = m.at => n = m

PutManifest(r) ==
  /\ At(r, "manifest")
  /\ IF ManifestAccepts(Manifest(r))
     THEN manifests' = manifests \cup {Manifest(r)} /\ Moves(r, "index")
     ELSE Becomes(r, Stopped) /\ UNCHANGED manifests
  /\ UNCHANGED <<zeroVars, revised, index, announced, clock, failures>>

(* Faulty: a later index replaces an earlier one.                          *)
IndexAcceptsAny(f, entry) == TRUE

(* The index of a revision holds the time, the key and the context status. *)
IndexAccepts(f, entry) == index[f] \in {None, entry}

PutIndex(r) ==
  /\ At(r, "index")
  /\ IF IndexAccepts(Family(r), Entry(r))
     THEN index' = [index EXCEPT ![Family(r)] = Entry(r)] /\ Moves(r, "publish")
     ELSE Becomes(r, Stopped) /\ UNCHANGED index
  /\ UNCHANGED <<zeroVars, revised, manifests, announced, clock, failures>>

(* Faulty: the pointer is dropped although nobody has sent it before.      *)
PublishNothing(r) ==
  /\ At(r, "publish")
  /\ NextPacket(r)
  /\ UNCHANGED <<zeroVars, bucketVars, announced, clock, failures>>

(* Inside the stream's duplicate window a second pointer is dropped.       *)
Publish(r) ==
  /\ At(r, "publish")
  /\ \/ announced' = [announced EXCEPT ![Family(r)] = @ \cup {Entry(r)}]
     \/ announced[Family(r)] # {} /\ UNCHANGED announced
  /\ NextPacket(r)
  /\ UNCHANGED <<zeroVars, bucketVars, clock, failures>>

(* A remote call fails, which ends the pass, or the process dies.  So that *)
(* the last hour of the bounded clock is not special, none fails in it.    *)
Fail(r) ==
  /\ ~At(r, "idle")
  /\ failures < MaxFailures
  /\ HourOf(clock) < HourOf(MaxClock)
  /\ failures' = failures + 1
  /\ Becomes(r, Stopped)
  /\ UNCHANGED <<zeroVars, bucketVars, announced, clock>>

Tick ==
  /\ clock < MaxClock
  /\ clock' = clock + 1
  /\ UNCHANGED <<zeroVars, bucketVars, announced, pass, failures>>

WorkerStep ==
  /\ ZeroNext
  /\ UNCHANGED <<bucketVars, announced, pass, clock, failures>>

-----------------------------------------------------------------------------
Init ==
  /\ ZeroInit
  /\ revised = [k \in RevisedKeys |-> None]
  /\ manifests = {}
  /\ index = [f \in Families |-> None]
  /\ announced = [f \in Families |-> {}]
  /\ pass = [r \in Rehydrators |-> Stopped]
  /\ clock = 0
  /\ failures = 0

(* What a running pass does next, unless it fails.                         *)
Proceed(r) ==
  \/ Finish(r)
  \/ \E k \in pass[r].todo : ReadPacket(r, k)
  \/ CheckLatest(r)
  \/ \E answer \in Contexts : ReadMarket(r, answer)
  \/ PutPacket(r)
  \/ PutManifest(r)
  \/ PutIndex(r)
  \/ Publish(r)

Next ==
  \/ \E r \in Rehydrators : Start(r) \/ Proceed(r) \/ Fail(r)
  \/ Tick
  \/ WorkerStep

Spec == Init /\ [][Next]_vars

(* The scheduler starts the binary again, a pass that does not fail gets   *)
(* to its end, and time passes.  The workers owe nothing.                  *)
Fairness ==
  /\ \A r \in Rehydrators : WF_vars(Start(r)) /\ WF_vars(Proceed(r))
  /\ WF_vars(Tick)

FairSpec == Spec /\ Fairness

-----------------------------------------------------------------------------
(***************************************************************************)
(* Properties                                                              *)
(***************************************************************************)

TypeOK ==
  /\ packet \in [Families -> Contexts \cup {None}]
  /\ indexed \subseteq Families
  /\ told \subseteq Families
  /\ revised \in [RevisedKeys -> Revisions \cup {None}]
  /\ manifests \subseteq Manifests
  /\ index \in [Families -> Entries \cup {None}]
  /\ announced \in [Families -> SUBSET Entries]
  /\ pass \in [Rehydrators -> PassState]
  /\ clock \in 0..MaxClock
  /\ failures \in 0..MaxFailures

(* Consumers are told of one revision 1 of a packet at most, although      *)
(* several passes may have written one: the indexed one.  Its packet and   *)
(* its manifest are in the bucket, as the pointer says.                    *)
OneRevision ==
  \A f \in Families : \A p \in announced[f] :
    /\ index[f] = p
    /\ revised[[family |-> f, hour |-> HourOf(p.at)]] = p.context
    /\ [family |-> f, at |-> p.at, context |-> p.context] \in manifests

(* A revision supersedes a pending packet whose retry time had come, and   *)
(* gives up on its context only when the packet had expired.               *)
RevisionIsDue ==
  \A f \in Families :
    index[f] # None =>
      /\ packet[f] = Pending
      /\ index[f].at >= RetryAfter[f]
      /\ index[f].context = Unavailable => index[f].at >= ExpireAt[f]

(* An indexed revision is announced, or its writer is about to announce    *)
(* it; only a failure can leave it indexed and unannounced for good.       *)
LostOnlyByFailure ==
  \A f \in Families :
    index[f] # None /\ announced[f] = {} =>
      \/ failures > 0
      \/ \E r \in Rehydrators : At(r, "publish") /\ Family(r) = f

(* The write of a manifest never conflicts: writers that agree on the      *)
(* millisecond agree on the hour, where the packets have met before.       *)
ManifestsNeverConflict ==
  \A r \in Rehydrators : At(r, "manifest") => ManifestAccepts(Manifest(r))

(* Every pending packet is settled by a revision 1, in spite of failures,  *)
(* of passes that conflict and end early, and of whatever the market reader*)
(* answers, if a pass can list all packets.                                *)
PendingIsRevised ==
  \A f \in Families : packet[f] = Pending ~> index[f] # None

(* Both revisions of a packet are what MarketContext says of its first and *)
(* its final market context: whatever passes overlap, fail or conflict, a  *)
(* context is settled once and nobody is told of one that is not.          *)
Context == INSTANCE MarketContext WITH
  first <- packet,
  final <- [f \in Families |-> IF index[f] = None THEN None ELSE index[f].context],
  told  <- {<<f, 0>> : f \in told} \cup
           {<<f, 1>> : f \in {g \in Families : announced[g] # {}}}

ImplementsMarketContext == Context!Spec
=============================================================================
