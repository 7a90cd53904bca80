------------------------- MODULE RehydrationProofs -------------------------
(***************************************************************************)
(* Proofs about Rehydration, for any number of packets and of overlapping  *)
(* passes, any times and any number of failures.                           *)
(*                                                                         *)
(* The argument: nothing a pass has read or written is ever taken back     *)
(* (Grows).  Therefore what a pass knows of the packet in its hand         *)
(* (PassKnows) stays true while others move, and it is enough, step by     *)
(* step, for what the bucket must be like (BucketAgrees).                  *)
(***************************************************************************)
EXTENDS Rehydration, FiniteSetTheorems, TLAPS

Writing == {"packet", "manifest", "index", "publish"}

(* What a pass may rely on, in each of its steps.                          *)
PassKnows(r) ==
  /\ pass[r].pc \in {"due", "current"} \cup Writing =>
       /\ Family(r) \in Families
       /\ packet[Family(r)] = Pending
       /\ RetryAfter[Family(r)] <= clock
  /\ pass[r].pc \in Writing =>
       /\ RetryAfter[Family(r)] <= pass[r].at
       /\ pass[r].at <= clock
       /\ pass[r].context \in Revisions
       /\ pass[r].context = Unavailable => ExpireAt[Family(r)] <= pass[r].at
  /\ pass[r].pc \in Writing \ {"packet"} => revised[BucketKey(r)] = pass[r].context
  /\ pass[r].pc \in {"index", "publish"} => Manifest(r) \in manifests
  /\ pass[r].pc = "publish" => index[Family(r)] = Entry(r)

ManifestsAgree ==
  \A m \in manifests :
    /\ m.at <= clock
    /\ revised[[family |-> m.family, hour |-> HourOf(m.at)]] = m.context

IndexAgrees ==
  \A f \in Families :
    index[f] # None =>
      /\ packet[f] = Pending
      /\ RetryAfter[f] <= index[f].at
      /\ index[f].context = Unavailable => ExpireAt[f] <= index[f].at
      /\ [family |-> f, at |-> index[f].at, context |-> index[f].context] \in manifests

AnnouncedAgree == \A f \in Families : \A p \in announced[f] : index[f] = p

BucketAgrees == ManifestsAgree /\ IndexAgrees /\ AnnouncedAgree

(* The inductive invariant.                                                *)
IInv ==
  /\ TypeOK
  /\ \A r \in Rehydrators : PassKnows(r)
  /\ BucketAgrees
  /\ LostOnlyByFailure

-----------------------------------------------------------------------------
(* Nothing in the bucket is replaced or taken away, by a pass or a worker, *)
(* and no announcement is withdrawn.                                       *)
Grows ==
  /\ \A f \in Families : packet[f] # None => packet'[f] = packet[f]
  /\ \A k \in RevisedKeys : revised[k] # None => revised'[k] = revised[k]
  /\ manifests \subseteq manifests'
  /\ \A f \in Families : index[f] # None => index'[f] = index[f]
  /\ \A f \in Families : announced[f] \subseteq announced'[f]
  /\ clock <= clock'

(* Hours do not run backwards.                                             *)
LEMMA HoursGrow ==
  ASSUME NEW s \in Nat, NEW t \in Nat, s <= t
  PROVE  HourOf(s) \in 0..HourOf(t)
<1>1. HourLength \in Nat /\ HourLength > 0
  BY LimitsAssumption
<1>2. /\ s = HourLength * (s \div HourLength) + (s % HourLength)
      /\ t = HourLength * (t \div HourLength) + (t % HourLength)
      /\ s % HourLength \in 0..(HourLength - 1)
      /\ t % HourLength \in 0..(HourLength - 1)
      /\ s \div HourLength \in Nat
      /\ t \div HourLength \in Nat
  BY <1>1
<1>3. ASSUME s \div HourLength >= (t \div HourLength) + 1
      PROVE  FALSE
  <2>1. HourLength * (s \div HourLength) >= HourLength * ((t \div HourLength) + 1)
    BY <1>1, <1>2, <1>3
  <2>2. HourLength * ((t \div HourLength) + 1) = HourLength * (t \div HourLength) + HourLength
    BY <1>1, <1>2
  <2>3. QED
    BY <1>1, <1>2, <2>1, <2>2
<1>4. QED
  BY <1>2, <1>3 DEF HourOf

(* The keys a pass lists are keys of packets.                              *)
LEMMA ListingIsKeys ==
  ASSUME TypeOK
  PROVE  Listing \subseteq PacketKeys
<1>1. \A f \in Families : ZeroKey(f) \in PacketKeys
  BY TimesAssumption DEF ZeroKey, PacketKeys
<1>2. \A k \in RevisedKeys :
        [hour |-> k.hour, family |-> k.family, revision |-> 1] \in PacketKeys
  <2>1. 0..HourOf(MaxClock) \subseteq Nat
    OBVIOUS
  <2>2. QED
    BY <2>1 DEF RevisedKeys, PacketKeys
<1>3. StoredKeys \subseteq PacketKeys
  BY <1>1, <1>2 DEF StoredKeys
<1>4. QED
  BY <1>3 DEF Listing

(* States in which a pass has nothing in hand are well-formed.             *)
LEMMA HoldingIsState ==
  ASSUME NEW pc \in {"idle", "scan", "due"}, NEW todo \in SUBSET PacketKeys,
         NEW f \in Families \cup {None}
  PROVE  /\ Holding(pc, todo, f) \in PassState
         /\ Holding(pc, todo, f).pc = pc
         /\ Holding(pc, todo, f).family = f
BY DEF Holding, PassState

LEMMA StoppedIsState == Stopped \in PassState /\ Stopped.pc = "idle"
BY HoldingIsState DEF Stopped

LEMMA ScanningIsState ==
  ASSUME NEW todo \in SUBSET PacketKeys
  PROVE  Scanning(todo) \in PassState /\ Scanning(todo).pc = "scan"
BY HoldingIsState DEF Scanning

(* A pass without a packet in hand knows nothing.                          *)
LEMMA IdleKnowsNothing ==
  ASSUME NEW r, pass[r].pc \in {"idle", "scan"}
  PROVE  PassKnows(r)
BY DEF PassKnows, Writing

-----------------------------------------------------------------------------
(* While the bucket only grows, a pass that does not move knows what it    *)
(* knew, and what was indexed or listed in a manifest stays as it was.     *)
LEMMA OthersKeepKnowing ==
  ASSUME IInv, Grows, TypeOK', NEW q \in Rehydrators, pass'[q] = pass[q]
  PROVE  PassKnows(q)'
<1>1. pass[q] \in PassState /\ clock \in Nat /\ clock' \in Nat /\ clock' >= clock
      /\ clock <= MaxClock /\ MaxClock \in Nat
  BY LimitsAssumption DEF IInv, TypeOK, Grows
<1>2. PassKnows(q)
  BY DEF IInv
<1>3. ASSUME pass[q].pc \in {"due", "current"} \cup Writing
      PROVE  /\ Family(q) \in Families
             /\ packet'[Family(q)] = Pending
             /\ RetryAfter[Family(q)] <= clock'
  <2>1. RetryAfter[Family(q)] \in Nat
    BY <1>2, <1>3, TimesAssumption DEF PassKnows
  <2>2. QED
    BY <1>1, <1>2, <1>3, <2>1, ContextsAssumption DEF PassKnows, Grows
<1>4. ASSUME pass[q].pc \in Writing
      PROVE  /\ RetryAfter[Family(q)] <= pass[q].at
             /\ pass[q].at <= clock'
             /\ pass[q].context \in Revisions
             /\ pass[q].context = Unavailable => ExpireAt[Family(q)] <= pass[q].at
  BY <1>1, <1>2, <1>4 DEF PassKnows, PassState
<1>5. ASSUME pass[q].pc \in Writing \ {"packet"}
      PROVE  revised'[BucketKey(q)] = pass[q].context
  <2>1. pass[q].at \in Nat /\ pass[q].at <= MaxClock /\ Family(q) \in Families
    BY <1>1, <1>2, <1>5 DEF PassKnows, PassState
  <2>2. BucketKey(q) \in RevisedKeys
    BY <1>1, <2>1, HoursGrow DEF BucketKey, RevisedKeys
  <2>3. revised[BucketKey(q)] = pass[q].context /\ pass[q].context \in Revisions
    BY <1>2, <1>5 DEF PassKnows
  <2>4. None \notin Revisions
    BY ContextsAssumption DEF Revisions
  <2>5. QED
    BY <2>2, <2>3, <2>4 DEF Grows
<1>6. ASSUME pass[q].pc \in {"index", "publish"}
      PROVE  Manifest(q) \in manifests'
  BY <1>2, <1>6 DEF PassKnows, Grows
<1>7. ASSUME pass[q].pc = "publish"
      PROVE  index'[Family(q)] = Entry(q)
  <2>1. Family(q) \in Families /\ pass[q].context \in Revisions
    BY <1>2, <1>7 DEF PassKnows, Writing
  <2>2. Entry(q) \in Entries
    BY <1>1, <2>1 DEF Entry, Entries, PassState
  <2>3. QED
    BY <1>2, <1>7, <2>1, <2>2, NoneAssumption DEF PassKnows, Grows
<1>8. /\ Family(q)' = Family(q) /\ BucketKey(q)' = BucketKey(q)
      /\ Manifest(q)' = Manifest(q) /\ Entry(q)' = Entry(q)
  BY DEF Family, BucketKey, Manifest, Entry
<1>9. QED
  BY <1>3, <1>4, <1>5, <1>6, <1>7, <1>8 DEF PassKnows, Writing

(* A manifest that was there still agrees with its packet.                 *)
LEMMA ManifestsKeepAgreeing ==
  ASSUME IInv, Grows, TypeOK', NEW m \in manifests
  PROVE  /\ m.at <= clock'
         /\ revised'[[family |-> m.family, hour |-> HourOf(m.at)]] = m.context
<1>1. /\ m.family \in Families /\ m.at \in Nat /\ m.context \in Revisions
      /\ clock \in Nat /\ clock <= MaxClock /\ MaxClock \in Nat
      /\ clock' \in Nat /\ clock <= clock'
  BY LimitsAssumption DEF IInv, TypeOK, Manifests, Grows
<1>2. m.at <= clock /\ revised[[family |-> m.family, hour |-> HourOf(m.at)]] = m.context
  BY DEF IInv, BucketAgrees, ManifestsAgree
<1>3. [family |-> m.family, hour |-> HourOf(m.at)] \in RevisedKeys
  BY <1>1, <1>2, HoursGrow DEF RevisedKeys
<1>4. None \notin Revisions
  BY ContextsAssumption DEF Revisions
<1>5. QED
  BY <1>1, <1>2, <1>3, <1>4 DEF Grows

(* An indexed revision stays as it was.                                    *)
LEMMA IndexedKeepsAgreeing ==
  ASSUME IInv, Grows, NEW f \in Families, index[f] # None
  PROVE  /\ index'[f] = index[f]
         /\ packet'[f] = Pending
         /\ RetryAfter[f] <= index[f].at
         /\ index[f].context = Unavailable => ExpireAt[f] <= index[f].at
         /\ [family |-> f, at |-> index[f].at, context |-> index[f].context] \in manifests'
BY ContextsAssumption DEF IInv, Grows, BucketAgrees, IndexAgrees

-----------------------------------------------------------------------------
(* What holds of the pass that moves.                                      *)
LEMMA MoverIsTyped ==
  ASSUME TypeOK, NEW r \in Rehydrators
  PROVE  /\ pass[r] \in PassState
         /\ pass[r].todo \in SUBSET PacketKeys
         /\ Stopped \in PassState
         /\ Scanning(pass[r].todo) \in PassState
BY StoppedIsState, ScanningIsState DEF TypeOK, PassState

LEMMA WriterIsTyped ==
  ASSUME IInv, NEW r \in Rehydrators, pass[r].pc \in Writing
  PROVE  /\ Family(r) \in Families
         /\ pass[r].at \in Nat
         /\ pass[r].at <= clock
         /\ pass[r].context \in Revisions
         /\ BucketKey(r) \in RevisedKeys
         /\ Entry(r) \in Entries
         /\ Manifest(r) \in Manifests
<1>1. /\ Family(r) \in Families /\ pass[r].at <= clock
      /\ pass[r].context \in Revisions
  BY DEF IInv, PassKnows
<1>2. /\ pass[r].at \in Nat /\ clock \in Nat /\ clock <= MaxClock /\ MaxClock \in Nat
  BY LimitsAssumption DEF IInv, TypeOK, PassState
<1>3. BucketKey(r) \in RevisedKeys
  BY <1>1, <1>2, HoursGrow DEF BucketKey, RevisedKeys
<1>4. QED
  BY <1>1, <1>2, <1>3 DEF Entry, Entries, Manifest, Manifests

(* A step in which only a pass moves is well-typed.                        *)
LEMMA PassOnlyIsTyped ==
  ASSUME TypeOK, NEW r \in Rehydrators, NEW state \in PassState, Becomes(r, state),
         UNCHANGED <<zeroVars, bucketVars, announced, clock>>,
         failures' \in 0..MaxFailures
  PROVE  TypeOK'
BY DEF TypeOK, Becomes, zeroVars, bucketVars

LEMMA MovedIsState ==
  ASSUME TypeOK, NEW r \in Rehydrators,
         NEW pc \in {"idle", "scan", "due", "current"} \cup Writing
  PROVE  /\ [pass[r] EXCEPT !.pc = pc] \in PassState
         /\ [pass[r] EXCEPT !.pc = pc].pc = pc
         /\ [pass[r] EXCEPT !.pc = pc].family = pass[r].family
         /\ [pass[r] EXCEPT !.pc = pc].at = pass[r].at
         /\ [pass[r] EXCEPT !.pc = pc].context = pass[r].context
BY DEF TypeOK, PassState, Writing

LEMMA RevisingIsState ==
  ASSUME TypeOK, NEW r \in Rehydrators, NEW c \in Revisions, NEW state,
         state = [pass[r] EXCEPT !.pc = "packet", !.at = clock, !.context = c]
  PROVE  /\ state \in PassState
         /\ state.pc = "packet"
         /\ state.family = pass[r].family
         /\ state.at = clock
         /\ state.context = c
<1>1. pass[r] \in PassState /\ clock \in Nat
  BY LimitsAssumption DEF TypeOK
<1>2. state \in PassState
  BY <1>1 DEF PassState
<1>3. QED
  BY <1>1 DEF PassState

(* Every step keeps the types.                                             *)
LEMMA TypeStep ==
  ASSUME IInv, [Next]_vars
  PROVE  TypeOK'
<1>0. TypeOK /\ failures \in 0..MaxFailures /\ MaxFailures \in Nat
  BY LimitsAssumption DEF IInv, TypeOK
<1>1. ASSUME NEW r \in Rehydrators, Start(r) PROVE TypeOK'
  BY <1>0, <1>1, ListingIsKeys, ScanningIsState, PassOnlyIsTyped DEF Start
<1>2. ASSUME NEW r \in Rehydrators, Finish(r) PROVE TypeOK'
  BY <1>0, <1>2, MoverIsTyped, PassOnlyIsTyped DEF Finish
<1>3. ASSUME NEW r \in Rehydrators, NEW k \in pass[r].todo, ReadPacket(r, k)
      PROVE  TypeOK'
  <2>1. pass[r].todo \ {k} \in SUBSET PacketKeys /\ k.family \in Families
    BY <1>0, <1>3, MoverIsTyped DEF PacketKeys
  <2>2. /\ Holding("due", pass[r].todo \ {k}, k.family) \in PassState
        /\ Scanning(pass[r].todo \ {k}) \in PassState
    BY <2>1, HoldingIsState, ScanningIsState
  <2>3. QED
    BY <1>0, <1>3, <2>2, PassOnlyIsTyped DEF ReadPacket
<1>4. ASSUME NEW r \in Rehydrators, CheckLatest(r) PROVE TypeOK'
  <2>1. [pass[r] EXCEPT !.pc = "current"] \in PassState
    BY <1>0, MovedIsState
  <2>2. QED
    BY <1>0, <1>4, <2>1, MoverIsTyped, PassOnlyIsTyped DEF CheckLatest, NextPacket, Moves
<1>5. ASSUME NEW r \in Rehydrators, NEW answer \in Contexts, ReadMarket(r, answer)
      PROVE  TypeOK'
  <2>1. ASSUME NEW c \in Revisions, Revise(r, c) PROVE TypeOK'
    BY <1>0, <1>5, <2>1, RevisingIsState, PassOnlyIsTyped DEF Revise, ReadMarket
  <2>2. ASSUME NextPacket(r) PROVE TypeOK'
    BY <1>0, <1>5, <2>2, MoverIsTyped, PassOnlyIsTyped DEF NextPacket, ReadMarket
  <2>3. QED
    BY <1>5, <2>1, <2>2 DEF ReadMarket, Revisions
<1>6. ASSUME NEW r \in Rehydrators, PutPacket(r) PROVE TypeOK'
  <2>1. pass[r].context \in Revisions
    BY <1>6, WriterIsTyped DEF PutPacket, At, Writing
  <2>2. [pass[r] EXCEPT !.pc = "manifest"] \in PassState
    BY <1>0, MovedIsState DEF Writing
  <2>3. QED
    BY <1>0, <1>6, <2>1, <2>2, MoverIsTyped
    DEF PutPacket, Moves, Becomes, TypeOK, zeroVars
<1>7. ASSUME NEW r \in Rehydrators, PutManifest(r) PROVE TypeOK'
  <2>1. Manifest(r) \in Manifests
    BY <1>7, WriterIsTyped DEF PutManifest, At, Writing
  <2>2. [pass[r] EXCEPT !.pc = "index"] \in PassState
    BY <1>0, MovedIsState DEF Writing
  <2>3. QED
    BY <1>0, <1>7, <2>1, <2>2, MoverIsTyped
    DEF PutManifest, Moves, Becomes, TypeOK, zeroVars
<1>8. ASSUME NEW r \in Rehydrators, PutIndex(r) PROVE TypeOK'
  <2>1. Entry(r) \in Entries
    BY <1>8, WriterIsTyped DEF PutIndex, At, Writing
  <2>2. [pass[r] EXCEPT !.pc = "publish"] \in PassState
    BY <1>0, MovedIsState DEF Writing
  <2>3. QED
    BY <1>0, <1>8, <2>1, <2>2, MoverIsTyped
    DEF PutIndex, Moves, Becomes, TypeOK, zeroVars
<1>9. ASSUME NEW r \in Rehydrators, Publish(r) PROVE TypeOK'
  <2>1. Entry(r) \in Entries
    BY <1>9, WriterIsTyped DEF Publish, At, Writing
  <2>2. QED
    BY <1>0, <1>9, <2>1, MoverIsTyped
    DEF Publish, NextPacket, Becomes, TypeOK, zeroVars, bucketVars
<1>10. ASSUME NEW r \in Rehydrators, Fail(r) PROVE TypeOK'
  BY <1>0, <1>10, MoverIsTyped, PassOnlyIsTyped DEF Fail
<1>11. CASE Tick
  BY <1>0, <1>11, LimitsAssumption DEF Tick, TypeOK, zeroVars, bucketVars
<1>12. CASE WorkerStep
  BY <1>0, <1>12
  DEF WorkerStep, ZeroNext, StoreZero, IndexZero, TellZero, TypeOK, bucketVars
<1>13. CASE UNCHANGED vars
  BY <1>0, <1>13 DEF vars, zeroVars, bucketVars, TypeOK
<1>14. QED
  BY <1>1, <1>2, <1>3, <1>4, <1>5, <1>6, <1>7, <1>8, <1>9, <1>10, <1>11, <1>12, <1>13
  DEF Next, Proceed

(* Every step only adds.                                                   *)
LEMMA GrowStep ==
  ASSUME IInv, [Next]_vars
  PROVE  Grows
<1>0. TypeOK /\ clock \in Nat
  BY LimitsAssumption DEF IInv, TypeOK
<1>1. ASSUME UNCHANGED <<zeroVars, bucketVars, announced, clock>> PROVE Grows
  BY <1>0, <1>1 DEF Grows, zeroVars, bucketVars
<1>2. ASSUME NEW r \in Rehydrators, PutPacket(r) PROVE Grows
  <2>1. revised \in [RevisedKeys -> Revisions \cup {None}]
    BY <1>0 DEF TypeOK
  <2>2. \A k \in RevisedKeys : revised[k] # None => revised'[k] = revised[k]
    BY <1>2, <2>1 DEF PutPacket, PacketAccepts
  <2>3. QED
    BY <1>0, <1>2, <2>2 DEF PutPacket, Grows, zeroVars
<1>3. ASSUME NEW r \in Rehydrators, PutManifest(r) PROVE Grows
  BY <1>0, <1>3 DEF PutManifest, Grows, zeroVars
<1>4. ASSUME NEW r \in Rehydrators, PutIndex(r) PROVE Grows
  <2>1. index \in [Families -> Entries \cup {None}]
    BY <1>0 DEF TypeOK
  <2>2. \A f \in Families : index[f] # None => index'[f] = index[f]
    BY <1>4, <2>1 DEF PutIndex, IndexAccepts
  <2>3. QED
    BY <1>0, <1>4, <2>2 DEF PutIndex, Grows, zeroVars
<1>5. ASSUME NEW r \in Rehydrators, Publish(r) PROVE Grows
  <2>1. announced \in [Families -> SUBSET Entries]
    BY <1>0 DEF TypeOK
  <2>2. \A f \in Families : announced[f] \subseteq announced'[f]
    BY <1>5, <2>1 DEF Publish
  <2>3. QED
    BY <1>0, <1>5, <2>2 DEF Publish, Grows, zeroVars, bucketVars
<1>6. CASE Tick
  BY <1>0, <1>6 DEF Tick, Grows, zeroVars, bucketVars
<1>7. CASE WorkerStep
  <2>1. packet \in [Families -> Contexts \cup {None}]
    BY <1>0 DEF TypeOK
  <2>2. \A f \in Families : packet[f] # None => packet'[f] = packet[f]
    BY <1>7, <2>1 DEF WorkerStep, ZeroNext, StoreZero, IndexZero, TellZero
  <2>3. QED
    BY <1>0, <1>7, <2>2 DEF WorkerStep, Grows, bucketVars
<1>8. ASSUME NEW r \in Rehydrators,
             \/ Start(r) \/ Finish(r) \/ CheckLatest(r) \/ Fail(r)
             \/ \E k \in pass[r].todo : ReadPacket(r, k)
             \/ \E answer \in Contexts : ReadMarket(r, answer)
      PROVE  Grows
  BY <1>1, <1>8 DEF Start, Finish, CheckLatest, Fail, ReadPacket, ReadMarket
<1>9. CASE UNCHANGED vars
  BY <1>1, <1>9 DEF vars
<1>10. QED
  BY <1>2, <1>3, <1>4, <1>5, <1>6, <1>7, <1>8, <1>9 DEF Next, Proceed

-----------------------------------------------------------------------------
(* A pass that steps without writing takes nothing from the others, and    *)
(* leaves the bucket as it was.                                            *)
LEMMA MoverLeavesOthers ==
  ASSUME IInv, TypeOK', Grows, NEW r \in Rehydrators, NEW state \in PassState,
         Becomes(r, state), PassKnows(r)'
  PROVE  \A q \in Rehydrators : PassKnows(q)'
<1>1. ASSUME NEW q \in Rehydrators, q # r PROVE PassKnows(q)'
  <2>1. pass'[q] = pass[q]
    BY <1>1 DEF IInv, TypeOK, Becomes
  <2>2. QED
    BY <2>1, OthersKeepKnowing
<1>2. QED
  BY <1>1

(* A pass that puts its packet down knows nothing any more.                *)
LEMMA PutDown ==
  ASSUME IInv, TypeOK', Grows, NEW r \in Rehydrators, NEW state \in PassState,
         Becomes(r, state), state.pc \in {"idle", "scan"}
  PROVE  \A q \in Rehydrators : PassKnows(q)'
<1>1. pass'[r] = state
  BY DEF IInv, TypeOK, Becomes
<1>2. PassKnows(r)'
  BY <1>1 DEF PassKnows, Writing
<1>3. QED
  BY <1>2, MoverLeavesOthers

(* What every pass knows is preserved by every step.                       *)
LEMMA KnowledgeStep ==
  ASSUME IInv, [Next]_vars, TypeOK', Grows
  PROVE  \A q \in Rehydrators : PassKnows(q)'
<1>0. TypeOK /\ clock \in Nat
  BY LimitsAssumption DEF IInv, TypeOK
<1> DEFINE Known == \A q \in Rehydrators : PassKnows(q)'
<1>1. ASSUME NEW r \in Rehydrators, Start(r) PROVE Known
  BY <1>0, <1>1, ListingIsKeys, ScanningIsState, PutDown DEF Start
<1>2. ASSUME NEW r \in Rehydrators, Finish(r) PROVE Known
  BY <1>0, <1>2, StoppedIsState, PutDown DEF Finish
<1>3. ASSUME NEW r \in Rehydrators, Fail(r) PROVE Known
  BY <1>0, <1>3, StoppedIsState, PutDown DEF Fail
<1>4. ASSUME NEW r \in Rehydrators, NextPacket(r) PROVE Known
  BY <1>0, <1>4, MoverIsTyped, ScanningIsState, PutDown DEF NextPacket
<1>5. ASSUME NEW r \in Rehydrators, Becomes(r, Stopped) PROVE Known
  BY <1>0, <1>5, StoppedIsState, PutDown
<1>6. ASSUME NEW r \in Rehydrators, NEW k \in pass[r].todo, ReadPacket(r, k)
      PROVE  Known
  <2>1. pass[r].todo \ {k} \in SUBSET PacketKeys /\ k.family \in Families
    BY <1>0, MoverIsTyped DEF PacketKeys
  <2>2. CASE IsDue(k)
    <3> DEFINE state == Holding("due", pass[r].todo \ {k}, k.family)
    <3>1. state \in PassState /\ state.pc = "due" /\ state.family = k.family
      BY <2>1, HoldingIsState
    <3>2. Becomes(r, state)
      BY <1>6, <2>2 DEF ReadPacket
    <3> HIDE DEF state
    <3>3. pass'[r] = state
      BY <1>0, <3>2 DEF TypeOK, Becomes
    <3>4. UNCHANGED <<packet, clock>>
      BY <1>6 DEF ReadPacket, zeroVars
    <3>5. PassKnows(r)'
      BY <2>1, <2>2, <3>1, <3>3, <3>4 DEF PassKnows, Family, IsDue, Writing
    <3>6. QED
      BY <3>1, <3>2, <3>5, MoverLeavesOthers
  <2>3. CASE ~IsDue(k)
    BY <1>6, <2>1, <2>3, ScanningIsState, PutDown DEF ReadPacket
  <2>4. QED
    BY <2>2, <2>3
<1>7. ASSUME NEW r \in Rehydrators, CheckLatest(r) PROVE Known
  <2>1. CASE Moves(r, "current")
    <3> DEFINE state == [pass[r] EXCEPT !.pc = "current"]
    <3>1. state \in PassState /\ state.pc = "current" /\ state.family = pass[r].family
      BY <1>0, MovedIsState
    <3>2. Becomes(r, state)
      BY <2>1 DEF Moves
    <3> HIDE DEF state
    <3>3. pass'[r] = state
      BY <1>0, <3>2 DEF TypeOK, Becomes
    <3>4. UNCHANGED <<packet, clock>> /\ pass[r].pc = "due" /\ PassKnows(r)
      BY <1>7 DEF CheckLatest, zeroVars, At, IInv
    <3>5. PassKnows(r)'
      BY <3>1, <3>3, <3>4 DEF PassKnows, Family, Writing
    <3>6. QED
      BY <3>1, <3>2, <3>5, MoverLeavesOthers
  <2>2. QED
    BY <1>4, <1>7, <2>1 DEF CheckLatest
<1>8. ASSUME NEW r \in Rehydrators, NEW answer \in Contexts, ReadMarket(r, answer)
      PROVE  Known
  <2>1. ASSUME NEW c \in Revisions, Revise(r, c),
               c = Unavailable => ExpireAt[Family(r)] <= clock
        PROVE  Known
    <3> DEFINE state == [pass[r] EXCEPT !.pc = "packet", !.at = clock, !.context = c]
    <3>0. state = [pass[r] EXCEPT !.pc = "packet", !.at = clock, !.context = c]
      OBVIOUS
    <3>2. Becomes(r, state)
      BY <2>1 DEF Revise
    <3> HIDE DEF state
    <3>1. /\ state \in PassState /\ state.pc = "packet" /\ state.family = pass[r].family
          /\ state.at = clock /\ state.context = c
      <4>1. pass[r] \in PassState
        BY <1>0 DEF TypeOK
      <4>2. state \in PassState
        BY <1>0, <3>0, <4>1 DEF PassState
      <4>3. QED
        BY <3>0, <4>1, <4>2 DEF PassState
    <3>3. pass'[r] = state
      BY <1>0, <3>2 DEF TypeOK, Becomes
    <3>4. UNCHANGED <<packet, clock>> /\ pass[r].pc = "current" /\ PassKnows(r)
      BY <1>8 DEF ReadMarket, zeroVars, At, IInv
    <3>5. PassKnows(r)'
      BY <1>0, <2>1, <3>1, <3>3, <3>4 DEF PassKnows, Family, Writing
    <3>6. QED
      BY <3>1, <3>2, <3>5, MoverLeavesOthers
  <2>2. Unavailable \in Revisions /\ Available \subseteq Revisions /\ Unavailable \notin Available
    BY ContextsAssumption DEF Revisions
  <2>3. QED
    BY <1>4, <1>8, <2>1, <2>2 DEF ReadMarket, Expired
<1>9. ASSUME NEW r \in Rehydrators, PutPacket(r) PROVE Known
  <2>1. CASE PacketAccepts(BucketKey(r), pass[r].context)
    <3> DEFINE state == [pass[r] EXCEPT !.pc = "manifest"]
    <3>1. /\ state \in PassState /\ state.pc = "manifest" /\ state.family = pass[r].family
          /\ state.at = pass[r].at /\ state.context = pass[r].context
      BY <1>0, MovedIsState DEF Writing
    <3>2. Becomes(r, state)
      BY <1>9, <2>1 DEF PutPacket, Moves
    <3> HIDE DEF state
    <3>3. pass'[r] = state
      BY <1>0, <3>2 DEF TypeOK, Becomes
    <3>4. UNCHANGED <<packet, clock>> /\ pass[r].pc = "packet" /\ PassKnows(r)
      BY <1>9 DEF PutPacket, zeroVars, At, IInv
    <3>5. BucketKey(r) \in RevisedKeys
      BY <3>4, WriterIsTyped DEF Writing
    <3>6. revised'[BucketKey(r)] = pass[r].context
      BY <1>0, <1>9, <2>1, <3>5 DEF PutPacket, TypeOK
    <3>7. BucketKey(r)' = BucketKey(r)
      BY <3>1, <3>3 DEF BucketKey, Family
    <3>8. PassKnows(r)'
      BY <3>1, <3>3, <3>4, <3>6, <3>7 DEF PassKnows, Family, Writing
    <3>9. QED
      BY <3>1, <3>2, <3>8, MoverLeavesOthers
  <2>2. QED
    BY <1>5, <1>9, <2>1 DEF PutPacket
<1>10. ASSUME NEW r \in Rehydrators, PutManifest(r) PROVE Known
  <2>1. CASE ManifestAccepts(Manifest(r))
    <3> DEFINE state == [pass[r] EXCEPT !.pc = "index"]
    <3>1. /\ state \in PassState /\ state.pc = "index" /\ state.family = pass[r].family
          /\ state.at = pass[r].at /\ state.context = pass[r].context
      BY <1>0, MovedIsState DEF Writing
    <3>2. Becomes(r, state)
      BY <1>10, <2>1 DEF PutManifest, Moves
    <3> HIDE DEF state
    <3>3. pass'[r] = state
      BY <1>0, <3>2 DEF TypeOK, Becomes
    <3>4. UNCHANGED <<packet, clock, revised>> /\ pass[r].pc = "manifest" /\ PassKnows(r)
      BY <1>10 DEF PutManifest, zeroVars, At, IInv
    <3>5. Manifest(r) \in manifests'
      BY <1>10, <2>1 DEF PutManifest
    <3>6. BucketKey(r)' = BucketKey(r) /\ Manifest(r)' = Manifest(r)
      BY <3>1, <3>3 DEF BucketKey, Manifest, Family
    <3>7. PassKnows(r)'
      BY <3>1, <3>3, <3>4, <3>5, <3>6 DEF PassKnows, Family, Writing
    <3>8. QED
      BY <3>1, <3>2, <3>7, MoverLeavesOthers
  <2>2. QED
    BY <1>5, <1>10, <2>1 DEF PutManifest
<1>11. ASSUME NEW r \in Rehydrators, PutIndex(r) PROVE Known
  <2>1. CASE IndexAccepts(Family(r), Entry(r))
    <3> DEFINE state == [pass[r] EXCEPT !.pc = "publish"]
    <3>1. /\ state \in PassState /\ state.pc = "publish" /\ state.family = pass[r].family
          /\ state.at = pass[r].at /\ state.context = pass[r].context
      BY <1>0, MovedIsState DEF Writing
    <3>2. Becomes(r, state)
      BY <1>11, <2>1 DEF PutIndex, Moves
    <3> HIDE DEF state
    <3>3. pass'[r] = state
      BY <1>0, <3>2 DEF TypeOK, Becomes
    <3>4. /\ UNCHANGED <<packet, clock, revised, manifests>>
          /\ pass[r].pc = "index" /\ PassKnows(r)
      BY <1>11 DEF PutIndex, zeroVars, At, IInv
    <3>5. Family(r) \in Families
      BY <3>4, WriterIsTyped DEF Writing
    <3>6. index'[Family(r)] = Entry(r)
      BY <1>0, <1>11, <2>1, <3>5 DEF PutIndex, TypeOK
    <3>7. /\ BucketKey(r)' = BucketKey(r) /\ Manifest(r)' = Manifest(r)
          /\ Entry(r)' = Entry(r) /\ Family(r)' = Family(r)
      BY <3>1, <3>3 DEF BucketKey, Manifest, Entry, Family
    <3>8. PassKnows(r)'
      BY <3>1, <3>3, <3>4, <3>6, <3>7 DEF PassKnows, Writing
    <3>9. QED
      BY <3>1, <3>2, <3>8, MoverLeavesOthers
  <2>2. QED
    BY <1>5, <1>11, <2>1 DEF PutIndex
<1>12. ASSUME NEW r \in Rehydrators, Publish(r) PROVE Known
  BY <1>4, <1>12 DEF Publish
<1>13. ASSUME UNCHANGED pass PROVE Known
  BY <1>13, OthersKeepKnowing
<1>14. CASE Tick
  BY <1>13, <1>14 DEF Tick
<1>15. CASE WorkerStep
  BY <1>13, <1>15 DEF WorkerStep
<1>16. CASE UNCHANGED vars
  BY <1>13, <1>16 DEF vars
<1>17. QED
  BY <1>1, <1>2, <1>3, <1>6, <1>7, <1>8, <1>9, <1>10, <1>11, <1>12, <1>14, <1>15, <1>16
  DEF Next, Proceed

-----------------------------------------------------------------------------
(* Steps that write the manifests, the index or the announcements.         *)
LEMMA WhoWrites ==
  ASSUME [Next]_vars
  PROVE  /\ UNCHANGED manifests \/ \E r \in Rehydrators : PutManifest(r)
         /\ UNCHANGED index \/ \E r \in Rehydrators : PutIndex(r)
         /\ UNCHANGED announced \/ \E r \in Rehydrators : Publish(r)
BY DEF Next, Proceed, vars, zeroVars, bucketVars, Start, Finish, ReadPacket, CheckLatest,
       ReadMarket, PutPacket, PutManifest, PutIndex, Publish, Fail, Tick, WorkerStep

LEMMA AgreeStep ==
  ASSUME IInv, [Next]_vars, TypeOK', Grows
  PROVE  BucketAgrees'
<1>0. TypeOK
  BY DEF IInv
<1>1. ManifestsAgree'
  <2>1. CASE UNCHANGED manifests
    BY <2>1, ManifestsKeepAgreeing DEF ManifestsAgree
  <2>2. ASSUME NEW r \in Rehydrators, PutManifest(r) PROVE ManifestsAgree'
    <3>1. pass[r].pc = "manifest" /\ UNCHANGED <<revised, clock>>
      BY <2>2 DEF PutManifest, At
    <3>2. manifests' \subseteq manifests \cup {Manifest(r)}
      BY <2>2 DEF PutManifest
    <3>3. revised[BucketKey(r)] = pass[r].context /\ pass[r].at <= clock
      BY <3>1 DEF IInv, PassKnows, Writing
    <3>4. /\ Manifest(r).at <= clock'
          /\ revised'[[family |-> Manifest(r).family, hour |-> HourOf(Manifest(r).at)]]
               = Manifest(r).context
      BY <3>1, <3>3 DEF Manifest, BucketKey
    <3>5. QED
      BY <3>2, <3>4, ManifestsKeepAgreeing DEF ManifestsAgree
  <2>3. QED
    BY <2>1, <2>2, WhoWrites
<1>2. IndexAgrees'
  <2>1. CASE UNCHANGED index
    BY <2>1, IndexedKeepsAgreeing DEF IndexAgrees
  <2>2. ASSUME NEW r \in Rehydrators, PutIndex(r) PROVE IndexAgrees'
    <3>1. pass[r].pc = "index" /\ UNCHANGED <<packet, manifests>>
      BY <2>2 DEF PutIndex, At, zeroVars
    <3>2. \A f \in Families : f # Family(r) => index'[f] = index[f]
      BY <1>0, <2>2 DEF PutIndex, TypeOK
    <3>3. index'[Family(r)] \in {index[Family(r)], Entry(r)}
      BY <1>0, <2>2 DEF PutIndex, TypeOK
    <3>4. /\ packet[Family(r)] = Pending
          /\ RetryAfter[Family(r)] <= pass[r].at
          /\ pass[r].context = Unavailable => ExpireAt[Family(r)] <= pass[r].at
          /\ Manifest(r) \in manifests
      BY <3>1 DEF IInv, PassKnows, Writing
    <3>5. \A f \in Families : index[f] # None /\ index'[f] = index[f] =>
            /\ packet'[f] = Pending
            /\ RetryAfter[f] <= index'[f].at
            /\ index'[f].context = Unavailable => ExpireAt[f] <= index'[f].at
            /\ [family |-> f, at |-> index'[f].at, context |-> index'[f].context] \in manifests'
      BY IndexedKeepsAgreeing
    <3>6. ASSUME index'[Family(r)] = Entry(r)
          PROVE  /\ packet'[Family(r)] = Pending
                 /\ RetryAfter[Family(r)] <= index'[Family(r)].at
                 /\ index'[Family(r)].context = Unavailable
                      => ExpireAt[Family(r)] <= index'[Family(r)].at
                 /\ [family |-> Family(r), at |-> index'[Family(r)].at,
                     context |-> index'[Family(r)].context] \in manifests'
      BY <3>1, <3>4, <3>6 DEF Entry, Manifest
    <3>7. QED
      BY <3>2, <3>3, <3>5, <3>6 DEF IndexAgrees
  <2>3. QED
    BY <2>1, <2>2, WhoWrites
<1>3. AnnouncedAgree'
  <2>1. ASSUME NEW f \in Families, NEW p \in announced[f] PROVE index'[f] = p
    <3>1. index[f] = p /\ p \in Entries
      BY <1>0 DEF IInv, BucketAgrees, AnnouncedAgree, TypeOK
    <3>2. QED
      BY <3>1, NoneAssumption DEF Grows
  <2>2. CASE UNCHANGED announced
    BY <2>1, <2>2 DEF AnnouncedAgree
  <2>3. ASSUME NEW r \in Rehydrators, Publish(r) PROVE AnnouncedAgree'
    <3>1. UNCHANGED index /\ index[Family(r)] = Entry(r)
      BY <2>3 DEF Publish, At, bucketVars, IInv, PassKnows
    <3>2. \A f \in Families : announced'[f] \subseteq
            announced[f] \cup (IF f = Family(r) THEN {Entry(r)} ELSE {})
      BY <1>0, <2>3 DEF Publish, TypeOK
    <3>3. QED
      BY <2>1, <3>1, <3>2 DEF AnnouncedAgree
  <2>4. QED
    BY <2>2, <2>3, WhoWrites
<1>4. QED
  BY <1>1, <1>2, <1>3 DEF BucketAgrees

(* An indexed revision keeps its announcer until it is announced.          *)
LEMMA LostStep ==
  ASSUME IInv, [Next]_vars, TypeOK', Grows
  PROVE  LostOnlyByFailure'
<1>0. TypeOK /\ failures \in Nat
  BY LimitsAssumption DEF IInv, TypeOK
<1>1. SUFFICES ASSUME NEW f \in Families, index'[f] # None, announced'[f] = {},
                      ~(failures' > 0)
               PROVE  \E r \in Rehydrators : pass'[r].pc = "publish" /\ pass'[r].family = f
  BY DEF LostOnlyByFailure, At, Family
<1>2. failures' = failures /\ \A r \in Rehydrators : ~Fail(r)
  <2>1. \A r \in Rehydrators : ~Fail(r)
    BY <1>0, <1>1 DEF Fail
  <2>2. UNCHANGED failures \/ \E r \in Rehydrators : Fail(r)
    BY DEF Next, Proceed, vars, Start, Finish, ReadPacket, CheckLatest, ReadMarket, PutPacket,
           PutManifest, PutIndex, Publish, Tick, WorkerStep
  <2>3. QED
    BY <2>1, <2>2
<1>3. CASE index[f] # None
  <2>1. announced[f] = {}
    BY <1>1 DEF Grows
  <2>2. PICK r \in Rehydrators : pass[r].pc = "publish" /\ pass[r].family = f
    BY <1>0, <1>1, <1>2, <1>3, <2>1 DEF IInv, LostOnlyByFailure, At, Family
  <2>3. ~Publish(r)
    <3>1. ASSUME Publish(r) PROVE FALSE
      <4>1. announced'[f] = announced[f] \cup {Entry(r)}
        BY <1>0, <2>1, <2>2, <3>1 DEF Publish, Family, TypeOK
      <4>2. QED
        BY <1>1, <4>1
    <3>2. QED
      BY <3>1
  <2>4. pass'[r] = pass[r]
    <3>1. CASE UNCHANGED pass
      BY <3>1
    <3>2. ASSUME NEW q \in Rehydrators, NEW state, Becomes(q, state), pass[q].pc # "publish"
          PROVE  pass'[r] = pass[r]
      BY <1>0, <2>2, <3>2 DEF Becomes, TypeOK
    <3>3. ASSUME NEW q \in Rehydrators, Publish(q)
          PROVE  pass'[r] = pass[r]
      BY <1>0, <2>2, <2>3, <3>3 DEF Publish, NextPacket, Becomes, TypeOK
    <3>4. QED
      BY <1>2, <3>1, <3>2, <3>3
      DEF Next, Proceed, vars, Start, Finish, ReadPacket, CheckLatest, ReadMarket, PutPacket,
          PutManifest, PutIndex, Tick, WorkerStep, NextPacket, Moves, Revise, At
  <2>5. QED
    BY <2>2, <2>4
<1>4. CASE index[f] = None
  <2>1. PICK r \in Rehydrators : PutIndex(r)
    BY <1>1, <1>4, WhoWrites
  <2>2. f = Family(r) /\ Moves(r, "publish")
    BY <1>0, <1>1, <1>4, <2>1 DEF PutIndex, TypeOK
  <2>3. pass'[r] = [pass[r] EXCEPT !.pc = "publish"]
    BY <1>0, <2>2 DEF Moves, Becomes, TypeOK
  <2>4. pass'[r].pc = "publish" /\ pass'[r].family = f
    BY <1>0, <2>2, <2>3, MovedIsState DEF Writing, Family
  <2>5. QED
    BY <2>4
<1>5. QED
  BY <1>3, <1>4

-----------------------------------------------------------------------------
LEMMA InitEstablishes ==
  ASSUME Init
  PROVE  IInv
<1>1. TypeOK
  BY StoppedIsState, LimitsAssumption DEF Init, ZeroInit, TypeOK
<1>2. \A r \in Rehydrators : PassKnows(r)
  BY StoppedIsState, IdleKnowsNothing DEF Init
<1>3. BucketAgrees
  BY DEF Init, BucketAgrees, ManifestsAgree, IndexAgrees, AnnouncedAgree
<1>4. LostOnlyByFailure
  BY DEF Init, LostOnlyByFailure
<1>5. QED
  BY <1>1, <1>2, <1>3, <1>4 DEF IInv

LEMMA StepPreserves ==
  ASSUME IInv, [Next]_vars
  PROVE  IInv'
<1>1. TypeOK' /\ Grows
  BY TypeStep, GrowStep
<1>2. QED
  BY <1>1, KnowledgeStep, AgreeStep, LostStep DEF IInv

(* The inductive invariant holds in every reachable state: every pass      *)
(* knows what it needs to, and the bucket agrees with itself.              *)
THEOREM InvariantHolds == Spec => []IInv
BY InitEstablishes, StepPreserves, PTL DEF Spec

(* Every variable of the rehydration model keeps its type.                 *)
THEOREM TypeCorrect == Spec => []TypeOK
<1>1. IInv => TypeOK
  BY DEF IInv
<1>2. QED
  BY <1>1, InvariantHolds, PTL

(* However many passes overlap and fail (rehydration.rs, publish_revision),*)
(* consumers are told of one revision 1 of a packet, the indexed one, and  *)
(* its packet and manifest are in the bucket.                              *)
THEOREM OneRevisionAlways == Spec => []OneRevision
<1>1. IInv => OneRevision
  <2>1. SUFFICES ASSUME IInv, NEW f \in Families, NEW p \in announced[f]
                 PROVE  /\ index[f] = p
                        /\ revised[[family |-> f, hour |-> HourOf(p.at)]] = p.context
                        /\ [family |-> f, at |-> p.at, context |-> p.context] \in manifests
    BY DEF OneRevision
  <2>2. index[f] = p /\ p \in Entries
    BY <2>1 DEF IInv, TypeOK, BucketAgrees, AnnouncedAgree
  <2>3. [family |-> f, at |-> p.at, context |-> p.context] \in manifests
    BY <2>1, <2>2, NoneAssumption DEF IInv, BucketAgrees, IndexAgrees
  <2>4. revised[[family |-> f, hour |-> HourOf(p.at)]] = p.context
    BY <2>1, <2>3 DEF IInv, BucketAgrees, ManifestsAgree
  <2>5. QED
    BY <2>2, <2>3, <2>4
<1>2. QED
  BY <1>1, InvariantHolds, PTL

(* A revision is made of a pending packet whose retry time has come, and   *)
(* is terminal only when the packet has expired (try_rehydrate_key), no    *)
(* matter how the clock moves between the two readings of it.              *)
THEOREM RevisionIsDueAlways == Spec => []RevisionIsDue
<1>1. IInv => RevisionIsDue
  <2>1. SUFFICES ASSUME IInv, NEW f \in Families, index[f] # None
                 PROVE  /\ packet[f] = Pending
                        /\ index[f].at >= RetryAfter[f]
                        /\ index[f].context = Unavailable => index[f].at >= ExpireAt[f]
    BY DEF RevisionIsDue
  <2>2. index[f].at \in Nat /\ RetryAfter[f] \in Nat /\ ExpireAt[f] \in Nat
    BY <2>1, TimesAssumption DEF IInv, TypeOK, Entries
  <2>3. QED
    BY <2>1, <2>2 DEF IInv, BucketAgrees, IndexAgrees
<1>2. QED
  BY <1>1, InvariantHolds, PTL

(* Without a failure no indexed revision goes unannounced for good.        *)
THEOREM LostOnlyByFailureAlways == Spec => []LostOnlyByFailure
<1>1. IInv => LostOnlyByFailure
  BY DEF IInv
<1>2. QED
  BY <1>1, InvariantHolds, PTL

(* Passes that meet on a manifest have met on its packet before, whose put *)
(* only one context survives: the manifest's put never conflicts.          *)
THEOREM ManifestsNeverConflictAlways == Spec => []ManifestsNeverConflict
<1>1. IInv => ManifestsNeverConflict
  <2>1. SUFFICES ASSUME IInv, NEW r \in Rehydrators, pass[r].pc = "manifest",
                        NEW n \in manifests,
                        n.family = Manifest(r).family, n.at = Manifest(r).at
                 PROVE  n = Manifest(r)
    BY DEF ManifestsNeverConflict, ManifestAccepts, At
  <2>2. Manifest(r) \in Manifests /\ n \in Manifests
    BY <2>1, WriterIsTyped DEF Writing, IInv, TypeOK
  <2>3. revised[BucketKey(r)] = Manifest(r).context
    BY <2>1 DEF IInv, PassKnows, Writing, Manifest
  <2>4. revised[[family |-> n.family, hour |-> HourOf(n.at)]] = n.context
    BY <2>1 DEF IInv, BucketAgrees, ManifestsAgree
  <2>5. BucketKey(r) = [family |-> n.family, hour |-> HourOf(n.at)]
    BY <2>1 DEF BucketKey, Manifest
  <2>6. QED
    BY <2>1, <2>2, <2>3, <2>4, <2>5 DEF Manifests
<1>2. QED
  BY <1>1, InvariantHolds, PTL

(* No step replaces or removes a revised packet, a manifest, an index or   *)
(* an announcement.                                                        *)
THEOREM NothingIsTakenBack == Spec => [][Grows]_vars
<1>1. IInv /\ [Next]_vars => Grows
  BY GrowStep
<1>2. QED
  BY <1>1, InvariantHolds, PTL DEF Spec

-----------------------------------------------------------------------------
(***************************************************************************)
(* The refinement of MarketContext                                         *)
(***************************************************************************)

(* The variables of MarketContext.                                         *)
Final == [f \in Families |-> IF index[f] = None THEN None ELSE index[f].context]

ContextTold ==
  {<<f, 0>> : f \in told} \cup {<<f, 1>> : f \in {g \in Families : announced[g] # {}}}

(* Revision 0 is not indexed before it is stored.                          *)
IndexedIsStored == \A f \in indexed : f \in Families /\ packet[f] # None

ContextStep == [Context!Next]_(Context!vars)

LEMMA ContextMapping ==
  /\ Context!Init <=>
       /\ packet = [f \in Families |-> None]
       /\ Final = [f \in Families |-> None]
       /\ ContextTold = {}
       /\ clock = 0
  /\ \A f \in Families, c \in Available \cup {Pending} :
       /\ packet[f] = None
       /\ packet' = [packet EXCEPT ![f] = c]
       /\ UNCHANGED <<Final, ContextTold, clock>>
       => ContextStep
  /\ \A f \in Families, c \in Available \cup {Unavailable} :
       /\ packet[f] = Pending
       /\ Final[f] = None
       /\ RetryAfter[f] <= clock
       /\ c = Unavailable => ExpireAt[f] <= clock
       /\ Final' = [Final EXCEPT ![f] = c]
       /\ UNCHANGED <<packet, ContextTold, clock>>
       => ContextStep
  /\ \A f \in Families :
       /\ packet[f] # None
       /\ ContextTold' = ContextTold \cup {<<f, 0>>}
       /\ UNCHANGED <<packet, Final, clock>>
       => ContextStep
  /\ \A f \in Families :
       /\ Final[f] # None
       /\ ContextTold' = ContextTold \cup {<<f, 1>>}
       /\ UNCHANGED <<packet, Final, clock>>
       => ContextStep
  /\ clock' = clock + 1 /\ UNCHANGED <<packet, Final, ContextTold>> => ContextStep
  /\ UNCHANGED <<packet, Final, ContextTold, clock>> => ContextStep
BY DEF ContextStep, Context!Init, Context!Next, Context!vars, Context!Draft,
       Context!Settle, Context!TellFirst, Context!TellFinal, Context!Tick, Final, ContextTold

LEMMA QuietContext ==
  UNCHANGED <<zeroVars, index, announced, clock>> => ContextStep
BY ContextMapping DEF zeroVars, Final, ContextTold

(* The index is where the final context is settled.                        *)
LEMMA PutIndexContext ==
  ASSUME IInv, NEW r \in Rehydrators, PutIndex(r)
  PROVE  ContextStep
<1>. DEFINE f == Family(r)
<1>1. /\ pass[r].pc = "index"
      /\ UNCHANGED <<zeroVars, announced, clock>>
      /\ \/ UNCHANGED index
         \/ index[f] \in {None, Entry(r)} /\ index' = [index EXCEPT ![f] = Entry(r)]
  BY DEF PutIndex, At, IndexAccepts
<1>2. /\ f \in Families
      /\ packet[f] = Pending
      /\ pass[r].at \in Nat /\ pass[r].at <= clock /\ clock \in Nat
      /\ RetryAfter[f] \in Nat /\ RetryAfter[f] <= pass[r].at
      /\ ExpireAt[f] \in Nat
      /\ pass[r].context = Unavailable => ExpireAt[f] <= pass[r].at
      /\ pass[r].context \in Available \cup {Unavailable}
  <2>1. pass[r].pc \in Writing
    BY <1>1 DEF Writing
  <2>2. f \in Families /\ pass[r].at \in Nat /\ pass[r].at <= clock /\ pass[r].context \in Revisions
    BY <2>1, WriterIsTyped
  <2>3. /\ packet[f] = Pending
        /\ RetryAfter[f] <= pass[r].at
        /\ pass[r].context = Unavailable => ExpireAt[f] <= pass[r].at
    BY <2>1 DEF IInv, PassKnows
  <2>4. clock \in Nat
    BY LimitsAssumption DEF IInv, TypeOK
  <2>. QED
    BY <2>2, <2>3, <2>4, TimesAssumption DEF Revisions
<1>3. index \in [Families -> Entries \cup {None}] /\ Entry(r) # None
  BY <1>2, NoneAssumption DEF IInv, TypeOK, Entry, Entries, Revisions
<1>4. CASE UNCHANGED index
  BY <1>1, <1>4, QuietContext
<1>5. CASE index[f] = Entry(r) /\ index' = [index EXCEPT ![f] = Entry(r)]
  <2>1. index' = index
    BY <1>2, <1>3, <1>5
  <2>. QED
    BY <1>4, <2>1
<1>6. CASE index[f] = None /\ index' = [index EXCEPT ![f] = Entry(r)]
  <2>1. Final[f] = None
    BY <1>2, <1>6 DEF Final
  <2>2. index' \in [Families -> Entries \cup {None}] /\ index'[f] = Entry(r)
        /\ \A g \in Families \ {f} : index'[g] = index[g]
    BY <1>2, <1>3, <1>6 DEF Entry, Entries, Revisions
  <2>3. Entry(r).context = pass[r].context
    BY DEF Entry
  <2>4. Final' = [Final EXCEPT ![f] = pass[r].context]
    BY <1>2, <1>3, <2>2, <2>3 DEF Final
  <2>5. UNCHANGED <<packet, ContextTold, clock>>
    BY <1>1 DEF zeroVars, ContextTold
  <2>6. RetryAfter[f] <= clock /\ (pass[r].context = Unavailable => ExpireAt[f] <= clock)
    BY <1>2
  <2>. QED
    BY <1>2, <2>1, <2>4, <2>5, <2>6, ContextMapping
<1>. QED
  BY <1>1, <1>4, <1>5, <1>6

LEMMA PublishContext ==
  ASSUME IInv, NEW r \in Rehydrators, Publish(r)
  PROVE  ContextStep
<1>. DEFINE f == Family(r)
<1>1. /\ pass[r].pc = "publish"
      /\ UNCHANGED <<zeroVars, index, clock>>
      /\ UNCHANGED announced \/ announced' = [announced EXCEPT ![f] = @ \cup {Entry(r)}]
  BY DEF Publish, At, bucketVars
<1>2. f \in Families /\ index[f] = Entry(r) /\ pass[r].context \in Revisions
  BY <1>1 DEF IInv, PassKnows, Writing
<1>3. index[f] # None /\ index[f].context # None
  <2>1. index[f].context = pass[r].context
    BY <1>2 DEF Entry
  <2>2. Entry(r) # None
    BY <1>1, <1>2, WriterIsTyped, NoneAssumption DEF Entry, Entries, Writing
  <2>. QED
    BY <1>2, <2>1, <2>2, ContextsAssumption DEF Revisions
<1>4. CASE UNCHANGED announced
  BY <1>1, <1>4, QuietContext
<1>5. CASE announced' = [announced EXCEPT ![f] = @ \cup {Entry(r)}]
  <2>1. Final[f] # None
    BY <1>2, <1>3 DEF Final
  <2>2. /\ announced'[f] # {}
        /\ \A g \in Families \ {f} : announced'[g] = announced[g]
    BY <1>2, <1>5 DEF IInv, TypeOK
  <2>3. {g \in Families : announced'[g] # {}} = {g \in Families : announced[g] # {}} \cup {f}
    BY <1>2, <2>2
  <2>4. told' = told
    BY <1>1 DEF zeroVars
  <2>5. ContextTold' = ContextTold \cup {<<f, 1>>}
    BY <2>3, <2>4 DEF ContextTold
  <2>6. UNCHANGED <<packet, Final, clock>>
    BY <1>1 DEF zeroVars, Final
  <2>. QED
    BY <1>2, <2>1, <2>5, <2>6, ContextMapping
<1>. QED
  BY <1>1, <1>4, <1>5

LEMMA WorkerStepContext ==
  ASSUME IInv, IndexedIsStored, WorkerStep
  PROVE  ContextStep
<1>1. /\ ZeroNext
      /\ UNCHANGED <<index, announced, clock>>
  BY DEF WorkerStep, bucketVars
<1>2. ASSUME NEW f \in Families, NEW c \in Contexts, StoreZero(f, c)
      PROVE  ContextStep
  BY <1>1, <1>2, ContextMapping, ContextsAssumption DEF StoreZero, Final, ContextTold
<1>3. ASSUME NEW f \in Families, IndexZero(f)
      PROVE  ContextStep
  BY <1>1, <1>3, ContextMapping DEF IndexZero, Final, ContextTold
<1>4. ASSUME NEW f \in Families, TellZero(f)
      PROVE  ContextStep
  <2>1. packet[f] # None
    BY <1>4 DEF TellZero, IndexedIsStored
  <2>2. ContextTold' = ContextTold \cup {<<f, 0>>}
    BY <1>1, <1>4 DEF TellZero, ContextTold
  <2>3. UNCHANGED <<packet, Final, clock>>
    BY <1>1, <1>4 DEF TellZero, Final
  <2>. QED
    BY <2>1, <2>2, <2>3, ContextMapping
<1>. QED
  BY <1>1, <1>2, <1>3, <1>4 DEF ZeroNext

LEMMA NextContext ==
  ASSUME IInv, IndexedIsStored, [Next]_vars
  PROVE  ContextStep
<1>1. ASSUME NEW r \in Rehydrators,
             \/ Start(r) \/ Finish(r) \/ CheckLatest(r) \/ Fail(r)
             \/ \E k \in pass[r].todo : ReadPacket(r, k)
             \/ \E answer \in Contexts : ReadMarket(r, answer)
             \/ PutPacket(r) \/ PutManifest(r)
      PROVE  ContextStep
  BY <1>1, QuietContext
     DEF Start, Finish, CheckLatest, Fail, ReadPacket, ReadMarket, PutPacket, PutManifest,
         bucketVars
<1>2. CASE Tick
  BY <1>2, ContextMapping DEF Tick, zeroVars, bucketVars, Final, ContextTold
<1>3. CASE UNCHANGED vars
  BY <1>3, QuietContext DEF vars, bucketVars
<1>. QED
  BY <1>1, <1>2, <1>3, PutIndexContext, PublishContext, WorkerStepContext DEF Next, Proceed

LEMMA StoredStep ==
  ASSUME IInv, IndexedIsStored, [Next]_vars
  PROVE  IndexedIsStored'
<1>1. packet \in [Families -> Contexts \cup {None}]
  BY DEF IInv, TypeOK
<1>2. \A f \in Families : packet[f] # None => packet'[f] = packet[f]
  BY GrowStep DEF Grows
<1>3. CASE UNCHANGED indexed
  BY <1>2, <1>3 DEF IndexedIsStored
<1>4. ASSUME NEW f \in Families, IndexZero(f)
      PROVE  IndexedIsStored'
  BY <1>2, <1>4 DEF IndexZero, IndexedIsStored
<1>5. UNCHANGED indexed \/ \E f \in Families : IndexZero(f)
  BY DEF Next, Proceed, vars, zeroVars, Start, Finish, ReadPacket, CheckLatest, ReadMarket,
         PutPacket, PutManifest, PutIndex, Publish, Fail, Tick, WorkerStep, ZeroNext,
         StoreZero, TellZero
<1>. QED
  BY <1>3, <1>4, <1>5

(* Whatever passes overlap, fail, conflict or are dropped, consumers see   *)
(* the market context of a packet settle once: pending until its retry     *)
(* time, then one final context, told to nobody before it is indexed       *)
(* (publish_revision's order of writes, put_bytes_idempotent).             *)
THEOREM ContextIsSettledOnce == Spec => ImplementsMarketContext
<1>1. Init => Context!Init
  <2>1. Init => Final = [f \in Families |-> None] /\ ContextTold = {}
    BY DEF Init, ZeroInit, Final, ContextTold
  <2>. QED
    BY <2>1, ContextMapping DEF Init, ZeroInit
<1>2. Init => IndexedIsStored
  BY DEF Init, ZeroInit, IndexedIsStored
<1>3. IInv /\ IndexedIsStored /\ [Next]_vars => IndexedIsStored'
  BY StoredStep
<1>4. IInv /\ IndexedIsStored /\ [Next]_vars => [Context!Next]_(Context!vars)
  BY NextContext DEF ContextStep
<1>. QED
  BY InvariantHolds, <1>1, <1>2, <1>3, <1>4, PTL DEF Spec, Context!Spec, ImplementsMarketContext

-----------------------------------------------------------------------------
(***************************************************************************)
(* A pass ends                                                             *)
(***************************************************************************)

(* A total order, in which no key comes before itself.                     *)
LEMMA KeysAreOrdered ==
  ASSUME NEW a \in PacketKeys, NEW b \in PacketKeys
  PROVE  /\ a # b => Before(a, b) \/ Before(b, a)
         /\ ~Before(a, a)
         /\ \A c \in PacketKeys : Before(c, a) /\ Before(a, b) => Before(c, b)
<1>1. ASSUME NEW k \in PacketKeys
      PROVE  /\ k.hour \in Nat /\ k.family \in Nat /\ k.revision \in {0, 1}
             /\ k = [hour |-> k.hour, family |-> k.family, revision |-> k.revision]
  <2>1. k.hour \in Nat /\ k.family \in Nat /\ k.revision \in {0, 1}
    BY FamiliesAssumption DEF PacketKeys
  <2>2. k = [hour |-> k.hour, family |-> k.family, revision |-> k.revision]
    BY DEF PacketKeys
  <2>. QED
    BY <2>1, <2>2
<1>2. a # b => a.hour # b.hour \/ a.family # b.family \/ a.revision # b.revision
  BY <1>1
<1>3. /\ a.hour \in Nat /\ a.family \in Nat /\ a.revision \in Nat
      /\ b.hour \in Nat /\ b.family \in Nat /\ b.revision \in Nat
  BY <1>1
<1>4. a # b => Before(a, b) \/ Before(b, a)
  BY <1>2, <1>3 DEF Before
<1>5. ~Before(a, a)
  BY <1>3 DEF Before
<1>6. ASSUME NEW c \in PacketKeys, Before(c, a), Before(a, b)
      PROVE  Before(c, b)
  <2>1. c.hour \in Nat /\ c.family \in Nat /\ c.revision \in Nat
    BY <1>1
  <2>. QED
    BY <1>3, <1>6, <2>1 DEF Before
<1>. QED
  BY <1>4, <1>5, <1>6

(* One listing returns at most MaxPackets keys, of a finite bucket.        *)
LEMMA ListingIsBounded ==
  ASSUME TypeOK, IsFiniteSet(StoredKeys)
  PROVE  IsFiniteSet(Listing) /\ Cardinality(Listing) <= MaxPackets
<1>. DEFINE Ahead(k) == {l \in StoredKeys : Before(l, k)}
            place == [k \in Listing |-> Cardinality(Ahead(k))]
<1>1. StoredKeys \subseteq PacketKeys
  <2>1. \A f \in Families : ZeroKey(f) \in PacketKeys
    BY TimesAssumption DEF ZeroKey, PacketKeys
  <2>2. \A k \in RevisedKeys :
          [hour |-> k.hour, family |-> k.family, revision |-> 1] \in PacketKeys
    <3>1. 0..HourOf(MaxClock) \subseteq Nat
      OBVIOUS
    <3>. QED
      BY <3>1 DEF RevisedKeys, PacketKeys
  <2>. QED
    BY <2>1, <2>2 DEF StoredKeys
<1>2. \A k : IsFiniteSet(Ahead(k)) /\ Cardinality(Ahead(k)) \in Nat
  BY FS_Subset, FS_CardinalityType
<1>3. \A k \in Listing : k \in StoredKeys /\ Cardinality(Ahead(k)) < MaxPackets
  BY DEF Listing
<1>4. MaxPackets \in Nat /\ MaxPackets - 1 \in Int
  BY LimitsAssumption
<1>5. place \in [Listing -> 0..(MaxPackets - 1)]
  <2>1. \A k \in Listing : Cardinality(Ahead(k)) \in 0..(MaxPackets - 1)
    <3>. HIDE DEF Ahead
    <3>. QED
      BY <1>2, <1>3, <1>4
  <2>. QED
    BY <2>1
<1>6. ASSUME NEW a \in Listing, NEW b \in Listing, Before(a, b)
      PROVE  place[a] # place[b]
  <2>1. a \in PacketKeys /\ b \in PacketKeys /\ a \in StoredKeys
    BY <1>1, <1>3
  <2>2. Ahead(a) \cup {a} \subseteq Ahead(b) /\ a \notin Ahead(a)
    BY <1>1, <1>6, <2>1, KeysAreOrdered
  <2>. HIDE DEF Ahead
  <2>3. Cardinality(Ahead(a) \cup {a}) = Cardinality(Ahead(a)) + 1
    BY <1>2, <2>2, FS_AddElement
  <2>4. Cardinality(Ahead(a) \cup {a}) <= Cardinality(Ahead(b))
    BY <1>2, <2>2, FS_Subset
  <2>. QED
    BY <1>2, <2>3, <2>4
<1>7. \A a, b \in Listing : place[a] = place[b] => a = b
  <2>. HIDE DEF place
  <2>. QED
    BY <1>1, <1>3, <1>6, KeysAreOrdered
<1>8. place \in Injection(Listing, 0..(MaxPackets - 1))
  <2>. HIDE DEF place
  <2>. QED
    BY <1>5, <1>7 DEF Injection, IsInjective
<1>9. IsFiniteSet(0..(MaxPackets - 1)) /\ Cardinality(0..(MaxPackets - 1)) = MaxPackets
  BY <1>4, LimitsAssumption, FS_Interval
<1>. HIDE DEF place
<1>. QED
  BY <1>8, <1>9, FS_Injection

(* The bucket is finite: each step stores one packet at most.              *)
DraftedFamilies == {f \in Families : packet[f] # None}

RevisedStored == {k \in RevisedKeys : revised[k] # None}

BucketIsFinite == IsFiniteSet(DraftedFamilies) /\ IsFiniteSet(RevisedStored)

LEMMA StoredIsFinite ==
  ASSUME BucketIsFinite
  PROVE  IsFiniteSet(StoredKeys)
<1>. DEFINE zero == [f \in DraftedFamilies |-> ZeroKey(f)]
            one == [k \in RevisedStored |->
                      [hour |-> k.hour, family |-> k.family, revision |-> 1]]
            Zeros == {zero[f] : f \in DraftedFamilies}
            Ones == {one[k] : k \in RevisedStored}
<1>1. zero \in Surjection(DraftedFamilies, Zeros)
  BY DEF Surjection
<1>2. one \in Surjection(RevisedStored, Ones)
  BY DEF Surjection
<1>3. StoredKeys = Zeros \cup Ones
  BY DEF StoredKeys, DraftedFamilies, RevisedStored
<1>. HIDE DEF Zeros, Ones, zero, one
<1>4. IsFiniteSet(Zeros) /\ IsFiniteSet(Ones)
  BY <1>1, <1>2, FS_Surjection DEF BucketIsFinite
<1>. QED
  BY <1>3, <1>4, FS_Union

LEMMA BucketChanges ==
  ASSUME TypeOK, [Next]_vars
  PROVE  /\ packet' = packet \/ \E f, c : packet' = [packet EXCEPT ![f] = c]
         /\ revised' = revised \/ \E k, c : revised' = [revised EXCEPT ![k] = c]
BY DEF Next, Proceed, Start, Finish, ReadPacket, CheckLatest, ReadMarket, PutPacket,
       PutManifest, PutIndex, Publish, Fail, Tick, WorkerStep, ZeroNext, StoreZero,
       IndexZero, TellZero, vars, zeroVars, bucketVars

LEMMA BucketStaysFinite ==
  ASSUME TypeOK, BucketIsFinite, [Next]_vars
  PROVE  BucketIsFinite'
<1>1. IsFiniteSet(DraftedFamilies')
  <2>1. ASSUME NEW f, NEW c, packet' = [packet EXCEPT ![f] = c]
        PROVE  DraftedFamilies' \subseteq DraftedFamilies \cup {f}
    BY <2>1 DEF TypeOK, DraftedFamilies
  <2>2. \E f : DraftedFamilies' \subseteq DraftedFamilies \cup {f}
    BY <2>1, BucketChanges DEF DraftedFamilies
  <2>. QED
    BY <2>2, FS_AddElement, FS_Subset DEF BucketIsFinite
<1>2. IsFiniteSet(RevisedStored')
  <2>1. ASSUME NEW k, NEW c, revised' = [revised EXCEPT ![k] = c]
        PROVE  RevisedStored' \subseteq RevisedStored \cup {k}
    BY <2>1 DEF TypeOK, RevisedStored
  <2>2. \E k : RevisedStored' \subseteq RevisedStored \cup {k}
    BY <2>1, BucketChanges DEF RevisedStored
  <2>. QED
    BY <2>2, FS_AddElement, FS_Subset DEF BucketIsFinite
<1>. QED
  BY <1>1, <1>2 DEF BucketIsFinite

(* How many steps a pass in state s has at most until it is over: seven    *)
(* for each packet it has listed, and one to finish.                       *)
PhaseLeft(pc) ==
  CASE pc = "idle"     -> 0
    [] pc = "scan"     -> 1
    [] pc = "publish"  -> 2
    [] pc = "index"    -> 3
    [] pc = "manifest" -> 4
    [] pc = "packet"   -> 5
    [] pc = "current"  -> 6
    [] pc = "due"      -> 7

PassLeft(s) == PhaseLeft(s.pc) + 7 * Cardinality(s.todo)

InHand(s) == IF s.pc \in {"idle", "scan"} THEN 0 ELSE 1

PassIsBounded(r) ==
  /\ IsFiniteSet(pass[r].todo)
  /\ Cardinality(pass[r].todo) + InHand(pass[r]) <= MaxPackets

PassesEnd == BucketIsFinite /\ \A r \in Rehydrators : PassIsBounded(r)

StepsAreBounded == \A r \in Rehydrators : PassLeft(pass[r]) \in 0..(1 + 7 * MaxPackets)

(* A step of a pass, failed or not, brings it nearer to its end, and no    *)
(* step of anyone else touches it.                                         *)
PassAdvances ==
  \A r \in Rehydrators :
    /\ Proceed(r) \/ Fail(r) => PassLeft(pass'[r]) < PassLeft(pass[r])
    /\ pass'[r] # pass[r] => Start(r) \/ Proceed(r) \/ Fail(r)

Phases == {"idle", "scan", "publish", "index", "manifest", "packet", "current", "due"}

LEMMA PhasesLeft ==
  /\ \A pc \in Phases : PhaseLeft(pc) \in 0..7 /\ (PhaseLeft(pc) = 0 <=> pc = "idle")
  /\ PhaseLeft("scan") = 1 /\ PhaseLeft("due") = 7
BY DEF Phases, PhaseLeft

(* How a pass moves on.                                                    *)
MovesOn(s, t) ==
  \/ /\ t.todo = s.todo /\ s.pc # "scan"
     /\ t.pc \in Phases /\ PhaseLeft(t.pc) < PhaseLeft(s.pc)
  \/ t.todo = {} /\ t.pc = "idle" /\ s.pc # "idle"
  \/ s.pc = "scan" /\ t.pc \in {"scan", "due"} /\ \E k \in s.todo : t.todo = s.todo \ {k}

LEMMA StatesOfAPass ==
  /\ \A todo : Scanning(todo).pc = "scan" /\ Scanning(todo).todo = todo
  /\ Stopped.pc = "idle" /\ Stopped.todo = {}
  /\ \A todo, f : Holding("due", todo, f).pc = "due" /\ Holding("due", todo, f).todo = todo
BY DEF Scanning, Stopped, Holding

LEMMA BecomesState ==
  ASSUME TypeOK, NEW r \in Rehydrators, NEW s, Becomes(r, s)
  PROVE  /\ pass'[r] = s
         /\ \A q \in Rehydrators \ {r} : pass'[q] = pass[q]
BY DEF Becomes, TypeOK

LEMMA MovesState ==
  ASSUME TypeOK, NEW r \in Rehydrators, NEW pc, Moves(r, pc)
  PROVE  /\ pass'[r].pc = pc /\ pass'[r].todo = pass[r].todo
         /\ \A q \in Rehydrators \ {r} : pass'[q] = pass[q]
<1>. DEFINE s == [pass[r] EXCEPT !.pc = pc]
<1>1. s.pc = pc /\ s.todo = pass[r].todo
  BY DEF TypeOK, PassState
<1>2. Becomes(r, s)
  BY DEF Moves
<1>. HIDE DEF s
<1>. QED
  BY <1>1, <1>2, BecomesState

LEMMA ReviseState ==
  ASSUME TypeOK, NEW r \in Rehydrators, NEW c, Revise(r, c)
  PROVE  /\ pass'[r].pc = "packet" /\ pass'[r].todo = pass[r].todo
         /\ \A q \in Rehydrators \ {r} : pass'[q] = pass[q]
<1>. DEFINE s == [pass[r] EXCEPT !.pc = "packet", !.at = clock, !.context = c]
<1>1. s.pc = "packet" /\ s.todo = pass[r].todo
  BY DEF TypeOK, PassState
<1>2. Becomes(r, s)
  BY DEF Revise
<1>. HIDE DEF s
<1>. QED
  BY <1>1, <1>2, BecomesState

LEMMA PassMovesOn ==
  ASSUME TypeOK, NEW r \in Rehydrators, Proceed(r) \/ Fail(r)
  PROVE  /\ MovesOn(pass[r], pass'[r])
         /\ \A q \in Rehydrators \ {r} : pass'[q] = pass[q]
<1>1. CASE Finish(r) \/ Fail(r)
  BY <1>1, BecomesState, StatesOfAPass DEF Finish, Fail, At, MovesOn
<1>2. ASSUME NEW k \in pass[r].todo, ReadPacket(r, k)
      PROVE  /\ MovesOn(pass[r], pass'[r])
             /\ \A q \in Rehydrators \ {r} : pass'[q] = pass[q]
  <2>. DEFINE rest == pass[r].todo \ {k}
              s == IF IsDue(k) THEN Holding("due", rest, k.family) ELSE Scanning(rest)
  <2>1. pass[r].pc = "scan" /\ Becomes(r, s)
    BY <1>2 DEF ReadPacket, At
  <2>2. s.todo = rest /\ s.pc \in {"scan", "due"}
    <3>. HIDE DEF rest
    <3>. QED
      BY StatesOfAPass
  <2>. HIDE DEF s
  <2>. QED
    BY <2>1, <2>2, BecomesState DEF MovesOn
<1>3. CASE CheckLatest(r)
  BY <1>3, BecomesState, MovesState, StatesOfAPass
     DEF CheckLatest, At, NextPacket, MovesOn, PhaseLeft, Phases
<1>4. ASSUME NEW answer \in Contexts, ReadMarket(r, answer)
      PROVE  /\ MovesOn(pass[r], pass'[r])
             /\ \A q \in Rehydrators \ {r} : pass'[q] = pass[q]
  BY <1>4, BecomesState, ReviseState, StatesOfAPass
     DEF ReadMarket, At, NextPacket, MovesOn, PhaseLeft, Phases
<1>5. CASE PutPacket(r)
  BY <1>5, BecomesState, MovesState, StatesOfAPass DEF PutPacket, At, MovesOn, PhaseLeft, Phases
<1>6. CASE PutManifest(r)
  BY <1>6, BecomesState, MovesState, StatesOfAPass DEF PutManifest, At, MovesOn, PhaseLeft, Phases
<1>7. CASE PutIndex(r)
  BY <1>7, BecomesState, MovesState, StatesOfAPass DEF PutIndex, At, MovesOn, PhaseLeft, Phases
<1>8. CASE Publish(r)
  BY <1>8, BecomesState, StatesOfAPass DEF Publish, At, NextPacket, MovesOn, PhaseLeft, Phases
<1>. QED
  BY <1>1, <1>2, <1>3, <1>4, <1>5, <1>6, <1>7, <1>8 DEF Proceed

LEMMA MoverIsBounded ==
  ASSUME TypeOK, NEW r \in Rehydrators, PassIsBounded(r), MovesOn(pass[r], pass'[r])
  PROVE  PassIsBounded(r)' /\ PassLeft(pass'[r]) < PassLeft(pass[r])
<1>. DEFINE s == pass[r]
            t == pass'[r]
<1>1. /\ s.pc \in Phases
      /\ IsFiniteSet(s.todo) /\ Cardinality(s.todo) \in Nat
      /\ Cardinality(s.todo) + InHand(s) <= MaxPackets
      /\ MaxPackets \in Nat \ {0}
  BY FS_CardinalityType, LimitsAssumption DEF TypeOK, PassState, PassIsBounded, Phases
<1>2. /\ PhaseLeft(s.pc) \in 0..7 /\ (PhaseLeft(s.pc) = 0 <=> s.pc = "idle")
      /\ s.pc = "scan" => PhaseLeft(s.pc) = 1
  BY <1>1, PhasesLeft
<1>3. /\ InHand(s) \in {0, 1} /\ InHand(t) \in {0, 1}
      /\ InHand(s) = 0 <=> s.pc \in {"idle", "scan"}
  BY DEF InHand
<1>4. SUFFICES /\ IsFiniteSet(t.todo) /\ Cardinality(t.todo) + InHand(t) <= MaxPackets
               /\ PhaseLeft(t.pc) + 7 * Cardinality(t.todo)
                    < PhaseLeft(s.pc) + 7 * Cardinality(s.todo)
  BY DEF PassIsBounded, PassLeft
<1>5. CASE t.todo = s.todo /\ s.pc # "scan" /\ t.pc \in Phases
           /\ PhaseLeft(t.pc) < PhaseLeft(s.pc)
  <2>1. PhaseLeft(t.pc) \in 0..7
    BY <1>5, PhasesLeft
  <2>2. s.pc # "idle"
    BY <1>2, <1>5, <2>1
  <2>. HIDE DEF s, t
  <2>3. InHand(s) = 1 /\ Cardinality(t.todo) = Cardinality(s.todo)
    BY <1>3, <1>5, <2>2
  <2>. QED
    BY <1>1, <1>2, <1>3, <1>5, <2>1, <2>3
<1>6. CASE t.todo = {} /\ t.pc = "idle" /\ s.pc # "idle"
  <2>1. Cardinality(t.todo) = 0 /\ IsFiniteSet(t.todo)
    BY <1>6, FS_EmptySet
  <2>2. PhaseLeft(t.pc) = 0 /\ InHand(t) = 0
    BY <1>6 DEF PhaseLeft, InHand
  <2>3. PhaseLeft(s.pc) \in 1..7
    BY <1>2, <1>6
  <2>. HIDE DEF s, t, InHand, PhaseLeft
  <2>4. Cardinality(t.todo) + InHand(t) <= MaxPackets
    BY <1>1, <2>1, <2>2
  <2>5. 0 < PhaseLeft(s.pc) + 7 * Cardinality(s.todo)
    BY <1>1, <2>3
  <2>. QED
    BY <2>1, <2>2, <2>4, <2>5
<1>7. ASSUME NEW k \in s.todo, s.pc = "scan", t.pc \in {"scan", "due"}, t.todo = s.todo \ {k}
      PROVE  /\ IsFiniteSet(t.todo) /\ Cardinality(t.todo) + InHand(t) <= MaxPackets
             /\ PhaseLeft(t.pc) + 7 * Cardinality(t.todo)
                  < PhaseLeft(s.pc) + 7 * Cardinality(s.todo)
  <2>1. IsFiniteSet(t.todo) /\ Cardinality(t.todo) = Cardinality(s.todo) - 1
    <3>1. IsFiniteSet(s.todo) /\ t.todo = s.todo \ {k} /\ k \in s.todo
      BY <1>1, <1>7
    <3>. HIDE DEF s, t
    <3>2. /\ IsFiniteSet(s.todo \ {k})
          /\ Cardinality(s.todo \ {k}) = Cardinality(s.todo) - 1
      BY <3>1, FS_RemoveElement
    <3>. QED
      BY <3>1, <3>2
  <2>2. PhaseLeft(t.pc) \in 0..7
    BY <1>7, PhasesLeft
  <2>3. InHand(s) = 0 /\ PhaseLeft(s.pc) = 1
    BY <1>2, <1>3, <1>7
  <2>4. InHand(t) \in {0, 1}
    BY <1>3
  <2>. HIDE DEF s, t, InHand
  <2>5. Cardinality(t.todo) + InHand(t) <= MaxPackets
    BY <1>1, <2>1, <2>3, <2>4
  <2>6. PhaseLeft(t.pc) + 7 * Cardinality(t.todo) < 1 + 7 * Cardinality(s.todo)
    BY <1>1, <2>1, <2>2
  <2>. QED
    BY <2>1, <2>3, <2>5, <2>6
<1>. QED
  BY <1>5, <1>6, <1>7 DEF MovesOn

LEMMA PassChanges ==
  ASSUME TypeOK, [Next]_vars, NEW r \in Rehydrators, pass'[r] # pass[r]
  PROVE  Start(r) \/ Proceed(r) \/ Fail(r)
<1>1. ASSUME NEW q \in Rehydrators, Start(q) \/ Proceed(q) \/ Fail(q)
      PROVE  Start(r) \/ Proceed(r) \/ Fail(r)
  <2>1. \A p \in Rehydrators \ {q} : pass'[p] = pass[p]
    BY <1>1, PassMovesOn, BecomesState DEF Start
  <2>. QED
    BY <1>1, <2>1
<1>2. CASE Tick \/ WorkerStep \/ UNCHANGED vars
  BY <1>2 DEF Tick, WorkerStep, vars
<1>. QED
  BY <1>1, <1>2 DEF Next

LEMMA PassesEndStep ==
  ASSUME TypeOK, PassesEnd, [Next]_vars
  PROVE  PassesEnd' /\ PassAdvances
<1>1. BucketIsFinite'
  BY BucketStaysFinite DEF PassesEnd
<1>2. ASSUME NEW r \in Rehydrators, Start(r)
      PROVE  PassIsBounded(r)'
  <2>1. pass'[r].pc = "scan" /\ pass'[r].todo = Listing
    BY <1>2, BecomesState, StatesOfAPass DEF Start
  <2>2. IsFiniteSet(Listing) /\ Cardinality(Listing) <= MaxPackets
    BY StoredIsFinite, ListingIsBounded DEF PassesEnd
  <2>3. Cardinality(Listing) \in Nat
    BY <2>2, FS_CardinalityType
  <2>. QED
    BY <2>1, <2>2, <2>3, LimitsAssumption DEF PassIsBounded, InHand
<1>3. ASSUME NEW r \in Rehydrators, Proceed(r) \/ Fail(r)
      PROVE  PassIsBounded(r)' /\ PassLeft(pass'[r]) < PassLeft(pass[r])
  BY <1>3, PassMovesOn, MoverIsBounded DEF PassesEnd
<1>4. ASSUME NEW r \in Rehydrators, pass'[r] = pass[r]
      PROVE  PassIsBounded(r)'
  BY <1>4 DEF PassesEnd, PassIsBounded
<1>. QED
  BY <1>1, <1>2, <1>3, <1>4, PassChanges DEF PassesEnd, PassAdvances

LEMMA PassesEndAlways == Spec => []PassesEnd
<1>1. Init => PassesEnd
  <2>. SUFFICES ASSUME Init PROVE PassesEnd
    OBVIOUS
  <2>1. DraftedFamilies = {} /\ RevisedStored = {}
    BY DEF Init, ZeroInit, DraftedFamilies, RevisedStored
  <2>2. \A r \in Rehydrators : pass[r].todo = {} /\ pass[r].pc = "idle"
    BY StatesOfAPass DEF Init
  <2>. QED
    BY <2>1, <2>2, FS_EmptySet, LimitsAssumption
       DEF PassesEnd, BucketIsFinite, PassIsBounded, InHand
<1>2. TypeOK /\ PassesEnd /\ [Next]_vars => PassesEnd'
  BY PassesEndStep
<1>. QED
  BY <1>1, <1>2, TypeCorrect, PTL DEF Spec

(* A pass makes at most seven calls for each packet it has listed, of      *)
(* which there are max_packets, however many packets the bucket has and    *)
(* whatever other passes do to it meanwhile (run_once).                    *)
THEOREM PassesAreBounded == Spec => []StepsAreBounded
<1>1. TypeOK /\ PassesEnd => StepsAreBounded
  <2>. SUFFICES ASSUME TypeOK, PassesEnd, NEW r \in Rehydrators
                PROVE  PassLeft(pass[r]) \in 0..(1 + 7 * MaxPackets)
    BY DEF StepsAreBounded
  <2>1. pass[r].pc \in {"idle", "scan", "due", "current", "packet", "manifest", "index",
                        "publish"}
    BY DEF TypeOK, PassState
  <2>2. Cardinality(pass[r].todo) \in Nat
    BY FS_CardinalityType DEF PassesEnd, PassIsBounded
  <2>3. Cardinality(pass[r].todo) + InHand(pass[r]) <= MaxPackets
    BY DEF PassesEnd, PassIsBounded
  <2>. QED
    BY <2>1, <2>2, <2>3, LimitsAssumption DEF PassLeft, PhaseLeft, InHand
<1>. QED
  BY <1>1, TypeCorrect, PassesEndAlways, PTL

(* A pass never waits and never repeats itself: each of its steps, and     *)
(* nothing else but its end, uses up one of those it has left.             *)
THEOREM PassesAdvance == Spec => [][PassAdvances]_vars
<1>1. TypeOK /\ PassesEnd /\ [Next]_vars => PassAdvances
  BY PassesEndStep
<1>. QED
  BY <1>1, TypeCorrect, PassesEndAlways, PTL DEF Spec
=============================================================================
