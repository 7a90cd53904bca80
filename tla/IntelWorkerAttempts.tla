------------------------- MODULE IntelWorkerAttempts -------------------------
(***************************************************************************)
(* Three facts about attempts, for every value of the constants.           *)
(*                                                                         *)
(* An attempt ends by itself: each step a worker takes with its message    *)
(* brings it nearer to its end, whatever the others do, and there are at   *)
(* most 17 + ScanLimit of them.                                            *)
(*                                                                         *)
(* An attempt ends with an acknowledgement only for the success of its     *)
(* event or a fault of its own message or of a draft for its event.        *)
(*                                                                         *)
(* Retries go wrong only where attempts differ: if they all draft the same *)
(* and stories do not overlap, no write conflicts, and what the documents  *)
(* say of redeliveries is true.                                            *)
(***************************************************************************)
EXTENDS IntelWorkerRefinement, FiniteSetTheorems

-----------------------------------------------------------------------------
(***************************************************************************)
(* The steps of a worker                                                   *)
(***************************************************************************)

(* The draft in hand after the member e has been read.                     *)
DraftAfter(w, e) ==
  [worker[w].draft EXCEPT !.merged =
     IF MergesMember(e) THEN worker[w].draft.merged \cup {e} ELSE worker[w].draft.merged]

(* The worker with a new draft, before it reads its story.                 *)
Drafted(w, claim, calls, ctx) ==
  [Holding(worker[w].msg, "merge") EXCEPT
     !.draft = [claim |-> claim, calls |-> calls, ctx |-> ctx, merged |-> {}],
     !.unread = Listed(StoryOf[EventAt(w)][claim]) \ {EventAt(w)}]

(* The worker after it has read the member e.                              *)
MemberRead(w, e) ==
  [worker[w] EXCEPT !.unread = worker[w].unread \ {e}, !.draft = DraftAfter(w, e)]

(* Why a worker turns to the quarantine.                                   *)
RefusedFor(w, cause) ==
  \/ /\ cause.class = "invalid_pointer"
     /\ worker[w].pc = "fetched"
     /\ EventAt(w) = Unknown
  \/ /\ cause.class = "broken_record"
     /\ worker[w].pc = "unindexed"
     /\ worker[w].msg \in Broken
  \/ /\ cause.class = "forbidden_output"
     /\ worker[w].pc = "merge"
     /\ worker[w].draft.claim \in Forbidden
  \/ /\ cause.class = "conflict"
     /\ worker[w].pc = "write"
     /\ \E k \in ObjectKinds :
          /\ cause.key = Key(k, EventAt(w), worker[w].draft)
          /\ ~PutSucceeds(cause.key, Content(k, worker[w].draft))

(* Why a worker turns to the acknowledgement without having written.       *)
AckReason(w) ==
  \/ worker[w].pc = "fetched" /\ EventAt(w) \in CompleteEvents
  \/ /\ worker[w].pc = "quarantine"
     /\ \E q \in quarantine' : q.event = EventAt(w) /\ q.cause = worker[w].cause

(* What becomes of a worker that works on its message.                     *)
WorkMoves(w) ==
  \/ worker'[w] = Idle
  \/ worker[w].pc = "fetched" /\ worker'[w] = Holding(worker[w].msg, "unindexed")
  \/ /\ worker[w].pc \in {"fetched", "quarantine"}
     /\ worker'[w] = Holding(worker[w].msg, "ack")
     /\ AckReason(w)
  \/ \E cause \in Causes :
       worker'[w] = Refusing(worker[w].msg, cause) /\ RefusedFor(w, cause)
  \/ /\ worker[w].pc = "unindexed"
     /\ worker[w].msg \notin Broken \cup Undecodable
     /\ \E claim \in Claims, calls \in Calls, ctx \in Contexts :
          worker'[w] = Drafted(w, claim, calls, ctx)
  \/ /\ worker[w].pc = "merge"
     /\ \E e \in worker[w].unread : worker'[w] = MemberRead(w, e)
  \/ /\ worker[w].pc = "merge"
     /\ worker[w].unread = {}
     /\ worker[w].draft.claim \notin Forbidden
     /\ worker'[w] = [worker[w] EXCEPT !.pc = "write", !.step = 1]
  \/ /\ worker[w].pc = "write"
     /\ worker'[w] = Advanced(w)
     /\ worker[w].step = 12 =>
          EventAt(w) \in Events /\ store'[EventKey("success_index", EventAt(w))] # None

(* The last step of the write phase has stored the success index.          *)
LEMMA LastPutIsSuccess ==
  ASSUME Inv, NEW w \in Workers, NEW k \in ObjectKinds, PutObject(w, k), worker[w].step = 12
  PROVE  EventAt(w) \in Events /\ store'[EventKey("success_index", EventAt(w))] # None
<1>. DEFINE e == EventAt(w)
            d == worker[w].draft
<1>1. /\ worker[w].step = PutRank[k]
      /\ e \in Events /\ d \in Drafts
      /\ store'[Key(k, e, d)] = Content(k, d)
  BY PutObjectDoes
<1>2. k = "success_index"
  BY <1>1, Ranks
<1>3. Key(k, e, d) = EventKey(k, e)
  BY <1>2, EventKeyOfKey DEF StoryKinds
<1>. QED
  BY <1>1, <1>2, <1>3, ContentType

LEMMA WorkIsMove ==
  ASSUME Inv, NEW w \in Workers, Work(w)
  PROVE  /\ worker[w].pc # "idle"
         /\ \A v \in Workers \ {w} : worker'[v] = worker[v]
         /\ WorkMoves(w)
<1>1. worker \in [Workers -> WorkerState]
  BY DEF Inv, TypeOK
<1>2. \A r : Becomes(w, r) =>
        worker'[w] = r /\ \A v \in Workers \ {w} : worker'[v] = worker[v]
  BY <1>1 DEF Becomes
<1>3. CASE RejectPointer(w)
  <2>1. [class |-> "invalid_pointer", key |-> None] \in Causes
    BY DEF Causes
  <2>. QED
    BY <1>2, <1>3, <2>1 DEF RejectPointer, RefusedFor, WorkMoves
<1>4. CASE CheckIndex(w)
  <2>1. /\ worker[w].pc = "fetched"
        /\ \/ worker'[w] = Holding(worker[w].msg, "ack") /\ SettledByIndex(EventAt(w))
           \/ worker'[w] = Holding(worker[w].msg, "unindexed")
        /\ EventAt(w) \in Events
    BY <1>2, <1>4 DEF CheckIndex
  <2>. QED
    BY <1>2, <1>4, <2>1 DEF CheckIndex, WorkMoves, AckReason, SettledByIndex, CompleteEvents
<1>5. CASE RejectRecord(w)
  <2>1. [class |-> "broken_record", key |-> None] \in Causes
    BY DEF Causes
  <2>. QED
    BY <1>2, <1>5, <2>1 DEF RejectRecord, RefusedFor, WorkMoves
<1>6. CASE FailRecord(w)
  BY <1>2, <1>6 DEF FailRecord, WorkMoves
<1>7. CASE \E claim \in Claims, calls \in Calls, ctx \in Contexts :
             Structure(w, claim, calls, ctx)
  <2>1. PICK claim \in Claims, calls \in Calls, ctx \in Contexts :
          Structure(w, claim, calls, ctx)
    BY <1>7
  <2>2. /\ worker[w].pc = "unindexed" /\ worker[w].msg \notin Broken \cup Undecodable
        /\ Becomes(w, Drafted(w, claim, calls, ctx))
    BY <2>1 DEF Structure, Drafted
  <2>. QED
    BY <1>2, <2>2 DEF WorkMoves
<1>8. CASE \E e \in Events : ReadMember(w, e)
  <2>1. PICK e \in Events : ReadMember(w, e)
    BY <1>8
  <2>2. /\ worker[w].pc = "merge"
        /\ e \in worker[w].unread
        /\ Becomes(w, MemberRead(w, e))
    BY <2>1 DEF ReadMember, DraftAfter, MemberRead
  <2>. QED
    BY <1>2, <2>2 DEF WorkMoves
<1>9. CASE AcceptDraft(w)
  <2>1. [class |-> "forbidden_output", key |-> None] \in Causes
    BY DEF Causes
  <2>. QED
    BY <1>2, <1>9, <2>1 DEF AcceptDraft, RefusedFor, WorkMoves
<1>10. CASE \E k \in ObjectKinds : PutObject(w, k)
  BY <1>2, <1>10, LastPutIsSuccess DEF PutObject, AtPut, WorkMoves
<1>11. CASE \E k \in ObjectKinds : PutConflict(w, k)
  <2>1. PICK k \in ObjectKinds : PutConflict(w, k)
    BY <1>11
  <2>. DEFINE key == Key(k, EventAt(w), worker[w].draft)
              cause == [class |-> "conflict", key |-> key]
  <2>2. /\ worker[w].pc = "write" /\ Becomes(w, Refusing(worker[w].msg, cause))
        /\ ~PutSucceeds(key, Content(k, worker[w].draft))
    BY <2>1 DEF PutConflict, AtPut
  <2>3. key \in Keys
    BY <2>2, WritingWorker, KeyType
  <2>4. cause \in Causes
    <3>. HIDE DEF key
    <3>. QED
      BY <2>3 DEF Causes
  <2>5. RefusedFor(w, cause)
    <3>. HIDE DEF key
    <3>1. cause.class = "conflict" /\ cause.key = key
      OBVIOUS
    <3>. HIDE DEF cause
    <3>2. cause.key = Key(k, EventAt(w), worker[w].draft)
      BY <3>1 DEF key
    <3>. QED
      BY <2>2, <3>1, <3>2 DEF RefusedFor
  <2>. HIDE DEF cause
  <2>. QED
    BY <1>2, <2>2, <2>4, <2>5 DEF WorkMoves
<1>12. CASE \E k \in PublishKinds : Publish(w, k)
  <2>1. worker[w].pc = "write" /\ worker'[w] = Advanced(w) /\ worker[w].step \in 9..11
    BY <1>2, <1>12, Ranks DEF Publish, AtPublish
  <2>. QED
    BY <1>2, <1>12, <2>1 DEF Publish, WorkMoves
<1>13. CASE SkipFlag(w)
  <2>1. worker[w].pc = "write" /\ worker'[w] = Advanced(w) /\ worker[w].step \in {5, 10}
    BY <1>2, <1>13 DEF SkipFlag, AtPut, AtPublish, PutRank, PublishRank
  <2>. QED
    BY <1>2, <1>13, <2>1 DEF SkipFlag, WorkMoves
<1>14. CASE WriteQuarantine(w)
  <2>. DEFINE q == [hour |-> clock \div HourLength, event |-> EventAt(w),
                    cause |-> worker[w].cause, at |-> clock]
  <2>1. /\ worker[w].pc = "quarantine"
        /\ quarantine' = quarantine \cup {q}
        /\ Becomes(w, Holding(worker[w].msg, "ack"))
    BY <1>14 DEF WriteQuarantine
  <2>2. q.event = EventAt(w) /\ q.cause = worker[w].cause
    OBVIOUS
  <2>. HIDE DEF q
  <2>. QED
    BY <1>2, <2>1, <2>2 DEF WorkMoves, AckReason
<1>15. CASE QuarantineConflict(w)
  BY <1>2, <1>15 DEF QuarantineConflict, WorkMoves
<1>16. CASE Ack(w)
  BY <1>2, <1>16 DEF Ack, WorkMoves
<1>. QED
  BY <1>3, <1>4, <1>5, <1>6, <1>7, <1>8, <1>9, <1>10, <1>11, <1>12, <1>13, <1>14,
     <1>15, <1>16 DEF Work

(* A worker moves by itself.                                               *)
LEMMA WorkerChanges ==
  ASSUME Inv, [Next]_vars, NEW w \in Workers
  PROVE  worker'[w] = worker[w] \/ Receive(w) \/ Work(w) \/ Abandon(w)
<1>1. ASSUME NEW v \in Workers, v # w, Receive(v) \/ Work(v) \/ Abandon(v)
      PROVE  worker'[w] = worker[w]
  <2>1. worker \in [Workers -> WorkerState]
    BY DEF Inv, TypeOK
  <2>2. CASE Work(v)
    BY <1>1, <2>2, WorkIsMove
  <2>3. CASE Abandon(v)
    BY <1>1, <2>1, <2>3 DEF Abandon, Becomes
  <2>4. CASE Receive(v)
    BY <1>1, <2>1, <2>4 DEF Receive, Fetch, Becomes
  <2>. QED
    BY <1>1, <2>2, <2>3, <2>4
<1>2. CASE (\E m \in Messages : AckWaitExpires(m)) \/ Tick \/ UNCHANGED vars
  BY <1>2 DEF AckWaitExpires, Tick, vars
<1>. QED
  BY <1>1, <1>2 DEF Next

-----------------------------------------------------------------------------
(***************************************************************************)
(* An attempt ends                                                         *)
(***************************************************************************)

(* One key listing returns at most ScanLimit members.                      *)
LEMMA ListedIsBounded ==
  ASSUME NEW s
  PROVE  IsFiniteSet(Listed(s)) /\ Cardinality(Listed(s)) <= ScanLimit
<1>. DEFINE members == {e \in Events : Exists(MemberKey(s, e))}
            Below(e) == {g \in members : g < e}
            place == [e \in Listed(s) |-> Cardinality(Below(e))]
<1>0. members \subseteq Nat
  BY EventsAssumption
<1>1. ASSUME NEW e \in members
      PROVE  IsFiniteSet(Below(e)) /\ Cardinality(Below(e)) \in Nat
  <2>. HIDE DEF members
  <2>1. e \in Nat
    BY <1>0
  <2>2. \A h \in Below(e) : h \in Nat /\ h < e
    BY <1>0
  <2>3. Below(e) \in SUBSET Nat /\ \A h \in Below(e) : h <= e
    <3>. HIDE DEF Below
    <3>. QED
      BY <2>1, <2>2
  <2>. QED
    BY <2>1, <2>3, FS_BoundedSetOfNaturals, FS_CardinalityType
<1>2. \A e \in Listed(s) : e \in members /\ Cardinality(Below(e)) < ScanLimit
  BY DEF Listed
<1>3. ScanLimit \in Nat /\ ScanLimit - 1 \in Int
  BY LimitsAssumption
<1>4. place \in [Listed(s) -> 0..(ScanLimit - 1)]
  <2>1. \A e \in Listed(s) : Cardinality(Below(e)) \in 0..(ScanLimit - 1)
    <3>. HIDE DEF Below, members
    <3>. QED
      BY <1>1, <1>2, <1>3
  <2>. QED
    BY <2>1
<1>5. ASSUME NEW d \in Listed(s), NEW e \in Listed(s), d < e
      PROVE  place[d] # place[e]
  <2>. HIDE DEF members
  <2>1. d \in members /\ e \in members /\ d \in Nat /\ e \in Nat
    BY <1>0, <1>2
  <2>2. Below(d) \cup {d} \subseteq Below(e) /\ d \notin Below(d)
    <3>1. ASSUME NEW h \in Below(d) PROVE h \in Below(e) /\ h # d
      <4>1. h \in members /\ h \in Nat /\ h < d
        BY <1>0, <3>1
      <4>. QED
        BY <1>5, <2>1, <4>1
    <3>2. d \in Below(e)
      BY <1>5, <2>1
    <3>. HIDE DEF Below
    <3>. QED
      BY <3>1, <3>2
  <2>3. /\ IsFiniteSet(Below(d)) /\ Cardinality(Below(d)) \in Nat
        /\ IsFiniteSet(Below(e)) /\ Cardinality(Below(e)) \in Nat
    BY <1>1, <2>1
  <2>. HIDE DEF Below
  <2>4. Cardinality(Below(d) \cup {d}) = Cardinality(Below(d)) + 1
    BY <2>2, <2>3, FS_AddElement
  <2>5. Cardinality(Below(d) \cup {d}) <= Cardinality(Below(e))
    BY <2>2, <2>3, FS_Subset
  <2>. QED
    BY <2>3, <2>4, <2>5
<1>6. \A d, e \in Listed(s) : place[d] = place[e] => d = e
  <2>1. \A e \in Listed(s) : e \in Nat
    BY <1>2, EventsAssumption
  <2>. HIDE DEF place
  <2>. QED
    BY <1>5, <2>1
<1>7. place \in Injection(Listed(s), 0..(ScanLimit - 1))
  <2>. HIDE DEF place
  <2>. QED
    BY <1>4, <1>6 DEF Injection, IsInjective
<1>8. IsFiniteSet(0..(ScanLimit - 1)) /\ Cardinality(0..(ScanLimit - 1)) = ScanLimit
  BY <1>3, LimitsAssumption, FS_Interval
<1>. HIDE DEF place
<1>. QED
  BY <1>7, <1>8, FS_Injection

(* How many steps a worker in state s has at most until it is idle again:  *)
(* nine objects, three messages, the members it has listed, and the steps  *)
(* before and after.                                                       *)
StepsLeft(s) ==
  CASE s.pc = "idle"       -> 0
    [] s.pc = "ack"        -> 1
    [] s.pc = "quarantine" -> 2
    [] s.pc = "write"      -> 15 - s.step
    [] s.pc = "merge"      -> 15 + Cardinality(s.unread)
    [] s.pc = "unindexed"  -> 16 + ScanLimit
    [] s.pc = "fetched"    -> 17 + ScanLimit

ReadsAreBounded ==
  \A w \in Workers :
    worker[w].pc = "merge" =>
      IsFiniteSet(worker[w].unread) /\ Cardinality(worker[w].unread) <= ScanLimit

StepsAreBounded == \A w \in Workers : StepsLeft(worker[w]) \in 0..(17 + ScanLimit)

(* What every step brings a busy worker: nothing, or nearer to its end.    *)
(* A step of its own always does.                                          *)
Advances ==
  \A w \in Workers :
    /\ worker[w].pc # "idle" /\ worker'[w] # worker[w] =>
         StepsLeft(worker'[w]) < StepsLeft(worker[w])
    /\ Work(w) => StepsLeft(worker'[w]) < StepsLeft(worker[w])

LEMMA StepsLeftIs ==
  ASSUME NEW s
  PROVE  /\ s.pc = "idle" => StepsLeft(s) = 0
         /\ s.pc = "ack" => StepsLeft(s) = 1
         /\ s.pc = "quarantine" => StepsLeft(s) = 2
         /\ s.pc = "write" => StepsLeft(s) = 15 - s.step
         /\ s.pc = "merge" => StepsLeft(s) = 15 + Cardinality(s.unread)
         /\ s.pc = "unindexed" => StepsLeft(s) = 16 + ScanLimit
         /\ s.pc = "fetched" => StepsLeft(s) = 17 + ScanLimit
BY DEF StepsLeft

(* A busy worker has something left to do.                                 *)
LEMMA StepsLeftBounds ==
  ASSUME Inv, ReadsAreBounded, NEW w \in Workers
  PROVE  /\ StepsLeft(worker[w]) \in 0..(17 + ScanLimit)
         /\ worker[w].pc # "idle" => StepsLeft(worker[w]) > 0
         /\ worker[w].pc \in {"fetched", "unindexed", "merge", "write"} =>
              StepsLeft(worker[w]) > 2
         /\ worker[w].pc \in {"fetched", "quarantine"} => StepsLeft(worker[w]) > 1
<1>1. /\ worker[w].pc \in {"idle", "fetched", "unindexed", "merge", "write",
                            "quarantine", "ack"}
      /\ worker[w].pc = "write" => worker[w].step \in 1..12
  BY DEF Inv, TypeOK, WorkerState, WorkerOK
<1>2. worker[w].pc = "merge" => Cardinality(worker[w].unread) \in 0..ScanLimit
  BY FS_CardinalityType, LimitsAssumption DEF ReadsAreBounded
<1>3. ScanLimit \in Nat
  BY LimitsAssumption
<1>. QED
  BY <1>1, <1>2, <1>3, StepsLeftIs

(* What a worker that drafts has before it: the members it listed.         *)
LEMMA DraftedIsBounded ==
  ASSUME NEW w \in Workers, NEW claim, NEW calls, NEW ctx
  PROVE  LET r == Drafted(w, claim, calls, ctx) IN
         /\ r.pc = "merge"
         /\ IsFiniteSet(r.unread)
         /\ Cardinality(r.unread) \in 0..ScanLimit
<1>. DEFINE r == Drafted(w, claim, calls, ctx)
            listed == Listed(StoryOf[EventAt(w)][claim])
<1>1. r.pc = "merge" /\ r.unread = listed \ {EventAt(w)}
  BY DEF Drafted, Holding
<1>2. IsFiniteSet(listed) /\ Cardinality(listed) <= ScanLimit
  BY ListedIsBounded
<1>. HIDE DEF listed, r
<1>3. r.unread \in SUBSET listed
  BY <1>1
<1>4. /\ IsFiniteSet(r.unread)
      /\ Cardinality(r.unread) <= Cardinality(listed)
      /\ Cardinality(r.unread) \in Nat
      /\ Cardinality(listed) \in Nat
  BY <1>2, <1>3, FS_Subset, FS_CardinalityType
<1>. QED
  BY <1>1, <1>2, <1>4, LimitsAssumption DEF r

LEMMA MemberReadIs ==
  ASSUME NEW w \in Workers, worker[w] \in WorkerState, NEW e \in worker[w].unread,
         worker[w].pc = "merge", IsFiniteSet(worker[w].unread)
  PROVE  LET r == MemberRead(w, e) IN
         /\ r.pc = "merge"
         /\ IsFiniteSet(r.unread)
         /\ Cardinality(r.unread) = Cardinality(worker[w].unread) - 1
         /\ Cardinality(worker[w].unread) \in Nat
<1>. DEFINE r == MemberRead(w, e)
<1>1. r.pc = "merge" /\ r.unread = worker[w].unread \ {e}
  BY DEF MemberRead, WorkerState
<1>. HIDE DEF r
<1>. QED
  BY <1>1, FS_RemoveElement, FS_CardinalityType DEF r

LEMMA WorkAdvances ==
  ASSUME Inv, ReadsAreBounded, NEW w \in Workers, Work(w)
  PROVE  /\ StepsLeft(worker'[w]) < StepsLeft(worker[w])
         /\ worker'[w].pc = "merge" =>
              /\ IsFiniteSet(worker'[w].unread)
              /\ Cardinality(worker'[w].unread) <= ScanLimit
<1>. DEFINE old == worker[w]
            new == worker'[w]
            n == StepsLeft(old)
<1>1. /\ old \in WorkerState /\ old.pc # "idle" /\ old.msg \in Messages
      /\ WorkMoves(w)
  BY WorkIsMove, BusyWorker
<1>2. /\ n \in Nat /\ n > 0 /\ ScanLimit \in Nat
      /\ old.pc \in {"fetched", "unindexed", "merge", "write"} => n > 2
      /\ old.pc \in {"fetched", "quarantine"} => n > 1
  BY <1>1, StepsLeftBounds, LimitsAssumption
<1>3. CASE new = Idle
  BY <1>2, <1>3, IdleType, StepsLeftIs
<1>4. CASE old.pc = "fetched" /\ new = Holding(old.msg, "unindexed")
  <2>1. new.pc = "unindexed"
    BY <1>1, <1>4, HoldingType
  <2>. QED
    BY <1>2, <1>4, <2>1, StepsLeftIs
<1>5. CASE old.pc \in {"fetched", "quarantine"} /\ new = Holding(old.msg, "ack")
  <2>1. new.pc = "ack"
    BY <1>1, <1>5, HoldingType
  <2>. QED
    BY <1>2, <1>5, <2>1, StepsLeftIs
<1>6. CASE \E cause \in Causes : new = Refusing(old.msg, cause) /\ RefusedFor(w, cause)
  <2>1. new.pc = "quarantine" /\ old.pc \in {"fetched", "unindexed", "merge", "write"}
    BY <1>1, <1>6, RefusingType DEF RefusedFor
  <2>. QED
    BY <1>2, <1>6, <2>1, StepsLeftIs
<1>7. CASE /\ old.pc = "unindexed"
           /\ old.msg \notin Broken
           /\ \E claim \in Claims, calls \in Calls, ctx \in Contexts :
                new = Drafted(w, claim, calls, ctx)
  <2>1. /\ new.pc = "merge"
        /\ IsFiniteSet(new.unread)
        /\ Cardinality(new.unread) \in 0..ScanLimit
    BY <1>7, DraftedIsBounded
  <2>. QED
    BY <1>2, <1>7, <2>1, StepsLeftIs
<1>8. CASE old.pc = "merge" /\ \E e \in old.unread : new = MemberRead(w, e)
  <2>1. IsFiniteSet(old.unread) /\ Cardinality(old.unread) <= ScanLimit
    BY <1>8 DEF ReadsAreBounded
  <2>2. /\ new.pc = "merge"
        /\ IsFiniteSet(new.unread)
        /\ Cardinality(new.unread) = Cardinality(old.unread) - 1
        /\ Cardinality(old.unread) \in Nat
    BY <1>1, <1>8, <2>1, MemberReadIs
  <2>. QED
    BY <1>2, <1>8, <2>1, <2>2, StepsLeftIs
<1>9. CASE /\ old.pc = "merge"
           /\ old.unread = {}
           /\ new = [old EXCEPT !.pc = "write", !.step = 1]
  <2>1. new.pc = "write" /\ new.step = 1
    BY <1>1, <1>9 DEF WorkerState
  <2>2. n = 15
    BY <1>9, StepsLeftIs, FS_EmptySet
  <2>. QED
    BY <2>1, <2>2, StepsLeftIs
<1>10. CASE old.pc = "write" /\ new = Advanced(w)
  <2>1. old.step \in 1..12
    BY <1>10, WritingWorker
  <2>2. CASE old.step = 12
    <3>1. new.pc = "ack"
      BY <1>1, <1>10, <2>1, <2>2, AdvancedType, HoldingType
    <3>. QED
      BY <1>10, <2>2, <3>1, StepsLeftIs
  <2>3. CASE old.step # 12
    <3>1. new.pc = "write" /\ new.step = old.step + 1
      BY <1>1, <1>10, <2>1, <2>3, AdvancedType
    <3>. QED
      BY <1>10, <2>1, <3>1, StepsLeftIs
  <2>. QED
    BY <2>2, <2>3
<1>. HIDE DEF n
<1>. QED
  BY <1>1, <1>3, <1>4, <1>5, <1>6, <1>7, <1>8, <1>9, <1>10 DEF WorkMoves, n

(* Whatever happens, a worker other than an idle one comes nearer its end. *)
LEMMA NextAdvances ==
  ASSUME Inv, ReadsAreBounded, [Next]_vars
  PROVE  Advances /\ ReadsAreBounded'
<1>. SUFFICES ASSUME NEW w \in Workers
              PROVE  /\ worker[w].pc # "idle" /\ worker'[w] # worker[w] =>
                          StepsLeft(worker'[w]) < StepsLeft(worker[w])
                     /\ Work(w) => StepsLeft(worker'[w]) < StepsLeft(worker[w])
                     /\ worker'[w].pc = "merge" =>
                          /\ IsFiniteSet(worker'[w].unread)
                          /\ Cardinality(worker'[w].unread) <= ScanLimit
  BY DEF Advances, ReadsAreBounded
<1>1. CASE worker'[w] = worker[w]
  BY <1>1, WorkAdvances DEF ReadsAreBounded
<1>2. CASE Work(w)
  BY <1>2, WorkAdvances
<1>3. CASE Abandon(w)
  <2>1. worker'[w] = Idle /\ worker[w].pc # "idle"
    BY <1>3, IdleType, BecomesType DEF Abandon, Inv, TypeOK
  <2>2. StepsLeft(Idle) = 0 /\ StepsLeft(worker[w]) \in Nat /\ StepsLeft(worker[w]) > 0
    BY <2>1, IdleType, StepsLeftIs, StepsLeftBounds, LimitsAssumption
  <2>. QED
    BY <2>1, <2>2, <1>2, IdleType
<1>4. CASE Receive(w)
  <2>1. PICK m \in Messages : worker[w].pc = "idle" /\ Becomes(w, Holding(m, "fetched"))
    BY <1>4 DEF Receive, Fetch
  <2>2. worker'[w].pc = "fetched"
    BY <2>1, HoldingType, BecomesType DEF Inv, TypeOK
  <2>. QED
    BY <1>2, <2>1, <2>2
<1>. QED
  BY <1>1, <1>2, <1>3, <1>4, WorkerChanges

LEMMA ReadsInvariance == Spec => [](Inv /\ ReadsAreBounded)
<1>1. Init => ReadsAreBounded
  BY IdleType DEF Init, ReadsAreBounded
<1>2. Inv /\ ReadsAreBounded /\ [Next]_vars => ReadsAreBounded'
  BY NextAdvances
<1>. QED
  BY InitInv, NextInv, <1>1, <1>2, PTL DEF Spec

(* One delivery of a message takes a worker at most 17 + ScanLimit steps,  *)
(* at whatever point it looks: process_pointer has no loop but the one     *)
(* over the members the key listing returned.                              *)
THEOREM AttemptsAreBounded == Spec => []StepsAreBounded
<1>1. Inv /\ ReadsAreBounded => StepsAreBounded
  BY StepsLeftBounds DEF StepsAreBounded
<1>. QED
  BY ReadsInvariance, <1>1, PTL

(* Every step of a busy worker, a failed call or its death included, takes *)
(* it nearer to the end of its attempt, and what other workers, JetStream  *)
(* or the clock do never sets it back: no retry happens inside an attempt. *)
(* With AttemptsAreBounded this is the part of EveryMessageEnds that does  *)
(* not depend on fairness.                                                 *)
THEOREM AttemptsAdvance == Spec => [][Advances]_vars
<1>1. Inv /\ ReadsAreBounded /\ [Next]_vars => [Advances]_vars
  BY NextAdvances
<1>. QED
  BY ReadsInvariance, <1>1, PTL DEF Spec

-----------------------------------------------------------------------------
(***************************************************************************)
(* Acknowledgements have a reason                                          *)
(***************************************************************************)

Justified(m) ==
  \/ EventOf[m] \in CompleteEvents
  \/ \E q \in quarantine : q.event = EventOf[m] /\ AnswersFor(q.cause, m)

(* A worker carries the reason for the acknowledgement it is about to make *)
(* from the step that found it.                                            *)
AttemptIsJustified(w) ==
  /\ worker[w].pc \in {"merge", "write"} => worker[w].msg \notin Broken \cup Undecodable
  /\ worker[w].pc = "quarantine" => AnswersFor(worker[w].cause, worker[w].msg)
  /\ worker[w].pc = "ack" => Justified(worker[w].msg)

(* What a reason rests on is never taken back.                             *)
LEMMA AnswerStable ==
  ASSUME Grows, NEW cause, NEW m, AnswersFor(cause, m)
  PROVE  AnswersFor(cause, m)'
BY DEF Grows, AnswersFor, Exists

LEMMA JustifiedStable ==
  ASSUME Grows, NEW m, Justified(m)
  PROVE  Justified(m)'
<1>1. CASE EventOf[m] \in CompleteEvents
  BY <1>1, CompleteGrows DEF Justified
<1>2. CASE \E q \in quarantine : q.event = EventOf[m] /\ AnswersFor(q.cause, m)
  <2>1. PICK q \in quarantine : q.event = EventOf[m] /\ AnswersFor(q.cause, m)
    BY <1>2
  <2>2. q \in quarantine' /\ AnswersFor(q.cause, m)'
    BY <2>1, AnswerStable DEF Grows
  <2>. QED
    BY <2>1, <2>2 DEF Justified, AnswersFor, Exists
<1>. QED
  BY <1>1, <1>2 DEF Justified

(* A worker turns to the quarantine with a reason that answers for its     *)
(* message.                                                                *)
LEMMA RefusalAnswers ==
  ASSUME Inv, NEW w \in Workers, worker[w].pc # "idle", AttemptIsJustified(w),
         NEW cause \in Causes, RefusedFor(w, cause)
  PROVE  AnswersFor(cause, worker[w].msg)
<1>. DEFINE m == worker[w].msg
<1>1. CASE cause.class = "invalid_pointer" /\ EventAt(w) = Unknown
  BY <1>1 DEF AnswersFor, EventAt
<1>2. CASE cause.class = "broken_record" /\ m \in Broken
  BY <1>2 DEF AnswersFor
<1>3. CASE cause.class = "forbidden_output" /\ worker[w].pc = "merge"
  BY <1>3 DEF AnswersFor, AttemptIsJustified
<1>4. CASE /\ cause.class = "conflict" /\ worker[w].pc = "write"
           /\ \E k \in ObjectKinds :
                /\ cause.key = Key(k, EventAt(w), worker[w].draft)
                /\ ~PutSucceeds(cause.key, Content(k, worker[w].draft))
  <2>1. PICK k \in ObjectKinds :
          /\ cause.key = Key(k, EventAt(w), worker[w].draft)
          /\ ~PutSucceeds(cause.key, Content(k, worker[w].draft))
    BY <1>4
  <2>2. cause.key \in Keys
    BY <1>4, <2>1, WritingWorker, KeyType
  <2>3. cause.key.event = EventOf[m]
    BY <2>1 DEF Key, EventAt
  <2>4. Exists(cause.key)
    BY <2>1 DEF PutSucceeds, Exists
  <2>5. m \notin Broken \cup Undecodable
    BY <1>4 DEF AttemptIsJustified
  <2>. QED
    BY <1>4, <2>2, <2>3, <2>4, <2>5 DEF AnswersFor
<1>. QED
  BY <1>1, <1>2, <1>3, <1>4 DEF RefusedFor

LEMMA WorkIsJustified ==
  ASSUME Inv, NEW w \in Workers, AttemptIsJustified(w), Work(w), Grows
  PROVE  AttemptIsJustified(w)'
<1>. DEFINE old == worker[w]
            new == worker'[w]
<1>1. /\ old \in WorkerState /\ old.pc # "idle" /\ old.msg \in Messages
      /\ EventAt(w) = EventOf[old.msg]
      /\ WorkMoves(w)
  BY WorkIsMove, BusyWorker
<1>2. CASE new = Idle \/ new = Holding(old.msg, "unindexed")
  <2>1. new.pc \in {"idle", "unindexed"}
    BY <1>1, <1>2, IdleType, HoldingType
  <2>. QED
    BY <2>1 DEF AttemptIsJustified
<1>3. CASE new = Holding(old.msg, "ack") /\ AckReason(w)
  <2>1. PICK m \in Messages : m = old.msg
    BY <1>1
  <2>2. new.pc = "ack" /\ new.msg = m
    BY <1>3, <2>1, HoldingType
  <2>3. Justified(m)'
    <3>1. CASE EventAt(w) \in CompleteEvents
      BY <1>1, <2>1, <3>1, CompleteGrows DEF Justified
    <3>2. CASE /\ old.pc = "quarantine"
               /\ \E q \in quarantine' : q.event = EventAt(w) /\ q.cause = old.cause
      <4>1. PICK q \in quarantine' : q.event = EventOf[m] /\ q.cause = old.cause
        BY <1>1, <2>1, <3>2
      <4>2. AnswersFor(q.cause, m)
        BY <2>1, <3>2, <4>1 DEF AttemptIsJustified
      <4>3. AnswersFor(q.cause, m)'
        BY <4>2, AnswerStable
      <4>. QED
        BY <4>1, <4>3 DEF Justified
    <3>. QED
      BY <1>3, <3>1, <3>2 DEF AckReason
  <2>. QED
    BY <2>2, <2>3 DEF AttemptIsJustified
<1>4. CASE \E cause \in Causes : new = Refusing(old.msg, cause) /\ RefusedFor(w, cause)
  <2>1. PICK cause \in Causes : new = Refusing(old.msg, cause) /\ RefusedFor(w, cause)
    BY <1>4
  <2>2. new.pc = "quarantine" /\ new.msg = old.msg /\ new.cause = cause
    BY <1>1, <2>1, RefusingType
  <2>3. AnswersFor(cause, old.msg)
    BY <1>1, <2>1, RefusalAnswers
  <2>. QED
    BY <2>2, <2>3 DEF AttemptIsJustified, AnswersFor, Exists, Grows
<1>5. CASE /\ old.pc = "unindexed"
           /\ old.msg \notin Broken \cup Undecodable
           /\ \E claim \in Claims, calls \in Calls, ctx \in Contexts :
                new = Drafted(w, claim, calls, ctx)
  <2>1. new.pc = "merge" /\ new.msg = old.msg
    BY <1>5 DEF Drafted, Holding
  <2>. QED
    BY <1>5, <2>1 DEF AttemptIsJustified
<1>6. CASE old.pc = "merge" /\ \E e \in old.unread : new = MemberRead(w, e)
  <2>1. new.pc = "merge" /\ new.msg = old.msg
    BY <1>1, <1>6 DEF MemberRead, WorkerState
  <2>. QED
    BY <1>6, <2>1 DEF AttemptIsJustified
<1>7. CASE old.pc = "merge" /\ new = [old EXCEPT !.pc = "write", !.step = 1]
  <2>1. new.pc = "write" /\ new.msg = old.msg
    BY <1>1, <1>7 DEF WorkerState
  <2>. QED
    BY <1>7, <2>1 DEF AttemptIsJustified
<1>8. CASE old.pc = "write" /\ new = Advanced(w) /\ old.step # 12
  <2>1. new.pc = "write" /\ new.msg = old.msg
    BY <1>1, <1>8, WritingWorker, AdvancedType
  <2>. QED
    BY <1>8, <2>1 DEF AttemptIsJustified
<1>9. CASE /\ old.pc = "write" /\ new = Advanced(w) /\ old.step = 12
           /\ EventAt(w) \in Events /\ store'[EventKey("success_index", EventAt(w))] # None
  <2>1. new.pc = "ack" /\ new.msg = old.msg
    BY <1>1, <1>9, WritingWorker, AdvancedType, HoldingType
  <2>2. EventOf[old.msg] \in CompleteEvents'
    BY <1>1, <1>9 DEF CompleteEvents, Indexed, Exists, EventKey
  <2>. QED
    BY <2>1, <2>2 DEF AttemptIsJustified, Justified
<1>. QED
  BY <1>1, <1>2, <1>3, <1>4, <1>5, <1>6, <1>7, <1>8, <1>9 DEF WorkMoves

(* Whatever the others do, a worker keeps its reason.                      *)
LEMMA AttemptsAreJustified ==
  ASSUME Inv, [Next]_vars, NEW w \in Workers, AttemptIsJustified(w)
  PROVE  AttemptIsJustified(w)'
<1>1. Grows
  BY NextGrows
<1>2. CASE worker'[w] = worker[w]
  BY <1>1, <1>2, AnswerStable, JustifiedStable DEF AttemptIsJustified
<1>3. CASE Work(w)
  BY <1>1, <1>3, WorkIsJustified
<1>4. CASE Abandon(w) \/ Receive(w)
  <2>1. worker'[w].pc \in {"idle", "fetched"}
    <3>1. CASE Abandon(w)
      BY <3>1, IdleType, BecomesType DEF Abandon, Inv, TypeOK
    <3>2. CASE Receive(w)
      <4>1. PICK m \in Messages : Becomes(w, Holding(m, "fetched"))
        BY <3>2 DEF Receive, Fetch
      <4>. QED
        BY <4>1, HoldingType, BecomesType DEF Inv, TypeOK
    <3>. QED
      BY <1>4, <3>1, <3>2
  <2>. QED
    BY <2>1 DEF AttemptIsJustified
<1>. QED
  BY <1>2, <1>3, <1>4, WorkerChanges

(* Only a worker that is about to acknowledge m acknowledges it.           *)
LEMMA AckChanges ==
  ASSUME Inv, [Next]_vars, NEW m \in Messages, delivery'[m] = "acked", delivery[m] # "acked"
  PROVE  \E w \in Workers : worker[w].pc = "ack" /\ worker[w].msg = m
<1>. delivery \in [Messages -> DeliveryStates]
  BY DEF Inv, TypeOK
<1>1. ASSUME NEW w \in Workers, Receive(w) PROVE FALSE
  <2>1. delivery'[m] \in {"pending", delivery[m]}
    BY <1>1 DEF Receive, Fetch
  <2>. QED
    BY <2>1
<1>2. ASSUME NEW w \in Workers, Abandon(w) \/ (Work(w) /\ ~Ack(w)) PROVE FALSE
  <2>1. UNCHANGED delivery
    BY <1>2 DEF Abandon, Work, RejectPointer, CheckIndex, RejectRecord, FailRecord, Structure,
                ReadMember, AcceptDraft, PutObject, PutConflict, Publish, SkipFlag,
                WriteQuarantine, QuarantineConflict
  <2>. QED
    BY <2>1
<1>3. ASSUME NEW n \in Messages, AckWaitExpires(n) PROVE FALSE
  <2>1. delivery'[m] \in {"ready", "exhausted", delivery[m]}
    BY <1>3 DEF AckWaitExpires
  <2>. QED
    BY <2>1
<1>4. ~(Tick \/ UNCHANGED vars)
  BY DEF Tick, vars
<1>5. PICK w \in Workers : Ack(w)
  BY <1>1, <1>2, <1>3, <1>4 DEF Next
<1>6. worker[w].pc = "ack" /\ worker[w].msg = m
  BY <1>5 DEF Ack
<1>. QED
  BY <1>6

(* A message is acknowledged because its event has a success index, or     *)
(* because a quarantine record says what is permanently wrong with this    *)
(* very message or with a draft made for its event (process_nats_message): *)
(* for any number of workers, deliveries and messages of one event,        *)
(* neither a transient failure nor the broken record of another message    *)
(* makes a worker acknowledge.                                             *)
THEOREM AcksAreJustifiedAlways == Spec => []AcksAreJustified
<1>. DEFINE Reasons == (\A w \in Workers : AttemptIsJustified(w)) /\ AcksAreJustified
<1>1. Init => Reasons
  <2>1. Init => \A w \in Workers : AttemptIsJustified(w)
    BY IdleType DEF Init, AttemptIsJustified
  <2>2. Init => AcksAreJustified
    BY DEF Init, AcksAreJustified
  <2>. QED
    BY <2>1, <2>2
<1>2. Inv /\ Reasons /\ [Next]_vars => Reasons'
  <2>. SUFFICES ASSUME Inv, Reasons, [Next]_vars
                PROVE  Reasons'
    OBVIOUS
  <2>1. \A w \in Workers : AttemptIsJustified(w)'
    BY AttemptsAreJustified
  <2>2. ASSUME NEW m \in Messages, delivery'[m] = "acked"
        PROVE  Justified(m)'
    <3>1. Justified(m)
      <4>1. CASE delivery[m] = "acked"
        BY <4>1 DEF AcksAreJustified, Justified
      <4>2. CASE delivery[m] # "acked"
        BY <2>2, <4>2, AckChanges DEF AttemptIsJustified
      <4>. QED
        BY <4>1, <4>2
    <3>. QED
      BY <3>1, NextGrows, JustifiedStable
  <2>3. AcksAreJustified'
    BY <2>2 DEF AcksAreJustified, Justified
  <2>. QED
    BY <2>1, <2>3
<1>3. Reasons => AcksAreJustified
  OBVIOUS
<1>. HIDE DEF Reasons
<1>. QED
  BY Invariance, <1>1, <1>2, <1>3, PTL DEF Spec

-----------------------------------------------------------------------------
(***************************************************************************)
(* Attempts that agree on the claim                                        *)
(***************************************************************************)

(* Who drafts, says of the event what ClaimOf says.                        *)
ClaimsFollow(ClaimOf) ==
  \A w \in Workers :
    worker[w].pc = "unindexed" /\ worker'[w].pc = "merge" =>
      worker'[w].draft.claim = ClaimOf[EventAt(w)]

CarriesClaim(ClaimOf) ==
  \A w \in Workers :
    worker[w].pc \in {"merge", "write"} => worker[w].draft.claim = ClaimOf[EventAt(w)]

MembersFollow(ClaimOf) ==
  \A e \in Events, s \in Stories : Exists(MemberKey(s, e)) => s = StoryOf[e][ClaimOf[e]]

(* A worker that has a draft has had it since it drafted.                  *)
LEMMA DraftIsKept ==
  ASSUME Inv, [Next]_vars, NEW w \in Workers, worker'[w].pc \in {"merge", "write"}
  PROVE  /\ EventAt(w)' = EventAt(w)
         /\ \/ worker[w].pc = "unindexed" /\ worker'[w].pc = "merge"
            \/ /\ worker[w].pc \in {"merge", "write"}
               /\ worker'[w].draft.claim = worker[w].draft.claim
<1>1. CASE worker'[w] = worker[w]
  BY <1>1 DEF EventAt
<1>2. CASE Work(w)
  <2>. DEFINE old == worker[w]
              new == worker'[w]
  <2>1. /\ old \in WorkerState /\ old.pc # "idle" /\ old.msg \in Messages
        /\ WorkMoves(w)
    BY <1>2, WorkIsMove, BusyWorker
  <2>2. /\ new # Idle
        /\ new # Holding(old.msg, "unindexed")
        /\ new # Holding(old.msg, "ack")
        /\ \A cause \in Causes : new # Refusing(old.msg, cause)
    BY <2>1, IdleType, HoldingType, RefusingType
  <2>3. CASE /\ old.pc = "unindexed"
             /\ \E claim \in Claims, calls \in Calls, ctx \in Contexts :
                  new = Drafted(w, claim, calls, ctx)
    BY <2>3 DEF Drafted, Holding, EventAt
  <2>4. CASE old.pc = "merge" /\ \E e \in old.unread : new = MemberRead(w, e)
    <3>1. PICK e : new = MemberRead(w, e)
      BY <2>4
    <3>2. new.msg = old.msg /\ new.draft = DraftAfter(w, e)
      BY <2>1, <3>1 DEF MemberRead, WorkerState
    <3>3. old.draft \in Drafts
      BY <2>4 DEF Inv, WorkerOK
    <3>4. DraftAfter(w, e).claim = old.draft.claim
      BY <3>3 DEF DraftAfter, Drafts
    <3>. QED
      BY <2>4, <3>2, <3>4 DEF EventAt
  <2>5. CASE old.pc = "merge" /\ new = [old EXCEPT !.pc = "write", !.step = 1]
    <3>1. new.msg = old.msg /\ new.draft = old.draft
      BY <2>1, <2>5 DEF WorkerState
    <3>. QED
      BY <2>5, <3>1 DEF EventAt
  <2>6. CASE old.pc = "write" /\ new = Advanced(w)
    <3>1. old.step \in 1..12
      BY <2>6, WritingWorker
    <3>2. old.step # 12
      BY <2>1, <2>2, <2>6, <3>1, AdvancedType
    <3>3. new.msg = old.msg /\ new.draft = old.draft
      BY <2>1, <2>6, <3>1, <3>2, AdvancedType
    <3>. QED
      BY <2>6, <3>3 DEF EventAt
  <2>. QED
    BY <2>1, <2>2, <2>3, <2>4, <2>5, <2>6 DEF WorkMoves
<1>3. CASE Abandon(w) \/ Receive(w)
  <2>1. worker'[w].pc \in {"idle", "fetched"}
    <3>1. CASE Abandon(w)
      BY <3>1, IdleType, BecomesType DEF Abandon, Inv, TypeOK
    <3>2. CASE Receive(w)
      <4>1. PICK m \in Messages : Becomes(w, Holding(m, "fetched"))
        BY <3>2 DEF Receive, Fetch
      <4>. QED
        BY <4>1, HoldingType, BecomesType DEF Inv, TypeOK
    <3>. QED
      BY <1>3, <3>1, <3>2
  <2>. QED
    BY <2>1
<1>. QED
  BY <1>1, <1>2, <1>3, WorkerChanges

LEMMA ClaimIsCarried ==
  ASSUME Inv, NEW ClaimOf, CarriesClaim(ClaimOf), [Next]_vars, ClaimsFollow(ClaimOf)
  PROVE  CarriesClaim(ClaimOf)'
BY DraftIsKept DEF CarriesClaim, ClaimsFollow

LEMMA MembersStayFiled ==
  ASSUME Inv, NEW ClaimOf, CarriesClaim(ClaimOf), MembersFollow(ClaimOf), [Next]_vars
  PROVE  MembersFollow(ClaimOf)'
<1>. SUFFICES ASSUME NEW e \in Events, NEW s \in Stories, store'[MemberKey(s, e)] # None
              PROVE  s = StoryOf[e][ClaimOf[e]]
  BY DEF MembersFollow, Exists, MemberKey
<1>1. CASE store'[MemberKey(s, e)] = store[MemberKey(s, e)]
  BY <1>1 DEF MembersFollow, Exists
<1>2. CASE store'[MemberKey(s, e)] # store[MemberKey(s, e)]
  <2>1. PICK w \in Workers, k \in ObjectKinds : PutObject(w, k)
    BY <1>2, StoreChanges
  <2>2. MemberKey(s, e) \in Keys
    BY DEF MemberKey, Keys, ObjectKinds
  <2>3. Key(k, EventAt(w), worker[w].draft) = MemberKey(s, e) /\ worker[w].pc = "write"
    BY <1>2, <2>1, <2>2, PutObjectDoes
  <2>4. /\ EventAt(w) = e
        /\ k = "story_member"
        /\ StoryOf[e][worker[w].draft.claim] = s
    BY <2>3 DEF Key, MemberKey, StoryKinds
  <2>. QED
    BY <2>3, <2>4 DEF CarriesClaim
<1>. QED
  BY <1>1, <1>2

(* If all attempts at an event make the same claim of it, whatever market  *)
(* context, model calls and story members they see, the event has one      *)
(* story member: the second one that redeliveries leave behind (see        *)
(* OneMemberPerEvent) is due to claims that differ and to nothing else.    *)
THEOREM EqualClaimsShareMember ==
  ASSUME NEW ClaimOf
  PROVE  Spec /\ [][ClaimsFollow(ClaimOf)]_vars => []OneMemberPerEvent
<1>. DEFINE Filed == CarriesClaim(ClaimOf) /\ MembersFollow(ClaimOf)
<1>1. Init => Filed
  BY IdleType DEF Init, CarriesClaim, MembersFollow, Exists, MemberKey, Keys, ObjectKinds
<1>2. Inv /\ Filed /\ [Next]_vars /\ [ClaimsFollow(ClaimOf)]_vars => Filed'
  <2>1. CASE ClaimsFollow(ClaimOf)
    BY <2>1, ClaimIsCarried, MembersStayFiled
  <2>2. CASE UNCHANGED vars
    BY <2>2 DEF vars, CarriesClaim, MembersFollow, EventAt, Exists
  <2>. QED
    BY <2>1, <2>2
<1>3. Filed => OneMemberPerEvent
  BY DEF MembersFollow, OneMemberPerEvent
<1>. HIDE DEF Filed
<1>. QED
  BY Invariance, <1>1, <1>2, <1>3, PTL DEF Spec

-----------------------------------------------------------------------------
(***************************************************************************)
(* Attempts that agree on the draft                                        *)
(***************************************************************************)

(* Who drafts, drafts for the event what Of says.                          *)
DraftsFollow(Of) ==
  \A w \in Workers :
    worker[w].pc = "unindexed" /\ worker'[w].pc = "merge" =>
      worker'[w].draft = Of[EventAt(w)]

(* No two events share a story, so that there is nothing to merge, and     *)
(* messages of one event point to the same record.                         *)
EventsAreApart(Of) ==
  /\ \A e \in Events : Of[e] \in Drafts /\ Of[e].merged = {}
  /\ \A e, f \in Events : StoryOf[e][Of[e].claim] = StoryOf[f][Of[f].claim] => e = f
  /\ \A m, n \in Messages : EventOf[m] = EventOf[n] => (m \in Broken <=> n \in Broken)

(* Every attempt at e refuses it.                                          *)
Refusable(Of, e) ==
  \/ e = Unknown
  \/ e \in Events /\ Of[e].claim \in Forbidden
  \/ \E m \in Broken : EventOf[m] = e

AttemptFollows(Of, w) ==
  /\ worker[w].pc \in {"merge", "write"} =>
       worker[w].draft = Of[EventAt(w)] /\ worker[w].msg \notin Broken
  /\ worker[w].pc = "merge" => worker[w].unread = {}
  /\ worker[w].pc = "write" => ~Refusable(Of, EventAt(w))
  /\ worker[w].pc = "quarantine" =>
       Refusable(Of, EventAt(w)) /\ worker[w].cause.class # "conflict"

BucketFollows(Of) ==
  \A key \in Keys :
    Exists(key) =>
      /\ ~Refusable(Of, key.event)
      /\ key = Key(key.kind, key.event, Of[key.event])
      /\ store[key] = Content(key.kind, Of[key.event])

RecordsFollow(Of) == \A q \in quarantine : Refusable(Of, q.event)

Agreement(Of) ==
  (\A w \in Workers : AttemptFollows(Of, w)) /\ BucketFollows(Of) /\ RecordsFollow(Of)

(* No write is refused for other bytes.                                    *)
LEMMA AgreedPutSucceeds ==
  ASSUME Inv, NEW Of, EventsAreApart(Of), Agreement(Of), NEW w \in Workers,
         worker[w].pc = "write", NEW k \in ObjectKinds
  PROVE  PutSucceeds(Key(k, EventAt(w), worker[w].draft), Content(k, worker[w].draft))
<1>. DEFINE e == EventAt(w)
            key == Key(k, e, Of[e])
<1>1. worker[w].draft = Of[e] /\ e \in Events
  BY WritingWorker DEF Agreement, AttemptFollows
<1>2. key \in Keys /\ key.kind = k /\ key.event = e
  BY <1>1, KeyType DEF EventsAreApart, Key
<1>3. store[key] # None => store[key] = Content(k, Of[e])
  <2>. HIDE DEF key
  <2>. QED
    BY <1>2 DEF Agreement, BucketFollows, Exists
<1>. QED
  BY <1>1, <1>3 DEF PutSucceeds

(* There is nothing to merge.                                              *)
LEMMA NothingListed ==
  ASSUME NEW Of, EventsAreApart(Of), Agreement(Of), NEW e \in Events
  PROVE  Listed(StoryOf[e][Of[e].claim]) \ {e} = {}
<1>. DEFINE s == StoryOf[e][Of[e].claim]
<1>1. ASSUME NEW f \in Events, Exists(MemberKey(s, f)) PROVE f = e
  <2>1. s \in Stories
    BY StoriesAssumption DEF EventsAreApart, Drafts
  <2>2. MemberKey(s, f) \in Keys
    BY <2>1 DEF MemberKey, Keys, ObjectKinds
  <2>3. MemberKey(s, f) = Key("story_member", f, Of[f])
    BY <1>1, <2>2 DEF Agreement, BucketFollows, MemberKey
  <2>4. s = StoryOf[f][Of[f].claim]
    BY <2>3 DEF MemberKey, Key, StoryKinds
  <2>. QED
    BY <2>4 DEF EventsAreApart
<1>2. \A f \in Listed(s) : f \in Events /\ Exists(MemberKey(s, f))
  BY DEF Listed
<1>. HIDE DEF s
<1>3. Listed(s) \ {e} = {}
  BY <1>1, <1>2
<1>. QED
  BY <1>3 DEF s

LEMMA WorkFollows ==
  ASSUME Inv, NEW Of, EventsAreApart(Of), Agreement(Of), NEW w \in Workers, Work(w),
         DraftsFollow(Of)
  PROVE  AttemptFollows(Of, w)'
<1>. DEFINE old == worker[w]
            new == worker'[w]
<1>1. /\ old \in WorkerState /\ old.pc # "idle" /\ old.msg \in Messages
      /\ WorkMoves(w)
      /\ AttemptFollows(Of, w)
  BY WorkIsMove, BusyWorker DEF Agreement
<1>2. CASE new.pc \in {"idle", "fetched", "unindexed", "ack"}
  BY <1>2 DEF AttemptFollows
<1>3. CASE \E cause \in Causes : new = Refusing(old.msg, cause) /\ RefusedFor(w, cause)
  <2>1. PICK cause \in Causes : new = Refusing(old.msg, cause) /\ RefusedFor(w, cause)
    BY <1>3
  <2>2. /\ new.pc = "quarantine" /\ new.msg = old.msg /\ new.cause = cause
        /\ EventAt(w)' = EventAt(w)
    BY <1>1, <2>1, RefusingType DEF EventAt
  <2>3. Refusable(Of, EventAt(w)) /\ cause.class # "conflict"
    <3>1. CASE old.pc = "fetched" /\ EventAt(w) = Unknown /\ cause.class = "invalid_pointer"
      BY <3>1 DEF Refusable
    <3>2. CASE old.pc = "unindexed" /\ old.msg \in Broken /\ cause.class = "broken_record"
      BY <3>2 DEF Refusable, EventAt
    <3>3. CASE /\ old.pc = "merge" /\ old.draft.claim \in Forbidden
               /\ cause.class = "forbidden_output"
      BY <1>1, <3>3 DEF Refusable, AttemptFollows, Inv, WorkerOK
    <3>4. CASE /\ old.pc = "write"
               /\ \E k \in ObjectKinds :
                    ~PutSucceeds(Key(k, EventAt(w), old.draft), Content(k, old.draft))
      BY <3>4, AgreedPutSucceeds
    <3>. QED
      BY <2>1, <3>1, <3>2, <3>3, <3>4 DEF RefusedFor
  <2>. QED
    BY <2>2, <2>3 DEF AttemptFollows, Refusable
<1>4. CASE /\ old.pc = "unindexed"
           /\ old.msg \notin Broken
           /\ \E claim \in Claims, calls \in Calls, ctx \in Contexts :
                new = Drafted(w, claim, calls, ctx)
  <2>1. PICK claim \in Claims, calls \in Calls, ctx \in Contexts :
          new = Drafted(w, claim, calls, ctx)
    BY <1>4
  <2>2. /\ new.pc = "merge" /\ new.msg = old.msg
        /\ new.draft.claim = claim
        /\ new.unread = Listed(StoryOf[EventAt(w)][claim]) \ {EventAt(w)}
    BY <2>1 DEF Drafted, Holding
  <2>3. EventAt(w) \in Events /\ EventAt(w)' = EventAt(w)
    BY <1>4, <2>2 DEF Inv, WorkerOK, EventAt
  <2>4. new.draft = Of[EventAt(w)]
    BY <1>4, <2>2 DEF DraftsFollow
  <2>5. new.unread = {}
    BY <2>2, <2>3, <2>4, NothingListed
  <2>. QED
    BY <1>4, <2>2, <2>3, <2>4, <2>5 DEF AttemptFollows
<1>5. CASE old.pc = "merge" /\ \E e \in old.unread : new = MemberRead(w, e)
  BY <1>1, <1>5 DEF AttemptFollows
<1>6. CASE /\ old.pc = "merge"
           /\ old.draft.claim \notin Forbidden
           /\ new = [old EXCEPT !.pc = "write", !.step = 1]
  <2>1. new.pc = "write" /\ new.msg = old.msg /\ new.draft = old.draft
    BY <1>1, <1>6 DEF WorkerState
  <2>2. EventAt(w) \in Events /\ EventAt(w)' = EventAt(w)
    BY <1>6, <2>1 DEF Inv, WorkerOK, EventAt
  <2>3. ~Refusable(Of, EventAt(w))
    <3>1. old.msg \notin Broken /\ old.draft = Of[EventAt(w)]
      BY <1>1, <1>6 DEF AttemptFollows
    <3>2. \A m \in Broken : EventOf[m] # EventAt(w)
      BY <1>1, <3>1, MessagesAssumption DEF EventsAreApart, EventAt
    <3>. QED
      BY <1>6, <2>2, <3>1, <3>2, EventsAssumption DEF Refusable
  <2>. QED
    BY <1>1, <1>6, <2>1, <2>2, <2>3 DEF AttemptFollows, Refusable
<1>7. CASE old.pc = "write" /\ new = Advanced(w) /\ new.pc # "ack"
  <2>1. new.pc = "write" /\ new.msg = old.msg /\ new.draft = old.draft
    BY <1>1, <1>7, WritingWorker, AdvancedType, HoldingType
  <2>. QED
    BY <1>1, <1>7, <2>1 DEF AttemptFollows, EventAt, Refusable
<1>8. CASE \/ new = Idle \/ new = Holding(old.msg, "unindexed") \/ new = Holding(old.msg, "ack")
  BY <1>1, <1>2, <1>8, IdleType, HoldingType
<1>. QED
  BY <1>1, <1>2, <1>3, <1>4, <1>5, <1>6, <1>7, <1>8 DEF WorkMoves

LEMMA AttemptsFollow ==
  ASSUME Inv, NEW Of, EventsAreApart(Of), Agreement(Of), [Next]_vars, DraftsFollow(Of)
  PROVE  \A w \in Workers : AttemptFollows(Of, w)'
<1>. SUFFICES ASSUME NEW w \in Workers
              PROVE  AttemptFollows(Of, w)'
  OBVIOUS
<1>1. CASE worker'[w] = worker[w]
  BY <1>1 DEF Agreement, AttemptFollows, EventAt, Refusable
<1>2. CASE Work(w)
  BY <1>2, WorkFollows
<1>3. CASE Abandon(w) \/ Receive(w)
  <2>1. worker'[w].pc \in {"idle", "fetched"}
    <3>1. CASE Abandon(w)
      BY <3>1, IdleType, BecomesType DEF Abandon, Inv, TypeOK
    <3>2. CASE Receive(w)
      <4>1. PICK m \in Messages : Becomes(w, Holding(m, "fetched"))
        BY <3>2 DEF Receive, Fetch
      <4>. QED
        BY <4>1, HoldingType, BecomesType DEF Inv, TypeOK
    <3>. QED
      BY <1>3, <3>1, <3>2
  <2>. QED
    BY <2>1 DEF AttemptFollows
<1>. QED
  BY <1>1, <1>2, <1>3, WorkerChanges

LEMMA BucketStaysAgreed ==
  ASSUME Inv, NEW Of, EventsAreApart(Of), Agreement(Of), [Next]_vars
  PROVE  BucketFollows(Of)'
<1>. SUFFICES ASSUME NEW key \in Keys, store'[key] # None
              PROVE  /\ ~Refusable(Of, key.event)
                     /\ key = Key(key.kind, key.event, Of[key.event])
                     /\ store'[key] = Content(key.kind, Of[key.event])
  BY DEF BucketFollows, Exists, Refusable
<1>1. CASE store'[key] = store[key]
  BY <1>1 DEF Agreement, BucketFollows, Exists
<1>2. CASE store'[key] # store[key]
  <2>1. PICK w \in Workers, k \in ObjectKinds : PutObject(w, k)
    BY <1>2, StoreChanges
  <2>2. /\ worker[w].pc = "write"
        /\ key = Key(k, EventAt(w), worker[w].draft)
        /\ store'[key] = Content(k, worker[w].draft)
    BY <1>2, <2>1, PutObjectDoes
  <2>3. key.kind = k /\ key.event = EventAt(w)
    BY <2>2 DEF Key
  <2>4. worker[w].draft = Of[EventAt(w)] /\ ~Refusable(Of, EventAt(w))
    BY <2>2 DEF Agreement, AttemptFollows
  <2>. QED
    BY <2>2, <2>3, <2>4
<1>. QED
  BY <1>1, <1>2

(* Only a worker with a reason adds a record, and the record is about its  *)
(* event.                                                                  *)
LEMMA QuarantineChanges ==
  ASSUME [Next]_vars, NEW q \in quarantine', q \notin quarantine
  PROVE  \E w \in Workers : worker[w].pc = "quarantine" /\ q.event = EventAt(w)
<1>1. PICK w \in Workers : WriteQuarantine(w)
  <2>1. ASSUME NEW w \in Workers, Receive(w) \/ Abandon(w) PROVE UNCHANGED quarantine
    BY <2>1 DEF Receive, Fetch, Abandon
  <2>2. ASSUME NEW w \in Workers, Work(w), ~WriteQuarantine(w) PROVE UNCHANGED quarantine
    BY <2>2 DEF Work, RejectPointer, CheckIndex, RejectRecord, FailRecord, Structure,
                ReadMember, AcceptDraft, PutObject, PutConflict, Publish, SkipFlag,
                QuarantineConflict, Ack
  <2>3. CASE (\E m \in Messages : AckWaitExpires(m)) \/ Tick \/ UNCHANGED vars
    BY <2>3 DEF AckWaitExpires, Tick, vars
  <2>. QED
    BY <2>1, <2>2, <2>3 DEF Next
<1>. QED
  BY <1>1 DEF WriteQuarantine

LEMMA RecordsStayAgreed ==
  ASSUME Inv, NEW Of, Agreement(Of), [Next]_vars
  PROVE  RecordsFollow(Of)'
<1>. SUFFICES ASSUME NEW q \in quarantine'
              PROVE  Refusable(Of, q.event)
  BY DEF RecordsFollow, Refusable
<1>. QED
  BY QuarantineChanges DEF Agreement, RecordsFollow, AttemptFollows

LEMMA AgreementInvariance ==
  ASSUME NEW Of, EventsAreApart(Of)
  PROVE  Spec /\ [][DraftsFollow(Of)]_vars => [](Inv /\ Agreement(Of))
<1>1. Init => Agreement(Of)
  BY IdleType DEF Init, Agreement, AttemptFollows, BucketFollows, RecordsFollow, Exists
<1>2. Inv /\ Agreement(Of) /\ [Next]_vars /\ [DraftsFollow(Of)]_vars => Agreement(Of)'
  <2>. SUFFICES ASSUME Inv, Agreement(Of), [Next]_vars, [DraftsFollow(Of)]_vars
                PROVE  Agreement(Of)'
    OBVIOUS
  <2>1. CASE DraftsFollow(Of)
    BY <2>1, AttemptsFollow, BucketStaysAgreed, RecordsStayAgreed DEF Agreement
  <2>2. CASE UNCHANGED vars
    BY <2>2 DEF vars, Agreement, AttemptFollows, BucketFollows, RecordsFollow, EventAt,
                Exists, Refusable
  <2>. QED
    BY <2>1, <2>2
<1>. QED
  BY Invariance, <1>1, <1>2, PTL DEF Spec

NoConflict ==
  \A w \in Workers : worker[w].pc = "quarantine" => worker[w].cause.class # "conflict"

(* If all attempts at an event draft the same and no two events share a    *)
(* story, put_bytes_idempotent never finds other bytes under its key, for  *)
(* any number of workers, crashes and redeliveries: retrying is harmless.  *)
THEOREM EqualAttemptsNeverConflict ==
  ASSUME NEW Of, EventsAreApart(Of)
  PROVE  Spec /\ [][DraftsFollow(Of)]_vars => []NoConflict
<1>1. Agreement(Of) => NoConflict
  BY DEF Agreement, AttemptFollows, NoConflict
<1>. QED
  BY AgreementInvariance, <1>1, PTL

(* Under the same condition an acknowledged message whose event has a      *)
(* prepared index has a success index too, as ENTERPRISE_DOD.md says of    *)
(* redeliveries: what PreparedIsRetried misses is due to attempts that     *)
(* draft something else, and not to the order of the writes.               *)
THEOREM EqualAttemptsAreRetried ==
  ASSUME NEW Of, EventsAreApart(Of)
  PROVE  Spec /\ [][DraftsFollow(Of)]_vars => []PreparedIsRetried
<1>1. Inv /\ Agreement(Of) => PreparedIsRetried
  <2>. SUFFICES ASSUME Inv, Agreement(Of), NEW m \in Messages, delivery[m] = "acked",
                       EventOf[m] \in Events,
                       Exists(EventKey("prepared_index", EventOf[m]))
                PROVE  Indexed(EventOf[m])
    BY DEF PreparedIsRetried
  <2>1. EventOf[m] \in CompleteEvents \cup RefusedEvents
    BY DEF Inv, AckedIsSettled
  <2>2. EventOf[m] \notin RefusedEvents
    <3>1. /\ EventKey("prepared_index", EventOf[m]) \in Keys
          /\ EventKey("prepared_index", EventOf[m]).event = EventOf[m]
      BY DEF EventKey, Keys, ObjectKinds
    <3>2. ~Refusable(Of, EventOf[m])
      BY <3>1 DEF Agreement, BucketFollows
    <3>. QED
      BY <3>2 DEF Agreement, RecordsFollow, RefusedEvents
  <2>. QED
    BY <2>1, <2>2 DEF CompleteEvents
<1>. QED
  BY AgreementInvariance, <1>1, PTL
=============================================================================
