-------------------------- MODULE IntelWorkerProofs --------------------------
(***************************************************************************)
(* What holds of IntelWorker for any number of workers, messages, events,  *)
(* claims, contexts and stories, any batch size and any max_deliver.       *)
(*                                                                         *)
(* The store and the output stream only grow (StepGrows), so what a worker *)
(* has already written and announced stays written and announced while the *)
(* others run (WorkerOKStable); each worker's own step keeps its part of   *)
(* the invariant.                                                          *)
(***************************************************************************)
EXTENDS IntelWorker, TLAPS

(* What the worker v has stored and announced before its current step.     *)
WrittenBefore(v) ==
  LET e == EventAt(v)
      d == worker[v].draft
  IN
  /\ \A k \in ObjectKinds :
       PutRank[k] < worker[v].step /\ Wanted(k, d) => store[Key(k, e, d)] = Content(k, d)
  /\ \A k \in PublishKinds :
       PublishRank[k] < worker[v].step /\ Wanted(k, d) => Content(k, d) \in announced[<<k, e>>]

WorkerOK(v) ==
  /\ worker[v].pc # "idle" => worker[v].msg \in Messages
  /\ worker[v].pc \in {"unindexed", "merge", "write"} => EventAt(v) \in Events
  /\ worker[v].pc \in {"merge", "write"} => worker[v].draft \in Drafts
  /\ worker[v].pc = "quarantine" => worker[v].cause \in Causes
  /\ worker[v].pc = "write" => worker[v].step \in 1..12 /\ WrittenBefore(v)
  /\ worker[v].pc = "ack" => EventAt(v) \in CompleteEvents \cup RefusedEvents

(* An acknowledged message has left a success index or a quarantine record *)
(* of its event behind (process_and_ack_message, write_quarantine).        *)
AckedIsSettled ==
  \A m \in Messages :
    delivery[m] = "acked" => EventOf[m] \in CompleteEvents \cup RefusedEvents

(* A message that may be delivered has deliveries left.                    *)
DeliveriesLeft ==
  \A m \in Messages : delivery[m] = "ready" => deliveries[m] < MaxDeliver

Inv ==
  /\ TypeOK
  /\ DeliveriesLeft
  /\ \A v \in Workers : WorkerOK(v)
  /\ PointersResolve
  /\ AckedIsSettled

-----------------------------------------------------------------------------
(***************************************************************************)
(* Facts about the operators                                               *)
(***************************************************************************)

LEMMA KeyType ==
  ASSUME NEW k \in ObjectKinds, NEW e \in Events, NEW d \in Drafts
  PROVE  Key(k, e, d) \in Keys /\ EventKey(k, e) \in Keys
<1>1. d.claim \in Claims
  BY DEF Drafts
<1>2. StoryOf[e][d.claim] \in Stories
  BY <1>1, StoriesAssumption
<1>. QED
  BY <1>2 DEF Key, EventKey, Keys

LEMMA EventKeyOfKey ==
  ASSUME NEW k \in ObjectKinds \ StoryKinds, NEW e, NEW d
  PROVE  Key(k, e, d) = EventKey(k, e)
BY DEF Key, EventKey

LEMMA ContentType ==
  ASSUME NEW k \in ObjectKinds, NEW d \in Drafts
  PROVE  Content(k, d) \in Contents /\ Content(k, d) # None
BY NoneAssumption DEF Contents

LEMMA PublishIsObject == PublishKinds \subseteq ObjectKinds \ StoryKinds
BY DEF PublishKinds, ObjectKinds, StoryKinds

(* The ranks number the steps of the write phase without a clash.          *)
LEMMA Ranks ==
  /\ \A k \in ObjectKinds : PutRank[k] \in 1..12
  /\ \A k \in PublishKinds : PublishRank[k] \in 9..11
  /\ \A j, k \in ObjectKinds : PutRank[j] = PutRank[k] => j = k
  /\ \A j, k \in PublishKinds : PublishRank[j] = PublishRank[k] => j = k
  /\ \A j \in ObjectKinds, k \in PublishKinds : PutRank[j] # PublishRank[k]
  /\ PutRank["success_index"] = 12
  /\ PutRank["prepared_index"] = 8
  /\ PutRank["manifest"] = 7
  /\ \A k \in PublishKinds : PutRank[k] < 8
  /\ \A k \in ObjectKinds : PutRank[k] = 12 => k = "success_index"
<1>1. /\ PutRank["story_member"] = 1 /\ PutRank["story_cluster"] = 2
      /\ PutRank["structured"] = 3   /\ PutRank["revision_index"] = 4
      /\ PutRank["flag"] = 5         /\ PutRank["health"] = 6
      /\ PutRank["manifest"] = 7     /\ PutRank["prepared_index"] = 8
      /\ PutRank["success_index"] = 12
  BY DEF PutRank
<1>2. /\ PublishRank["structured"] = 9 /\ PublishRank["flag"] = 10
      /\ PublishRank["health"] = 11
  BY DEF PublishRank
<1>. QED
  BY <1>1, <1>2, SMT DEF ObjectKinds, PublishKinds

(***************************************************************************)
(* Worker states                                                           *)
(***************************************************************************)

LEMMA HoldingType ==
  ASSUME NEW m \in Messages,
         NEW pc \in {"idle", "fetched", "unindexed", "merge", "write", "quarantine", "ack"}
  PROVE  /\ Holding(m, pc) \in WorkerState
         /\ Holding(m, pc).pc = pc
         /\ Holding(m, pc).msg = m
         /\ Holding(m, pc) = [pc |-> pc, msg |-> m, step |-> 0, draft |-> None,
                               unread |-> {}, cause |-> None]
BY DEF Holding, Idle, WorkerState

LEMMA RefusingType ==
  ASSUME NEW m \in Messages, NEW cause \in Causes
  PROVE  /\ Refusing(m, cause) \in WorkerState
         /\ Refusing(m, cause).pc = "quarantine"
         /\ Refusing(m, cause).msg = m
         /\ Refusing(m, cause).cause = cause
BY DEF Refusing, Holding, Idle, WorkerState

LEMMA IdleType == Idle \in WorkerState /\ Idle.pc = "idle"
BY DEF Idle, Holding, WorkerState

LEMMA WritingType ==
  ASSUME NEW r \in WorkerState, NEW pc \in {"merge", "write"}, NEW step \in 0..12
  PROVE  LET moved == [r EXCEPT !.pc = pc, !.step = step] IN
         /\ moved \in WorkerState /\ moved.pc = pc /\ moved.step = step
         /\ moved.msg = r.msg /\ moved.draft = r.draft
BY DEF WorkerState

LEMMA AdvancedType ==
  ASSUME NEW w \in Workers, worker[w] \in WorkerState, worker[w].pc = "write",
         worker[w].msg \in Messages, worker[w].step \in 1..12
  PROVE  /\ Advanced(w) \in WorkerState
         /\ worker[w].step = 12 => Advanced(w) = Holding(worker[w].msg, "ack")
         /\ worker[w].step # 12 =>
              /\ Advanced(w).pc = "write"
              /\ Advanced(w).msg = worker[w].msg
              /\ Advanced(w).draft = worker[w].draft
              /\ Advanced(w).step = worker[w].step + 1
<1>1. CASE worker[w].step = 12
  BY <1>1, HoldingType DEF Advanced
<1>2. CASE worker[w].step # 12
  <2>1. Advanced(w) = [worker[w] EXCEPT !.step = worker[w].step + 1]
    BY <1>2 DEF Advanced
  <2>2. worker[w].step + 1 \in 0..12
    BY <1>2
  <2>. QED
    BY <1>2, <2>1, <2>2 DEF WorkerState
<1>. QED
  BY <1>1, <1>2

LEMMA BecomesType ==
  ASSUME NEW w \in Workers, NEW r \in WorkerState,
         worker \in [Workers -> WorkerState], Becomes(w, r)
  PROVE  /\ worker' \in [Workers -> WorkerState]
         /\ worker'[w] = r
         /\ \A v \in Workers \ {w} : worker'[v] = worker[v]
BY DEF Becomes

-----------------------------------------------------------------------------
(***************************************************************************)
(* The store, the output stream and the quarantine only grow               *)
(***************************************************************************)

Grows ==
  /\ \A key \in Keys : store[key] # None => store'[key] = store[key]
  /\ \A id \in PublishKinds \X Events : announced[id] \subseteq announced'[id]
  /\ quarantine \subseteq quarantine'

(* Only worker w has moved.                                                *)
OnlyMoves(w) == \A v \in Workers \ {w} : worker'[v] = worker[v]

LEMMA UnchangedGrows == UNCHANGED <<store, announced, quarantine>> => Grows
BY DEF Grows

LEMMA GrowsKeepsSettled ==
  ASSUME Grows
  PROVE  CompleteEvents \cup RefusedEvents \subseteq (CompleteEvents \cup RefusedEvents)'
<1>1. ASSUME NEW e \in CompleteEvents PROVE e \in CompleteEvents'
  <2>1. EventKey("success_index", e) \in Keys
    BY DEF CompleteEvents, EventKey, Keys, ObjectKinds
  <2>. QED
    BY <2>1 DEF Grows, CompleteEvents, Indexed, Exists, EventKey
<1>2. RefusedEvents \subseteq RefusedEvents'
  BY DEF Grows, RefusedEvents
<1>. QED
  BY <1>1, <1>2

(* What a worker has written stays written while others move.              *)
LEMMA WorkerOKStable ==
  ASSUME Grows, NEW v \in Workers, WorkerOK(v), worker'[v] = worker[v]
  PROVE  WorkerOK(v)'
<1>1. EventAt(v)' = EventAt(v)
  BY DEF EventAt
<1>2. worker[v].pc = "ack" => EventAt(v) \in (CompleteEvents \cup RefusedEvents)'
  BY GrowsKeepsSettled DEF WorkerOK
<1>3. ASSUME worker[v].pc = "write" PROVE WrittenBefore(v)'
  <2>. DEFINE e == EventAt(v)
              d == worker[v].draft
  <2>1. /\ e \in Events /\ d \in Drafts /\ WrittenBefore(v)
    BY <1>3 DEF WorkerOK
  <2>2. ASSUME NEW k \in ObjectKinds, PutRank[k] < worker[v].step, Wanted(k, d)
        PROVE  store'[Key(k, e, d)] = Content(k, d)
    <3>1. store[Key(k, e, d)] = Content(k, d)
      BY <2>1, <2>2 DEF WrittenBefore
    <3>2. Key(k, e, d) \in Keys /\ Content(k, d) # None
      BY <2>1, KeyType, ContentType
    <3>. QED
      BY <3>1, <3>2 DEF Grows
  <2>3. ASSUME NEW k \in PublishKinds, PublishRank[k] < worker[v].step, Wanted(k, d)
        PROVE  Content(k, d) \in announced'[<<k, e>>]
    <3>1. Content(k, d) \in announced[<<k, e>>]
      BY <2>1, <2>3 DEF WrittenBefore
    <3>. QED
      BY <2>1, <3>1 DEF Grows
  <2>. QED
    BY <1>1, <2>2, <2>3 DEF WrittenBefore
<1>. QED
  BY <1>1, <1>2, <1>3 DEF WorkerOK

(* Worker w's move keeps the other workers' part of the invariant.         *)
LEMMA WorkersOK ==
  ASSUME Inv, NEW w \in Workers, Grows, OnlyMoves(w), WorkerOK(w)'
  PROVE  \A v \in Workers : WorkerOK(v)'
<1>1. ASSUME NEW v \in Workers, v # w PROVE WorkerOK(v)'
  <2>1. WorkerOK(v) /\ worker'[v] = worker[v]
    BY <1>1 DEF Inv, OnlyMoves
  <2>. QED
    BY <2>1, WorkerOKStable
<1>. QED
  BY <1>1

LEMMA PointersStable ==
  ASSUME Inv, Grows, UNCHANGED announced
  PROVE  PointersResolve'
<1>1. SUFFICES ASSUME NEW k \in PublishKinds, NEW e \in Events,
                      NEW payload \in announced[<<k, e>>]
               PROVE  /\ store'[EventKey(k, e)] = payload
                      /\ store'[EventKey("manifest", e)] # None
                      /\ store'[EventKey("prepared_index", e)] # None
  BY DEF PointersResolve, Exists, EventKey
<1>2. /\ store[EventKey(k, e)] = payload
      /\ store[EventKey("manifest", e)] # None
      /\ store[EventKey("prepared_index", e)] # None
  BY DEF Inv, PointersResolve, Exists
<1>3. payload # None
  BY NoneAssumption DEF Inv, TypeOK
<1>4. /\ EventKey(k, e) \in Keys
      /\ EventKey("manifest", e) \in Keys
      /\ EventKey("prepared_index", e) \in Keys
  BY PublishIsObject DEF EventKey, Keys, ObjectKinds
<1>. QED
  BY <1>2, <1>3, <1>4 DEF Grows

LEMMA AckedStable ==
  ASSUME Inv, Grows,
         \A m \in Messages : delivery'[m] = "acked" => delivery[m] = "acked"
  PROVE  AckedIsSettled'
BY GrowsKeepsSettled DEF Inv, AckedIsSettled

(* A step of worker w that changes nothing but its own state.              *)
LEMMA QuietStep ==
  ASSUME Inv, NEW w \in Workers, NEW r \in WorkerState, Becomes(w, r), WorkerOK(w)',
         UNCHANGED <<delivery, deliveries, store, quarantine, announced, clock>>
  PROVE  Inv'
<1>1. Grows
  BY UnchangedGrows
<1>2. worker' \in [Workers -> WorkerState] /\ OnlyMoves(w)
  BY BecomesType DEF OnlyMoves, Inv, TypeOK
<1>3. TypeOK'
  BY <1>2 DEF Inv, TypeOK
<1>4. DeliveriesLeft'
  BY DEF Inv, DeliveriesLeft
<1>5. \A v \in Workers : WorkerOK(v)'
  BY <1>1, <1>2, WorkersOK
<1>6. PointersResolve' /\ AckedIsSettled'
  BY <1>1, PointersStable, AckedStable
<1>. QED
  BY <1>3, <1>4, <1>5, <1>6 DEF Inv

(* What may be assumed of a busy worker.                                   *)
LEMMA BusyWorker ==
  ASSUME Inv, NEW w \in Workers, worker[w].pc # "idle"
  PROVE  /\ worker \in [Workers -> WorkerState]
         /\ worker[w] \in WorkerState
         /\ worker[w].msg \in Messages
         /\ EventAt(w) = EventOf[worker[w].msg]
         /\ EventAt(w) \in Events \cup {Unknown}
BY MessagesAssumption DEF Inv, TypeOK, WorkerOK, EventAt

-----------------------------------------------------------------------------
(***************************************************************************)
(* The steps that change only the worker's own state                       *)
(***************************************************************************)

LEMMA AbandonKeepsInv ==
  ASSUME Inv, NEW w \in Workers, Abandon(w)
  PROVE  Inv'
<1>1. worker'[w] = Idle
  BY IdleType, BecomesType DEF Abandon, Inv, TypeOK
<1>2. WorkerOK(w)'
  BY <1>1, IdleType DEF WorkerOK
<1>. QED
  BY <1>2, IdleType, QuietStep DEF Abandon

(* A worker turns to the quarantine.                                       *)
LEMMA RefuseKeepsInv ==
  ASSUME Inv, NEW w \in Workers, worker[w].pc # "idle", NEW cause \in Causes,
         Becomes(w, Refusing(worker[w].msg, cause)),
         UNCHANGED <<delivery, deliveries, store, quarantine, announced, clock>>
  PROVE  Inv'
<1>. DEFINE r == Refusing(worker[w].msg, cause)
<1>1. /\ worker[w].msg \in Messages
      /\ worker \in [Workers -> WorkerState]
  BY BusyWorker
<1>2. /\ r \in WorkerState
      /\ r.pc = "quarantine"
      /\ r.msg \in Messages
      /\ r.cause = cause
  BY <1>1, RefusingType
<1>3. worker'[w] = r
  BY <1>1, <1>2, BecomesType
<1>4. WorkerOK(w)'
  BY <1>2, <1>3 DEF WorkerOK
<1>. QED
  BY <1>2, <1>4, QuietStep

(* A worker keeps its message in one of the early or late phases.          *)
LEMMA HoldKeepsInv ==
  ASSUME Inv, NEW w \in Workers, worker[w].pc # "idle",
         NEW pc \in {"fetched", "unindexed", "ack"},
         Becomes(w, Holding(worker[w].msg, pc)),
         pc = "unindexed" => EventAt(w) \in Events,
         pc = "ack" => EventAt(w) \in CompleteEvents \cup RefusedEvents,
         UNCHANGED <<delivery, deliveries, store, quarantine, announced, clock>>
  PROVE  Inv'
<1>. DEFINE r == Holding(worker[w].msg, pc)
<1>1. /\ worker[w].msg \in Messages
      /\ worker \in [Workers -> WorkerState]
  BY BusyWorker
<1>2. r \in WorkerState /\ r.pc = pc /\ r.msg = worker[w].msg
  BY <1>1, HoldingType
<1>3. worker'[w] = r
  BY <1>1, <1>2, BecomesType
<1>4. EventAt(w)' = EventAt(w)
  BY <1>2, <1>3 DEF EventAt
<1>5. (CompleteEvents \cup RefusedEvents) \subseteq (CompleteEvents \cup RefusedEvents)'
  BY UnchangedGrows, GrowsKeepsSettled
<1>6. WorkerOK(w)'
  BY <1>1, <1>2, <1>3, <1>4, <1>5 DEF WorkerOK
<1>. QED
  BY <1>2, <1>6, QuietStep

LEMMA CheckIndexKeepsInv ==
  ASSUME Inv, NEW w \in Workers, CheckIndex(w)
  PROVE  Inv'
<1>1. /\ worker[w].pc # "idle"
      /\ EventAt(w) \in Events
      /\ UNCHANGED <<delivery, deliveries, store, quarantine, announced, clock>>
  BY DEF CheckIndex
<1>2. CASE SettledByIndex(EventAt(w))
  <2>1. EventAt(w) \in CompleteEvents
    BY <1>1, <1>2 DEF SettledByIndex, CompleteEvents
  <2>2. Becomes(w, Holding(worker[w].msg, "ack"))
    BY <1>2 DEF CheckIndex
  <2>. QED
    BY <1>1, <2>1, <2>2, HoldKeepsInv
<1>3. CASE ~SettledByIndex(EventAt(w))
  <2>1. Becomes(w, Holding(worker[w].msg, "unindexed"))
    BY <1>3 DEF CheckIndex
  <2>. QED
    BY <1>1, <2>1, HoldKeepsInv
<1>. QED
  BY <1>2, <1>3

LEMMA StructureKeepsInv ==
  ASSUME Inv, NEW w \in Workers, NEW claim \in Claims, NEW calls \in Calls,
         NEW ctx \in Contexts, Structure(w, claim, calls, ctx)
  PROVE  Inv'
<1>. DEFINE e == EventAt(w)
            h == Holding(worker[w].msg, "merge")
            d == [claim |-> claim, calls |-> calls, ctx |-> ctx, merged |-> {}]
            unread == Listed(StoryOf[e][claim]) \ {e}
            r == [h EXCEPT !.draft = d, !.unread = unread]
<1>1. /\ worker[w].pc = "unindexed"
      /\ Becomes(w, r)
      /\ UNCHANGED <<delivery, deliveries, store, quarantine, announced, clock>>
  BY DEF Structure
<1>2. /\ worker[w].msg \in Messages
      /\ worker \in [Workers -> WorkerState]
      /\ e \in Events
  BY <1>1, BusyWorker DEF Inv, WorkerOK
<1>3. d \in Drafts
  BY DEF Drafts
<1>4. unread \in SUBSET Events
  BY DEF Listed
<1>5. h \in WorkerState /\ h.pc = "merge" /\ h.msg = worker[w].msg
  BY <1>2, HoldingType
<1>6. r \in WorkerState /\ r.pc = "merge" /\ r.msg = worker[w].msg /\ r.draft = d
  <2>. HIDE DEF h, d, unread
  <2>. QED
    BY <1>3, <1>4, <1>5 DEF WorkerState
<1>7. worker'[w] = r
  BY <1>1, <1>2, <1>6, BecomesType
<1>8. WorkerOK(w)'
  <2>. HIDE DEF d, r
  <2>. QED
    BY <1>2, <1>3, <1>6, <1>7 DEF WorkerOK, EventAt
<1>. QED
  BY <1>1, <1>6, <1>8, QuietStep

LEMMA ReadMemberKeepsInv ==
  ASSUME Inv, NEW w \in Workers, NEW f \in Events, ReadMember(w, f)
  PROVE  Inv'
<1>. DEFINE old == worker[w]
            merged == IF MergesMember(f) THEN old.draft.merged \cup {f} ELSE old.draft.merged
            d == [old.draft EXCEPT !.merged = merged]
            unread == old.unread \ {f}
            r == [old EXCEPT !.unread = unread, !.draft = d]
<1>1. /\ old.pc = "merge"
      /\ Becomes(w, r)
      /\ UNCHANGED <<delivery, deliveries, store, quarantine, announced, clock>>
  BY DEF ReadMember
<1>2. /\ worker \in [Workers -> WorkerState]
      /\ old \in WorkerState
      /\ old.msg \in Messages
      /\ EventAt(w) \in Events
      /\ old.draft \in Drafts
  BY <1>1, BusyWorker DEF Inv, WorkerOK
<1>3. merged \in SUBSET Events
  BY <1>2 DEF Drafts
<1>4. d \in Drafts
  <2>. HIDE DEF merged, old
  <2>. QED
    BY <1>2, <1>3 DEF Drafts
<1>5. unread \in SUBSET Events
  BY <1>2 DEF WorkerState
<1>6. r \in WorkerState /\ r.pc = "merge" /\ r.msg = old.msg /\ r.draft = d
  <2>. HIDE DEF d, unread, old
  <2>. QED
    BY <1>1, <1>2, <1>4, <1>5 DEF WorkerState
<1>7. worker'[w] = r
  BY <1>1, <1>2, <1>6, BecomesType
<1>8. WorkerOK(w)'
  <2>. HIDE DEF d, r
  <2>. QED
    BY <1>2, <1>4, <1>6, <1>7 DEF WorkerOK, EventAt
<1>. QED
  BY <1>1, <1>6, <1>8, QuietStep

LEMMA AcceptDraftKeepsInv ==
  ASSUME Inv, NEW w \in Workers, AcceptDraft(w)
  PROVE  Inv'
<1>. DEFINE old == worker[w]
            cause == [class |-> "forbidden_output", key |-> None]
            r == [old EXCEPT !.pc = "write", !.step = 1]
<1>1. /\ old.pc = "merge"
      /\ UNCHANGED <<delivery, deliveries, store, quarantine, announced, clock>>
  BY DEF AcceptDraft
<1>2. CASE old.draft.claim \in Forbidden
  <2>1. cause \in Causes
    BY DEF Causes
  <2>2. Becomes(w, Refusing(old.msg, cause))
    BY <1>2 DEF AcceptDraft
  <2>. QED
    BY <1>1, <2>1, <2>2, RefuseKeepsInv
<1>3. CASE old.draft.claim \notin Forbidden
  <2>1. Becomes(w, r)
    BY <1>3 DEF AcceptDraft
  <2>2. /\ worker \in [Workers -> WorkerState]
        /\ old \in WorkerState
        /\ old.msg \in Messages
        /\ EventAt(w) \in Events
        /\ old.draft \in Drafts
    BY <1>1, BusyWorker DEF Inv, WorkerOK
  <2>3. /\ r \in WorkerState /\ r.pc = "write" /\ r.step = 1
        /\ r.msg = old.msg /\ r.draft = old.draft
    <3>. HIDE DEF old
    <3>1. 1 \in 0..12 /\ "write" \in {"merge", "write"}
      OBVIOUS
    <3>. QED
      BY <2>2, <3>1, WritingType, Zenon
  <2>4. worker'[w] = r
    BY <2>1, <2>2, <2>3, BecomesType
  <2>5. /\ \A k \in ObjectKinds : ~(PutRank[k] < 1)
        /\ \A k \in PublishKinds : ~(PublishRank[k] < 1)
    BY Ranks
  <2>6. WorkerOK(w)'
    <3>. HIDE DEF old, r
    <3>1. WrittenBefore(w)'
      BY <2>3, <2>4, <2>5 DEF WrittenBefore
    <3>. QED
      BY <3>1, <2>2, <2>3, <2>4 DEF WorkerOK, EventAt, old
  <2>. QED
    BY <1>1, <2>1, <2>3, <2>6, QuietStep
<1>. QED
  BY <1>2, <1>3

LEMMA RefusalsKeepInv ==
  ASSUME Inv, NEW w \in Workers,
         \/ RejectPointer(w) \/ RejectRecord(w) \/ FailRecord(w)
         \/ QuarantineConflict(w) \/ \E k \in ObjectKinds : PutConflict(w, k)
  PROVE  Inv'
<1>1. CASE RejectPointer(w)
  <2>1. [class |-> "invalid_pointer", key |-> None] \in Causes
    BY DEF Causes
  <2>. QED
    BY <1>1, <2>1, RefuseKeepsInv DEF RejectPointer
<1>2. CASE RejectRecord(w)
  <2>1. [class |-> "broken_record", key |-> None] \in Causes
    BY DEF Causes
  <2>. QED
    BY <1>2, <2>1, RefuseKeepsInv DEF RejectRecord
<1>3. CASE FailRecord(w) \/ QuarantineConflict(w)
  BY <1>3, AbandonKeepsInv DEF FailRecord, QuarantineConflict, Abandon
<1>4. ASSUME NEW k \in ObjectKinds, PutConflict(w, k) PROVE Inv'
  <2>. DEFINE key == Key(k, EventAt(w), worker[w].draft)
              cause == [class |-> "conflict", key |-> key]
  <2>1. /\ worker[w].pc = "write"
        /\ Becomes(w, Refusing(worker[w].msg, cause))
        /\ UNCHANGED <<delivery, deliveries, store, quarantine, announced, clock>>
    BY <1>4 DEF PutConflict, AtPut
  <2>2. EventAt(w) \in Events /\ worker[w].draft \in Drafts
    BY <2>1 DEF Inv, WorkerOK
  <2>3. cause \in Causes
    <3>1. key \in Keys
      BY <2>2, KeyType
    <3>. HIDE DEF key
    <3>. QED
      BY <3>1 DEF Causes
  <2>. QED
    BY <2>1, <2>3, RefuseKeepsInv
<1>. QED
  BY <1>1, <1>2, <1>3, <1>4

-----------------------------------------------------------------------------
(***************************************************************************)
(* The write phase                                                         *)
(***************************************************************************)

LEMMA WritingWorker ==
  ASSUME Inv, NEW w \in Workers, worker[w].pc = "write"
  PROVE  /\ worker \in [Workers -> WorkerState]
         /\ worker[w] \in WorkerState
         /\ worker[w].msg \in Messages
         /\ worker[w].step \in 1..12
         /\ worker[w].draft \in Drafts
         /\ EventAt(w) \in Events
         /\ WrittenBefore(w)
BY BusyWorker DEF Inv, WorkerOK

(* A worker may advance when what its current step stands for is done.     *)
LEMMA AdvanceOK ==
  ASSUME Inv, NEW w \in Workers, worker[w].pc = "write", Grows,
         Becomes(w, Advanced(w)),
         \A k \in ObjectKinds :
           PutRank[k] = worker[w].step /\ Wanted(k, worker[w].draft) =>
             store'[Key(k, EventAt(w), worker[w].draft)] = Content(k, worker[w].draft),
         \A k \in PublishKinds :
           PublishRank[k] = worker[w].step /\ Wanted(k, worker[w].draft) =>
             Content(k, worker[w].draft) \in announced'[<<k, EventAt(w)>>]
  PROVE  /\ worker' \in [Workers -> WorkerState]
         /\ OnlyMoves(w)
         /\ WorkerOK(w)'
<1>. DEFINE e == EventAt(w)
            d == worker[w].draft
            n == worker[w].step
            r == Advanced(w)
<1>1. /\ worker \in [Workers -> WorkerState]
      /\ worker[w].msg \in Messages
      /\ n \in 1..12
      /\ d \in Drafts
      /\ e \in Events
      /\ WrittenBefore(w)
  BY WritingWorker
<1>2. /\ r \in WorkerState
      /\ n = 12 => r = Holding(worker[w].msg, "ack")
      /\ n # 12 => /\ r.pc = "write" /\ r.msg = worker[w].msg
                   /\ r.draft = d /\ r.step = n + 1
  BY WritingWorker, AdvancedType
<1>3. worker'[w] = r /\ OnlyMoves(w) /\ worker' \in [Workers -> WorkerState]
  BY <1>1, <1>2, BecomesType DEF OnlyMoves
<1>4. CASE n = 12
  <2>1. r.pc = "ack" /\ r.msg = worker[w].msg
    BY <1>1, <1>2, <1>4, HoldingType
  <2>2. EventAt(w)' = e
    BY <1>3, <2>1 DEF EventAt
  <2>3. store'[EventKey("success_index", e)] # None
    <3>1. /\ "success_index" \in ObjectKinds \ StoryKinds
          /\ PutRank["success_index"] = n
          /\ Wanted("success_index", d)
      BY <1>4, Ranks DEF ObjectKinds, StoryKinds, Wanted
    <3>2. store'[Key("success_index", e, d)] = Content("success_index", d)
      BY <3>1
    <3>. QED
      BY <1>1, <3>1, <3>2, EventKeyOfKey, ContentType
  <2>4. e \in CompleteEvents'
    BY <1>1, <2>3 DEF CompleteEvents, Indexed, Exists, EventKey
  <2>5. WorkerOK(w)'
    <3>. HIDE DEF r, e
    <3>. QED
      BY <1>1, <1>3, <2>1, <2>2, <2>4 DEF WorkerOK
  <2>. QED
    BY <1>3, <2>5
<1>5. CASE n # 12
  <2>1. /\ r.pc = "write" /\ r.msg = worker[w].msg
        /\ r.draft = d /\ r.step = n + 1
    BY <1>2, <1>5
  <2>2. EventAt(w)' = e
    BY <1>3, <2>1 DEF EventAt
  <2>3. ASSUME NEW k \in ObjectKinds, PutRank[k] < n + 1, Wanted(k, d)
        PROVE  store'[Key(k, e, d)] = Content(k, d)
    <3>1. PutRank[k] = n \/ PutRank[k] < n
      BY <1>1, <2>3, Ranks
    <3>2. CASE PutRank[k] < n
      <4>1. store[Key(k, e, d)] = Content(k, d)
        BY <1>1, <2>3, <3>2 DEF WrittenBefore
      <4>2. Key(k, e, d) \in Keys /\ Content(k, d) # None
        BY <1>1, KeyType, ContentType
      <4>. QED
        BY <4>1, <4>2 DEF Grows
    <3>. QED
      BY <2>3, <3>1, <3>2
  <2>4. ASSUME NEW k \in PublishKinds, PublishRank[k] < n + 1, Wanted(k, d)
        PROVE  Content(k, d) \in announced'[<<k, e>>]
    <3>1. PublishRank[k] = n \/ PublishRank[k] < n
      BY <1>1, <2>4, Ranks
    <3>2. CASE PublishRank[k] < n
      <4>1. Content(k, d) \in announced[<<k, e>>]
        BY <1>1, <2>4, <3>2 DEF WrittenBefore
      <4>. QED
        BY <1>1, <4>1 DEF Grows
    <3>. QED
      BY <2>4, <3>1, <3>2
  <2>5. WrittenBefore(w)'
    <3>. HIDE DEF r, e, d, n
    <3>. QED
      BY <1>3, <2>1, <2>2, <2>3, <2>4 DEF WrittenBefore
  <2>6. n + 1 \in 1..12
    BY <1>1, <1>5
  <2>7. WorkerOK(w)'
    <3>. HIDE DEF r, e, d, n
    <3>. QED
      BY <1>1, <1>3, <2>1, <2>2, <2>5, <2>6 DEF WorkerOK
  <2>. QED
    BY <1>3, <2>7
<1>. QED
  BY <1>4, <1>5

LEMMA SkipFlagKeepsInv ==
  ASSUME Inv, NEW w \in Workers, SkipFlag(w)
  PROVE  Inv'
<1>1. /\ worker[w].pc = "write"
      /\ Becomes(w, Advanced(w))
      /\ ~HasFlag(worker[w].draft)
      /\ UNCHANGED <<delivery, deliveries, store, quarantine, announced, clock>>
      /\ worker[w].step \in {PutRank["flag"], PublishRank["flag"]}
  BY DEF SkipFlag, AtPut, AtPublish
<1>2. /\ \A k \in ObjectKinds : PutRank[k] = worker[w].step => k = "flag"
      /\ \A k \in PublishKinds : PublishRank[k] = worker[w].step => k = "flag"
  BY <1>1, Ranks DEF ObjectKinds, PublishKinds
<1>3. ~Wanted("flag", worker[w].draft)
  BY <1>1 DEF Wanted
<1>4. Grows
  BY <1>1, UnchangedGrows
<1>5. WorkerOK(w)'
  BY <1>1, <1>2, <1>3, <1>4, AdvanceOK
<1>6. Advanced(w) \in WorkerState
  BY <1>1, WritingWorker, AdvancedType
<1>. QED
  BY <1>1, <1>5, <1>6, QuietStep

LEMMA PutObjectKeepsInv ==
  ASSUME Inv, NEW w \in Workers, NEW k \in ObjectKinds, PutObject(w, k)
  PROVE  Inv'
<1>. DEFINE e == EventAt(w)
            d == worker[w].draft
            key == Key(k, e, d)
<1>1. /\ worker[w].pc = "write"
      /\ worker[w].step = PutRank[k]
      /\ store[key] \in {None, Content(k, d)}
      /\ store' = [store EXCEPT ![key] = Content(k, d)]
      /\ Becomes(w, Advanced(w))
      /\ UNCHANGED <<delivery, deliveries, quarantine, announced, clock>>
  BY DEF PutObject, AtPut, PutSucceeds
<1>2. e \in Events /\ d \in Drafts
  BY <1>1, WritingWorker
<1>3. /\ key \in Keys
      /\ Content(k, d) \in Contents
      /\ store \in [Keys -> Contents \cup {None}]
  BY <1>2, KeyType, ContentType DEF Inv, TypeOK
<1>4. /\ store' \in [Keys -> Contents \cup {None}]
      /\ store'[key] = Content(k, d)
      /\ \A other \in Keys : other # key => store'[other] = store[other]
  <2>. HIDE DEF key
  <2>. QED
    BY <1>1, <1>3
<1>5. Grows
  <2>. HIDE DEF key
  <2>. QED
    BY <1>1, <1>4 DEF Grows
<1>6. /\ worker' \in [Workers -> WorkerState] /\ OnlyMoves(w) /\ WorkerOK(w)'
  <2>1. \A j \in ObjectKinds : PutRank[j] = worker[w].step => j = k
    BY <1>1, Ranks
  <2>2. \A j \in PublishKinds : PublishRank[j] # worker[w].step
    BY <1>1, Ranks
  <2>. QED
    BY <1>1, <1>4, <1>5, <2>1, <2>2, AdvanceOK
<1>7. \A v \in Workers : WorkerOK(v)'
  BY <1>5, <1>6, WorkersOK
<1>8. PointersResolve' /\ AckedIsSettled'
  BY <1>1, <1>5, PointersStable, AckedStable
<1>9. TypeOK'
  BY <1>1, <1>4, <1>6 DEF Inv, TypeOK
<1>10. DeliveriesLeft'
  BY <1>1 DEF Inv, DeliveriesLeft
<1>. QED
  BY <1>7, <1>8, <1>9, <1>10 DEF Inv

(* A pointer is published after the object, the manifest and the prepared  *)
(* index; one that has been published before is the stored object too.     *)
LEMMA PublishKeepsInv ==
  ASSUME Inv, NEW w \in Workers, NEW k \in PublishKinds, Publish(w, k)
  PROVE  Inv'
<1>. DEFINE e == EventAt(w)
            d == worker[w].draft
            id == <<k, e>>
            payload == Content(k, d)
<1>1. /\ worker[w].pc = "write"
      /\ worker[w].step = PublishRank[k]
      /\ Wanted(k, d)
      /\ \/ announced' = [announced EXCEPT ![id] = announced[id] \cup {payload}]
         \/ announced[id] # {} /\ announced' = announced
      /\ Becomes(w, Advanced(w))
      /\ UNCHANGED <<delivery, deliveries, store, quarantine, clock>>
  BY DEF Publish, AtPublish
<1>2. e \in Events /\ d \in Drafts /\ WrittenBefore(w)
  BY <1>1, WritingWorker
<1>3. /\ k \in ObjectKinds \ StoryKinds
      /\ payload \in Contents
      /\ payload # None
      /\ id \in PublishKinds \X Events
      /\ announced \in [PublishKinds \X Events -> SUBSET Contents]
  BY <1>2, PublishIsObject, ContentType DEF Inv, TypeOK
<1>4. store[EventKey(k, e)] = payload
  <2>1. PutRank[k] < worker[w].step
    BY <1>1, <1>3, Ranks
  <2>. QED
    BY <1>1, <1>2, <1>3, <2>1, EventKeyOfKey DEF WrittenBefore
<1>5. store[EventKey("manifest", e)] # None /\ store[EventKey("prepared_index", e)] # None
  <2>1. ASSUME NEW j \in {"manifest", "prepared_index"} PROVE store[EventKey(j, e)] # None
    <3>1. j \in ObjectKinds \ StoryKinds /\ Wanted(j, d)
      BY DEF ObjectKinds, StoryKinds, Wanted
    <3>2. PutRank[j] < worker[w].step
      BY <1>1, Ranks
    <3>. QED
      BY <1>2, <3>1, <3>2, EventKeyOfKey, ContentType DEF WrittenBefore
  <2>. QED
    BY <2>1
<1>6. payload \in announced'[id]
  <2>1. CASE announced[id] # {} /\ announced' = announced
    <3>1. PICK p \in announced[id] : TRUE
      BY <2>1
    <3>2. p = payload
      BY <1>2, <1>4, <3>1 DEF Inv, PointersResolve
    <3>. QED
      BY <2>1, <3>1, <3>2
  <2>2. CASE announced' = [announced EXCEPT ![id] = announced[id] \cup {payload}]
    <3>. HIDE DEF id, payload
    <3>. QED
      BY <1>3, <2>2
  <2>. QED
    BY <1>1, <2>1, <2>2
<1>7. /\ announced' \in [PublishKinds \X Events -> SUBSET Contents]
      /\ announced'[id] \subseteq announced[id] \cup {payload}
      /\ announced[id] \subseteq announced'[id]
      /\ \A other \in PublishKinds \X Events :
           other # id => announced'[other] = announced[other]
  <2>. HIDE DEF id, payload
  <2>. QED
    BY <1>1, <1>3
<1>8. Grows
  <2>. HIDE DEF id, payload
  <2>. QED
    BY <1>1, <1>7 DEF Grows
<1>9. /\ worker' \in [Workers -> WorkerState] /\ OnlyMoves(w) /\ WorkerOK(w)'
  <2>1. \A j \in PublishKinds : PublishRank[j] = worker[w].step => j = k
    BY <1>1, Ranks
  <2>2. \A j \in ObjectKinds : PutRank[j] # worker[w].step
    BY <1>1, Ranks
  <2>. QED
    BY <1>1, <1>6, <1>8, <2>1, <2>2, AdvanceOK
<1>10. \A v \in Workers : WorkerOK(v)'
  BY <1>8, <1>9, WorkersOK
<1>11. PointersResolve'
  <2>1. SUFFICES ASSUME NEW j \in PublishKinds, NEW f \in Events,
                        NEW p \in announced'[<<j, f>>]
                 PROVE  /\ store[EventKey(j, f)] = p
                        /\ store[EventKey("manifest", f)] # None
                        /\ store[EventKey("prepared_index", f)] # None
    BY <1>1 DEF PointersResolve, Exists, EventKey
  <2>2. CASE p \in announced[<<j, f>>]
    BY <2>2 DEF Inv, PointersResolve, Exists
  <2>3. CASE p \notin announced[<<j, f>>]
    <3>1. <<j, f>> = id /\ p = payload
      BY <1>7, <2>1, <2>3
    <3>2. j = k /\ f = e
      BY <3>1
    <3>. QED
      BY <1>4, <1>5, <3>1, <3>2
  <2>. QED
    BY <2>2, <2>3
<1>12. AckedIsSettled'
  BY <1>1, <1>8, AckedStable
<1>13. TypeOK' /\ DeliveriesLeft'
  BY <1>1, <1>7, <1>9 DEF Inv, TypeOK, DeliveriesLeft
<1>. QED
  BY <1>10, <1>11, <1>12, <1>13 DEF Inv

-----------------------------------------------------------------------------
(***************************************************************************)
(* The remaining steps                                                     *)
(***************************************************************************)

LEMMA WriteQuarantineKeepsInv ==
  ASSUME Inv, NEW w \in Workers, WriteQuarantine(w)
  PROVE  Inv'
<1>. DEFINE hour == clock \div HourLength
            q == [hour |-> hour, event |-> EventAt(w),
                  cause |-> worker[w].cause, at |-> clock]
            r == Holding(worker[w].msg, "ack")
<1>1. /\ worker[w].pc = "quarantine"
      /\ quarantine' = quarantine \cup {q}
      /\ Becomes(w, r)
      /\ UNCHANGED <<delivery, deliveries, store, announced, clock>>
  BY DEF WriteQuarantine
<1>2. /\ worker \in [Workers -> WorkerState]
      /\ worker[w].msg \in Messages
      /\ EventAt(w) \in Events \cup {Unknown}
      /\ worker[w].cause \in Causes
  BY <1>1, BusyWorker DEF Inv, WorkerOK
<1>3. q \in QuarantineRecords
  <2>1. clock \in Nat /\ HourLength \in Nat \ {0}
    BY LimitsAssumption DEF Inv, TypeOK
  <2>2. hour \in Nat
    BY <2>1
  <2>. HIDE DEF hour
  <2>. QED
    BY <1>2, <2>1, <2>2 DEF QuarantineRecords
<1>4. r \in WorkerState /\ r.pc = "ack" /\ r.msg = worker[w].msg
  BY <1>2, HoldingType
<1>5. worker' \in [Workers -> WorkerState] /\ worker'[w] = r /\ OnlyMoves(w)
  BY <1>1, <1>2, <1>4, BecomesType DEF OnlyMoves
<1>6. Grows
  BY <1>1 DEF Grows
<1>7. WorkerOK(w)'
  <2>1. EventAt(w)' = EventAt(w)
    BY <1>4, <1>5 DEF EventAt
  <2>2. q \in quarantine' /\ q.event = EventAt(w)
    BY <1>1
  <2>3. EventAt(w) \in RefusedEvents'
    <3>. HIDE DEF q
    <3>. QED
      BY <2>2 DEF RefusedEvents
  <2>. HIDE DEF q, r
  <2>. QED
    BY <1>2, <1>4, <1>5, <2>1, <2>3 DEF WorkerOK
<1>8. \A v \in Workers : WorkerOK(v)'
  BY <1>5, <1>6, <1>7, WorkersOK
<1>9. PointersResolve' /\ AckedIsSettled'
  BY <1>1, <1>6, PointersStable, AckedStable
<1>10. TypeOK' /\ DeliveriesLeft'
  <2>. HIDE DEF q
  <2>. QED
    BY <1>1, <1>3, <1>5 DEF Inv, TypeOK, DeliveriesLeft
<1>. QED
  BY <1>8, <1>9, <1>10 DEF Inv

(* The worker that acknowledges holds a settled message.                   *)
LEMMA AckKeepsInv ==
  ASSUME Inv, NEW w \in Workers, Ack(w)
  PROVE  Inv'
<1>. DEFINE n == worker[w].msg
<1>1. /\ worker[w].pc = "ack"
      /\ delivery' = [delivery EXCEPT ![n] =
                        IF delivery[n] = "exhausted" THEN delivery[n] ELSE "acked"]
      /\ Becomes(w, Idle)
      /\ UNCHANGED <<deliveries, store, quarantine, announced, clock>>
  BY DEF Ack
<1>2. /\ n \in Messages
      /\ worker \in [Workers -> WorkerState]
      /\ delivery \in [Messages -> DeliveryStates]
      /\ EventOf[n] \in CompleteEvents \cup RefusedEvents
  BY <1>1, BusyWorker DEF Inv, TypeOK, WorkerOK, EventAt
<1>3. /\ delivery' \in [Messages -> DeliveryStates]
      /\ \A m \in Messages \ {n} : delivery'[m] = delivery[m]
      /\ delivery'[n] # "ready"
  <2>. HIDE DEF n
  <2>. QED
    BY <1>1, <1>2 DEF DeliveryStates
<1>4. Grows
  BY <1>1, UnchangedGrows
<1>5. /\ worker' \in [Workers -> WorkerState]
      /\ worker'[w] = Idle
      /\ OnlyMoves(w)
  BY <1>1, <1>2, IdleType, BecomesType DEF OnlyMoves
<1>6. WorkerOK(w)'
  BY <1>5, IdleType DEF WorkerOK
<1>7. \A v \in Workers : WorkerOK(v)'
  BY <1>4, <1>5, <1>6, WorkersOK
<1>8. PointersResolve'
  BY <1>1, <1>4, PointersStable
<1>9. AckedIsSettled'
  BY <1>2, <1>3, <1>4, GrowsKeepsSettled DEF Inv, AckedIsSettled
<1>10. TypeOK' /\ DeliveriesLeft'
  BY <1>1, <1>3, <1>5 DEF Inv, TypeOK, DeliveriesLeft
<1>. QED
  BY <1>7, <1>8, <1>9, <1>10 DEF Inv

(* Every fetched message had a delivery left.                              *)
LEMMA FetchKeepsInv ==
  ASSUME Inv, NEW w \in Workers, NEW m \in Messages,
         NEW rest \in SUBSET (Messages \ {m}), Fetch(w, m, rest)
  PROVE  Inv'
<1>1. /\ delivery' = [n \in Messages |->
                        IF n \in {m} \cup rest THEN "pending" ELSE delivery[n]]
      /\ deliveries' = [n \in Messages |->
                          IF n \in {m} \cup rest THEN deliveries[n] + 1
                                                 ELSE deliveries[n]]
      /\ \A n \in {m} \cup rest : delivery[n] = "ready"
      /\ Becomes(w, Holding(m, "fetched"))
      /\ UNCHANGED <<store, quarantine, announced, clock>>
  BY DEF Fetch
<1>2. /\ worker \in [Workers -> WorkerState]
      /\ delivery \in [Messages -> DeliveryStates]
      /\ deliveries \in [Messages -> 0..MaxDeliver]
      /\ MaxDeliver \in Nat
  BY LimitsAssumption DEF Inv, TypeOK
<1>3. delivery' \in [Messages -> DeliveryStates]
  BY <1>1, <1>2 DEF DeliveryStates
<1>4. deliveries' \in [Messages -> 0..MaxDeliver]
  BY <1>1, <1>2 DEF Inv, DeliveriesLeft
<1>5. DeliveriesLeft'
  BY <1>1, <1>2 DEF Inv, DeliveriesLeft
<1>6. /\ Holding(m, "fetched") \in WorkerState
      /\ Holding(m, "fetched").pc = "fetched"
      /\ Holding(m, "fetched").msg = m
  BY HoldingType
<1>7. /\ worker' \in [Workers -> WorkerState]
      /\ worker'[w] = Holding(m, "fetched")
      /\ OnlyMoves(w)
  BY <1>1, <1>2, <1>6, BecomesType DEF OnlyMoves
<1>8. Grows
  BY <1>1, UnchangedGrows
<1>9. WorkerOK(w)'
  BY <1>6, <1>7 DEF WorkerOK
<1>10. \A v \in Workers : WorkerOK(v)'
  BY <1>7, <1>8, <1>9, WorkersOK
<1>11. PointersResolve' /\ AckedIsSettled'
  BY <1>1, <1>8, PointersStable, AckedStable
<1>12. TypeOK'
  BY <1>1, <1>3, <1>4, <1>7 DEF Inv, TypeOK
<1>. QED
  BY <1>5, <1>10, <1>11, <1>12 DEF Inv

(* Steps of no worker, and stuttering.                                     *)
LEMMA EnvironmentKeepsInv ==
  ASSUME Inv,
         \/ \E m \in Messages : AckWaitExpires(m)
         \/ Tick
         \/ UNCHANGED vars
  PROVE  Inv'
<1>1. UNCHANGED <<deliveries, worker, store, quarantine, announced>>
  BY DEF AckWaitExpires, Tick, vars
<1>2. Grows
  BY <1>1, UnchangedGrows
<1>3. \A v \in Workers : WorkerOK(v)'
  BY <1>1, <1>2, WorkerOKStable DEF Inv
<1>4. PointersResolve'
  BY <1>1, <1>2, PointersStable
<1>5. CASE \E m \in Messages : AckWaitExpires(m)
  <2>1. PICK n \in Messages : AckWaitExpires(n)
    BY <1>5
  <2>2. /\ delivery' \in [Messages -> DeliveryStates]
        /\ \A m \in Messages \ {n} : delivery'[m] = delivery[m]
        /\ delivery'[n] # "acked"
        /\ delivery'[n] = "ready" => deliveries[n] < MaxDeliver
        /\ clock' = clock
    BY <2>1 DEF AckWaitExpires, Inv, TypeOK, DeliveryStates
  <2>3. AckedIsSettled'
    BY <1>2, <2>2, AckedStable
  <2>. QED
    BY <1>1, <1>3, <1>4, <2>2, <2>3 DEF Inv, TypeOK, DeliveriesLeft
<1>6. CASE Tick \/ UNCHANGED vars
  <2>1. delivery' = delivery /\ clock' \in 0..MaxClock
    BY <1>6, LimitsAssumption DEF Inv, TypeOK, Tick, vars
  <2>2. AckedIsSettled'
    BY <1>2, <2>1, AckedStable
  <2>. QED
    BY <1>1, <1>3, <1>4, <2>1, <2>2 DEF Inv, TypeOK, DeliveriesLeft
<1>. QED
  BY <1>5, <1>6

-----------------------------------------------------------------------------
(***************************************************************************)
(* The invariant and what follows from it                                  *)
(***************************************************************************)

LEMMA InitInv == Init => Inv
<1>. SUFFICES ASSUME Init PROVE Inv
  OBVIOUS
<1>1. TypeOK
  BY IdleType, LimitsAssumption DEF Init, TypeOK, DeliveryStates
<1>2. DeliveriesLeft
  BY LimitsAssumption DEF Init, DeliveriesLeft
<1>3. ASSUME NEW v \in Workers PROVE WorkerOK(v)
  BY IdleType DEF Init, WorkerOK
<1>4. PointersResolve /\ AckedIsSettled
  BY DEF Init, PointersResolve, AckedIsSettled
<1>. QED
  BY <1>1, <1>2, <1>3, <1>4 DEF Inv

LEMMA NextInv == Inv /\ [Next]_vars => Inv'
<1>. SUFFICES ASSUME Inv, [Next]_vars PROVE Inv'
  OBVIOUS
<1>1. ASSUME NEW w \in Workers, Receive(w) PROVE Inv'
  BY <1>1, FetchKeepsInv DEF Receive
<1>2. ASSUME NEW w \in Workers, Abandon(w) PROVE Inv'
  BY <1>2, AbandonKeepsInv
<1>3. ASSUME NEW w \in Workers, Work(w) PROVE Inv'
  <2>1. CASE CheckIndex(w)
    BY <2>1, CheckIndexKeepsInv
  <2>2. CASE \E claim \in Claims, calls \in Calls, ctx \in Contexts :
               Structure(w, claim, calls, ctx)
    BY <2>2, StructureKeepsInv
  <2>3. CASE \E e \in Events : ReadMember(w, e)
    BY <2>3, ReadMemberKeepsInv
  <2>4. CASE AcceptDraft(w)
    BY <2>4, AcceptDraftKeepsInv
  <2>5. CASE \E k \in ObjectKinds : PutObject(w, k)
    BY <2>5, PutObjectKeepsInv
  <2>6. CASE \E k \in PublishKinds : Publish(w, k)
    BY <2>6, PublishKeepsInv
  <2>7. CASE SkipFlag(w)
    BY <2>7, SkipFlagKeepsInv
  <2>8. CASE WriteQuarantine(w)
    BY <2>8, WriteQuarantineKeepsInv
  <2>9. CASE Ack(w)
    BY <2>9, AckKeepsInv
  <2>10. CASE \/ RejectPointer(w) \/ RejectRecord(w) \/ FailRecord(w)
              \/ QuarantineConflict(w) \/ \E k \in ObjectKinds : PutConflict(w, k)
    BY <2>10, RefusalsKeepInv
  <2>. QED
    BY <1>3, <2>1, <2>2, <2>3, <2>4, <2>5, <2>6, <2>7, <2>8, <2>9, <2>10 DEF Work
<1>4. CASE (\E m \in Messages : AckWaitExpires(m)) \/ Tick \/ UNCHANGED vars
  BY <1>4, EnvironmentKeepsInv
<1>. QED
  BY <1>1, <1>2, <1>3, <1>4 DEF Next

LEMMA Invariance == Spec => []Inv
BY InitInv, NextInv, PTL DEF Spec

(* Every variable keeps its type; in particular no message is delivered    *)
(* more than MaxDeliver times, however many workers fetch.                 *)
THEOREM TypeCorrect == Spec => []TypeOK
<1>1. Inv => TypeOK
  BY DEF Inv
<1>. QED
  BY <1>1, Invariance, PTL

(* Every announced pointer, flag and health event is the stored object,    *)
(* with the manifest and the prepared index beside it (process_pointer's   *)
(* order of put_json_idempotent and publish).                              *)
THEOREM PointersResolveAlways == Spec => []PointersResolve
<1>1. Inv => PointersResolve
  BY DEF Inv
<1>. QED
  BY <1>1, Invariance, PTL

-----------------------------------------------------------------------------
(***************************************************************************)
(* Complete events stay complete                                           *)
(***************************************************************************)

LEMMA PutObjectGrows ==
  ASSUME Inv, NEW w \in Workers, NEW k \in ObjectKinds, PutObject(w, k)
  PROVE  Grows
<1>. DEFINE d == worker[w].draft
            key == Key(k, EventAt(w), d)
<1>1. /\ store[key] \in {None, Content(k, d)}
      /\ store' = [store EXCEPT ![key] = Content(k, d)]
      /\ UNCHANGED <<quarantine, announced>>
      /\ store \in [Keys -> Contents \cup {None}]
  BY DEF PutObject, PutSucceeds, Inv, TypeOK
<1>. HIDE DEF key
<1>. QED
  BY <1>1 DEF Grows

LEMMA PublishGrows ==
  ASSUME Inv, NEW w \in Workers, NEW k \in PublishKinds, Publish(w, k)
  PROVE  Grows
<1>. DEFINE id == <<k, EventAt(w)>>
            payload == Content(k, worker[w].draft)
<1>1. /\ \/ announced' = [announced EXCEPT ![id] = announced[id] \cup {payload}]
         \/ announced' = announced
      /\ UNCHANGED <<store, quarantine>>
      /\ announced \in [PublishKinds \X Events -> SUBSET Contents]
  BY DEF Publish, Inv, TypeOK
<1>. HIDE DEF id, payload
<1>. QED
  BY <1>1 DEF Grows

LEMMA NextGrows ==
  ASSUME Inv, [Next]_vars
  PROVE  Grows
<1>1. ASSUME NEW w \in Workers, Work(w) PROVE Grows
  <2>1. CASE \E k \in ObjectKinds : PutObject(w, k)
    BY <2>1, PutObjectGrows
  <2>2. CASE \E k \in PublishKinds : Publish(w, k)
    BY <2>2, PublishGrows
  <2>3. CASE WriteQuarantine(w)
    BY <2>3 DEF WriteQuarantine, Grows
  <2>4. CASE \/ RejectPointer(w) \/ CheckIndex(w) \/ RejectRecord(w) \/ FailRecord(w)
             \/ \E claim \in Claims, calls \in Calls, ctx \in Contexts :
                  Structure(w, claim, calls, ctx)
             \/ \E e \in Events : ReadMember(w, e)
             \/ AcceptDraft(w)
             \/ \E k \in ObjectKinds : PutConflict(w, k)
             \/ SkipFlag(w) \/ QuarantineConflict(w) \/ Ack(w)
    <3>1. UNCHANGED <<store, announced, quarantine>>
      BY <2>4 DEF RejectPointer, CheckIndex, RejectRecord, FailRecord, Structure,
                  ReadMember, AcceptDraft, PutConflict, SkipFlag, QuarantineConflict, Ack
    <3>. QED
      BY <3>1, UnchangedGrows
  <2>. QED
    BY <1>1, <2>1, <2>2, <2>3, <2>4 DEF Work
<1>2. ASSUME NEW w \in Workers, Receive(w) \/ Abandon(w) PROVE Grows
  BY <1>2, UnchangedGrows DEF Receive, Fetch, Abandon
<1>3. CASE (\E m \in Messages : AckWaitExpires(m)) \/ Tick \/ UNCHANGED vars
  BY <1>3, UnchangedGrows DEF AckWaitExpires, Tick, vars
<1>. QED
  BY <1>1, <1>2, <1>3 DEF Next

(* Once set, an object, an announcement or a quarantine record is never    *)
(* changed or withdrawn, whichever workers write (put_bytes_idempotent).   *)
THEOREM NothingIsOverwritten == Spec => [][Grows]_vars
<1>1. Inv /\ [Next]_vars => [Grows]_vars
  BY NextGrows
<1>. QED
  BY <1>1, Invariance, PTL DEF Spec

(* What an event is complete with, it stays complete with: the announced   *)
(* payloads are the stored ones, so a repeated announcement is the same.   *)
LEMMA CompleteWithStable ==
  ASSUME Inv, Inv', Grows, NEW e \in Events, NEW d \in Drafts, CompleteWith(e, d)
  PROVE  CompleteWith(e, d)'
<1>1. ASSUME NEW k \in ObjectKinds, Wanted(k, d)
      PROVE  store'[Key(k, e, d)] = Content(k, d)
  <2>1. store[Key(k, e, d)] = Content(k, d)
    BY <1>1 DEF CompleteWith
  <2>2. Key(k, e, d) \in Keys /\ Content(k, d) # None
    BY KeyType, ContentType
  <2>. QED
    BY <2>1, <2>2 DEF Grows
<1>2. ASSUME NEW k \in PublishKinds, Wanted(k, d)
      PROVE  announced'[<<k, e>>] = {Content(k, d)}
  <2>1. Content(k, d) \in announced'[<<k, e>>]
    <3>1. Content(k, d) \in announced[<<k, e>>]
      BY <1>2 DEF CompleteWith
    <3>. QED
      BY <3>1 DEF Grows
  <2>2. \A p \in announced'[<<k, e>>] : p = Content(k, d)
    <3>1. k \in ObjectKinds \ StoryKinds
      BY PublishIsObject
    <3>2. store'[EventKey(k, e)] = Content(k, d)
      BY <1>1, <1>2, <3>1, EventKeyOfKey
    <3>3. \A p \in announced'[<<k, e>>] : store'[EventKey(k, e)] = p
      BY DEF Inv, PointersResolve, EventKey
    <3>. QED
      BY <3>2, <3>3
  <2>. QED
    BY <2>1, <2>2
<1>. QED
  BY <1>1, <1>2 DEF CompleteWith

(* The worker that writes the success index completes the event with its   *)
(* own draft: it has written and announced everything else before.         *)
LEMMA SuccessCompletes ==
  ASSUME Inv, Inv', NEW w \in Workers, PutObject(w, "success_index"),
         NEW e, e = EventAt(w), NEW d, d = worker[w].draft
  PROVE  CompleteWith(e, d)'
<1>1. worker[w].pc = "write" /\ worker[w].step = 12
  BY Ranks DEF PutObject, AtPut
<1>2. e \in Events /\ d \in Drafts /\ WrittenBefore(w)
  BY <1>1, WritingWorker
<1>3. Grows
  BY PutObjectGrows DEF ObjectKinds
<1>4. ASSUME NEW k \in ObjectKinds, Wanted(k, d)
      PROVE  store'[Key(k, e, d)] = Content(k, d)
  <2>1. Key(k, e, d) \in Keys /\ Content(k, d) # None
    BY <1>2, KeyType, ContentType
  <2>2. CASE k = "success_index"
    <3>1. /\ store \in [Keys -> Contents \cup {None}]
          /\ store' = [store EXCEPT ![Key(k, e, d)] = Content(k, d)]
      BY <2>2 DEF PutObject, Inv, TypeOK
    <3>. QED
      BY <2>1, <3>1
  <2>3. CASE k # "success_index"
    <3>1. PutRank[k] < 12
      BY <2>3, Ranks
    <3>2. store[Key(k, e, d)] = Content(k, d)
      BY <1>1, <1>2, <1>4, <3>1 DEF WrittenBefore
    <3>. QED
      BY <1>3, <2>1, <3>2 DEF Grows
  <2>. QED
    BY <2>2, <2>3
<1>5. ASSUME NEW k \in PublishKinds, Wanted(k, d)
      PROVE  announced'[<<k, e>>] = {Content(k, d)}
  <2>1. PublishRank[k] < 12
    BY Ranks
  <2>2. Content(k, d) \in announced[<<k, e>>]
    BY <1>1, <1>2, <1>5, <2>1 DEF WrittenBefore
  <2>3. Content(k, d) \in announced'[<<k, e>>]
    BY <1>2, <1>3, <2>2 DEF Grows
  <2>4. k \in ObjectKinds \ StoryKinds
    BY PublishIsObject
  <2>5. store'[EventKey(k, e)] = Content(k, d)
    BY <1>4, <1>5, <2>4, EventKeyOfKey
  <2>6. \A p \in announced'[<<k, e>>] : store'[EventKey(k, e)] = p
    BY <1>2 DEF Inv, PointersResolve, EventKey
  <2>. QED
    BY <2>3, <2>5, <2>6
<1>. QED
  BY <1>4, <1>5 DEF CompleteWith

(* Only the write of its success index completes an event.                 *)
LEMMA NewlyComplete ==
  ASSUME Inv, [Next]_vars, NEW e \in Events, Indexed(e)', ~Indexed(e)
  PROVE  \E w \in Workers : PutObject(w, "success_index") /\ e = EventAt(w)
<1>. DEFINE index == EventKey("success_index", e)
<1>1. /\ store[index] = None
      /\ store'[index] # None
      /\ index \in Keys
      /\ index.kind = "success_index" /\ index.event = e
  BY DEF Indexed, Exists, EventKey, Keys, ObjectKinds
<1>2. PICK w \in Workers, k \in ObjectKinds : PutObject(w, k)
  <2>1. store' # store
    BY <1>1
  <2>. QED
    BY <2>1 DEF Next, vars, Receive, Fetch, Abandon, AckWaitExpires, Tick, Work,
         RejectPointer, CheckIndex, RejectRecord, FailRecord, Structure, ReadMember,
         AcceptDraft, PutConflict, SkipFlag, Publish, WriteQuarantine,
         QuarantineConflict, Ack
<1>3. Key(k, EventAt(w), worker[w].draft) = index
  <2>. DEFINE key == Key(k, EventAt(w), worker[w].draft)
  <2>1. /\ store' = [store EXCEPT ![key] = Content(k, worker[w].draft)]
        /\ store \in [Keys -> Contents \cup {None}]
    BY <1>2 DEF PutObject, Inv, TypeOK
  <2>. HIDE DEF key, index
  <2>2. key = index
    BY <1>1, <2>1
  <2>. QED
    BY <2>2 DEF key
<1>4. k = "success_index" /\ e = EventAt(w)
  BY <1>1, <1>3 DEF Key
<1>. QED
  BY <1>2, <1>4

(* A success index stands for one draft that has been stored and announced *)
(* in full (the order of the writes and publishes of process_pointer),     *)
(* whoever else wrote or announced parts of it.                            *)
THEOREM SuccessIsCompleteAlways == Spec => []SuccessIsComplete
<1>1. Init => SuccessIsComplete
  BY DEF Init, SuccessIsComplete, CompleteEvents, Indexed, Exists, EventKey, Keys, ObjectKinds
<1>2. ASSUME Inv, Inv', SuccessIsComplete, [Next]_vars PROVE SuccessIsComplete'
  <2>1. SUFFICES ASSUME NEW e \in Events, Indexed(e)'
                 PROVE  \E d \in Drafts : CompleteWith(e, d)'
    BY DEF SuccessIsComplete, CompleteEvents
  <2>2. CASE Indexed(e)
    <3>1. PICK d \in Drafts : CompleteWith(e, d)
      BY <1>2, <2>2 DEF SuccessIsComplete, CompleteEvents
    <3>. QED
      BY <1>2, <3>1, NextGrows, CompleteWithStable
  <2>3. CASE ~Indexed(e)
    <3>1. PICK w \in Workers : PutObject(w, "success_index") /\ e = EventAt(w)
      BY <1>2, <2>1, <2>3, NewlyComplete
    <3>2. worker[w].draft \in Drafts
      BY <1>2, <3>1, WritingWorker DEF PutObject, AtPut
    <3>3. PICK d \in Drafts : d = worker[w].draft
      BY <3>2
    <3>. QED
      BY <1>2, <3>1, <3>3, SuccessCompletes
  <2>. QED
    BY <2>2, <2>3
<1>. QED
  BY <1>1, <1>2, Invariance, PTL DEF Spec
=============================================================================
