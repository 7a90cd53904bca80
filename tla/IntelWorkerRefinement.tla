----------------------- MODULE IntelWorkerRefinement -----------------------
(***************************************************************************)
(* IntelWorker implements IntelContract and RevisionZero, and the two of   *)
(* its invariants that need more than what IntelWorkerProofs shows, again  *)
(* for every value of the constants.                                       *)
(*                                                                         *)
(* Attempts at one event may draft different things, but the structured    *)
(* packet lets only those through that agree on claim, context and merged  *)
(* members, and the health event only those that agree on the model calls  *)
(* too.  So every later object of the event stands for one draft (Backed), *)
(* and an attempt that gets that far writes nothing else.                  *)
(***************************************************************************)
EXTENDS IntelWorkerProofs

EventKinds == ObjectKinds \ StoryKinds

Early == StoryKinds \cup {"structured", "health"}

(* The objects that determine the content of an object of kind k.          *)
DeterminedBy(k) ==
  IF k \in {"structured", "health"} THEN {}
  ELSE IF k \in {"revision_index", "flag"} THEN {"structured"}
  ELSE {"structured", "health"}

Matches(e, k, d) == store[EventKey(k, e)] = Content(k, d)

BackedBy(e, k, d) == Matches(e, k, d) /\ \A j \in DeterminedBy(k) : Matches(e, j, d)

Backed ==
  \A e \in Events, k \in EventKinds :
    Exists(EventKey(k, e)) => \E d \in Drafts : BackedBy(e, k, d)

DraftOK(v) ==
  /\ worker[v].pc \in {"merge", "write"} => worker[v].draft.merged \subseteq CompleteEvents
  /\ worker[v].pc = "quarantine" /\ worker[v].cause.class = "conflict" =>
       worker[v].cause.key.kind \in Early

(* With Inv, the inductive invariant.                                      *)
DraftInv == Backed /\ (\A v \in Workers : DraftOK(v)) /\ SourcesAreComplete

-----------------------------------------------------------------------------
(***************************************************************************)
(* Facts about objects                                                     *)
(***************************************************************************)

(* The packet shows the claim, the context and the merged members.         *)
LEMMA PacketShows ==
  ASSUME NEW c \in Drafts, NEW d \in Drafts,
         Content("structured", c) = Content("structured", d)
  PROVE  c.claim = d.claim /\ c.ctx = d.ctx /\ c.merged = d.merged
<1>. DEFINE P(x) == [claim |-> x.claim, ctx |-> x.ctx, merged |-> x.merged]
<1>1. Content("structured", c) = P(c) /\ Content("structured", d) = P(d)
  BY DEF Content
<1>2. P(c) = P(d)
  BY <1>1
<1>. QED
  BY <1>2

(* The health event shows the model calls.                                 *)
LEMMA HealthShows ==
  ASSUME NEW c \in Drafts, NEW d \in Drafts, Content("health", c) = Content("health", d)
  PROVE  c.calls = d.calls
<1>. DEFINE P(x) == [claim |-> x.claim, calls |-> x.calls, merged |-> x.merged,
                     flag |-> HasFlag(x)]
<1>1. Content("health", c) = P(c) /\ Content("health", d) = P(d)
  BY DEF Content
<1>2. P(c) = P(d)
  BY <1>1
<1>. QED
  BY <1>2

LEMMA ContentIsDetermined ==
  ASSUME NEW c \in Drafts, NEW d \in Drafts, NEW k \in EventKinds \ Early,
         \A j \in DeterminedBy(k) : Content(j, c) = Content(j, d)
  PROVE  Content(k, c) = Content(k, d)
<1>1. k \in {"revision_index", "flag", "manifest", "prepared_index", "success_index"}
  BY DEF EventKinds, Early, ObjectKinds, StoryKinds
<1>2. c.claim = d.claim /\ c.ctx = d.ctx /\ c.merged = d.merged
  BY <1>1, PacketShows DEF DeterminedBy
<1>3. HasFlag(c) = HasFlag(d)
  BY <1>2 DEF HasFlag
<1>4. CASE k = "revision_index"
  <2>1. Content(k, c) = [ctx |-> c.ctx] /\ Content(k, d) = [ctx |-> d.ctx]
    BY <1>4 DEF Content
  <2>. QED
    BY <1>2, <2>1
<1>5. CASE k = "flag"
  <2>1. /\ Content(k, c) = [claim |-> c.claim, merged |-> c.merged]
        /\ Content(k, d) = [claim |-> d.claim, merged |-> d.merged]
    BY <1>5 DEF Content
  <2>. QED
    BY <1>2, <2>1
<1>6. CASE k \in {"prepared_index", "success_index"}
  <2>1. Content(k, c) = [flag |-> HasFlag(c)] /\ Content(k, d) = [flag |-> HasFlag(d)]
    BY <1>6 DEF Content
  <2>. QED
    BY <1>3, <2>1
<1>7. CASE k = "manifest"
  <2>1. c.calls = d.calls
    BY <1>7, HealthShows DEF DeterminedBy
  <2>2. c = d
    BY <1>2, <2>1 DEF Drafts
  <2>. QED
    BY <2>2
<1>. QED
  BY <1>1, <1>4, <1>5, <1>6, <1>7

(* What an object depends on is written before it, and always wanted.      *)
LEMMA DeterminedFirst ==
  ASSUME NEW k \in EventKinds, NEW j \in DeterminedBy(k), NEW d
  PROVE  /\ j \in EventKinds
         /\ j \in ObjectKinds
         /\ PutRank[j] < PutRank[k]
         /\ Wanted(j, d)
<1>1. j \in {"structured", "health"}
  BY DEF DeterminedBy
<1>2. /\ PutRank["structured"] = 3     /\ PutRank["revision_index"] = 4
      /\ PutRank["flag"] = 5           /\ PutRank["health"] = 6
      /\ PutRank["manifest"] = 7       /\ PutRank["prepared_index"] = 8
      /\ PutRank["success_index"] = 12
  BY DEF PutRank
<1>3. PutRank[j] < PutRank[k]
  BY <1>1, <1>2 DEF DeterminedBy, EventKinds, ObjectKinds, StoryKinds
<1>. QED
  BY <1>1, <1>3 DEF EventKinds, ObjectKinds, StoryKinds, Wanted

LEMMA EventKeyType ==
  ASSUME NEW k \in ObjectKinds, NEW e \in Events
  PROVE  /\ EventKey(k, e) \in Keys
         /\ EventKey(k, e).kind = k
         /\ EventKey(k, e).event = e
BY DEF EventKey, Keys

LEMMA CompleteGrows == Grows => CompleteEvents \subseteq CompleteEvents'
<1>1. ASSUME Grows, NEW e \in CompleteEvents PROVE e \in CompleteEvents'
  <2>1. EventKey("success_index", e) \in Keys
    BY EventKeyType DEF CompleteEvents, ObjectKinds
  <2>. QED
    BY <1>1, <2>1 DEF Grows, CompleteEvents, Indexed, Exists, EventKey
<1>. QED
  BY <1>1

LEMMA MatchesStable ==
  ASSUME Grows, NEW e \in Events, NEW k \in ObjectKinds, NEW d \in Drafts, Matches(e, k, d)
  PROVE  Matches(e, k, d)'
<1>1. EventKey(k, e) \in Keys /\ Content(k, d) # None
  BY EventKeyType, ContentType
<1>2. store'[EventKey(k, e)] = Content(k, d)
  BY <1>1 DEF Grows, Matches
<1>. QED
  BY <1>2 DEF Matches

(* What a write does.                                                      *)
LEMMA PutObjectDoes ==
  ASSUME Inv, NEW w \in Workers, NEW k \in ObjectKinds, PutObject(w, k)
  PROVE  /\ worker[w].pc = "write" /\ worker[w].step = PutRank[k]
         /\ EventAt(w) \in Events
         /\ worker[w].draft \in Drafts
         /\ WrittenBefore(w)
         /\ Grows
         /\ Becomes(w, Advanced(w))
         /\ store'[Key(k, EventAt(w), worker[w].draft)] = Content(k, worker[w].draft)
         /\ \A other \in Keys :
              other # Key(k, EventAt(w), worker[w].draft) => store'[other] = store[other]
<1>. DEFINE key == Key(k, EventAt(w), worker[w].draft)
<1>1. /\ worker[w].pc = "write"
      /\ worker[w].step = PutRank[k]
      /\ store' = [store EXCEPT ![key] = Content(k, worker[w].draft)]
      /\ Becomes(w, Advanced(w))
  BY DEF PutObject, AtPut
<1>2. EventAt(w) \in Events /\ worker[w].draft \in Drafts /\ WrittenBefore(w)
  BY <1>1, WritingWorker
<1>3. key \in Keys /\ store \in [Keys -> Contents \cup {None}]
  BY <1>2, KeyType DEF Inv, TypeOK
<1>4. /\ store'[key] = Content(k, worker[w].draft)
      /\ \A other \in Keys : other # key => store'[other] = store[other]
  <2>. HIDE DEF key
  <2>. QED
    BY <1>1, <1>3
<1>. QED
  BY <1>1, <1>2, <1>4, PutObjectGrows

-----------------------------------------------------------------------------
(***************************************************************************)
(* What attempts carry                                                     *)
(***************************************************************************)

(* What a worker carries stays right while others move.                    *)
LEMMA OthersDraftOK ==
  ASSUME Grows, NEW v \in Workers, DraftOK(v), worker'[v] = worker[v]
  PROVE  DraftOK(v)'
BY CompleteGrows DEF DraftOK

LEMMA AllDraftsOK ==
  ASSUME DraftInv, Grows, NEW w \in Workers, NEW r \in WorkerState, TypeOK,
         Becomes(w, r), DraftOK(w)'
  PROVE  \A v \in Workers : DraftOK(v)'
<1>1. \A v \in Workers \ {w} : worker'[v] = worker[v]
  BY BecomesType DEF TypeOK
<1>2. ASSUME NEW v \in Workers, v # w PROVE DraftOK(v)'
  BY <1>1, <1>2, OthersDraftOK DEF DraftInv
<1>. QED
  BY <1>2

LEMMA StructureDraftOK ==
  ASSUME Inv, NEW w \in Workers, NEW claim \in Claims, NEW calls \in Calls,
         NEW ctx \in Contexts, Structure(w, claim, calls, ctx)
  PROVE  DraftOK(w)' /\ \E r \in WorkerState : Becomes(w, r)
<1>. DEFINE h == Holding(worker[w].msg, "merge")
            d == [claim |-> claim, calls |-> calls, ctx |-> ctx, merged |-> {}]
            unread == Listed(StoryOf[EventAt(w)][claim]) \ {EventAt(w)}
            r == [h EXCEPT !.draft = d, !.unread = unread]
<1>1. worker[w].msg \in Messages /\ worker \in [Workers -> WorkerState]
  BY BusyWorker DEF Structure
<1>2. d \in Drafts /\ d.merged = {}
  BY DEF Drafts
<1>3. unread \in SUBSET Events
  BY DEF Listed
<1>4. h \in WorkerState /\ h.pc = "merge"
  BY <1>1, HoldingType
<1>5. r \in WorkerState /\ r.pc = "merge" /\ r.draft = d
  <2>. HIDE DEF h, d, unread
  <2>. QED
    BY <1>2, <1>3, <1>4 DEF WorkerState
<1>6. Becomes(w, r)
  BY DEF Structure
<1>7. worker'[w] = r
  <2>. HIDE DEF r
  <2>. QED
    BY <1>1, <1>5, <1>6, BecomesType
<1>8. worker'[w].pc = "merge" /\ worker'[w].draft.merged = {}
  <2>. HIDE DEF d, r
  <2>. QED
    BY <1>2, <1>5, <1>7
<1>. QED
  BY <1>5, <1>6, <1>8 DEF DraftOK

(* A member is merged only when its event is complete.                     *)
LEMMA ReadMemberDraftOK ==
  ASSUME Inv, NEW w \in Workers, NEW f \in Events, ReadMember(w, f), DraftOK(w)
  PROVE  DraftOK(w)' /\ \E r \in WorkerState : Becomes(w, r)
<1>. DEFINE old == worker[w]
            merged == IF MergesMember(f) THEN old.draft.merged \cup {f} ELSE old.draft.merged
            d == [old.draft EXCEPT !.merged = merged]
            unread == old.unread \ {f}
            r == [old EXCEPT !.unread = unread, !.draft = d]
<1>1. /\ old.pc = "merge"
      /\ Becomes(w, r)
      /\ UNCHANGED store
  BY DEF ReadMember
<1>2. /\ worker \in [Workers -> WorkerState]
      /\ old \in WorkerState
      /\ old.draft \in Drafts
  BY <1>1, BusyWorker DEF Inv, WorkerOK
<1>3. merged \in SUBSET Events /\ merged \subseteq CompleteEvents
  <2>1. old.draft.merged \subseteq CompleteEvents
    BY <1>1 DEF DraftOK
  <2>. QED
    BY <2>1 DEF MergesMember, CompleteEvents
<1>4. d \in Drafts /\ d.merged = merged
  <2>. HIDE DEF merged, old
  <2>. QED
    BY <1>2, <1>3 DEF Drafts
<1>5. r \in WorkerState /\ r.pc = "merge" /\ r.draft = d
  <2>1. unread \in SUBSET Events
    BY <1>2 DEF WorkerState
  <2>. HIDE DEF d, unread, old
  <2>. QED
    BY <1>1, <1>2, <1>4, <2>1 DEF WorkerState
<1>6. worker'[w] = r
  <2>. HIDE DEF r
  <2>. QED
    BY <1>1, <1>2, <1>5, BecomesType
<1>7. worker'[w].pc = "merge" /\ worker'[w].draft.merged \subseteq CompleteEvents
  <2>. HIDE DEF d, r, merged
  <2>. QED
    BY <1>3, <1>4, <1>5, <1>6
<1>8. CompleteEvents' = CompleteEvents
  BY <1>1 DEF CompleteEvents, Indexed, Exists
<1>. QED
  BY <1>1, <1>5, <1>7, <1>8 DEF DraftOK

(* A worker that ends up neither with a draft nor with a conflict.         *)
LEMMA PlainDraftOK ==
  ASSUME Inv, NEW w \in Workers, NEW r \in WorkerState, Becomes(w, r),
         r.pc \notin {"merge", "write"},
         r.pc = "quarantine" => r.cause.class # "conflict"
  PROVE  DraftOK(w)'
<1>1. worker'[w] = r
  BY BecomesType DEF Inv, TypeOK
<1>. QED
  BY <1>1 DEF DraftOK

LEMMA RefuseDraftOK ==
  ASSUME Inv, NEW w \in Workers, worker[w].pc # "idle", NEW cause \in Causes,
         Becomes(w, Refusing(worker[w].msg, cause)),
         cause.class = "conflict" => cause.key.kind \in Early
  PROVE  DraftOK(w)' /\ \E r \in WorkerState : Becomes(w, r)
<1>. DEFINE r == Refusing(worker[w].msg, cause)
<1>1. worker[w].msg \in Messages /\ worker \in [Workers -> WorkerState]
  BY BusyWorker
<1>2. /\ r \in WorkerState /\ r.pc = "quarantine" /\ r.cause = cause
      /\ Becomes(w, r)
  BY <1>1, RefusingType
<1>3. worker'[w] = r
  <2>. HIDE DEF r
  <2>. QED
    BY <1>1, <1>2, BecomesType
<1>. QED
  BY <1>2, <1>3 DEF DraftOK

LEMMA HoldDraftOK ==
  ASSUME Inv, NEW w \in Workers, worker[w].pc # "idle",
         NEW pc \in {"fetched", "unindexed", "ack"}, Becomes(w, Holding(worker[w].msg, pc))
  PROVE  DraftOK(w)' /\ \E r \in WorkerState : Becomes(w, r)
<1>1. worker[w].msg \in Messages
  BY BusyWorker
<1>2. Holding(worker[w].msg, pc) \in WorkerState /\ Holding(worker[w].msg, pc).pc = pc
  BY <1>1, HoldingType
<1>. QED
  BY <1>2, PlainDraftOK

LEMMA IdleDraftOK ==
  ASSUME Inv, NEW w \in Workers, Becomes(w, Idle)
  PROVE  DraftOK(w)' /\ \E r \in WorkerState : Becomes(w, r)
BY IdleType, PlainDraftOK

LEMMA AcceptDraftOK ==
  ASSUME Inv, NEW w \in Workers, AcceptDraft(w), DraftOK(w)
  PROVE  DraftOK(w)' /\ \E r \in WorkerState : Becomes(w, r)
<1>. DEFINE old == worker[w]
            r == [old EXCEPT !.pc = "write", !.step = 1]
            cause == [class |-> "forbidden_output", key |-> None]
<1>1. old.pc = "merge" /\ UNCHANGED store
  BY DEF AcceptDraft
<1>2. /\ worker \in [Workers -> WorkerState]
      /\ old \in WorkerState
  BY <1>1, BusyWorker
<1>3. CASE old.draft.claim \in Forbidden
  <2>1. cause \in Causes /\ cause.class # "conflict"
    BY DEF Causes
  <2>2. Becomes(w, Refusing(old.msg, cause))
    BY <1>3 DEF AcceptDraft
  <2>. HIDE DEF cause
  <2>. QED
    BY <1>1, <2>1, <2>2, RefuseDraftOK
<1>4. CASE old.draft.claim \notin Forbidden
  <2>1. Becomes(w, r)
    BY <1>4 DEF AcceptDraft
  <2>2. /\ r \in WorkerState /\ r.pc = "write" /\ r.step = 1
        /\ r.msg = old.msg /\ r.draft = old.draft
    <3>. HIDE DEF old
    <3>1. 1 \in 0..12 /\ "write" \in {"merge", "write"}
      OBVIOUS
    <3>. QED
      BY <1>2, <3>1, WritingType, Zenon
  <2>3. worker'[w] = r
    <3>. HIDE DEF r
    <3>. QED
      BY <1>2, <2>1, <2>2, BecomesType
  <2>4. CompleteEvents' = CompleteEvents
    BY <1>1 DEF CompleteEvents, Indexed, Exists
  <2>. QED
    BY <1>1, <2>1, <2>2, <2>3, <2>4 DEF DraftOK
<1>. QED
  BY <1>3, <1>4

LEMMA AdvanceDraftOK ==
  ASSUME Inv, NEW w \in Workers, worker[w].pc = "write", Grows, DraftOK(w),
         Becomes(w, Advanced(w))
  PROVE  DraftOK(w)' /\ \E r \in WorkerState : Becomes(w, r)
<1>1. /\ worker[w] \in WorkerState
      /\ worker[w].msg \in Messages
      /\ worker[w].step \in 1..12
  BY WritingWorker
<1>2. Advanced(w) \in WorkerState
  BY <1>1, AdvancedType
<1>3. worker'[w] = Advanced(w)
  BY <1>2, BecomesType DEF Inv, TypeOK
<1>4. CASE worker[w].step = 12
  <2>1. Advanced(w).pc = "ack"
    BY <1>1, <1>4, AdvancedType, HoldingType
  <2>. QED
    BY <1>2, <2>1, PlainDraftOK
<1>5. CASE worker[w].step # 12
  <2>1. Advanced(w).pc = "write" /\ Advanced(w).draft = worker[w].draft
    BY <1>1, <1>5, AdvancedType
  <2>. QED
    BY <1>2, <1>3, <2>1, CompleteGrows DEF DraftOK
<1>. QED
  BY <1>4, <1>5

(* An attempt that has stored the packet and the health event meets no     *)
(* conflict any more.                                                      *)
LEMMA ConflictIsEarly ==
  ASSUME Inv, Backed, NEW w \in Workers, NEW k \in ObjectKinds, PutConflict(w, k)
  PROVE  k \in Early
<1>. DEFINE e == EventAt(w)
            d == worker[w].draft
<1>1. /\ worker[w].pc = "write"
      /\ worker[w].step = PutRank[k]
      /\ store[Key(k, e, d)] \notin {None, Content(k, d)}
  BY DEF PutConflict, AtPut, PutSucceeds
<1>2. e \in Events /\ d \in Drafts /\ WrittenBefore(w)
  BY <1>1, WritingWorker
<1>. SUFFICES ASSUME k \notin Early PROVE FALSE
  OBVIOUS
<1>3. k \in EventKinds \ Early
  BY DEF EventKinds, Early
<1>4. Key(k, e, d) = EventKey(k, e)
  BY <1>3, EventKeyOfKey DEF EventKinds
<1>5. PICK c \in Drafts : BackedBy(e, k, c)
  BY <1>1, <1>2, <1>3, <1>4 DEF Backed, Exists
<1>6. ASSUME NEW j \in DeterminedBy(k) PROVE Content(j, c) = Content(j, d)
  <2>1. j \in EventKinds /\ j \in ObjectKinds /\ PutRank[j] < PutRank[k] /\ Wanted(j, d)
    BY <1>3, DeterminedFirst
  <2>2. store[Key(j, e, d)] = Content(j, d)
    BY <1>1, <1>2, <2>1 DEF WrittenBefore
  <2>3. Key(j, e, d) = EventKey(j, e)
    BY <2>1, EventKeyOfKey DEF EventKinds
  <2>. QED
    BY <1>5, <2>2, <2>3 DEF BackedBy, Matches
<1>7. Content(k, c) = Content(k, d)
  <2>. HIDE DEF d
  <2>. QED
    BY <1>2, <1>3, <1>6, ContentIsDetermined
<1>. QED
  BY <1>1, <1>4, <1>5, <1>7 DEF BackedBy, Matches

LEMMA PutConflictDraftOK ==
  ASSUME Inv, Backed, NEW w \in Workers, NEW k \in ObjectKinds, PutConflict(w, k)
  PROVE  DraftOK(w)' /\ \E r \in WorkerState : Becomes(w, r)
<1>. DEFINE key == Key(k, EventAt(w), worker[w].draft)
            cause == [class |-> "conflict", key |-> key]
<1>1. worker[w].pc = "write" /\ Becomes(w, Refusing(worker[w].msg, cause))
  BY DEF PutConflict, AtPut
<1>2. key \in Keys /\ key.kind = k
  BY <1>1, WritingWorker, KeyType DEF Key
<1>3. cause \in Causes /\ cause.key = key
  <2>. HIDE DEF key
  <2>. QED
    BY <1>2 DEF Causes
<1>4. cause.key.kind \in Early
  BY <1>2, <1>3, ConflictIsEarly
<1>. HIDE DEF cause
<1>. QED
  BY <1>1, <1>3, <1>4, RefuseDraftOK

(* Every step of a worker.                                                 *)
LEMMA WorkDraftOK ==
  ASSUME Inv, DraftInv, NEW w \in Workers, Receive(w) \/ Work(w) \/ Abandon(w)
  PROVE  DraftOK(w)' /\ (worker' = worker \/ \E r \in WorkerState : Becomes(w, r))
<1>. DraftOK(w) /\ Backed
  BY DEF DraftInv
<1>1. CASE Receive(w)
  <2>1. PICK m \in Messages : Becomes(w, Holding(m, "fetched"))
    BY <1>1 DEF Receive, Fetch
  <2>2. Holding(m, "fetched") \in WorkerState /\ Holding(m, "fetched").pc = "fetched"
    BY HoldingType
  <2>. QED
    BY <2>1, <2>2, PlainDraftOK
<1>2. CASE Abandon(w)
  BY <1>2, IdleDraftOK DEF Abandon
<1>3. CASE RejectPointer(w)
  <2>1. [class |-> "invalid_pointer", key |-> None] \in Causes
    BY DEF Causes
  <2>. QED
    BY <1>3, <2>1, RefuseDraftOK DEF RejectPointer
<1>4. CASE CheckIndex(w)
  BY <1>4, HoldDraftOK DEF CheckIndex
<1>5. CASE RejectRecord(w)
  <2>1. [class |-> "broken_record", key |-> None] \in Causes
    BY DEF Causes
  <2>. QED
    BY <1>5, <2>1, RefuseDraftOK DEF RejectRecord
<1>6. CASE FailRecord(w)
  BY <1>6, IdleDraftOK DEF FailRecord
<1>7. CASE \E claim \in Claims, calls \in Calls, ctx \in Contexts :
             Structure(w, claim, calls, ctx)
  BY <1>7, StructureDraftOK
<1>8. CASE \E e \in Events : ReadMember(w, e)
  BY <1>8, ReadMemberDraftOK
<1>9. CASE AcceptDraft(w)
  BY <1>9, AcceptDraftOK
<1>10. CASE \E k \in ObjectKinds : PutObject(w, k)
  BY <1>10, PutObjectDoes, AdvanceDraftOK
<1>11. CASE \E k \in ObjectKinds : PutConflict(w, k)
  BY <1>11, PutConflictDraftOK
<1>12. CASE \E k \in PublishKinds : Publish(w, k)
  <2>1. Grows
    BY <1>12, PublishGrows
  <2>. QED
    BY <1>12, <2>1, AdvanceDraftOK DEF Publish, AtPublish
<1>13. CASE SkipFlag(w)
  <2>1. Grows
    BY <1>13, UnchangedGrows DEF SkipFlag
  <2>. QED
    BY <1>13, <2>1, AdvanceDraftOK DEF SkipFlag, AtPut, AtPublish
<1>14. CASE WriteQuarantine(w)
  BY <1>14, HoldDraftOK DEF WriteQuarantine
<1>15. CASE QuarantineConflict(w)
  BY <1>15, IdleDraftOK DEF QuarantineConflict
<1>16. CASE Ack(w)
  BY <1>16, IdleDraftOK DEF Ack
<1>. QED
  BY <1>1, <1>2, <1>3, <1>4, <1>5, <1>6, <1>7, <1>8, <1>9, <1>10, <1>11, <1>12,
     <1>13, <1>14, <1>15, <1>16 DEF Work

-----------------------------------------------------------------------------
(***************************************************************************)
(* The invariant                                                           *)
(***************************************************************************)

(* Only a write changes the store.                                         *)
LEMMA StoreChanges ==
  ASSUME [Next]_vars
  PROVE  UNCHANGED store \/ \E w \in Workers, k \in ObjectKinds : PutObject(w, k)
BY DEF Next, vars, Receive, Fetch, Abandon, AckWaitExpires, Tick, Work, RejectPointer,
       CheckIndex, RejectRecord, FailRecord, Structure, ReadMember, AcceptDraft,
       PutConflict, SkipFlag, Publish, WriteQuarantine, QuarantineConflict, Ack

LEMMA BackedByStable ==
  ASSUME Grows, NEW e \in Events, NEW k \in EventKinds, NEW d \in Drafts, BackedBy(e, k, d)
  PROVE  BackedBy(e, k, d)'
<1>1. k \in ObjectKinds /\ \A j \in DeterminedBy(k) : j \in ObjectKinds
  BY DeterminedFirst DEF EventKinds
<1>. QED
  BY <1>1, MatchesStable DEF BackedBy

LEMMA BackedKept ==
  ASSUME Inv, Backed, [Next]_vars
  PROVE  Backed'
<1>1. Grows
  BY NextGrows
<1>2. SUFFICES ASSUME NEW e \in Events, NEW k \in EventKinds,
                      store'[EventKey(k, e)] # None
               PROVE  \E d \in Drafts : BackedBy(e, k, d)'
  BY DEF Backed, Exists, EventKey
<1>3. CASE store[EventKey(k, e)] # None
  <2>1. PICK d \in Drafts : BackedBy(e, k, d)
    BY <1>3 DEF Backed, Exists
  <2>. QED
    BY <1>1, <2>1, BackedByStable
<1>4. CASE store[EventKey(k, e)] = None
  <2>1. PICK w \in Workers, p \in ObjectKinds : PutObject(w, p)
    BY <1>2, <1>4, StoreChanges
  <2>2. PICK d \in Drafts : d = worker[w].draft
    BY <2>1, PutObjectDoes
  <2>3. /\ worker[w].step = PutRank[p]
        /\ EventAt(w) \in Events
        /\ WrittenBefore(w)
        /\ store'[Key(p, EventAt(w), d)] = Content(p, d)
        /\ \A other \in Keys :
             other # Key(p, EventAt(w), d) => store'[other] = store[other]
    BY <2>1, <2>2, PutObjectDoes
  <2>4. k \in ObjectKinds /\ EventKey(k, e) \in Keys
    BY EventKeyType DEF EventKinds
  <2>5. EventKey(k, e) = Key(p, EventAt(w), d)
    BY <1>2, <1>4, <2>3, <2>4
  <2>6. p = k /\ EventAt(w) = e
    BY <2>5 DEF EventKey, Key
  <2>7. Matches(e, k, d)'
    BY <2>3, <2>5, <2>6 DEF Matches, EventKey
  <2>8. ASSUME NEW j \in DeterminedBy(k) PROVE Matches(e, j, d)'
    <3>1. j \in EventKinds /\ j \in ObjectKinds /\ PutRank[j] < PutRank[k] /\ Wanted(j, d)
      BY DeterminedFirst
    <3>2. store[Key(j, e, d)] = Content(j, d)
      BY <2>2, <2>3, <2>6, <3>1 DEF WrittenBefore
    <3>3. Matches(e, j, d)
      BY <3>1, <3>2, EventKeyOfKey DEF EventKinds, Matches
    <3>. QED
      BY <1>1, <3>1, <3>3, MatchesStable
  <2>. QED
    BY <2>7, <2>8 DEF BackedBy
<1>. QED
  BY <1>3, <1>4

LEMMA SourcesKept ==
  ASSUME Inv, DraftInv, [Next]_vars
  PROVE  SourcesAreComplete'
<1>. DEFINE key(e, s) == [kind |-> "story_cluster", event |-> e, story |-> s]
<1>1. CompleteEvents \subseteq CompleteEvents'
  BY NextGrows, CompleteGrows
<1>2. SUFFICES ASSUME NEW e \in Events, NEW s \in Stories, store'[key(e, s)] # None
               PROVE  store'[key(e, s)].merged \subseteq CompleteEvents
  BY <1>1 DEF SourcesAreComplete, Exists
<1>3. key(e, s) \in Keys /\ key(e, s).kind = "story_cluster"
  BY DEF Keys, ObjectKinds
<1>4. CASE store'[key(e, s)] = store[key(e, s)]
  BY <1>2, <1>4 DEF DraftInv, SourcesAreComplete, Exists
<1>5. CASE store'[key(e, s)] # store[key(e, s)]
  <2>1. PICK w \in Workers, p \in ObjectKinds : PutObject(w, p)
    BY <1>5, StoreChanges
  <2> DEFINE d == worker[w].draft
  <2>2. /\ worker[w].pc = "write"
        /\ store'[Key(p, EventAt(w), d)] = Content(p, d)
        /\ \A other \in Keys :
             other # Key(p, EventAt(w), d) => store'[other] = store[other]
    BY <2>1, PutObjectDoes
  <2>3. key(e, s) = Key(p, EventAt(w), d)
    <3>. HIDE DEF key
    <3>. QED
      BY <1>3, <1>5, <2>2
  <2>4. p = "story_cluster"
    BY <1>3, <2>3 DEF Key
  <2>5. Content("story_cluster", d).merged = d.merged
    BY DEF Content
  <2>6. d.merged \subseteq CompleteEvents
    BY <2>2 DEF DraftInv, DraftOK
  <2>. HIDE DEF key
  <2>. QED
    BY <2>2, <2>3, <2>4, <2>5, <2>6
<1>. QED
  BY <1>4, <1>5

LEMMA DraftInvInit == Init => DraftInv
<1>. SUFFICES ASSUME Init PROVE DraftInv
  OBVIOUS
<1>1. \A key \in Keys : store[key] = None
  BY DEF Init
<1>2. Backed
  <2>1. \A e \in Events, k \in EventKinds : EventKey(k, e) \in Keys
    BY EventKeyType DEF EventKinds
  <2>. QED
    BY <1>1, <2>1 DEF Backed, Exists
<1>3. SourcesAreComplete
  <2>1. \A e \in Events, s \in Stories :
          [kind |-> "story_cluster", event |-> e, story |-> s] \in Keys
    BY DEF Keys, ObjectKinds
  <2>. QED
    BY <1>1, <2>1 DEF SourcesAreComplete, Exists
<1>4. \A v \in Workers : DraftOK(v)
  BY IdleType DEF Init, DraftOK
<1>. QED
  BY <1>2, <1>3, <1>4 DEF DraftInv

LEMMA DraftInvNext ==
  ASSUME Inv, DraftInv, [Next]_vars
  PROVE  DraftInv'
<1>1. Grows
  BY NextGrows
<1>2. Backed' /\ SourcesAreComplete'
  BY BackedKept, SourcesKept DEF DraftInv
<1>3. ASSUME worker' = worker PROVE \A v \in Workers : DraftOK(v)'
  BY <1>1, <1>3, OthersDraftOK DEF DraftInv
<1>4. CASE \E w \in Workers : Receive(w) \/ Work(w) \/ Abandon(w)
  <2>1. PICK w \in Workers : Receive(w) \/ Work(w) \/ Abandon(w)
    BY <1>4
  <2>2. DraftOK(w)' /\ (worker' = worker \/ \E r \in WorkerState : Becomes(w, r))
    BY <2>1, WorkDraftOK
  <2>3. TypeOK
    BY DEF Inv
  <2>4. \A v \in Workers : DraftOK(v)'
    BY <1>1, <1>3, <2>2, <2>3, AllDraftsOK
  <2>. QED
    BY <1>2, <2>4 DEF DraftInv
<1>5. CASE (\E m \in Messages : AckWaitExpires(m)) \/ Tick \/ UNCHANGED vars
  <2>1. worker' = worker
    BY <1>5 DEF AckWaitExpires, Tick, vars
  <2>. QED
    BY <1>2, <1>3, <2>1 DEF DraftInv
<1>. QED
  BY <1>4, <1>5 DEF Next

LEMMA DraftInvariance == Spec => [](Inv /\ DraftInv)
<1>1. Inv /\ DraftInv /\ [Next]_vars => DraftInv'
  BY DraftInvNext
<1>. QED
  BY <1>1, DraftInvInit, Invariance, PTL DEF Spec

(* Past the structured packet an attempt can conflict with what other      *)
(* attempts at its event have stored only at the health event, so no       *)
(* refused attempt leaves a manifest or an index of its own behind.        *)
THEOREM ConflictsAreEarlyAlways == Spec => []ConflictsAreEarly
<1>1. DraftInv => ConflictsAreEarly
  BY DEF DraftInv, DraftOK, ConflictsAreEarly, Early, StoryKinds
<1>. QED
  BY <1>1, DraftInvariance, PTL

(* The sources a stored cluster names have success indexes                 *)
(* (merge_current_event's check before it merges a member).                *)
THEOREM SourcesAreCompleteAlways == Spec => []SourcesAreComplete
<1>1. DraftInv => SourcesAreComplete
  BY DEF DraftInv
<1>. QED
  BY <1>1, DraftInvariance, PTL

-----------------------------------------------------------------------------
(***************************************************************************)
(* Revision 0, as the rehydrator sees it                                   *)
(***************************************************************************)

Packet(e) == store[EventKey("structured", e)]

(* The context of an event's packet is some attempt's.                     *)
LEMMA PacketContext ==
  ASSUME Backed, NEW e \in Events, Packet(e) # None
  PROVE  Packet(e).ctx \in Contexts
<1>1. "structured" \in EventKinds
  BY DEF EventKinds, ObjectKinds, StoryKinds
<1>2. PICK d \in Drafts : Packet(e) = Content("structured", d)
  BY <1>1 DEF Backed, BackedBy, Matches, Exists, Packet
<1>3. Content("structured", d).ctx = d.ctx
  BY DEF Content
<1>. QED
  BY <1>2, <1>3 DEF Drafts

(* The variables of RevisionZero.                                          *)
ZeroPacket == [e \in Events |-> IF Packet(e) # None THEN Packet(e).ctx ELSE None]

ZeroIndexed == {e \in Events : store[EventKey("revision_index", e)] # None}

ZeroTold == {e \in Events : announced[<<"structured", e>>] # {}}

LEMMA ZeroMapping ==
  /\ Revisions!ZeroInit <=>
       ZeroPacket = [e \in Events |-> None] /\ ZeroIndexed = {} /\ ZeroTold = {}
  /\ \A e \in Events, c \in Contexts :
       /\ ZeroPacket[e] = None
       /\ ZeroPacket' = [ZeroPacket EXCEPT ![e] = c]
       /\ UNCHANGED <<ZeroIndexed, ZeroTold>>
       => Revisions!ZeroNext
  /\ \A e \in Events :
       /\ ZeroPacket[e] # None
       /\ ZeroIndexed' = ZeroIndexed \cup {e}
       /\ UNCHANGED <<ZeroPacket, ZeroTold>>
       => Revisions!ZeroNext
  /\ \A e \in Events :
       /\ e \in ZeroIndexed
       /\ ZeroTold' = ZeroTold \cup {e}
       /\ UNCHANGED <<ZeroPacket, ZeroIndexed>>
       => Revisions!ZeroNext
  /\ UNCHANGED <<ZeroPacket, ZeroIndexed, ZeroTold>> => UNCHANGED Revisions!zeroVars
BY DEF Revisions!ZeroInit, Revisions!ZeroNext, Revisions!StoreZero, Revisions!IndexZero,
       Revisions!TellZero, Revisions!zeroVars, ZeroPacket, ZeroIndexed, ZeroTold, Packet, Exists

(* An object of an event changes only by a write of its kind at the event. *)
LEMMA ObjectChanges ==
  ASSUME Inv, NEW w \in Workers, NEW k \in ObjectKinds, PutObject(w, k)
  PROVE  /\ \A j \in ObjectKinds, e \in Events :
              j # k \/ e # EventAt(w) => store'[EventKey(j, e)] = store[EventKey(j, e)]
         /\ k \in EventKinds =>
              store'[EventKey(k, EventAt(w))] = Content(k, worker[w].draft)
<1>. DEFINE key == Key(k, EventAt(w), worker[w].draft)
<1>1. /\ EventAt(w) \in Events /\ worker[w].draft \in Drafts
      /\ store'[key] = Content(k, worker[w].draft)
      /\ \A other \in Keys : other # key => store'[other] = store[other]
  BY PutObjectDoes
<1>2. key.kind = k /\ key.event = EventAt(w)
  BY DEF Key
<1>3. ASSUME NEW j \in ObjectKinds, NEW e \in Events, j # k \/ e # EventAt(w)
      PROVE  store'[EventKey(j, e)] = store[EventKey(j, e)]
  <2>1. EventKey(j, e) \in Keys /\ EventKey(j, e).kind = j /\ EventKey(j, e).event = e
    BY EventKeyType
  <2>. HIDE DEF key
  <2>. QED
    BY <1>1, <1>2, <1>3, <2>1
<1>4. k \in EventKinds => key = EventKey(k, EventAt(w))
  BY EventKeyOfKey DEF EventKinds
<1>. QED
  BY <1>1, <1>3, <1>4

LEMMA PutZero ==
  ASSUME Inv, DraftInv, NEW w \in Workers, NEW k \in ObjectKinds, PutObject(w, k)
  PROVE  [Revisions!ZeroNext]_(Revisions!zeroVars)
<1>. PICK e \in Events, d \in Drafts : e = EventAt(w) /\ d = worker[w].draft
  BY PutObjectDoes
<1>1. /\ e \in Events /\ d \in Drafts /\ WrittenBefore(w) /\ Grows
      /\ worker[w].step = PutRank[k]
  BY PutObjectDoes
<1>2. ZeroTold' = ZeroTold
  BY DEF PutObject, ZeroTold
<1>3. /\ \A j \in ObjectKinds, f \in Events :
           j # k \/ f # e => store'[EventKey(j, f)] = store[EventKey(j, f)]
      /\ k \in EventKinds => store'[EventKey(k, e)] = Content(k, d)
  BY ObjectChanges
<1>4. /\ k # "structured" => ZeroPacket' = ZeroPacket
      /\ k # "revision_index" => ZeroIndexed' = ZeroIndexed
  BY <1>3 DEF ZeroPacket, ZeroIndexed, Packet, EventKey, ObjectKinds
<1>5. CASE k = "structured"
  <2>1. Packet(e)' = Content("structured", d) /\ Content("structured", d) # None
    BY <1>1, <1>3, <1>5, ContentType DEF Packet, EventKey, EventKinds, StoryKinds
  <2>2. Content("structured", d).ctx = d.ctx /\ d.ctx \in Contexts
    BY <1>1 DEF Content, Drafts
  <2>3. \A f \in Events : f # e => Packet(f)' = Packet(f)
    BY <1>3, <1>5 DEF Packet, EventKey
  <2>4. CASE Packet(e) = None
    <3>1. ZeroPacket[e] = None
      BY <1>1, <2>4 DEF ZeroPacket
    <3>2. ZeroPacket' = [ZeroPacket EXCEPT ![e] = d.ctx]
      <4>. QED
        BY <1>1, <2>1, <2>2, <2>3 DEF ZeroPacket
    <3>. QED
      BY <1>1, <1>2, <1>4, <1>5, <2>2, <3>1, <3>2, ZeroMapping
  <2>5. CASE Packet(e) # None
    <3>1. Packet(e)' = Packet(e)
      BY <1>1, <2>5, EventKeyType DEF Grows, Packet, EventKey, ObjectKinds
    <3>2. ZeroPacket' = ZeroPacket
      BY <2>3, <3>1 DEF ZeroPacket
    <3>. QED
      BY <1>2, <1>4, <1>5, <3>2, ZeroMapping
  <2>. QED
    BY <2>4, <2>5
<1>6. CASE k = "revision_index"
  <2>1. store'[EventKey(k, e)] # None
    BY <1>1, <1>3, <1>6, ContentType DEF EventKinds, StoryKinds
  <2>2. ZeroIndexed' = ZeroIndexed \cup {e}
    <3>1. \A f \in Events : f # e =>
            store'[EventKey("revision_index", f)] = store[EventKey("revision_index", f)]
      BY <1>3, <1>6
    <3>. QED
      BY <1>1, <1>6, <2>1, <3>1 DEF ZeroIndexed, EventKey
  <2>3. ZeroPacket[e] # None
    <3>1. store[Key("structured", e, d)] = Content("structured", d)
      <4>1. PutRank["structured"] < PutRank["revision_index"]
        BY DEF PutRank
      <4>. QED
        BY <1>1, <1>6, <4>1 DEF WrittenBefore, Wanted, ObjectKinds
    <3>2. Packet(e) # None
      BY <1>1, <3>1, ContentType, EventKeyOfKey DEF Packet, ObjectKinds, StoryKinds
    <3>3. Packet(e).ctx \in Contexts
      BY <1>1, <3>2, PacketContext DEF DraftInv
    <3>. QED
      BY <1>1, <3>2, <3>3, NoneAssumption DEF ZeroPacket
  <2>. QED
    BY <1>1, <1>2, <1>4, <1>6, <2>2, <2>3, ZeroMapping
<1>7. CASE k \notin {"structured", "revision_index"}
  BY <1>2, <1>4, <1>7, ZeroMapping
<1>. QED
  BY <1>5, <1>6, <1>7

LEMMA PublishZero ==
  ASSUME Inv, NEW w \in Workers, NEW k \in PublishKinds, Publish(w, k)
  PROVE  [Revisions!ZeroNext]_(Revisions!zeroVars)
<1>. DEFINE e == EventAt(w)
            id == <<k, e>>
<1>1. /\ worker[w].pc = "write" /\ worker[w].step = PublishRank[k]
      /\ \/ announced' = [announced EXCEPT ![id] =
                             announced[id] \cup {Content(k, worker[w].draft)}]
         \/ announced' = announced
      /\ UNCHANGED store
      /\ announced \in [PublishKinds \X Events -> SUBSET Contents]
  BY DEF Publish, AtPublish, Inv, TypeOK
<1>2. e \in Events /\ WrittenBefore(w) /\ worker[w].draft \in Drafts
  BY <1>1, WritingWorker
<1>3. UNCHANGED <<ZeroPacket, ZeroIndexed>>
  BY <1>1 DEF ZeroPacket, ZeroIndexed, Packet, EventKey
<1>4. \A f \in Events : k # "structured" \/ f # e =>
        announced'[<<"structured", f>>] = announced[<<"structured", f>>]
  <2>1. \A f \in Events : <<"structured", f>> \in PublishKinds \X Events
    BY DEF PublishKinds
  <2>2. \A f \in Events : k # "structured" \/ f # e => <<"structured", f>> # id
    OBVIOUS
  <2>. HIDE DEF e, id
  <2>. QED
    BY <1>1, <2>1, <2>2
<1>5. CASE k = "structured" /\ announced' # announced
  <2>1. announced'[<<"structured", e>>] # {}
    <3>1. id \in PublishKinds \X Events
      BY <1>2
    <3>. HIDE DEF id
    <3>2. announced'[id] # {}
      BY <1>1, <1>5, <3>1
    <3>. QED
      BY <1>5, <3>2 DEF id
  <2>2. ZeroTold' = ZeroTold \cup {e}
    <3>. HIDE DEF e
    <3>. QED
      BY <1>2, <1>4, <2>1 DEF ZeroTold
  <2>3. e \in ZeroIndexed
    <3>1. PutRank["revision_index"] < PublishRank["structured"]
      BY DEF PutRank, PublishRank
    <3>2. Wanted("revision_index", worker[w].draft) /\ "revision_index" \in ObjectKinds \ StoryKinds
      BY DEF Wanted, ObjectKinds, StoryKinds
    <3>3. store[Key("revision_index", e, worker[w].draft)]
            = Content("revision_index", worker[w].draft)
      BY <1>1, <1>2, <1>5, <3>1, <3>2 DEF WrittenBefore
    <3>. QED
      BY <1>2, <3>2, <3>3, ContentType, EventKeyOfKey DEF ZeroIndexed
  <2>. HIDE DEF e
  <2>. QED
    BY <1>2, <1>3, <2>2, <2>3, ZeroMapping
<1>6. CASE k # "structured" \/ announced' = announced
  <2>1. ZeroTold' = ZeroTold
    BY <1>4, <1>6 DEF ZeroTold
  <2>. QED
    BY <1>3, <2>1, ZeroMapping
<1>. QED
  BY <1>5, <1>6

(* Only writes and publishes are seen from outside.                        *)
LEMMA BucketChanges ==
  ASSUME [Next]_vars
  PROVE  \/ UNCHANGED <<store, announced>>
         \/ \E w \in Workers, k \in ObjectKinds : PutObject(w, k)
         \/ \E w \in Workers, k \in PublishKinds : Publish(w, k)
<1>1. ASSUME NEW w \in Workers, Work(w)
      PROVE  \/ UNCHANGED <<store, announced>>
             \/ \E k \in ObjectKinds : PutObject(w, k)
             \/ \E k \in PublishKinds : Publish(w, k)
  <2>1. CASE \/ RejectPointer(w) \/ CheckIndex(w) \/ RejectRecord(w) \/ FailRecord(w)
             \/ \E claim \in Claims, calls \in Calls, ctx \in Contexts :
                  Structure(w, claim, calls, ctx)
             \/ \E e \in Events : ReadMember(w, e)
             \/ AcceptDraft(w)
             \/ \E k \in ObjectKinds : PutConflict(w, k)
             \/ SkipFlag(w) \/ WriteQuarantine(w) \/ QuarantineConflict(w) \/ Ack(w)
    BY <2>1 DEF RejectPointer, CheckIndex, RejectRecord, FailRecord, Structure,
                ReadMember, AcceptDraft, PutConflict, SkipFlag, WriteQuarantine,
                QuarantineConflict, Ack
  <2>. QED
    BY <1>1, <2>1 DEF Work
<1>2. ASSUME NEW w \in Workers, Receive(w) \/ Abandon(w)
      PROVE  UNCHANGED <<store, announced>>
  BY <1>2 DEF Receive, Fetch, Abandon
<1>3. CASE (\E m \in Messages : AckWaitExpires(m)) \/ Tick \/ UNCHANGED vars
  BY <1>3 DEF AckWaitExpires, Tick, vars
<1>. QED
  BY <1>1, <1>2, <1>3 DEF Next

(* Whatever the retries of a message draft, the rehydrator sees one packet *)
(* per event, indexed before it is announced (process_pointer's order of   *)
(* writes, put_bytes_idempotent).                                          *)
THEOREM ImplementsRevisionZero == Spec => ServesRehydration
<1>1. Init => Revisions!ZeroInit
  <2>. SUFFICES ASSUME Init PROVE Revisions!ZeroInit
    OBVIOUS
  <2>1. ZeroPacket = [e \in Events |-> None] /\ ZeroIndexed = {}
    <3>1. \A e \in Events : /\ EventKey("structured", e) \in Keys
                            /\ EventKey("revision_index", e) \in Keys
      BY EventKeyType DEF ObjectKinds
    <3>. QED
      BY <3>1 DEF Init, ZeroPacket, ZeroIndexed, Packet
  <2>2. ZeroTold = {}
    BY DEF Init, ZeroTold, PublishKinds
  <2>. QED
    BY <2>1, <2>2, ZeroMapping
<1>2. Inv /\ DraftInv /\ [Next]_vars => [Revisions!ZeroNext]_(Revisions!zeroVars)
  <2>. SUFFICES ASSUME Inv, DraftInv, [Next]_vars
                PROVE  [Revisions!ZeroNext]_(Revisions!zeroVars)
    OBVIOUS
  <2>1. CASE \E w \in Workers, k \in ObjectKinds : PutObject(w, k)
    BY <2>1, PutZero
  <2>2. CASE \E w \in Workers, k \in PublishKinds : Publish(w, k)
    BY <2>2, PublishZero
  <2>3. CASE UNCHANGED <<store, announced>>
    <3>1. UNCHANGED <<ZeroPacket, ZeroIndexed, ZeroTold>>
      BY <2>3 DEF ZeroPacket, ZeroIndexed, ZeroTold, Packet, EventKey
    <3>. QED
      BY <3>1, ZeroMapping
  <2>. QED
    BY <2>1, <2>2, <2>3, BucketChanges
<1>. QED
  BY <1>1, <1>2, DraftInvariance, PTL DEF Spec, ServesRehydration, Revisions!ZeroSpec

-----------------------------------------------------------------------------
(***************************************************************************)
(* The contract                                                            *)
(***************************************************************************)

(* The variables of IntelContract that are not plain sets.                 *)
Told(e) == announced[<<"structured", e>>]

ContractPointer ==
  [e \in Events |-> IF Told(e) = {} THEN None ELSE CHOOSE p \in Contents : p \in Told(e)]

ContractVerdict ==
  [m \in Messages |->
     CASE delivery[m] = "acked" -> "acked"
       [] delivery[m] = "exhausted" -> "lost"
       [] OTHER -> "open"]

ContractRest == <<ContractPointer, CompleteEvents, RefusedEvents, ContractVerdict>>

LEMMA ContractMapping ==
  /\ /\ ContractPointer = [e \in Events |-> None]
     /\ CompleteEvents = {} /\ RefusedEvents = {}
     /\ ContractVerdict = [m \in Messages |-> "open"]
     => Contract!Init
  /\ \A e \in Events, p \in Contents :
       /\ ContractPointer[e] = None
       /\ ContractPointer' = [ContractPointer EXCEPT ![e] = p]
       /\ UNCHANGED <<CompleteEvents, RefusedEvents, ContractVerdict>>
       => Contract!Next
  /\ \A e \in Events :
       /\ ContractPointer[e] # None
       /\ CompleteEvents' = CompleteEvents \cup {e}
       /\ UNCHANGED <<ContractPointer, RefusedEvents, ContractVerdict>>
       => Contract!Next
  /\ \A e \in Events \cup {Unknown} :
       /\ RefusedEvents' = RefusedEvents \cup {e}
       /\ UNCHANGED <<ContractPointer, CompleteEvents, ContractVerdict>>
       => Contract!Next
  /\ \A m \in Messages :
       /\ EventOf[m] \in CompleteEvents \cup RefusedEvents
       /\ ContractVerdict[m] = "open"
       /\ ContractVerdict' = [ContractVerdict EXCEPT ![m] = "acked"]
       /\ UNCHANGED <<ContractPointer, CompleteEvents, RefusedEvents>>
       => Contract!Next
  /\ \A m \in Messages :
       /\ ContractVerdict[m] = "open"
       /\ ContractVerdict' = [ContractVerdict EXCEPT ![m] = "lost"]
       /\ UNCHANGED <<ContractPointer, CompleteEvents, RefusedEvents>>
       => Contract!Next
  /\ UNCHANGED ContractRest => UNCHANGED Contract!vars
BY DEF Contract!Init, Contract!Next, Contract!Announce, Contract!Complete, Contract!Refuse,
       Contract!Ack, Contract!Lose, Contract!vars, ContractPointer, ContractVerdict,
       ContractRest, Told

(* Consumers have been told nothing of an event or its stored packet.      *)
LEMMA PointerIsPacket ==
  ASSUME Inv, NEW e \in Events
  PROVE  ContractPointer[e] = IF Told(e) = {} THEN None ELSE Packet(e)
<1>1. \A p \in Told(e) : p = Packet(e)
  BY DEF Inv, PointersResolve, Told, Packet, PublishKinds
<1>2. Told(e) \subseteq Contents
  BY DEF Inv, TypeOK, Told, PublishKinds
<1>3. CASE Told(e) # {}
  <2>1. Told(e) = {Packet(e)} /\ Packet(e) \in Contents
    BY <1>1, <1>2, <1>3
  <2>2. \A p \in Contents : p \in Told(e) <=> p = Packet(e)
    BY <2>1
  <2>3. (CHOOSE p \in Contents : p \in Told(e)) = Packet(e)
    BY <2>1, <2>2
  <2>. QED
    BY <1>3, <2>3 DEF ContractPointer
<1>4. CASE Told(e) = {}
  BY <1>4 DEF ContractPointer
<1>. QED
  BY <1>3, <1>4

LEMMA VerdictIs ==
  ASSUME NEW m \in Messages
  PROVE  /\ delivery[m] = "acked" => ContractVerdict[m] = "acked"
         /\ delivery[m] = "exhausted" => ContractVerdict[m] = "lost"
         /\ delivery[m] \notin {"acked", "exhausted"} => ContractVerdict[m] = "open"
BY DEF ContractVerdict

LEMMA VerdictKept ==
  ASSUME \A m \in Messages : \/ delivery'[m] = delivery[m]
                             \/ /\ delivery[m] \notin {"acked", "exhausted"}
                                /\ delivery'[m] \notin {"acked", "exhausted"}
  PROVE  ContractVerdict' = ContractVerdict
<1>1. \A m \in Messages :
        (CASE delivery'[m] = "acked" -> "acked"
           [] delivery'[m] = "exhausted" -> "lost"
           [] OTHER -> "open")
        = (CASE delivery[m] = "acked" -> "acked"
             [] delivery[m] = "exhausted" -> "lost"
             [] OTHER -> "open")
  OBVIOUS
<1>. QED
  BY <1>1 DEF ContractVerdict

(* The verdict on one message changes.                                     *)
LEMMA VerdictChanges ==
  ASSUME NEW m \in Messages,
         NEW state \in {"acked", "exhausted"}, NEW verdict,
         state = "acked" => verdict = "acked", state = "exhausted" => verdict = "lost",
         delivery' = [delivery EXCEPT ![m] = state],
         delivery \in [Messages -> DeliveryStates]
  PROVE  ContractVerdict' = [ContractVerdict EXCEPT ![m] = verdict]
<1>. DEFINE V(s) == CASE s = "acked" -> "acked" [] s = "exhausted" -> "lost" [] OTHER -> "open"
<1>1. delivery'[m] = state /\ \A n \in Messages : n # m => delivery'[n] = delivery[n]
  OBVIOUS
<1>2. V(state) = verdict
  OBVIOUS
<1>3. ContractVerdict = [n \in Messages |-> V(delivery[n])]
      /\ ContractVerdict' = [n \in Messages |-> V(delivery'[n])]
  BY DEF ContractVerdict
<1>. HIDE DEF V
<1>. QED
  BY <1>1, <1>2, <1>3

ContractStep == [Contract!Next]_(Contract!vars)

(* What the contract sees is a function of these.                          *)
LEMMA ContractStutter ==
  ASSUME UNCHANGED <<store, announced, quarantine>>, UNCHANGED ContractVerdict
  PROVE  ContractStep
<1>1. UNCHANGED <<ContractPointer, CompleteEvents, RefusedEvents>>
  BY DEF ContractPointer, Told, CompleteEvents, Indexed, Exists, EventKey, RefusedEvents
<1>2. UNCHANGED ContractRest
  BY <1>1 DEF ContractRest
<1>. QED
  BY <1>2, ContractMapping DEF ContractStep

(* The success index is written after the structured pointer is announced. *)
LEMMA PutContract ==
  ASSUME Inv, NEW w \in Workers, NEW k \in ObjectKinds, PutObject(w, k)
  PROVE  ContractStep
<1>. PICK e \in Events, d \in Drafts : e = EventAt(w) /\ d = worker[w].draft
  BY PutObjectDoes
<1>1. /\ worker[w].step = PutRank[k] /\ WrittenBefore(w)
      /\ UNCHANGED <<announced, quarantine, delivery>>
  BY PutObjectDoes DEF PutObject
<1>2. UNCHANGED <<ContractPointer, RefusedEvents, ContractVerdict>>
  BY <1>1 DEF ContractPointer, Told, RefusedEvents, ContractVerdict
<1>3. \A f \in Events : k # "success_index" \/ f # e =>
        store'[EventKey("success_index", f)] = store[EventKey("success_index", f)]
  BY ObjectChanges DEF ObjectKinds
<1>4. CASE k = "success_index"
  <2>1. store'[EventKey("success_index", e)] # None
    <3>1. k \in EventKinds
      BY <1>4 DEF EventKinds, StoryKinds
    <3>. QED
      BY <1>4, <3>1, ObjectChanges, ContentType
  <2>2. CompleteEvents' = CompleteEvents \cup {e}
    BY <1>3, <2>1 DEF CompleteEvents, Indexed, Exists, EventKey
  <2>3. ContractPointer[e] # None
    <3>1. PublishRank["structured"] < PutRank["success_index"]
      BY DEF PublishRank, PutRank
    <3>2. Content("structured", d) \in Told(e)
      BY <1>1, <1>4, <3>1 DEF WrittenBefore, Wanted, Told, PublishKinds
    <3>3. Told(e) \subseteq Contents
      BY DEF Inv, TypeOK, Told, PublishKinds
    <3>4. Packet(e) \in Told(e)
      BY <3>2 DEF Inv, PointersResolve, Told, Packet, PublishKinds
    <3>. QED
      BY <3>2, <3>3, <3>4, PointerIsPacket, NoneAssumption
  <2>. QED
    BY <1>2, <2>2, <2>3, ContractMapping DEF ContractStep
<1>5. CASE k # "success_index"
  <2>1. CompleteEvents' = CompleteEvents
    BY <1>3, <1>5 DEF CompleteEvents, Indexed, Exists, EventKey
  <2>. QED
    BY <1>2, <2>1, ContractMapping DEF ContractStep, ContractRest
<1>. QED
  BY <1>4, <1>5

(* The first structured pointer of an event is the only one.               *)
LEMMA PublishContract ==
  ASSUME Inv, Inv', NEW w \in Workers, NEW k \in PublishKinds, Publish(w, k)
  PROVE  ContractStep
<1>1. worker[w].pc = "write"
  BY DEF Publish, AtPublish
<1>2. EventAt(w) \in Events /\ worker[w].draft \in Drafts
  BY <1>1, WritingWorker
<1>. PICK e \in Events, p \in Contents : e = EventAt(w) /\ p = Content(k, worker[w].draft)
  BY <1>2, PublishIsObject, ContentType
<1>. DEFINE id == <<k, e>>
<1>3. /\ \/ announced' = [announced EXCEPT ![id] = announced[id] \cup {p}]
         \/ announced' = announced
      /\ UNCHANGED <<store, quarantine, delivery>>
      /\ announced \in [PublishKinds \X Events -> SUBSET Contents]
      /\ id \in PublishKinds \X Events
  BY DEF Publish, Inv, TypeOK
<1>4. UNCHANGED <<CompleteEvents, RefusedEvents, ContractVerdict>>
  BY <1>3 DEF CompleteEvents, Indexed, Exists, EventKey, RefusedEvents, ContractVerdict
<1>5. \A f \in Events : k # "structured" \/ f # e => Told(f)' = Told(f)
  <2>1. \A f \in Events : /\ <<"structured", f>> \in PublishKinds \X Events
                          /\ k # "structured" \/ f # e => <<"structured", f>> # id
    BY DEF PublishKinds
  <2>. HIDE DEF id
  <2>. QED
    BY <1>3, <2>1 DEF Told
<1>6. CASE \A f \in Events : Told(f)' = Told(f)
  <2>1. UNCHANGED ContractPointer
    <3>. DEFINE P(told) == IF told = {} THEN None ELSE CHOOSE q \in Contents : q \in told
    <3>1. /\ ContractPointer = [f \in Events |-> P(Told(f))]
          /\ ContractPointer' = [f \in Events |-> P(Told(f)')]
      BY DEF ContractPointer
    <3>. HIDE DEF P
    <3>. QED
      BY <1>6, <3>1
  <2>. QED
    BY <1>4, <2>1, ContractMapping DEF ContractStep, ContractRest
<1>7. CASE k = "structured" /\ Told(e)' # Told(e)
  <2>1. Told(e)' = Told(e) \cup {p}
    <3>. HIDE DEF id
    <3>1. announced'[id] = announced[id] \/ announced'[id] = announced[id] \cup {p}
      BY <1>3
    <3>. QED
      BY <1>7, <3>1 DEF Told, id
  <2>2. \A q \in Told(e)' : q = Packet(e)
    <3>1. \A q \in Told(e)' : q = Packet(e)'
      BY DEF Inv, PointersResolve, Told, Packet, PublishKinds
    <3>2. Packet(e)' = Packet(e)
      BY <1>3 DEF Packet, EventKey
    <3>. QED
      BY <3>1, <3>2
  <2>3. Told(e) = {} /\ Told(e)' = {p}
    BY <1>7, <2>1, <2>2
  <2>4. (CHOOSE q \in Contents : q \in Told(e)') = p
    BY <2>3
  <2>5. ContractPointer[e] = None
    BY <2>3 DEF ContractPointer
  <2>6. ContractPointer' = [ContractPointer EXCEPT ![e] = p]
    <3>. DEFINE P(told) == IF told = {} THEN None ELSE CHOOSE q \in Contents : q \in told
    <3>1. /\ ContractPointer = [f \in Events |-> P(Told(f))]
          /\ ContractPointer' = [f \in Events |-> P(Told(f)')]
      BY DEF ContractPointer
    <3>2. P(Told(e)') = p
      BY <2>3, <2>4
    <3>3. \A f \in Events : f # e => Told(f)' = Told(f)
      BY <1>5
    <3>. HIDE DEF P
    <3>. QED
      BY <3>1, <3>2, <3>3
  <2>. QED
    BY <1>4, <2>5, <2>6, ContractMapping DEF ContractStep
<1>. QED
  BY <1>5, <1>6, <1>7

LEMMA QuarantineContract ==
  ASSUME Inv, NEW w \in Workers, WriteQuarantine(w)
  PROVE  ContractStep
<1>1. EventAt(w) \in Events \cup {Unknown}
  BY BusyWorker DEF WriteQuarantine
<1>2. PICK q : q.event = EventAt(w) /\ quarantine' = quarantine \cup {q}
  BY DEF WriteQuarantine
<1>3. PICK e \in Events \cup {Unknown} : e = EventAt(w)
  BY <1>1
<1>4. RefusedEvents' = RefusedEvents \cup {e}
  BY <1>2, <1>3 DEF RefusedEvents
<1>5. UNCHANGED <<ContractPointer, CompleteEvents, ContractVerdict>>
  BY DEF WriteQuarantine, ContractPointer, Told, CompleteEvents, Indexed, Exists,
         EventKey, ContractVerdict
<1>. QED
  BY <1>4, <1>5, ContractMapping DEF ContractStep

LEMMA AckContract ==
  ASSUME Inv, NEW w \in Workers, Ack(w)
  PROVE  ContractStep
<1>1. worker[w].msg \in Messages /\ EventAt(w) \in CompleteEvents \cup RefusedEvents
  BY BusyWorker DEF Ack, Inv, WorkerOK
<1>2. PICK m \in Messages : m = worker[w].msg
  BY <1>1
<1>3. /\ EventOf[m] \in CompleteEvents \cup RefusedEvents
      /\ delivery' = [delivery EXCEPT ![m] = IF delivery[m] = "exhausted" THEN delivery[m]
                                                                       ELSE "acked"]
      /\ delivery \in [Messages -> DeliveryStates]
      /\ UNCHANGED <<store, quarantine, announced>>
  BY <1>1, <1>2 DEF Ack, EventAt, Inv, TypeOK
<1>4. CASE delivery[m] \in {"acked", "exhausted"}
  <2>1. delivery' = delivery
    BY <1>3, <1>4
  <2>2. UNCHANGED ContractVerdict
    BY <2>1 DEF ContractVerdict
  <2>. QED
    BY <1>3, <2>2, ContractStutter
<1>5. CASE delivery[m] \notin {"acked", "exhausted"}
  <2>1. delivery' = [delivery EXCEPT ![m] = "acked"]
    BY <1>3, <1>5
  <2>2. ContractVerdict' = [ContractVerdict EXCEPT ![m] = "acked"]
    BY <1>3, <2>1, VerdictChanges
  <2>3. ContractVerdict[m] = "open"
    BY <1>5, VerdictIs
  <2>4. UNCHANGED <<ContractPointer, CompleteEvents, RefusedEvents>>
    BY <1>3 DEF ContractPointer, Told, CompleteEvents, Indexed, Exists, EventKey, RefusedEvents
  <2>. QED
    BY <1>3, <2>2, <2>3, <2>4, ContractMapping DEF ContractStep
<1>. QED
  BY <1>4, <1>5

LEMMA ExpiryContract ==
  ASSUME Inv, NEW m \in Messages, AckWaitExpires(m)
  PROVE  ContractStep
<1>1. /\ delivery[m] = "pending"
      /\ delivery' = [delivery EXCEPT ![m] =
                         IF deliveries[m] < MaxDeliver THEN "ready" ELSE "exhausted"]
      /\ delivery \in [Messages -> DeliveryStates]
      /\ UNCHANGED <<store, quarantine, announced>>
  BY DEF AckWaitExpires, Inv, TypeOK
<1>2. CASE deliveries[m] < MaxDeliver
  <2>1. UNCHANGED ContractVerdict
    BY <1>1, <1>2, VerdictKept
  <2>. QED
    BY <1>1, <2>1, ContractStutter
<1>3. CASE ~(deliveries[m] < MaxDeliver)
  <2>1. delivery' = [delivery EXCEPT ![m] = "exhausted"]
    BY <1>1, <1>3
  <2>2. ContractVerdict' = [ContractVerdict EXCEPT ![m] = "lost"]
    BY <1>1, <2>1, VerdictChanges
  <2>3. ContractVerdict[m] = "open"
    BY <1>1, VerdictIs
  <2>4. UNCHANGED <<ContractPointer, CompleteEvents, RefusedEvents>>
    BY <1>1 DEF ContractPointer, Told, CompleteEvents, Indexed, Exists, EventKey, RefusedEvents
  <2>. QED
    BY <2>2, <2>3, <2>4, ContractMapping DEF ContractStep
<1>. QED
  BY <1>2, <1>3

LEMMA ReceiveContract ==
  ASSUME Inv, NEW w \in Workers, Receive(w)
  PROVE  ContractStep
<1>1. PICK m \in Messages : \E rest \in SUBSET (Messages \ {m}) : Fetch(w, m, rest)
  BY DEF Receive
<1>2. \A n \in Messages : \/ delivery'[n] = delivery[n]
                          \/ delivery[n] = "ready" /\ delivery'[n] = "pending"
  BY <1>1 DEF Fetch
<1>3. UNCHANGED ContractVerdict
  BY <1>2, VerdictKept
<1>. QED
  BY <1>1, <1>3, ContractStutter DEF Fetch

LEMMA NextContract ==
  ASSUME Inv, Inv', [Next]_vars
  PROVE  ContractStep
<1>1. ASSUME UNCHANGED <<delivery, store, announced, quarantine>> PROVE ContractStep
  BY <1>1, ContractStutter DEF ContractVerdict
<1>2. ASSUME NEW w \in Workers, Work(w) PROVE ContractStep
  <2>1. CASE \E k \in ObjectKinds : PutObject(w, k)
    BY <2>1, PutContract
  <2>2. CASE \E k \in PublishKinds : Publish(w, k)
    BY <2>2, PublishContract
  <2>3. CASE WriteQuarantine(w)
    BY <2>3, QuarantineContract
  <2>4. CASE Ack(w)
    BY <2>4, AckContract
  <2>5. CASE \/ RejectPointer(w) \/ CheckIndex(w) \/ RejectRecord(w) \/ FailRecord(w)
             \/ \E claim \in Claims, calls \in Calls, ctx \in Contexts :
                  Structure(w, claim, calls, ctx)
             \/ \E e \in Events : ReadMember(w, e)
             \/ AcceptDraft(w)
             \/ \E k \in ObjectKinds : PutConflict(w, k)
             \/ SkipFlag(w) \/ QuarantineConflict(w)
    <3>1. UNCHANGED <<delivery, store, announced, quarantine>>
      BY <2>5 DEF RejectPointer, CheckIndex, RejectRecord, FailRecord, Structure,
                  ReadMember, AcceptDraft, PutConflict, SkipFlag, QuarantineConflict
    <3>. QED
      BY <1>1, <3>1
  <2>. QED
    BY <1>2, <2>1, <2>2, <2>3, <2>4, <2>5 DEF Work
<1>3. ASSUME NEW w \in Workers, Abandon(w) PROVE ContractStep
  BY <1>1, <1>3 DEF Abandon
<1>4. CASE Tick \/ UNCHANGED vars
  BY <1>1, <1>4 DEF Tick, vars
<1>. QED
  BY <1>2, <1>3, <1>4, ReceiveContract, ExpiryContract DEF Next

(* The worker keeps what it promises to both sides, whatever is redelivered*)
(* and whichever call fails (main.rs, process_pointer, nats/consumer.rs).  *)
THEOREM ImplementsIntelContract == Spec => ImplementsContract
<1>1. Init => Contract!Init
  <2>. SUFFICES ASSUME Init PROVE Contract!Init
    OBVIOUS
  <2>1. ContractPointer = [e \in Events |-> None]
    BY DEF Init, ContractPointer, Told, PublishKinds
  <2>2. CompleteEvents = {}
    <3>1. \A e \in Events : EventKey("success_index", e) \in Keys
      BY EventKeyType DEF ObjectKinds
    <3>. QED
      BY <3>1 DEF Init, CompleteEvents, Indexed, Exists
  <2>3. RefusedEvents = {}
    BY DEF Init, RefusedEvents
  <2>4. ContractVerdict = [m \in Messages |-> "open"]
    BY VerdictIs DEF Init, ContractVerdict
  <2>. QED
    BY <2>1, <2>2, <2>3, <2>4, ContractMapping
<1>2. Inv /\ Inv' /\ [Next]_vars => [Contract!Next]_(Contract!vars)
  BY NextContract DEF ContractStep
<1>. QED
  BY <1>1, <1>2, Invariance, PTL DEF Spec, ImplementsContract, Contract!Spec
=============================================================================
