----------------------------- MODULE IntelWorker -----------------------------
(***************************************************************************)
(* The INTEL-L1 worker: src/main.rs drives IntelStructuringProcessor       *)
(* (workflow/processor.rs) over a durable JetStream pull consumer          *)
(* (nats/consumer.rs), an object store whose writes are put-if-absent      *)
(* (storage/object_store.rs) and an output stream (nats/publisher.rs).     *)
(*                                                                         *)
(* Several workers share the durable consumer and the two stores and       *)
(* nothing else.  Between any two steps of a worker the others may run,    *)
(* the worker may fail a remote call or die, and JetStream may redeliver   *)
(* the message it is working on.                                           *)
(*                                                                         *)
(* What a worker computes for an event is a draft: the claim of the rule   *)
(* engine or the model, the number of model calls, the market context, and *)
(* the other events merged into the story.  None of the four is a function *)
(* of the message, so each delivery may draft something else.  An object   *)
(* is abstracted to the part of the draft it is built from.                *)
(***************************************************************************)
EXTENDS Naturals, FiniteSets

CONSTANTS
  Workers,      \* worker processes
  Messages,     \* messages of the RAW_INTEL stream
  Events,       \* raw events, ordered like their ids in a key listing
  Unknown,      \* the "unknown" event of a message that does not parse
  EventOf,      \* [Messages -> Events \cup {Unknown}]
  Broken,       \* messages whose raw record fails verification
  Undecodable,  \* messages whose raw record has the right hash and is no event
  Claims,       \* what rule or model may say of an event
  Forbidden,    \* claims with a forbidden trading term
  FlagClaims,   \* claims that emit a context flag when the context allows it
  Contexts,     \* market context snapshots
  FlagContexts, \* contexts with which a claim of FlagClaims emits its flag
  Calls,        \* model invocation counts
  Stories,      \* story hint keys
  StoryOf,      \* [Events -> [Claims -> Stories]]
  None          \* no value, no object

CONSTANTS
  BatchSize,    \* max_ack_pending and fetch size of the consumer
  MaxDeliver,   \* max_deliver of the consumer
  ScanLimit,    \* story_member_scan_limit
  HourLength,   \* clock ticks in an hour
  MaxClock      \* bound on the clock

ASSUME EventsAssumption == Events \subseteq Nat /\ Unknown \notin Events
ASSUME MessagesAssumption ==
  /\ Broken \cap Undecodable = {}
  /\ EventOf \in [Messages -> Events \cup {Unknown}]
  /\ Broken \subseteq Messages
  /\ Undecodable \subseteq Messages
ASSUME StoriesAssumption == StoryOf \in [Events -> [Claims -> Stories]]
ASSUME LimitsAssumption ==
  /\ BatchSize \in Nat \ {0}
  /\ MaxDeliver \in Nat \ {0}
  /\ ScanLimit \in Nat \ {0}
  /\ HourLength \in Nat \ {0}
  /\ MaxClock \in Nat

VARIABLES
  delivery,     \* [Messages -> DeliveryStates], kept by JetStream
  deliveries,   \* [Messages -> Nat]: how often each message was delivered
  worker,       \* [Workers -> WorkerState]
  store,        \* [Keys -> Contents \cup {None}]: the output bucket
  quarantine,   \* set of QuarantineRecords: its quarantine/ prefix
  announced,    \* [PublishKinds \X Events -> SUBSET Contents]: output stream
  clock         \* now_ms(), as far as quarantine records depend on it

vars == <<delivery, deliveries, worker, store, quarantine, announced, clock>>

-----------------------------------------------------------------------------
(***************************************************************************)
(* Drafts, objects and their keys                                          *)
(***************************************************************************)

Drafts == [claim : Claims, calls : Calls, ctx : Contexts, merged : SUBSET Events]

(* should_emit_context_flag, on what it reads of the claim and the context *)
HasFlag(d) == d.claim \in FlagClaims /\ d.ctx \in FlagContexts

ObjectKinds ==
  {"story_member", "story_cluster", "structured", "revision_index", "flag",
   "health", "manifest", "prepared_index", "success_index"}

PublishKinds == {"structured", "flag", "health"}

(* Story members and clusters are filed under the story the claim selects; *)
(* every other key is a function of the event alone.                       *)
StoryKinds == {"story_member", "story_cluster"}

Keys == [kind : ObjectKinds, event : Events, story : Stories \cup {None}]

Key(k, e, d) ==
  [kind  |-> k,
   event |-> e,
   story |-> IF k \in StoryKinds THEN StoryOf[e][d.claim] ELSE None]

EventKey(k, e) == [kind |-> k, event |-> e, story |-> None]

MemberKey(s, e) == [kind |-> "story_member", event |-> e, story |-> s]

(* Which part of the draft an object is built from.  The story member is   *)
(* built before the merge; the manifest records the size of every object,  *)
(* which stands for the whole draft; index pointers name keys only.        *)
Content(k, d) ==
  CASE k = "story_member" -> [claim |-> d.claim]
    [] k \in {"story_cluster", "flag"} -> [claim |-> d.claim, merged |-> d.merged]
    [] k = "structured" ->
         [claim |-> d.claim, ctx |-> d.ctx, merged |-> d.merged]
    [] k = "revision_index" -> [ctx |-> d.ctx]
    [] k = "health" ->
         [claim |-> d.claim, calls |-> d.calls, merged |-> d.merged, flag |-> HasFlag(d)]
    [] k = "manifest" -> d
    [] OTHER -> [flag |-> HasFlag(d)]

Contents == {Content(k, d) : k \in ObjectKinds, d \in Drafts}

ASSUME NoneAssumption == None \notin Contents \cup Drafts \cup Contexts

(***************************************************************************)
(* The order of process_pointer's writes and publishes.  A worker in its   *)
(* write phase is about to take the step its counter names.  The first two *)
(* operators are faulty orders, used only to test the properties.          *)
(***************************************************************************)
PutRankSuccessFirst ==
  [story_member |-> 1, story_cluster |-> 2, structured |-> 3, revision_index |-> 4,
   flag |-> 5, health |-> 6, manifest |-> 7, prepared_index |-> 12, success_index |-> 8]

PutRankRevisionFirst ==
  [story_member |-> 1, story_cluster |-> 2, structured |-> 4, revision_index |-> 3,
   flag |-> 5, health |-> 6, manifest |-> 7, prepared_index |-> 8, success_index |-> 12]

PutRank ==
  [story_member |-> 1, story_cluster |-> 2, structured |-> 3, revision_index |-> 4,
   flag |-> 5, health |-> 6, manifest |-> 7, prepared_index |-> 8, success_index |-> 12]

PublishRank == [structured |-> 9, flag |-> 10, health |-> 11]

-----------------------------------------------------------------------------
(***************************************************************************)
(* Workers                                                                 *)
(***************************************************************************)

(* What a quarantine reason is about; a conflict names the object's key.   *)
Causes ==
  [class : {"invalid_pointer", "broken_record", "forbidden_output", "conflict"},
   key : Keys \cup {None}]

QuarantineRecords ==
  [hour : Nat, event : Events \cup {Unknown}, cause : Causes, at : Nat]

(***************************************************************************)
(* fetched:    holds a message, has not looked for its success index       *)
(* unindexed:  found no success index                                      *)
(* merge:      has a draft and reads the members of its story              *)
(* write:      stores and publishes the draft, one object per step         *)
(* quarantine: is about to record why the input is refused                 *)
(* ack:        is about to acknowledge the message                         *)
(***************************************************************************)
WorkerState ==
  [pc : {"idle", "fetched", "unindexed", "merge", "write", "quarantine", "ack"},
   msg : Messages \cup {None},
   step : 0..12,
   draft : Drafts \cup {None},
   unread : SUBSET Events,
   cause : Causes \cup {None}]

Holding(m, pc) ==
  [pc |-> pc, msg |-> m, step |-> 0, draft |-> None, unread |-> {}, cause |-> None]

Idle == Holding(None, "idle")

Refusing(m, cause) == [Holding(m, "quarantine") EXCEPT !.cause = cause]

Becomes(w, state) == worker' = [worker EXCEPT ![w] = state]

EventAt(w) == EventOf[worker[w].msg]

Exists(key) == store[key] # None

Indexed(e) == Exists(EventKey("success_index", e))

-----------------------------------------------------------------------------
(***************************************************************************)
(* JetStream (external): an explicit-ack pull consumer.  A delivered       *)
(* message stays outstanding until it is acknowledged or given up, and at  *)
(* most BatchSize are.  An acknowledgement counts whenever it arrives,     *)
(* after a redelivery too, unless the message has been given up.           *)
(***************************************************************************)
DeliveryStates == {"ready", "pending", "acked", "exhausted"}

Outstanding ==
  {m \in Messages : \/ delivery[m] = "pending"
                    \/ delivery[m] = "ready" /\ deliveries[m] > 0}

(* Faulty: max_deliver is not enforced.                                    *)
AckWaitExpiresUnbounded(m) ==
  /\ delivery[m] = "pending"
  /\ delivery' = [delivery EXCEPT ![m] = "ready"]
  /\ UNCHANGED <<deliveries, worker, store, quarantine, announced, clock>>

(* ack_wait elapses, whether or not a worker is still busy with m.         *)
AckWaitExpires(m) ==
  /\ delivery[m] = "pending"
  /\ delivery' = [delivery EXCEPT ![m] =
                    IF deliveries[m] < MaxDeliver THEN "ready" ELSE "exhausted"]
  /\ UNCHANGED <<deliveries, worker, store, quarantine, announced, clock>>

(* next_message: the consumer fetches up to BatchSize messages, the worker *)
(* keeps the first and drops the others, which have been delivered.        *)
Fetch(w, m, rest) ==
  /\ worker[w].pc = "idle"
  /\ m \notin rest
  /\ \A n \in {m} \cup rest : delivery[n] = "ready"
  /\ Cardinality({m} \cup rest) <= BatchSize
  /\ Cardinality(Outstanding \cup {m} \cup rest) <= BatchSize
  /\ delivery' = [n \in Messages |->
                    IF n \in {m} \cup rest THEN "pending" ELSE delivery[n]]
  /\ deliveries' = [n \in Messages |->
                      IF n \in {m} \cup rest THEN deliveries[n] + 1
                                             ELSE deliveries[n]]
  /\ Becomes(w, Holding(m, "fetched"))
  /\ UNCHANGED <<store, quarantine, announced, clock>>

(* A remote call of the worker fails and the message is left alone, or the *)
(* process dies.  What the call changed before it failed stays changed:    *)
(* that is the step itself, followed by this one.                          *)
Abandon(w) ==
  /\ worker[w].pc # "idle"
  /\ Becomes(w, Idle)
  /\ UNCHANGED <<delivery, deliveries, store, quarantine, announced, clock>>

-----------------------------------------------------------------------------
(***************************************************************************)
(* process_nats_message and process_pointer                                *)
(***************************************************************************)

(* The payload does not parse.                                             *)
RejectPointer(w) ==
  /\ worker[w].pc = "fetched"
  /\ EventAt(w) = Unknown
  /\ Becomes(w, Refusing(worker[w].msg, [class |-> "invalid_pointer", key |-> None]))
  /\ UNCHANGED <<delivery, deliveries, store, quarantine, announced, clock>>

(* Faulty: a prepared run counts as done.                                  *)
SettledByPrepared(e) == Exists(EventKey("prepared_index", e))

(* Only a success index settles a redelivery.                              *)
SettledByIndex(e) == Indexed(e)

CheckIndex(w) ==
  /\ worker[w].pc = "fetched"
  /\ EventAt(w) \in Events
  /\ Becomes(w, Holding(worker[w].msg,
                        IF SettledByIndex(EventAt(w)) THEN "ack" ELSE "unindexed"))
  /\ UNCHANGED <<delivery, deliveries, store, quarantine, announced, clock>>

(* Wrong bucket, invalid range, hash mismatch, wrong schema or event id.   *)
RejectRecord(w) ==
  /\ worker[w].pc = "unindexed"
  /\ worker[w].msg \in Broken
  /\ Becomes(w, Refusing(worker[w].msg, [class |-> "broken_record", key |-> None]))
  /\ UNCHANGED <<delivery, deliveries, store, quarantine, announced, clock>>

(* Faulty: serde_json's error is taken for a permanent input failure.      *)
FailRecordForGood(w) ==
  /\ worker[w].pc = "unindexed"
  /\ worker[w].msg \in Undecodable
  /\ Becomes(w, Refusing(worker[w].msg, [class |-> "broken_record", key |-> None]))
  /\ UNCHANGED <<delivery, deliveries, store, quarantine, announced, clock>>

(* The bytes have the recorded hash but are no JSON event: serde_json's    *)
(* error is not a validation error, so the message is left unanswered.     *)
FailRecord(w) ==
  /\ worker[w].pc = "unindexed"
  /\ worker[w].msg \in Undecodable
  /\ Becomes(w, Idle)
  /\ UNCHANGED <<delivery, deliveries, store, quarantine, announced, clock>>

(* The members of a story that one key listing returns: the first          *)
(* ScanLimit of them.                                                      *)
Listed(s) ==
  LET members == {e \in Events : Exists(MemberKey(s, e))}
  IN  {e \in members : Cardinality({f \in members : f < e}) < ScanLimit}

(* The record is read and verified, the market context looked up, the      *)
(* claim decided and the packets built; then the story is listed.          *)
Structure(w, claim, calls, ctx) ==
  LET e == EventAt(w) IN
  /\ worker[w].pc = "unindexed"
  /\ worker[w].msg \notin Broken \cup Undecodable
  /\ Becomes(w, [Holding(worker[w].msg, "merge") EXCEPT
                   !.draft = [claim |-> claim, calls |-> calls, ctx |-> ctx, merged |-> {}],
                   !.unread = Listed(StoryOf[e][claim]) \ {e}])
  /\ UNCHANGED <<delivery, deliveries, store, quarantine, announced, clock>>

(* Faulty: members of unfinished events are merged.                        *)
MergesAny(e) == TRUE

(* merge_current_event takes the next listed member, and keeps it if its   *)
(* event has a success index by now.                                       *)
MergesMember(e) == Indexed(e)

ReadMember(w, e) ==
  /\ worker[w].pc = "merge"
  /\ e \in worker[w].unread
  /\ \A f \in worker[w].unread : e <= f
  /\ Becomes(w, [worker[w] EXCEPT
                   !.unread = @ \ {e},
                   !.draft.merged = IF MergesMember(e) THEN @ \cup {e} ELSE @])
  /\ UNCHANGED <<delivery, deliveries, store, quarantine, announced, clock>>

(* validate_no_forbidden_output on the cluster, the packet and the flag.   *)
AcceptDraft(w) ==
  /\ worker[w].pc = "merge"
  /\ worker[w].unread = {}
  /\ IF worker[w].draft.claim \in Forbidden
     THEN Becomes(w, Refusing(worker[w].msg, [class |-> "forbidden_output", key |-> None]))
     ELSE Becomes(w, [worker[w] EXCEPT !.pc = "write", !.step = 1])
  /\ UNCHANGED <<delivery, deliveries, store, quarantine, announced, clock>>

(* Faulty: the write lacks If-None-Match and overwrites.                   *)
PutSucceedsAlways(key, bytes) == TRUE

(* put_bytes_idempotent: If-None-Match: *, and on a refusal a comparison   *)
(* with the bytes that are there.                                          *)
PutSucceeds(key, bytes) == store[key] \in {None, bytes}

AtPut(w, k) == worker[w].pc = "write" /\ worker[w].step = PutRank[k]

AtPublish(w, k) == worker[w].pc = "write" /\ worker[w].step = PublishRank[k]

(* The success index is the last step of the write phase.                  *)
Advanced(w) ==
  IF worker[w].step = 12 THEN Holding(worker[w].msg, "ack")
                         ELSE [worker[w] EXCEPT !.step = @ + 1]

Wanted(k, d) == k = "flag" => HasFlag(d)

PutObject(w, k) ==
  LET d == worker[w].draft
      key == Key(k, EventAt(w), d)
  IN
  /\ AtPut(w, k)
  /\ Wanted(k, d)
  /\ PutSucceeds(key, Content(k, d))
  /\ store' = [store EXCEPT ![key] = Content(k, d)]
  /\ Becomes(w, Advanced(w))
  /\ UNCHANGED <<delivery, deliveries, quarantine, announced, clock>>

(* The idempotency conflict is a validation error, hence permanent.        *)
PutConflict(w, k) ==
  LET d == worker[w].draft
      key == Key(k, EventAt(w), d)
  IN
  /\ AtPut(w, k)
  /\ Wanted(k, d)
  /\ ~PutSucceeds(key, Content(k, d))
  /\ Becomes(w, Refusing(worker[w].msg, [class |-> "conflict", key |-> key]))
  /\ UNCHANGED <<delivery, deliveries, store, quarantine, announced, clock>>

SkipFlag(w) ==
  /\ AtPut(w, "flag") \/ AtPublish(w, "flag")
  /\ ~HasFlag(worker[w].draft)
  /\ Becomes(w, Advanced(w))
  /\ UNCHANGED <<delivery, deliveries, store, quarantine, announced, clock>>

(* Publish with a message id and wait for the stream's ack.  Inside the    *)
(* duplicate window a second message with the id is acknowledged and       *)
(* dropped; outside it is stored beside the first.  The flush that follows *)
(* the last publish changes nothing and may fail: that is Abandon.         *)
Publish(w, k) ==
  LET id == <<k, EventAt(w)>>
      payload == Content(k, worker[w].draft)
  IN
  /\ AtPublish(w, k)
  /\ Wanted(k, worker[w].draft)
  /\ \/ announced' = [announced EXCEPT ![id] = @ \cup {payload}]
     \/ announced[id] # {} /\ UNCHANGED announced
  /\ Becomes(w, Advanced(w))
  /\ UNCHANGED <<delivery, deliveries, store, quarantine, clock>>

(* Records under the same hour, event and cause share a key; the content   *)
(* of each is stamped with the time it was written at.                     *)
SameKey(w) ==
  {q \in quarantine : /\ q.hour = clock \div HourLength
                      /\ q.event = EventAt(w)
                      /\ q.cause = worker[w].cause}

WriteQuarantine(w) ==
  /\ worker[w].pc = "quarantine"
  /\ \A q \in SameKey(w) : q.at = clock
  /\ quarantine' = quarantine \cup
       {[hour |-> clock \div HourLength, event |-> EventAt(w),
         cause |-> worker[w].cause, at |-> clock]}
  /\ Becomes(w, Holding(worker[w].msg, "ack"))
  /\ UNCHANGED <<delivery, deliveries, store, announced, clock>>

(* Faulty: the worker tries the same record again for as long as it takes. *)
QuarantineConflictRetried(w) ==
  /\ worker[w].pc = "quarantine"
  /\ \E q \in SameKey(w) : q.at # clock
  /\ UNCHANGED vars

(* The write of a record that exists with another timestamp is an          *)
(* idempotency conflict: write_quarantine fails and nothing is acked.      *)
QuarantineConflict(w) ==
  /\ worker[w].pc = "quarantine"
  /\ \E q \in SameKey(w) : q.at # clock
  /\ Becomes(w, Idle)
  /\ UNCHANGED <<delivery, deliveries, store, quarantine, announced, clock>>

Ack(w) ==
  /\ worker[w].pc = "ack"
  /\ delivery' = [delivery EXCEPT ![worker[w].msg] =
                    IF @ = "exhausted" THEN @ ELSE "acked"]
  /\ Becomes(w, Idle)
  /\ UNCHANGED <<deliveries, store, quarantine, announced, clock>>

Tick ==
  /\ clock < MaxClock
  /\ clock' = clock + 1
  /\ UNCHANGED <<delivery, deliveries, worker, store, quarantine, announced>>

-----------------------------------------------------------------------------
Init ==
  /\ delivery = [m \in Messages |-> "ready"]
  /\ deliveries = [m \in Messages |-> 0]
  /\ worker = [w \in Workers |-> Idle]
  /\ store = [key \in Keys |-> None]
  /\ quarantine = {}
  /\ announced = [id \in PublishKinds \X Events |-> {}]
  /\ clock = 0

(* What a worker does with the message it holds, unless it fails.          *)
Work(w) ==
  \/ RejectPointer(w)
  \/ CheckIndex(w)
  \/ RejectRecord(w)
  \/ FailRecord(w)
  \/ \E claim \in Claims, calls \in Calls, ctx \in Contexts :
       Structure(w, claim, calls, ctx)
  \/ \E e \in Events : ReadMember(w, e)
  \/ AcceptDraft(w)
  \/ \E k \in ObjectKinds : PutObject(w, k) \/ PutConflict(w, k)
  \/ \E k \in PublishKinds : Publish(w, k)
  \/ SkipFlag(w)
  \/ WriteQuarantine(w)
  \/ QuarantineConflict(w)
  \/ Ack(w)

Receive(w) == \E m \in Messages : \E rest \in SUBSET (Messages \ {m}) : Fetch(w, m, rest)

Next ==
  \/ \E w \in Workers : Receive(w) \/ Work(w) \/ Abandon(w)
  \/ \E m \in Messages : AckWaitExpires(m)
  \/ Tick

Spec == Init /\ [][Next]_vars

(* main.rs fetches again after every message and every failure, a worker   *)
(* that is not killed reaches the end of its message, and JetStream's      *)
(* ack_wait timer fires.  Nothing is assumed of failures or of the clock.  *)
Fairness ==
  /\ \A w \in Workers : WF_vars(Receive(w)) /\ WF_vars(Work(w))
  /\ \A m \in Messages : WF_vars(AckWaitExpires(m))

FairSpec == Spec /\ Fairness

-----------------------------------------------------------------------------
(***************************************************************************)
(* Properties                                                              *)
(***************************************************************************)

TypeOK ==
  /\ delivery \in [Messages -> DeliveryStates]
  /\ deliveries \in [Messages -> 0..MaxDeliver]
  /\ worker \in [Workers -> WorkerState]
  /\ store \in [Keys -> Contents \cup {None}]
  /\ quarantine \subseteq QuarantineRecords
  /\ announced \in [PublishKinds \X Events -> SUBSET Contents]
  /\ clock \in 0..MaxClock

CompleteEvents == {e \in Events : Indexed(e)}

RefusedEvents == {q.event : q \in quarantine}

(* Whether a quarantine record answers for message m: it gives a reason    *)
(* that lies in m itself, or in a draft made for m's event.  A conflict    *)
(* names an object of the event that is in the bucket.                     *)
AnswersFor(cause, m) ==
  CASE cause.class = "invalid_pointer" -> EventOf[m] = Unknown
    [] cause.class = "broken_record"   -> m \in Broken
    [] OTHER ->
         /\ m \notin Broken \cup Undecodable
         /\ cause.class = "conflict" =>
              /\ cause.key \in Keys
              /\ cause.key.event = EventOf[m]
              /\ Exists(cause.key)

(* process_nats_message acknowledges a message in two cases only: its      *)
(* event has a success index, or a quarantine record says what is          *)
(* permanently wrong with this very message or with a draft made for its   *)
(* event.  A failure of another kind, an undecodable record among them,    *)
(* never leads to an acknowledgement, nor does the broken record of        *)
(* another message of the same event.  The second case is the code's: ENTERPRISE_DOD.md,      *)
(* README.md and raw_ack_rule of nats.asyncapi.json allow an ack only      *)
(* after the complete success path, the first case.                        *)
AcksAreJustified ==
  \A m \in Messages :
    delivery[m] = "acked" =>
      \/ EventOf[m] \in CompleteEvents
      \/ \E q \in quarantine : q.event = EventOf[m] /\ AnswersFor(q.cause, m)

(* Whatever a consumer of the output stream has been told about an event   *)
(* is what the bucket holds, and the manifest and the prepared index are   *)
(* there too: no retry and no second worker can announce a packet that     *)
(* differs from the stored one, or announce it early.                      *)
PointersResolve ==
  \A k \in PublishKinds, e \in Events :
    \A payload \in announced[<<k, e>>] :
      /\ store[EventKey(k, e)] = payload
      /\ Exists(EventKey("manifest", e))
      /\ Exists(EventKey("prepared_index", e))

(* A success index stands for one draft: every object of that draft is in  *)
(* the bucket and every message of it has been announced, although several *)
(* attempts with different drafts may have contributed to the writing.     *)
CompleteWith(e, d) ==
  /\ \A k \in ObjectKinds : Wanted(k, d) => store[Key(k, e, d)] = Content(k, d)
  /\ \A k \in PublishKinds : Wanted(k, d) => announced[<<k, e>>] = {Content(k, d)}

SuccessIsComplete ==
  \A e \in CompleteEvents : \E d \in Drafts : CompleteWith(e, d)

(* The structured packet is where attempts with different drafts collide:  *)
(* past it only the health event, which counts model calls, can conflict.  *)
ConflictsAreEarly ==
  \A w \in Workers :
    worker[w].pc = "quarantine" /\ worker[w].cause.class = "conflict" =>
      worker[w].cause.key.kind \in
        {"story_member", "story_cluster", "structured", "health"}

(* A stored story cluster names as sources, beside its own event, only     *)
(* events whose processing has been completed.                             *)
SourcesAreComplete ==
  \A e \in Events, s \in Stories :
    LET key == [kind |-> "story_cluster", event |-> e, story |-> s] IN
    Exists(key) => store[key].merged \subseteq CompleteEvents

(* Every message is acknowledged or given up by JetStream.                 *)
EveryMessageEnds ==
  \A m \in Messages : <>(delivery[m] \in {"acked", "exhausted"})

(* The worker implements its contract: the structured pointer of an event  *)
(* is whatever the output stream holds for it.                             *)
Contract == INSTANCE IntelContract WITH
  Pointers <- Contents,
  pointer  <- [e \in Events |->
                 IF announced[<<"structured", e>>] = {} THEN None
                 ELSE CHOOSE p \in Contents : p \in announced[<<"structured", e>>]],
  complete <- CompleteEvents,
  refused  <- RefusedEvents,
  verdict  <- [m \in Messages |->
                 CASE delivery[m] = "acked" -> "acked"
                   [] delivery[m] = "exhausted" -> "lost"
                   [] OTHER -> "open"]

ImplementsContract == Contract!Spec

(* What the rehydrator relies on: the packet at revision 0 of an event     *)
(* keeps its market context, and it is indexed before it is announced,     *)
(* whatever the retries of its message draft.                              *)
Revisions == INSTANCE RevisionZero WITH
  Families <- Events,
  packet   <- [e \in Events |->
                 IF Exists(EventKey("structured", e))
                 THEN store[EventKey("structured", e)].ctx ELSE None],
  indexed  <- {e \in Events : Exists(EventKey("revision_index", e))},
  told     <- {e \in Events : announced[<<"structured", e>>] # {}}

ServesRehydration == Revisions!ZeroSpec

-----------------------------------------------------------------------------
(***************************************************************************)
(* What ENTERPRISE_DOD.md says and the code does not do                    *)
(***************************************************************************)

(* "prepared-only runs are retried": a message whose event has a prepared  *)
(* index and no success index has not been acknowledged.  What breaks this *)
(* breaks "RAW_INTEL double ack occurs only after the complete success     *)
(* path" too, which promises it of every message: an acknowledgement       *)
(* without a success index.                                                *)
PreparedIsRetried ==
  \A m \in Messages :
    delivery[m] = "acked" /\ EventOf[m] \in Events =>
      (Exists(EventKey("prepared_index", EventOf[m])) => Indexed(EventOf[m]))

(* "Duplicate redelivery reuses deterministic keys and does not create     *)
(* duplicate S3 output": an event has one story member object.             *)
OneMemberPerEvent ==
  \A e \in Events, s, t \in Stories :
    Exists(MemberKey(s, e)) /\ Exists(MemberKey(t, e)) => s = t
=============================================================================
