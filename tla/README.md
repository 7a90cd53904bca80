# A specification of the INTEL-L1 structuring system

TLA+ modules, TLC model checking and TLAPS proofs for the Rust program in
`src/`: a worker that turns raw crypto intelligence events into structured
packets. It reads RAW_INTEL messages from a JetStream stream, fetches the raw
record from an object store, asks rules and models what the event claims, joins
it with the market context and with earlier events of the same story, stores the
resulting packets, and announces them on an output stream.

Nothing below the level of this description is transactional. The worker makes
nine object writes and three publishes per event, several workers share one
consumer, and any of them may stop anywhere. What the system promises in spite of
that is the subject of this project.

File names below are relative to `src/src/`.

## The system

| part | code | state | operations |
|---|---|---|---|
| Worker loop | `main.rs` | none beyond the message in hand | fetch, process, ack; a failure is logged and the message left alone |
| Processing | `workflow/processor.rs` | none: all state is remote | check the success index, verify, structure, merge, 9 puts, 3 publishes, flush, success index; quarantine |
| RAW_INTEL consumer | `nats/consumer.rs`, `nats/config.rs` | JetStream: per message delivered / acked / given up, delivery count | durable explicit-ack pull consumer, `ack_wait`, `max_deliver`, `max_ack_pending` |
| Publisher | `nats/publisher.rs` | JetStream: output messages, ids seen in the duplicate window | publish with message id and wait for the stream's ack, flush |
| Object store | `storage/object_store.rs` | the bucket | put-if-absent with comparison, exists, get, list with a limit |
| Keys | `workflow/keys.rs` | none | object keys from ids and times |
| Raw pointers and records | `models/raw.rs` | none | parse and verify |
| Story merge | `structuring/story.rs` | `story-member/` objects | list, read and select members, rewrite cluster, packet, flag and health |
| Packet builder | `structuring/packet.rs` | none | packets from event, decision and market context |
| Model router | `structuring/router.rs` | none per event | rules, cost bypass, Haiku, escalation to Sonnet, fallback |
| Rules and evidence | `structuring/rule.rs`, `nli.rs`, `ai/evidence.rs` | none | keyword tables and scores |
| Models | `ai/contract.rs`, `ai/bedrock.rs` | none | prompt, HTTP call |
| Market-L1 reader | `market/reader.rs`, `admission/market_l1.rs`, `market/parquet_compact.rs` | none | windows, admission of a read plan, merge of snapshots |
| Output validation | `structuring/validation.rs`, `jsonl.rs` | none | refuse forbidden trading terms, redact |
| Rehydrator | `workflow/rehydration.rs`, `bin/intel-l1-rehydration-worker.rs` | none: the bucket | find pending packets, read the market context again, store and announce revision 1 |
| Configuration, hash, time, metrics | `config.rs`, `hash.rs`, `time.rs`, `observability.rs` | none | — |

**How they interact.** Workers never talk to each other. They meet in the
durable consumer (which hands one message to two workers when `ack_wait`
elapses), in the bucket (put-if-absent: the first writer of a key wins, and a
later writer of other bytes gets an error), and in the output stream (a message
id suppresses duplicates for a while only). The rehydrator shares the bucket and
the output stream with the workers and takes the worker's structured packets as
its work list. The router calls the model provider, the market reader the
Market-L1 bucket; both answers may differ from one delivery of a message to the
next, and this is what makes a retry dangerous: it may compute *different bytes
for the same keys*.

**What is hard.**
- A redelivery starts over while the first attempt is still writing.
- An attempt stops after any prefix of the writes and publishes; a later attempt
  with another model answer, market context or set of story members continues.
- An idempotency conflict is an `AppError::Validation`, and the worker takes
  every validation error for a permanently bad input: it quarantines and
  acknowledges.
- The quarantine record carries its time under a key with the hour only, so
  recording the same failure twice in an hour is itself a conflict.
- Two events of a story read each other's half-finished state.
- Fetching a batch spends a delivery on messages the worker then drops.

**What makes each part correct.** Worker: a message is acknowledged
only for its event's success index or a recorded permanent fault of it or of a draft; what is announced is what is stored; an index stands for one whole
draft; every message ends. Story merge: a cluster names only completed events as
its sources, and all of those a completed cluster of its story already named that
the scan limit leaves in reach; it is in no less conflict; packet, flag, health
event and cluster of an event tell the same story even when different attempts
wrote them; events whose ids share a path segment do not mix. Publisher and store: nothing announced is ever withdrawn or
overwritten. Rehydrator: consumers hear of at most one revision 1 of a packet, it
is due, it is what the bucket holds, and every pending packet gets one. Router: no
stage is asked twice, an answer that failed the gate never reaches a packet, no
path to Sonnet passes by admission and budget, what the health event counts was
called, a context flag of high confidence rests on a sentence of the event. Market reader: the status is that of the best window read, nothing stale
is taken when something fresher was there, only a failure makes the answer worse.

## Modules

| module | what it is |
|---|---|
| `IntelContract` | abstract: what a producer of RAW_INTEL and a consumer of the output may rely on |
| `RevisionZero` | abstract: what the rehydrator sees of the workers |
| `MarketContext` | abstract: what workers and rehydrator together promise of a packet's market context |
| `StoryContract` | abstract: what consumers are told of one event by packet, flag and health event together |
| `IntelWorker` | the worker, its consumer, its stores; implements both |
| `Rehydration` | the rehydrator's passes; builds on `RevisionZero`; implements `MarketContext` |
| `Pipeline` | `IntelWorker` and `Rehydration` on one bucket, one stream and one clock |
| `StoryMerge` | what the objects of a story contain: merge, packet set and keys, over the worker's order of writes; implements `StoryContract` |
| `ModelRouter` | one decision of `ModelRouter::decide`, and whether its packet gets a context flag |
| `MarketReader` | one lookup of `MarketL1Reader::context_for` |
| `MCIntelWorker`, `MCStoryMerge`, `MCRehydration`, `MCModelRouter`, `MCMarketReader` | constants for TLC |
| `IntelWorkerProofs`, `StoryMergeProofs`, `RehydrationProofs`, `ModelRouterProofs`, `MarketReaderProofs` | theorems and their proofs |
| `IntelWorkerRefinement` | builds on `IntelWorkerProofs`: the proof that `IntelWorker` implements `IntelContract` and `RevisionZero` |
| `IntelWorkerAttempts` | builds on that: attempts end, and attempts that agree never conflict |
| `PipelineProofs` | workers and rehydrator together implement `Rehydration`, and what follows |

The worker calls the router and the market reader as functions: `IntelWorker`
draws a claim and a context nondeterministically, which covers every decision and
every context the two can give (they keep no state between calls). `ModelRouter`
and `MarketReader` say which ones they do give. `IntelWorker` says when an attempt
writes what and what becomes of its message; it takes the contents of objects for
values. `StoryMerge` takes the same order of writes, without the consumer and the
quarantine, and says what is in them. The rehydrator shares state
with the workers and is joined to them by `RevisionZero`: `Rehydration` extends
it, `IntelWorker` implements it (`ServesRehydration`). `Pipeline` puts the two
together: `Rehydration` is instantiated over the worker's own store and stream in
place of `RevisionZero`, and a step is one of either. The two run on disjoint keys
and message ids, and that this is enough is no longer an argument in this text but a
theorem: the composition implements `Rehydration` (`ImplementsRehydration`).

### IntelWorker and the code

A worker is its program counter and the message it holds. The phases are:

| `pc` | the code | steps |
|---|---|---|
| `idle` | `main.rs:41-71` | `Receive` = `RawIntelConsumer::next_message` |
| `fetched` | `processor.rs:68-87` | `RejectPointer`, `CheckIndex` |
| `unindexed` | `processor.rs:113-148` | `RejectRecord`, `FailRecord`, `Structure` |
| `merge` | `story.rs:28-81`, `processor.rs:160-164` | `ReadMember` per listed member, `AcceptDraft` |
| `write` | `processor.rs:193-359` | `PutObject` / `PutConflict`, `Publish`, `SkipFlag`: one remote call each, in the order of `PutRank` and `PublishRank` |
| `quarantine` | `processor.rs:402-426` | `WriteQuarantine`, `QuarantineConflict` |
| `ack` | `main.rs:81-86` | `Ack` |

Every remote call that changes shared state, and every read of shared state that
another process may change meanwhile, is a step of its own. Computations between
two of them are part of a step. `Abandon` is possible before each step: the call
fails with a transport error, the process is killed, or the flush fails. A call
that took effect and whose answer was lost is the step followed by `Abandon`.
A process that restarts is an idle worker.

**Drafts.** What an attempt computes for an event is abstracted to four choices:
the *claim* of rule or model (it decides the story, the text, the symbols,
whether a forbidden term occurs), the number of *model calls* (in the health
event only), the *market context*, and the set of *merged* story members. All
times in the packets come from `raw_event.observed_at_ms` and are the same in
every attempt, so these four are all that can differ. An object's content is the
part of the draft it is built from (`Content`); two attempts write the same bytes
under a key exactly when these parts agree. The manifest lists byte counts of all
objects and stands for the whole draft; the prepared and success index name keys
only, among them the flag's key if there is a flag.

**Keys** are a kind and an event, and for story members and clusters the story,
which the claim selects. **The store** is a function from keys to contents.
**`announced`** holds, for each message id, every payload the output stream has
stored for it: a publish under an id that is already there is either dropped
(inside the duplicate window) or stored beside the first.

**Quarantine.** A record's key is hour, event and the hash of the reason; the
reason is abstracted to its class and, for a conflict, the object's key (which
the message contains). Its content is the time of writing.

**JetStream** is external and modelled from the consumer configuration in
`nats/consumer.rs:30-47`: at most `max_ack_pending` messages are outstanding,
`ack_wait` makes a message ready again whether or not a worker is busy with it,
after `max_deliver` deliveries it is given up, and an acknowledgement of an
earlier delivery counts. That batch size and `max_ack_pending` are one number is
`nats/consumer.rs:39,59`.

**Assumed, not modelled.** In `IntelWorker` keys are injective in the event id;
`StoryMerge` drops this (`path_segment` rewrites characters and can map two ids to
one segment). A refused put is recognised (`object_store.rs:344` searches the text of the SDK's error).
`ModelRouter::decide` always returns a decision: each error of a provider falls
back to the rules. Listing returns keys in order and sees every completed put.

### StoryMerge and the code

An attempt is its place in the order of writes and what it holds: the claim
(event type, symbols, contradiction flags, terminal decision, whether symbol and
market context are good enough for a flag), the members still to be read and those
merged.

| `pc` | the code | steps |
|---|---|---|
| `idle` | `main.rs:41-71`, `processor.rs:68-87` | `Start`: a delivery of an event without a success index |
| `unindexed` | `processor.rs:112-159`, `story.rs:43-55` | `Structure`: decide, build the packet set, list the story's members |
| `merge` | `story.rs:56-75`, `processor.rs:193-199` | `ReadMember` in key order; `PutMember` |
| `cluster`, `packet`, `flag`, `health` | `processor.rs:200-244` | one put-if-absent each, or `SkipFlag` |
| `prepared`, `publish`, `success` | `processor.rs:292-359` | `PutPrepared`, `Publish` (three messages), `PutSuccess` |

`Stop` ends an attempt anywhere. An object is represented by what it is built
from: the event, its story, its claim and the set of members. `SourceIds`,
`RelatedSymbols`, `Contradictions`, `ConflictLevel` and `ConflictingSources` are
`merge_story_members` as functions of that set, `Cluster`, `Packet`, `Flag` and
`Health` what `apply_story_cluster` leaves of the packet set. A story is the hint
key: date, event type, *canonical* symbols, and the title if there are no symbols;
symbols themselves are stored as they are spelt (a model's symbols are checked
trimmed and stored untrimmed), so spellings may differ within a story. Keys of
members, clusters and indexes contain only the path segment of the event's id;
those of packets, flags and health events also a hash of the whole id.
Manifest, revision index and the number of model calls in the health event are
left out, all of which can only make the code refuse more attempts than the
model does.

`refreshed` is a history variable: it pairs each stored cluster with those of its
story whose event was complete when the attempt listed the story.

What the module shows and no property forbids: of two events with one segment,
the second to come is acknowledged without being structured when the first is
complete, and refused when it is not; events processed together may miss each
other for good; a member that an abandoned claim left in another story is merged
there once its event completes under its new claim; in a crowded story the
members of unfinished events count towards the limit.

### Rehydration and the code

A pass is its place in `run_once`, the keys it still has before it, and, in
`publish_revision`, the packet, time and context in hand.

| `pc` | the code (`workflow/rehydration.rs`) | steps |
|---|---|---|
| `idle` | the binary is not running (`bin/intel-l1-rehydration-worker.rs`) | `Start` lists the first `MaxPackets` structured packets |
| `scan` | the loop over the keys | `ReadPacket` in key order, `Finish` |
| `due` | `is_not_latest_revision` | `CheckLatest` |
| `current` | `context_for`, the expiry test | `ReadMarket` |
| `packet`, `manifest`, `index` | three puts-if-absent | `PutPacket`, `PutManifest`, `PutIndex`; a conflict ends the pass |
| `publish` | publish and flush | `Publish` |

`Fail` is a failed call or a killed process; both end the pass, as `?` does in
`run_once`. Any number of passes may overlap: nothing in the code prevents it.
The clock moves between any two steps, so retry time, expiry, the time of the
revision and the hour in its packet's key are read from different clocks. A
revised packet's key holds the hour, the manifest's key the millisecond, the
index's key neither; this is what decides which of two overlapping passes
conflicts where. `announced` holds every pointer the stream has stored under the
message id of the revision. Contexts are values: those with a market snapshot
(`Available`), `Pending`, and the terminal `Unavailable`.

`RevisionZero` has three variables (packet, index and announcement of revision
0) and lets the worker stop between any two steps. `IntelWorker` implements it
under packet = context of the stored structured packet, indexed = revision index,
told = announcements of the structured pointer.

`MarketContext` leaves out passes, keys and messages: a packet has a first
context, a pending one gets one final context, not before its retry time, and
consumers are told of either only when it is there. `Rehydration` implements it
under first = packet, final = the index's context, told = what either stream
holds. The step that settles is the index's put: the only one of the three puts
whose key depends on no clock.

### Pipeline and the code

`Intelligence` is any step of `IntelWorker`, `Rehydrate` a step of a pass in
`Rehydration`; each leaves the other's variables alone. The clock is the
worker's (`time.rs`, one clock for both processes). `ConstantsFit` says that the two take
their constants from the same configuration: the rehydrator's contexts are those the workers
look up, and the limits are positive. It is a hypothesis of the theorems and not an assumption,
since it is about the deployment. `RevisionsSupersedePending` and `ToldOnce` are
properties that neither module can state alone.

### ModelRouter and the code

`decide` is sequential; the hazards are in its paths. `pc` names the provider
call it is about to make; the actions are the outcomes of that call: failure
(for Haiku also a refusal by the provider's own checks, `ProviderAccepts`), or an
answer that these accept. Rule engine, admission, escalation, bypass and the evidence gate are
operators with the code's names where TLA+ allows it. The event is what these
functions tell apart: 12 attributes (`EventSpace`); text and keyword tables are
abstracted to the classes they produce, and scores are the percentages of
`rule.rs`. Statuses of the market context are grouped by what the router asks of
them: `symbol`, `general`, `stale`, `pending`; `stale` counts as available for funding
flags, as in `is_symbol_usable` (`models/market.rs`). The Sonnet sample
(`within_sonnet_budget`, a hash of the event id) is an attribute of the event: it
is the same in every delivery. `primary` records the outcome of the latest Haiku
call for the properties; nothing depends on it. An answer's evidence is `found`,
`altered`, `unknown` or absent: the evidence pack (`ai/evidence.rs`) stands behind
these classes only, its ranking is left out. `Flagged` is `should_emit_context_flag`
of the packet `build_packet_set` makes of the decision: the model's claim, or the
rules' if there is none. One thing the model shows and no document forbids: when
Haiku finds a conflict and the Sonnet budget is spent, the rules decide over it and
may raise a flag of high confidence.

### MarketReader and the code

| `pc` | the code (`market/reader.rs`) | steps |
|---|---|---|
| `list` | `latest_before_window_start` | `ListHour` per index prefix, `ListFails` |
| `read` | `read_single_context` per candidate window, merged as `merge_snapshots` does | `ReadWindow`, `ReadFails`, `Answer` |

Windows are named by their start. What a window leads to is one of `absent`,
`refused`, `general`, `symbol`: pointer, manifest, report and slices are read one
after the other, but only the pointer is ever replaced, so the pointer's read
decides. `refused` stands for every test of `admission/market_l1.rs`. Market-L1 is
external: it indexes windows during the lookup, and a pointer is replaced only by
that of a run that got further (`Improves`). `before`, the index when the lookup
began, is a history variable that no step reads. Merging is done one snapshot at
a time instead of at the end; it is a left fold in the code.

### IntelContract

Four variables: the pointer consumers have received, completed events, refused
events, and the verdict on each message. `IntelWorker` implements it under
`pointer` = what the stream holds, `complete` = success indexes, `refused` =
quarantine records, `verdict` = the consumer's state. The refinement says what
none of the invariants says alone: that the *first* pointer a consumer sees is the
only one it ever sees, and that completion comes after it. Its `Ack` is allowed for
refused events too: that is the code's promise, and less than the documents'
(finding 5).

### StoryContract

Two variables: the reports consumers have of each event, and the complete
events. A report is the claim of the structured packet, whether there is a
flag, and whether the health event counts a severe conflict. `StoryMerge` implements
it under `reports` = what the three stored objects of an announced event say,
`complete` = success indexes. Consumers get three pointers and fetch three
objects, which up to three attempts may have written; the refinement says that
they always add up to one report, and that it never changes.

## Runs

| run | instance | shows |
|---|---|---|
| `worker_retry` | 2 workers, 2 messages of one event (one with a broken record), 2 deliveries each, 2 claims, 2 stories, 2 contexts, 2 call counts | type, `AcksAreJustified`, `PointersResolve`, `SuccessIsComplete`, `ConflictsAreEarly`, and that `IntelContract` and `RevisionZero` are implemented; 275 thousand states |
| `worker_story` | 2 workers, 2 events in one story, prefetch of 2, a forbidden claim | `SuccessIsComplete` and `SourcesAreComplete` with merges; 411 thousand states |
| `worker_intake` | 1 worker, 4 messages (2 unparsable, 1 undecodable, 1 good), a clock of 2 ticks in one hour | `AcksAreJustified`, and `EveryMessageEnds` under fairness; 49 thousand states |
| `worker_prepared` | 1 worker, 2 events in one story | violates `PreparedIsRetried` (see findings 1 and 5) |
| `worker_duplicate` | 1 worker, 1 event, the claim selects the story | violates `OneMemberPerEvent` (see findings) |
| `story_merge` | 2 workers, 4 events with 3 path segments, one or two claims each (two spellings of a symbol, a rumour, usable and unusable contexts, a fallback, another topic), a scan limit of 2, 1 redelivery or stop | type, `SourcesCarryOver`, `ConflictsCarryOver`, `PacketsNameTheirStory`, `FlagsFollowPackets`, `HealthReportsStory`, `OneEventPerSegment`, and that `StoryContract` is implemented; 252 thousand states |
| `rehydration_race` | 2 overlapping passes on one packet, 2 market answers and `Pending`, 2 failures, a clock of 4 ticks in 2 hours | type, `OneRevision`, `RevisionIsDue`, `LostOnlyByFailure`, `ManifestsNeverConflict`, and that `MarketContext` is implemented |
| `rehydration_settles` | 2 packets with different retry and expiry times, 1 rehydrator started again and again, 1 failure | `PendingIsRevised` under fairness |
| `model_router` | 1728 classes of events, 50 of answers, 4 of market contexts, with and without models | type, `CountsAreCalls`, `AnswersAreSupported`, `SupportedIsNotDropped`, `SnapshotsStopAtHaiku`, `BudgetIsHard`, `HighRiskMeetsModel`, `FlagsRestOnEvidence`, `FundingFlagsAreGuarded`; 655 thousand states |
| `router_rule_only`, `router_repair` | the same | violate `RuleOnlyIsBlocked` and `RepairBeforeSonnet` (see findings) |
| `market_reader` | every state of an index of 5 windows in 3 hours, one of which Market-L1 improves meanwhile, and failures of any calls | type, `StatusIsEarned`, `NoFresherWindow`, `PendingIsJustified`, `ExactWindowWins`; 608 thousand states |

**The bounds, and why they are enough.** Two workers are what a race needs: each
property is about one event's keys, of which a third worker would be another
copy of the second. Two deliveries per message, with two messages for the event,
give four attempts, so that an attempt can fail on the leftovers of one that
failed on the leftovers of another. Two values of each part of a draft are enough
to make two attempts differ in any subset of the parts. `MaxDeliver` = 2 makes
messages run out; `BatchSize` = 2 makes prefetch spend deliveries; `HourLength` =
2 with `MaxClock` = 1 makes quarantine records collide with and without equal
times. The proofs remove these bounds for the safety properties they cover.
In `IntelWorker`, `MaxClock` is the only bound that is not in the code; everything
else counted is bounded by `MaxDeliver`.

`StoryMerge` needs two attempts at a time for its races, and three events in one
story so that a scan limit of 2 cuts the listing and a cluster has members of two
other events. Event 4 has the path segment of event 2. The claims differ where
the merge looks: event 1 contradicts (a rumour), event 2 may or may not have the
context a flag needs, so its attempts can differ in flag and packet, event 3
spells the symbol otherwise, has weak evidence and comes from a fallback,
and event 4 is of another story. `MaxFaults` = 1 is one redelivery or one stop;
that is enough for a refused put, since the lease of a message may run out while
its first attempt still writes. With 2 faults (1.6 million states) the run also
passes. Symmetry of the workers is sound: the properties are invariants that name
no worker.

Two passes suffice for `Rehydration`: all properties are about one packet, and what
a third pass could find two can leave behind, since `MaxFailures` = 2 lets a pass
stop and start again. `HourLength` = 2 with `MaxClock` = 3 lets two passes write the
same packet in one hour or in two, before and after expiry. `MaxPackets` is the
code's `--max-packets`, large enough for the liveness run; with a smaller one the
property fails for packets behind it, which is a hazard and no surprise. No pass
fails in the last hour of the clock: the bounded clock stands still there, and a
revised packet left behind by a failed pass would conflict with every later one,
which in the code ends with the hour. In `rehydration_race` the packet may be retried
from the start (its retry time is 0): TLC exercises the expiry half of `RevisionIsDue`
there, and the retry half, like the retry guard of `MarketContext`, rests on the
theorems `RevisionIsDueAlways` and `ContextIsSettledOnce`, which take any times.

`RoutedEvents` gives each attribute of `EventSpace` one value for each way the
functions of `router.rs` branch on it, and fixes those that only shift the rules'
score between classes that other attributes reach; the events without
evidence are those of projects, where the rules' score is highest and a flag
nearest. `SoundAnswers` lie on each side of both confidence thresholds,
`DoubtfulAnswers` have one thing wrong, with the evidence or with the symbols.
`disputed` is FALSE in all of them; the case TRUE is left to the theorems.
The proofs take all events and answers. `SparseStarts` has a window
in a middle hour outside the radius, a stale one, and one after the event's own;
`MaxWrites` = 1 puts one change of the index anywhere in the lookup.

`Pipeline` has no run. A step of it is a step of a component that a run checks
already, and its state space is the product of theirs: with one worker, one message and
two rehydrators TLC finds 2.1 million states, in which its two
invariants hold and `ConstantsFit` is true; two workers are out of reach. Its properties are
theorems instead. Nothing of it is assumed of the runs: its proofs use the proved
invariants of `IntelWorker` and `Rehydration`.

Deadlock is not checked: when all messages are acknowledged or given up and the
clock has reached its bound, nothing is left to do. That this is the only way to
stop is what `EveryMessageEnds` says.

**Fairness.** `WF(Receive(w))` and `WF(Work(w))`: the loop in `main.rs` fetches
again after each message and each failure, and the process that holds a message
does take its next step. `WF(AckWaitExpires(m))`: JetStream's timer. Nothing
is assumed of failures: `Abandon` may happen as often as deliveries allow, or
never; nor of the clock. The default configuration is meant: with
`--max-messages` or `--exit-on-idle` the loop ends by design.

For `Rehydration`: `WF(Start(r))`: the binary makes one pass and exits, and a
scheduler outside the repository is meant to start it again; `WF(Proceed(r))`: a
pass that does not fail gets on; `WF(Tick)`: time passes. The number of failures
is bounded, so a packet whose pass always fails is not covered. The workers owe
nothing: `WorkerStep` has no fairness. `ModelRouter` and `MarketReader` have no
liveness properties: both make a bounded number of calls (`LookupsAreBounded`). Nor has `StoryMerge`:
whether an attempt gets to its end is `IntelWorker`'s matter.

Each property is backed by a mutant in `PROJECT.json`: a plausible bug, written as
an operator marked "Faulty" beside the definition it replaces, under which TLC finds the property
violated in the same run.

## Findings

1. `ENTERPRISE_DOD.md:26`: "Duplicate redelivery only skips when the success
   index exists; prepared-only runs are retried." Run `worker_prepared`: event 1
   is stored up to its prepared index and its attempt fails. Event 2 of the same
   story completes. The redelivery of event 1 now merges event 2, its cluster
   differs from the stored one, the put is an idempotency conflict, which
   `processor.rs:91` takes for a bad input: event 1 is quarantined and
   acknowledged. It has a prepared index, possibly announced pointers, and will
   never have a success index. One worker and one deterministic claim suffice.
2. `ENTERPRISE_DOD.md:27`: "Duplicate redelivery reuses deterministic keys and
   does not create duplicate S3 output." Run `worker_duplicate`: the story key is
   taken from the claim; when the redelivery's model answer puts the event into
   another story, it writes a second story member before it conflicts on the
   packet.
3. `ENTERPRISE_DOD.md:11` (and `README.md:50`): "Rule-only output is blocked for
   weak raw evidence such as community reaction, market snapshot, title-only, or
   metadata fallback inputs." Run `router_rule_only`: `rule_is_sufficient` does
   block it, but the cost bypass tested next (`structuring/router.rs:53`) then
   decides the same inputs by the rules alone.
4. `ENTERPRISE_DOD.md:15`: "Haiku repair is attempted for local evidence/schema
   gate misses before Sonnet escalation." Run `router_repair`: an answer that
   misses the provider's own schema or evidence check is an error to `decide`,
   which goes to Sonnet directly (`structuring/router.rs:77`); so does a miss at the router's
   gate for an event of high risk (`structuring/router.rs:97`).
5. `ENTERPRISE_DOD.md:24`: "RAW_INTEL double ack occurs only after the complete
   success path." `README.md:7` and `README.md:107` say so too, and `raw_ack_rule` in
   `asyncapi/nats.asyncapi.json:144`: "ack raw input only after S3 writes, NATS publish
   ack, success index write, and flush complete". The code acknowledges after a
   quarantine record alone: an unparsable pointer (`processor.rs:74`) and every
   permanent failure of `process_pointer` (`processor.rs:99`): a broken record, a
   forbidden term, an idempotency conflict. No document makes an exception for
   quarantined input (`ENTERPRISE_DOD.md:17` makes one for terminal decisions
   only). Run `worker_prepared` ends in such an acknowledgement, in the case that
   `PreparedIsRetried` singles out; for unparsable and broken input it follows the
   record at once, whatever else happens.

**What holds of acknowledgements instead.** `AcksAreJustified` is the code's promise
and deliberately weaker than the documents': without a success index, there is a
quarantine record whose reason lies in this very message (it does not parse, its
record is broken) or in a draft for its event (a forbidden term, a
conflict with an object that is in the bucket). Transient failures, an undecodable
record among them (`serde_json`'s error is not a validation error), never
lead to an acknowledgement, and one message's broken record never acknowledges another
message of the same event.

## Proofs

`IntelWorkerProofs` holds for every finite or infinite set of workers, messages,
events, claims, contexts and stories and every value of the limits; it uses the
`ASSUME`s of `IntelWorker` only (events are numbers, the broken and the undecodable
messages are disjoint, limits are positive, `None` is no content).

- `TypeCorrect` and `PointersResolveAlways` follow from one
  inductive invariant
  `Inv == TypeOK /\ DeliveriesLeft /\ (\A v : WorkerOK(v)) /\ PointersResolve /\ AckedIsSettled`.
  `DeliveriesLeft` says that a ready message has a delivery left, which the bound
  on deliveries needs. `WorkerOK(v)` says what a worker knows from where it is: in the
  write phase, that its event is known and *every object of its draft with a
  smaller rank is in the store with its own draft's content*
  (`WrittenBefore`); in phase `ack`, that its event has a success index or a
  quarantine record. The first is what `PointersResolve` needs at a publish, the
  second is what `AckedIsSettled`, the part of `AcksAreJustified` that the refinement
  needs, asks of an ack. Both are about another process's view of
  shared state, and survive its steps only because shared state never shrinks.
- That is `Grows`, proved of every step by `NextGrows` and stated as
  `NothingIsOverwritten` (`Spec => [][Grows]_vars`): an object once stored, an
  announcement once made and a quarantine record once written stay.
- `SuccessIsCompleteAlways` rests on both: the step that writes a success index
  has just completed its draft (`SuccessCompletes`, from `WrittenBefore` and
  `PointersResolve`: another attempt with another announcement would contradict
  the store), no other step adds an index (`NewlyComplete`), and completeness is
  stable under `Grows` as long as `PointersResolve` holds (`CompleteWithStable`).

`IntelWorkerRefinement` adds what attempts have in common:
`DraftInv == Backed /\ (\A v : DraftOK(v)) /\ SourcesAreComplete`.

- A packet that is stored shows the claim, the context and the merged events of
  its draft, a health event the number of model calls. So an attempt that got past
  these two objects has the draft of whoever wrote them, and every object written
  later is the same for both (`ContentIsDetermined`, `DeterminedFirst`): this is
  `ConflictsAreEarlyAlways`. `Backed` says it of the store, for the attempts that
  have stopped: an object is there only if the packet and the health event that
  determine it are, with the content of one draft.
- `DraftOK` says that what an attempt has merged is complete; with it
  `SourcesAreCompleteAlways`, since `CompleteEvents` only grows.
- `ImplementsRevisionZero` and `ImplementsIntelContract` then go step by step. Most
  steps stutter; the first publish of a pointer, the success index, the
  quarantine record and the acknowledgement are the contract's actions. A second
  publish stutters because of `PointersResolve`, an acknowledgement is enabled
  because of `AckedIsSettled`.

`IntelWorkerAttempts` is about single attempts and about several that agree.

- `AttemptsAreBounded` and `AttemptsAdvance`: `StepsLeft` counts what a worker in
  a given place may still do. It is at most 17 + `ScanLimit`, each step of the worker
  lowers it, failed calls included, and nobody else's step raises it. The
  listing's limit bounds the members to be read (`ReadsAreBounded`, inductive next
  to `Inv`). This is all of `EveryMessageEnds` that does not rest on
  fairness: an attempt has no loop, so only its environment can keep it from its end.
- `AcksAreJustifiedAlways`: a worker carries the reason for its acknowledgement
  from the step that found it (`AttemptIsJustified`): a drafting worker's record is
  sound, a refusing worker's cause answers for its message, and before an ack the
  reason is in the bucket. It survives the other workers because success indexes,
  quarantine records and the objects that conflicts name are never taken back
  (`AnswerStable`, `JustifiedStable`, from `Grows`).
- `EqualClaimsShareMember`, `EqualAttemptsNeverConflict`, `EqualAttemptsAreRetried`
  take a hypothesis that the constants may or may not satisfy, and say what
  findings 1 and 2 are due to. If every attempt at an event makes the same claim,
  it has one story member: a second one needs a model that changes its
  mind. If all attempts draft the same and no two events share a story, no put
  ever conflicts, and an event with a prepared index is complete when its message is
  acknowledged, through any crashes, redeliveries and concurrent attempts: the
  order of writes is not at fault, only what differs between drafts is.

`StoryMergeProofs` holds for any events, segments, claims, spellings and limits.
`IInv == TypeOK /\ (\A w : AttemptHolds(w)) /\ StoreHolds`.

- `AttemptHolds`: the objects an attempt has passed are in the bucket as its own
  draft builds them (`WritesHold`); what it has merged was indexed (`ReadsHold`);
  and each cluster it could know of when it listed the story has members that it
  still has to read, has merged, or that lie behind the scan limit
  (`KnownHolds`). The last survives other attempts because members only ever push
  others back: what is within the limit now was so when the attempt listed.
- `StoreHolds`: each cluster has its member, each packet its cluster, each flag
  and health event its packet with the same claim and members, each announced event all of them,
  and one packet per event.
- `SourcesAreMerged` follows from `KnownHolds` at the moment a cluster is put,
  `ConflictsAreMerged` from it by `ConflictsGrow` (a cluster of more members is in no
  less conflict), the other theorems from `StoreHolds`.
- `NothingIsRewritten` (`Spec => [][Grows]_vars`) is what all this stands on.
  `StoriesAreReportedOnce`, the refinement of `StoryContract`, goes through the steps: only a
  first publish is seen outside, since `StoreHolds` fixes the three objects of an announced
  event, and `OneEventPerSegment` leaves it alone in its segment.

`RehydrationProofs` holds for any set of packets and rehydrators, any retry and
expiry times and any bounds, from the `ASSUME`s of `Rehydration`.
`IInv == TypeOK /\ (\A r : PassKnows(r)) /\ BucketAgrees /\ LostOnlyByFailure`.
`PassKnows` says what a pass knows from where it is: before `index`, that its
packet was pending and due at the time it has noted and that its own packet and manifest
are in the bucket with its context. `BucketAgrees` relates the four kinds of
entries: a manifest's hour holds a packet with its context, an index has a
manifest, what is announced is the index. The key fact is that a second writer in the same hour
with the same context, the only one whose packet is accepted, also has the
same manifest if it has the same time (`ManifestsNeverConflict`). Stability under
other passes is again monotony: `NothingIsTakenBack`.

- `ContextIsSettledOnce` is the refinement of `MarketContext`. It needs one more
  invariant, `IndexedIsStored` (a revision index of revision 0 has its packet).
- `PassesAreBounded` and `PassesAdvance`: a pass has at most 1 + 7 `MaxPackets`
  steps left (`PassLeft`), and each of its steps lowers that. The bucket is finite, so the
  listing is, and a total order on keys (`KeysAreOrdered`) maps it one to one
  into the first `MaxPackets` places (`ListingIsBounded`). This is the part of
  `PendingIsRevised` that does not rest on fairness.

`PipelineProofs` holds under `ConstantsFit`. A worker's step maps to a step
of `RevisionZero`, of the clock, or to a stutter (`IntelligenceIsSeen`, from
`IntelWorkerRefinement`), hence `ImplementsRehydration`; the rehydrator's invariants
then hold of the composition (`RehydrationHolds`), and so does `MarketContext`
(`ContextsAreSettledOnce`): refinement is transitive. `RevisionsSupersedePendingAlways`
and `ToldOnceAlways` join both inductive invariants: a pass knows that the packet it
read was pending (`PassKnows`), the worker that whatever any delivery announces of revision 0
is that packet (`PointersResolve`).

`ModelRouterProofs` holds for all events of `EventSpace`, all answers of `AnswerSpace`
and any threshold. `IInv` says which calls have been made before each call
(`CallsMade`), that Sonnet is reached only by way of `MayAskSonnet`
(`SonnetIsAdmitted`), which is judged without the answer, and the properties of a
decision. `EscalationIsAdmitted` is why no supported answer is lost between the two
admission checks. `AnswerPassed` says that a model's answer in a decision came through
provider and gate, hence that its evidence is the event's own. For decisions of
the rules `FlagsRestOnEvidenceAlways` is a matter of scores (`RulesNeedEvidence`): without
evidence every kind of claim but `other` is contradicted, and `other` scores too
low for high confidence whatever the source.

`MarketReaderProofs` holds for any index, window, radius, lookback and hour, from
the assumption that the windows of an hour fit into one listing
(`ListingAssumption`; 5000 keys and windows of at least 720 ms). `IInv`: the index has
only improved since the lookup began (`IndexGrew`); the latest window found is not
before any window of the listed hours that was there then (`LatestKnown`, by
`ListingIsComplete` and `LookbackIsListed`); each candidate read that could be
used then is in the answer (`WindowsRead`). `LookupsAreBounded` and
`LookupsAdvance` count the calls: one per hour of the lookback, one per window of the
radius, one for the latest window; each lowers what is left, and nothing that
Market-L1 indexes meanwhile raises it.

Those with a `None` assume that it is not one of the values it stands apart from
(`NoneAssumption`); TLC checks every assumption in the runs.

**Model-checked only.** `EveryMessageEnds` and `PendingIsRevised`: liveness under
fairness, and `ENABLED`, are beyond the prover; what of them is not a matter of
fairness is proved (see the bounds on attempts, passes and lookups above). Every invariant and every
refinement the passing runs check is a theorem. The four properties that the code violates are not
theorems.

## Not modelled

- `config.rs`, `hash.rs`, `time.rs`, `observability.rs`, `error.rs`: parsing of
  the environment, formatting and logging. The limits they yield are `CONSTANTS`,
  with the bounds of the parser as `ASSUME`s where a proof needs them; hashes are
  taken to be injective, except that `path_segment` is no hash.
- The tests of `admission/market_l1.rs` on pointer, manifest, report and slices,
  and the Parquet scan of `market/parquet_compact.rs`: each is a conjunction of
  comparisons within objects that Market-L1 writes once, with one outcome,
  admitted or refused. `MarketReader` has that outcome and the one object that
  does change, the pointer.
- The ranking of the evidence pack (`ai/evidence.rs`), the keyword tables of
  `rule.rs` and `nli.rs`, prompts and the HTTP calls of `ai/bedrock.rs`: text. The
  classes that rules, gate and provider distinguish are inputs of `ModelRouter`.
- The walk over the JSON tree in `validation.rs` and the redaction of `jsonl.rs`:
  recursion over data that no one else writes. That a forbidden term refuses a
  draft before its first write is in `IntelWorker`.
- Wording, evidence and window fields of the packets (`packet.rs`,
  `models/output.rs`), except what flags, health events and merges depend on.
- The configuration of the object store client, and how it recognises a refused
  put (from the text of the SDK's error): the text is not in this repository.
- The static schemas and deployment files. Graceful shutdown: it happens between
  messages only (`main.rs:52-56`) and is a worker that stops fetching.

## Plan

What is left, in order of worth:

1. The rule floor (`force_rule_evidence_floor`, which lowers the confidence band a
   packet reports; no flag depends on it) and the packet's status, next to
   `Flagged`, with the theorem that the floor never raises a band.
2. `IntelWorker` with `StoryMerge`'s contents in place of its abstract claims, so
   that quarantine and merge meet in one state space; TLC manages one event at
   most, so this is a matter for a proof, along the lines of `Pipeline`.
3. Admission object by object, if Market-L1 should ever replace a manifest or a
   report in place.
