------------------------------ MODULE StoryMerge ------------------------------
(***************************************************************************)
(* What the workers store about a story: StoryMergeManager                 *)
(* (structuring/story.rs), the packet set it rewrites                      *)
(* (structuring/packet.rs), and the keys of both (workflow/keys.rs).       *)
(*                                                                         *)
(* IntelWorker says when an attempt at an event writes what; this module   *)
(* says what is in the objects and follows them through the same order of  *)
(* writes.  Objects of no interest to a story (manifest, revision index)   *)
(* are left out, and the three publishes are one step.  Attempts at        *)
(* different events, and at one event after a redelivery, run              *)
(* concurrently and stop anywhere.  A draft that meets another attempt's   *)
(* object under one of its keys is refused.                                *)
(***************************************************************************)
EXTENDS Naturals, FiniteSets

CONSTANTS
  Workers,      \* worker processes
  Events,       \* raw events
  Raw,          \* [Events -> RawEvents]: their pointers and records
  Dates,        \* event dates
  Titles,       \* title signatures
  Sources,      \* source ids
  Symbols,      \* spellings of symbols
  Canonical,    \* [Symbols -> Symbols]: trimmed and in upper case
  Claims,       \* [Events -> SUBSET ClaimSpace]: what may be said of an event
  ScanLimit,    \* story_member_scan_limit
  MaxFaults     \* bound on redeliveries and stops

EventTypes ==
  {"listing", "delisting", "deposit_withdrawal", "incident", "partnership",
   "token_unlock", "governance", "funding_shift", "macro_event", "regulatory",
   "social_backlash", "social_hype", "other"}

ContradictionFlags ==
  {"time_mismatch", "symbol_ambiguity", "source_claim_conflict",
   "rumor_vs_official", "title_body_mismatch", "evidence_weak"}

Terminals ==
  {"high_confidence_structured", "low_confidence_structured", "general_market_context",
   "conflicted", "unsupported_or_weak", "irrelevant_or_noise"}

(* segment: path_segment of the event's id, numbered in key order; two ids *)
(* may have the same.  hour: of observed_at_ms, where the objects of the   *)
(* event are filed.                                                        *)
RawEvents ==
  [segment : Nat, hour : Nat, date : Dates, title : Titles, source : Sources]

(* A StructuringDecision and the market context it was made with.  known:  *)
(* the symbol confidence is neither weak nor low; usable: the context is   *)
(* that of a symbol; fallback: fallback_count is not zero.                 *)
ClaimSpace ==
  [type : EventTypes, symbols : SUBSET Symbols, flags : SUBSET ContradictionFlags,
   terminal : Terminals, known : BOOLEAN, usable : BOOLEAN, fallback : BOOLEAN]

ASSUME InputsAssumption ==
  /\ Raw \in [Events -> RawEvents]
  /\ Canonical \in [Symbols -> Symbols]
  /\ Claims \in [Events -> SUBSET ClaimSpace]
ASSUME LimitsAssumption == ScanLimit \in Nat \ {0} /\ MaxFaults \in Nat

VARIABLES
  delivered,   \* events whose message has been delivered
  faults,      \* how many redeliveries and stops there were
  worker,      \* [Workers -> WorkerState]
  members,     \* stored story members
  clusters,    \* stored story clusters
  packets,     \* stored structured packets
  flags,       \* stored context flags
  healths,     \* stored health events
  prepared,    \* events with a prepared index
  announced,   \* events whose objects have been published
  success,     \* events with a success index
  refreshed    \* history: which clusters came after which, see PutCluster

store == <<members, clusters, packets, flags, healths, prepared, success>>

vars == <<delivered, faults, worker, store, announced, refreshed>>

-----------------------------------------------------------------------------
(***************************************************************************)
(* Stories                                                                 *)
(***************************************************************************)

Signature(symbols) == {Canonical[s] : s \in symbols}

(* Faulty: the event type is not part of the story.                        *)
UntypedHint(e, type, symbols) ==
  [date |-> Raw[e].date, type |-> "other", signature |-> Signature(symbols),
   topic |-> IF symbols = {} THEN Raw[e].title ELSE "other"]

(* story_hint_key; the hash is taken to be injective.                      *)
StoryHint(e, type, symbols) ==
  [date |-> Raw[e].date, type |-> type, signature |-> Signature(symbols),
   topic |-> IF symbols = {} THEN Raw[e].title ELSE type]

Stories ==
  [date : Dates, type : EventTypes, signature : SUBSET Symbols,
   topic : Titles \cup EventTypes]

StoryMembers ==
  [event : Events, type : EventTypes, symbols : SUBSET Symbols,
   flags : SUBSET ContradictionFlags]

(* StoryMember::from_packet_set                                            *)
Member(e, claim) ==
  [event |-> e, type |-> claim.type, symbols |-> claim.symbols, flags |-> claim.flags]

StoryOf(m) == StoryHint(m.event, m.type, m.symbols)

Segment(e) == Raw[e].segment

(* story_member_key, story_cluster_key; a packet, a flag and a health      *)
(* event are filed under a hash of the event's whole id.                   *)
MemberKey(m) == <<StoryOf(m), Segment(m.event)>>

ClusterKey(c) == <<Raw[c.event].hour, Segment(c.event), c.story>>

(* An index of the segment is there, whoever wrote it.                     *)
Indexed(e) == \E f \in success : Segment(f) = Segment(e)

MembersOf(story) == {m \in members : StoryOf(m) = story}

Ahead(m) == {n \in MembersOf(StoryOf(m)) : Segment(n.event) < Segment(m.event)}

(* Faulty: the listing stops one key early.                                *)
ListedShort(story) == {m \in MembersOf(story) : Cardinality(Ahead(m)) + 1 < ScanLimit}

(* list_keys: the first ScanLimit members in key order.                    *)
Listed(story) == {m \in MembersOf(story) : Cardinality(Ahead(m)) < ScanLimit}

-----------------------------------------------------------------------------
(***************************************************************************)
(* merge_story_members: what a cluster says of the members it is built of  *)
(***************************************************************************)

SourceIds(ms) == {Raw[m.event].source : m \in ms}

RelatedSymbols(ms) == UNION {m.symbols : m \in ms}

MixedTopic(ms) == \E m, n \in ms : m.type # n.type

(* Faulty: contradictions are taken from the first member alone.           *)
FirstContradictions(ms) ==
  UNION {m.flags : m \in {n \in ms : \A o \in ms : Segment(n.event) <= Segment(o.event)}}

(* merged_contradiction_flags                                              *)
Contradictions(ms) ==
  UNION {m.flags : m \in ms}
    \cup (IF MixedTopic(ms) THEN {"source_claim_conflict"} ELSE {})

Severe(fs) == fs \cap {"source_claim_conflict", "rumor_vs_official"} # {}

(* conflict_level: 0 none, 1 low, 2 medium, 3 high                         *)
ConflictLevel(ms) ==
  IF Severe(Contradictions(ms)) THEN 3
  ELSE IF Contradictions(ms) # {} THEN 2
  ELSE IF \E s, t \in SourceIds(ms) : s # t THEN 1
  ELSE 0

ConflictingSources(ms) == IF ConflictLevel(ms) >= 2 THEN SourceIds(ms) ELSE {}

-----------------------------------------------------------------------------
(***************************************************************************)
(* The packet set of a draft, as apply_story_cluster leaves it.  An object *)
(* is represented by what it is built from.                                *)
(***************************************************************************)

ClusterSpace == [event : Events, story : Stories, members : SUBSET StoryMembers]

PacketSpace ==
  [event : Events, story : Stories, claim : ClaimSpace, members : SUBSET StoryMembers]

FlagSpace == [event : Events, story : Stories, claim : ClaimSpace, symbols : SUBSET Symbols]

HealthLevels == {"healthy", "degraded", "fallback_only"}

HealthSpace ==
  [event : Events, high : BOOLEAN, flagged : BOOLEAN, fallback : BOOLEAN,
   level : HealthLevels]

(* should_emit_context_flag, asked before the merge.                       *)
EmitsFlag(claim) ==
  /\ claim.symbols # {}
  /\ claim.known
  /\ claim.terminal \in {"high_confidence_structured", "general_market_context"}
  /\ claim.type = "funding_shift" => claim.usable

Cluster(e, claim, merged) ==
  [event |-> e, story |-> StoryOf(Member(e, claim)),
   members |-> merged \cup {Member(e, claim)}]

Packet(e, claim, merged) ==
  [event |-> e, story |-> StoryOf(Member(e, claim)), claim |-> claim,
   members |-> merged \cup {Member(e, claim)}]

Flag(e, claim, merged) ==
  [event |-> e, story |-> StoryOf(Member(e, claim)), claim |-> claim,
   symbols |-> RelatedSymbols(merged \cup {Member(e, claim)})]

(* Faulty: the health event keeps what build_packet_set put there.         *)
HealthBeforeMerge(e, claim, merged) ==
  [event |-> e, high |-> FALSE, flagged |-> EmitsFlag(claim),
   fallback |-> claim.fallback,
   level |-> IF claim.fallback THEN "fallback_only" ELSE "healthy"]

Health(e, claim, merged) ==
  LET high == ConflictLevel(merged \cup {Member(e, claim)}) = 3 IN
  [event |-> e, high |-> high, flagged |-> EmitsFlag(claim),
   fallback |-> claim.fallback,
   level |-> IF claim.fallback THEN "fallback_only"
             ELSE IF high THEN "degraded" ELSE "healthy"]

-----------------------------------------------------------------------------
(***************************************************************************)
(* Attempts                                                                *)
(***************************************************************************)

Phases ==
  {"idle", "unindexed", "merge", "cluster", "packet", "flag", "health",
   "prepared", "publish", "success"}

(* known: history, the clusters of the story whose event was complete when *)
(* the story was listed.                                                   *)
Attempts ==
  [pc : Phases \ {"idle", "unindexed"}, event : Events, claim : ClaimSpace,
   unread : SUBSET StoryMembers, merged : SUBSET StoryMembers, known : SUBSET ClusterSpace]

WorkerState ==
  [pc : {"idle"}] \cup [pc : {"unindexed"}, event : Events] \cup Attempts

Idle == [pc |-> "idle"]

Becomes(w, state) == worker' = [worker EXCEPT ![w] = state]

Reaches(w, pc) == Becomes(w, [worker[w] EXCEPT !.pc = pc])

Fault == faults < MaxFaults /\ faults' = faults + 1

(* A delivery of the event's message; its success index is not there.      *)
Start(w, e) ==
  /\ worker[w].pc = "idle"
  /\ ~Indexed(e)
  /\ IF e \in delivered THEN Fault ELSE UNCHANGED faults
  /\ delivered' = delivered \cup {e}
  /\ Becomes(w, [pc |-> "unindexed", event |-> e])
  /\ UNCHANGED <<store, announced, refreshed>>

(* A call fails or the worker dies.                                        *)
Stop(w) ==
  /\ worker[w].pc # "idle"
  /\ Fault
  /\ Becomes(w, Idle)
  /\ UNCHANGED <<delivered, store, announced, refreshed>>

(* The event is decided and its packets are built; the story is listed.    *)
Structure(w, claim) ==
  LET e == worker[w].event
      story == StoryOf(Member(e, claim))
  IN
  /\ worker[w].pc = "unindexed"
  /\ Becomes(w, [pc |-> "merge", event |-> e, claim |-> claim,
                 unread |-> {m \in Listed(story) : m.event # e},
                 merged |-> {},
                 known |-> {c \in clusters : c.story = story /\ Indexed(c.event)}])
  /\ UNCHANGED <<delivered, faults, store, announced, refreshed>>

(* The next member is read, and kept if its event is indexed by then.      *)
ReadMember(w, m) ==
  /\ worker[w].pc = "merge"
  /\ m \in worker[w].unread
  /\ \A n \in worker[w].unread : Segment(m.event) <= Segment(n.event)
  /\ Becomes(w, [worker[w] EXCEPT
                   !.unread = @ \ {m},
                   !.merged = IF Indexed(m.event) THEN @ \cup {m} ELSE @])
  /\ UNCHANGED <<delivered, faults, store, announced, refreshed>>

(* put_bytes_idempotent: nothing but the same object is under the key.     *)
Accepts(clash, o) == clash \subseteq {o}

Put(objects, clash, o) == IF Accepts(clash, o) THEN objects \cup {o} ELSE objects

(* A conflict refuses the message and ends the attempt; what becomes of    *)
(* the message is told by IntelWorker.                                     *)
Proceed(w, accepted, pc) == IF accepted THEN Reaches(w, pc) ELSE Becomes(w, Idle)

PutMember(w) ==
  LET m == Member(worker[w].event, worker[w].claim)
      clash == {n \in members : MemberKey(n) = MemberKey(m)}
  IN
  /\ worker[w].pc = "merge"
  /\ worker[w].unread = {}
  /\ members' = Put(members, clash, m)
  /\ Proceed(w, Accepts(clash, m), "cluster")
  /\ UNCHANGED <<delivered, faults, clusters, packets, flags, healths, prepared,
                 announced, success, refreshed>>

(* Faulty: the write lacks If-None-Match and overwrites.                   *)
PutClusterOver(w) ==
  LET c == Cluster(worker[w].event, worker[w].claim, worker[w].merged) IN
  /\ worker[w].pc = "cluster"
  /\ clusters' = {b \in clusters : ClusterKey(b) # ClusterKey(c)} \cup {c}
  /\ refreshed' = refreshed \cup {[earlier |-> b, later |-> c] : b \in worker[w].known}
  /\ Reaches(w, "packet")
  /\ UNCHANGED <<delivered, faults, members, packets, flags, healths, prepared,
                 announced, success>>

(* The cluster refreshes those its attempt could know of.                  *)
PutCluster(w) ==
  LET c == Cluster(worker[w].event, worker[w].claim, worker[w].merged)
      clash == {b \in clusters : ClusterKey(b) = ClusterKey(c)}
  IN
  /\ worker[w].pc = "cluster"
  /\ clusters' = Put(clusters, clash, c)
  /\ refreshed' = IF Accepts(clash, c)
                  THEN refreshed \cup {[earlier |-> b, later |-> c] : b \in worker[w].known} ELSE refreshed
  /\ Proceed(w, Accepts(clash, c), "packet")
  /\ UNCHANGED <<delivered, faults, members, packets, flags, healths, prepared,
                 announced, success>>

(* Faulty: the write lacks If-None-Match and overwrites.                   *)
PutPacketOver(w) ==
  LET p == Packet(worker[w].event, worker[w].claim, worker[w].merged) IN
  /\ worker[w].pc = "packet"
  /\ packets' = {q \in packets : q.event # p.event} \cup {p}
  /\ Reaches(w, "flag")
  /\ UNCHANGED <<delivered, faults, members, clusters, flags, healths, prepared,
                 announced, success, refreshed>>

PutPacket(w) ==
  LET p == Packet(worker[w].event, worker[w].claim, worker[w].merged)
      clash == {q \in packets : q.event = p.event}
  IN
  /\ worker[w].pc = "packet"
  /\ packets' = Put(packets, clash, p)
  /\ Proceed(w, Accepts(clash, p), "flag")
  /\ UNCHANGED <<delivered, faults, members, clusters, flags, healths, prepared,
                 announced, success, refreshed>>

PutFlag(w) ==
  LET f == Flag(worker[w].event, worker[w].claim, worker[w].merged)
      clash == {g \in flags : g.event = f.event}
  IN
  /\ worker[w].pc = "flag"
  /\ EmitsFlag(worker[w].claim)
  /\ flags' = Put(flags, clash, f)
  /\ Proceed(w, Accepts(clash, f), "health")
  /\ UNCHANGED <<delivered, faults, members, clusters, packets, healths, prepared,
                 announced, success, refreshed>>

SkipFlag(w) ==
  /\ worker[w].pc = "flag"
  /\ ~EmitsFlag(worker[w].claim)
  /\ Reaches(w, "health")
  /\ UNCHANGED <<delivered, faults, store, announced, refreshed>>

PutHealth(w) ==
  LET h == Health(worker[w].event, worker[w].claim, worker[w].merged)
      clash == {i \in healths : i.event = h.event}
  IN
  /\ worker[w].pc = "health"
  /\ healths' = Put(healths, clash, h)
  /\ Proceed(w, Accepts(clash, h), "prepared")
  /\ UNCHANGED <<delivered, faults, members, clusters, packets, flags, prepared,
                 announced, success, refreshed>>

(* Faulty: the index of the segment is overwritten.                        *)
PutPreparedOver(w) ==
  LET e == worker[w].event IN
  /\ worker[w].pc = "prepared"
  /\ prepared' = {f \in prepared : Segment(f) # Segment(e)} \cup {e}
  /\ Reaches(w, "publish")
  /\ UNCHANGED <<delivered, faults, members, clusters, packets, flags, healths,
                 announced, success, refreshed>>

PutPrepared(w) ==
  LET e == worker[w].event
      clash == {f \in prepared : Segment(f) = Segment(e)}
  IN
  /\ worker[w].pc = "prepared"
  /\ prepared' = Put(prepared, clash, e)
  /\ Proceed(w, Accepts(clash, e), "publish")
  /\ UNCHANGED <<delivered, faults, members, clusters, packets, flags, healths,
                 announced, success, refreshed>>

Publish(w) ==
  /\ worker[w].pc = "publish"
  /\ announced' = announced \cup {worker[w].event}
  /\ Reaches(w, "success")
  /\ UNCHANGED <<delivered, faults, store, refreshed>>

PutSuccess(w) ==
  LET e == worker[w].event
      clash == {f \in success : Segment(f) = Segment(e)}
  IN
  /\ worker[w].pc = "success"
  /\ success' = Put(success, clash, e)
  /\ Becomes(w, Idle)
  /\ UNCHANGED <<delivered, faults, members, clusters, packets, flags, healths,
                 prepared, announced, refreshed>>

Init ==
  /\ delivered = {}
  /\ faults = 0
  /\ worker = [w \in Workers |-> Idle]
  /\ members = {} /\ clusters = {} /\ packets = {} /\ flags = {} /\ healths = {}
  /\ prepared = {} /\ announced = {} /\ success = {}
  /\ refreshed = {}

Step(w) ==
  \/ \E e \in Events : Start(w, e)
  \/ worker[w].pc = "unindexed" /\ \E claim \in Claims[worker[w].event] : Structure(w, claim)
  \/ worker[w].pc = "merge" /\ \E m \in worker[w].unread : ReadMember(w, m)
  \/ PutMember(w)
  \/ PutCluster(w)
  \/ PutPacket(w)
  \/ PutFlag(w)
  \/ SkipFlag(w)
  \/ PutHealth(w)
  \/ PutPrepared(w)
  \/ Publish(w)
  \/ PutSuccess(w)
  \/ Stop(w)

Next == \E w \in Workers : Step(w)

Spec == Init /\ [][Next]_vars

-----------------------------------------------------------------------------
(***************************************************************************)
(* Properties                                                              *)
(***************************************************************************)

TypeOK ==
  /\ delivered \subseteq Events
  /\ faults \in 0..MaxFaults
  /\ worker \in [Workers -> WorkerState]
  /\ members \subseteq StoryMembers
  /\ clusters \subseteq ClusterSpace
  /\ packets \subseteq PacketSpace
  /\ flags \subseteq FlagSpace
  /\ healths \subseteq HealthSpace
  /\ prepared \subseteq Events
  /\ announced \subseteq Events
  /\ success \subseteq Events
  /\ refreshed \subseteq [earlier : clusters, later : clusters]

(* "refreshed story clusters merge prior sources": a cluster keeps every   *)
(* source of the clusters that were complete when its attempt listed the   *)
(* story, except those whose members the listing no longer reaches because *)
(* ScanLimit others come first.  Events processed together may miss each   *)
(* other; a third one after them misses neither.                           *)
SourcesCarryOver ==
  \A r \in refreshed : \A m \in r.earlier.members :
    Cardinality(Ahead(m)) < ScanLimit =>
      \E n \in r.later.members : n.event = m.event

(* As long as the listing reaches the members of the earlier cluster, a    *)
(* refreshed cluster is in no less conflict than that one, and leaves out  *)
(* no source that was in conflict there.                                   *)
ConflictsCarryOver ==
  \A r \in refreshed :
    (\A m \in r.earlier.members : Cardinality(Ahead(m)) < ScanLimit) =>
      /\ ConflictLevel(r.earlier.members) <= ConflictLevel(r.later.members)
      /\ ConflictingSources(r.earlier.members) \subseteq
           ConflictingSources(r.later.members)

(* A packet as it is stored, with the symbols of the whole cluster instead *)
(* of its own, still belongs to the story it was merged into, and the      *)
(* cluster is of one topic: merging cannot make the conflict of topics     *)
(* that merged_contradiction_flags looks for.                              *)
PacketsNameTheirStory ==
  \A p \in packets :
    /\ StoryHint(p.event, p.claim.type, RelatedSymbols(p.members)) = p.story
    /\ ~MixedTopic(p.members)

(* A context flag says what the stored packet of its event says and is     *)
(* justified by the claim and the market context of that packet, although  *)
(* the two may stem from attempts that saw different ones.                 *)
FlagsFollowPackets ==
  \A f \in flags : \E p \in packets :
    /\ p.event = f.event
    /\ p.story = f.story
    /\ p.claim = f.claim
    /\ f.symbols = RelatedSymbols(p.members)
    /\ p.claim.terminal \in {"high_confidence_structured", "general_market_context"}
    /\ p.claim.type = "funding_shift" => p.claim.usable

(* A health event reports the conflict of the stored cluster of its event  *)
(* and the flag that is or is not stored, whichever attempts stored them.  *)
HealthReportsStory ==
  \A h \in healths : \E p \in packets, c \in clusters :
    /\ p.event = h.event /\ c.event = h.event
    /\ c.story = p.story /\ c.members = p.members
    /\ h.high = (ConflictLevel(c.members) = 3)
    /\ h.flagged = (\E f \in flags : f.event = h.event)
    /\ h.level = "healthy" => ConflictLevel(c.members) < 3 /\ ~p.claim.fallback

(* Of the events whose ids have one path segment at most one is announced, *)
(* and all it was announced with is stored, no object of another event     *)
(* among it.                                                               *)
OneEventPerSegment ==
  /\ \A e, f \in announced : Segment(e) = Segment(f) => e = f
  /\ \A e \in announced : \E p \in packets, h \in healths :
       /\ p.event = e /\ h.event = e
       /\ Member(e, p.claim) \in members
       /\ Cluster(e, p.claim, p.members) \in clusters
       /\ h = Health(e, p.claim, p.members)
  /\ success \subseteq announced

FlagStored(e) == \E f \in flags : f.event = e

HighReported(e) == \E h \in healths : h.event = e /\ h.high

(* What packet, flag and health event of e say together.                   *)
Reports(e) ==
  {[claim |-> p.claim, flagged |-> FlagStored(e), severe |-> HighReported(e)] :
     p \in {q \in packets : q.event = e}}

ClaimsMade == UNION {Claims[e] : e \in Events}

(* Whichever attempts wrote and announced the three, together they report  *)
(* an event as StoryContract promises.                                     *)
Contract == INSTANCE StoryContract WITH
  Segments <- [e \in Events |-> Segment(e)],
  Flagged  <- {claim \in ClaimsMade : EmitsFlag(claim)},
  Grave    <- {claim \in ClaimsMade : Severe(claim.flags)},
  reports  <- [e \in Events |-> IF e \in announced THEN Reports(e) ELSE {}],
  complete <- success

ImplementsContract == Contract!Spec
=============================================================================
