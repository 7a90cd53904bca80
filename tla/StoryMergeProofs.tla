--------------------------- MODULE StoryMergeProofs ---------------------------
(***************************************************************************)
(* Proofs about StoryMerge, for any number of workers and events, any      *)
(* claims, any listing limit and any number of redeliveries and stops.     *)
(*                                                                         *)
(* The argument: the bucket only grows (Grows), so what an attempt has     *)
(* read and written (AttemptHolds) stays true while others move, and each  *)
(* object was written by an attempt that had written those before it       *)
(* (StoreHolds).  Members that come later only push others further back in *)
(* a listing, hence what is within reach now was within reach when the     *)
(* story was listed.                                                       *)
(***************************************************************************)
EXTENDS StoryMerge, FiniteSetTheorems, TLAPS

Busy == Phases \ {"idle", "unindexed"}

Writing == Busy \ {"merge"}

Own(w) == Member(worker[w].event, worker[w].claim)

OwnCluster(w) == Cluster(worker[w].event, worker[w].claim, worker[w].merged)

OwnPacket(w) == Packet(worker[w].event, worker[w].claim, worker[w].merged)

OwnFlag(w) == Flag(worker[w].event, worker[w].claim, worker[w].merged)

OwnHealth(w) == Health(worker[w].event, worker[w].claim, worker[w].merged)

Reached(m) == Cardinality(Ahead(m)) < ScanLimit

(* What an attempt has read: members of its story, those of the clusters   *)
(* it could know of among them.                                            *)
ReadsHold(w) ==
  /\ \A m \in worker[w].unread \cup worker[w].merged :
       m \in members /\ StoryOf(m) = StoryOf(Own(w)) /\ m.event # worker[w].event
  /\ \A m \in worker[w].merged : Indexed(m.event)

KnownHolds(w) ==
  \A b \in worker[w].known :
    /\ b \in clusters
    /\ b.story = StoryOf(Own(w))
    /\ Indexed(b.event)
    /\ \A m \in b.members :
         Reached(m) => \/ m.event = worker[w].event
                       \/ m \in worker[w].unread \cup worker[w].merged

(* What an attempt has written.                                            *)
WritesHold(w) ==
  /\ worker[w].pc \in Writing => worker[w].unread = {} /\ Own(w) \in members
  /\ worker[w].pc \in Writing \ {"cluster"} => OwnCluster(w) \in clusters
  /\ worker[w].pc \in Writing \ {"cluster", "packet"} => OwnPacket(w) \in packets
  /\ worker[w].pc \in {"health", "prepared", "publish", "success"}
       /\ EmitsFlag(worker[w].claim) => OwnFlag(w) \in flags
  /\ worker[w].pc \in {"prepared", "publish", "success"} => OwnHealth(w) \in healths
  /\ worker[w].pc \in {"publish", "success"} => worker[w].event \in prepared
  /\ worker[w].pc = "success" => worker[w].event \in announced

AttemptHolds(w) ==
  worker[w].pc \in Busy => ReadsHold(w) /\ KnownHolds(w) /\ WritesHold(w)

-----------------------------------------------------------------------------
(* What the objects in the bucket say of each other.                       *)
MembersHold ==
  /\ IsFiniteSet(members)
  /\ \A m, n \in members : MemberKey(m) = MemberKey(n) => m = n

ClusterHolds(c) ==
  \A m \in c.members :
    /\ m \in members
    /\ StoryOf(m) = c.story
    /\ m.event = c.event \/ Indexed(m.event)

PacketHolds(p) ==
  /\ Member(p.event, p.claim) \in p.members
  /\ p.story = StoryOf(Member(p.event, p.claim))
  /\ Cluster(p.event, p.claim, p.members) \in clusters

PacketsApart == \A p, q \in packets : p.event = q.event => p = q

FlagHolds(f) ==
  \E p \in packets :
    p.event = f.event /\ EmitsFlag(p.claim) /\ f = Flag(p.event, p.claim, p.members)

HealthHolds(h) ==
  \E p \in packets :
    /\ p.event = h.event
    /\ h = Health(p.event, p.claim, p.members)
    /\ EmitsFlag(p.claim) => Flag(p.event, p.claim, p.members) \in flags

AnnouncedHolds(e) ==
  /\ e \in prepared
  /\ \E p \in packets :
       /\ p.event = e
       /\ Member(e, p.claim) \in members
       /\ Health(e, p.claim, p.members) \in healths

RefreshedHolds ==
  \A r \in refreshed : \A m \in r.earlier.members : Reached(m) => m \in r.later.members

StoreHolds ==
  /\ MembersHold
  /\ \A c \in clusters : ClusterHolds(c)
  /\ \A p \in packets : PacketHolds(p)
  /\ PacketsApart
  /\ \A f \in flags : FlagHolds(f)
  /\ \A h \in healths : HealthHolds(h)
  /\ \A e, f \in prepared : Segment(e) = Segment(f) => e = f
  /\ \A e \in announced : AnnouncedHolds(e)
  /\ success \subseteq announced
  /\ RefreshedHolds

(* The inductive invariant.                                                *)
IInv == TypeOK /\ (\A w \in Workers : AttemptHolds(w)) /\ StoreHolds

-----------------------------------------------------------------------------
(* Types                                                                   *)

LEMMA HintIsStory ==
  ASSUME NEW e \in Events, NEW type \in EventTypes, NEW symbols \in SUBSET Symbols
  PROVE  StoryHint(e, type, symbols) \in Stories
<1>1. Raw[e] \in RawEvents
  BY InputsAssumption
<1>2. Signature(symbols) \in SUBSET Symbols
  BY InputsAssumption DEF Signature
<1>3. QED
  BY <1>1, <1>2 DEF StoryHint, Stories, RawEvents

(* The objects of an attempt are well-formed.                              *)
LEMMA MemberIsTyped ==
  ASSUME NEW e \in Events, NEW claim \in ClaimSpace
  PROVE  /\ Member(e, claim) \in StoryMembers
         /\ StoryOf(Member(e, claim)) \in Stories
         /\ Member(e, claim).event = e
<1>1. Member(e, claim) \in StoryMembers /\ Member(e, claim).event = e
  BY DEF Member, StoryMembers, ClaimSpace
<1>2. StoryOf(Member(e, claim)) \in Stories
  BY <1>1, HintIsStory DEF StoryOf, StoryMembers
<1>3. QED
  BY <1>1, <1>2

LEMMA ObjectsAreTyped ==
  ASSUME NEW e \in Events, NEW claim \in ClaimSpace, NEW ms \in SUBSET StoryMembers
  PROVE  /\ Cluster(e, claim, ms) \in ClusterSpace
         /\ Packet(e, claim, ms) \in PacketSpace
         /\ Flag(e, claim, ms) \in FlagSpace
         /\ Health(e, claim, ms) \in HealthSpace
<1>1. /\ Member(e, claim) \in StoryMembers
      /\ StoryOf(Member(e, claim)) \in Stories
      /\ ms \cup {Member(e, claim)} \in SUBSET StoryMembers
  BY MemberIsTyped
<1>2. Cluster(e, claim, ms) \in ClusterSpace
  BY <1>1 DEF Cluster, ClusterSpace
<1>3. Packet(e, claim, ms) \in PacketSpace
  BY <1>1 DEF Packet, PacketSpace
<1>4. Flag(e, claim, ms) \in FlagSpace
  <2>1. RelatedSymbols(ms \cup {Member(e, claim)}) \in SUBSET Symbols
    BY <1>1 DEF RelatedSymbols, StoryMembers
  <2>2. QED
    BY <1>1, <2>1 DEF Flag, FlagSpace
<1>5. Health(e, claim, ms) \in HealthSpace
  <2>1. EmitsFlag(claim) \in BOOLEAN
    BY DEF EmitsFlag
  <2>2. claim.fallback \in BOOLEAN
    BY DEF ClaimSpace
  <2>3. (ConflictLevel(ms \cup {Member(e, claim)}) = 3) \in BOOLEAN
    OBVIOUS
  <2>4. QED
    BY <2>1, <2>2, <2>3 DEF Health, HealthSpace, HealthLevels
<1>6. QED
  BY <1>2, <1>3, <1>4, <1>5

LEMMA WorkerIsTyped ==
  ASSUME TypeOK, NEW w \in Workers
  PROVE  /\ worker[w].pc \in Phases
         /\ worker[w].pc = "unindexed" => worker[w].event \in Events
         /\ worker[w].pc \in Busy => worker[w] \in Attempts
<1>1. worker[w] \in WorkerState
  BY DEF TypeOK
<1>2. CASE worker[w] \in [pc : {"idle"}]
  BY <1>2 DEF Phases, Busy
<1>3. CASE worker[w] \in [pc : {"unindexed"}, event : Events]
  BY <1>3 DEF Phases, Busy
<1>4. CASE worker[w] \in Attempts
  BY <1>4 DEF Attempts, Phases, Busy
<1>5. QED
  BY <1>1, <1>2, <1>3, <1>4 DEF WorkerState

(* What an attempt has in hand is well-formed.                             *)
LEMMA OwnIsTyped ==
  ASSUME TypeOK, NEW w \in Workers, worker[w].pc \in Busy
  PROVE  /\ worker[w] \in Attempts
         /\ worker[w].event \in Events
         /\ worker[w].claim \in ClaimSpace
         /\ Own(w) \in StoryMembers
         /\ Own(w).event = worker[w].event
         /\ StoryOf(Own(w)) \in Stories
         /\ OwnCluster(w) \in ClusterSpace
         /\ OwnPacket(w) \in PacketSpace
         /\ OwnFlag(w) \in FlagSpace
         /\ OwnHealth(w) \in HealthSpace
<1>1. worker[w] \in Attempts
  BY WorkerIsTyped
<1>2. /\ worker[w].event \in Events
      /\ worker[w].claim \in ClaimSpace
      /\ worker[w].merged \in SUBSET StoryMembers
  BY <1>1 DEF Attempts
<1>3. QED
  BY <1>1, <1>2, MemberIsTyped, ObjectsAreTyped
     DEF Own, OwnCluster, OwnPacket, OwnFlag, OwnHealth

(* How the state of a worker changes.                                      *)
LEMMA BecomesWorks ==
  ASSUME TypeOK, NEW w \in Workers, NEW state \in WorkerState, Becomes(w, state)
  PROVE  /\ worker' \in [Workers -> WorkerState]
         /\ worker'[w] = state
         /\ \A u \in Workers \ {w} : worker'[u] = worker[u]
BY DEF Becomes, TypeOK

LEMMA IdleIsState == Idle \in WorkerState /\ Idle.pc = "idle"
BY DEF Idle, WorkerState

LEMMA ReachesWorks ==
  ASSUME TypeOK, NEW w \in Workers, worker[w].pc \in Busy, NEW pc \in Busy, Reaches(w, pc)
  PROVE  /\ worker' \in [Workers -> WorkerState]
         /\ worker'[w].pc = pc
         /\ worker'[w].event = worker[w].event
         /\ worker'[w].claim = worker[w].claim
         /\ worker'[w].unread = worker[w].unread
         /\ worker'[w].merged = worker[w].merged
         /\ worker'[w].known = worker[w].known
         /\ \A u \in Workers \ {w} : worker'[u] = worker[u]
<1>1. worker[w] \in Attempts
  BY OwnIsTyped
<1> DEFINE state == [worker[w] EXCEPT !.pc = pc]
<1>2. /\ state \in Attempts
      /\ state.pc = pc
      /\ state.event = worker[w].event
      /\ state.claim = worker[w].claim
      /\ state.unread = worker[w].unread
      /\ state.merged = worker[w].merged
      /\ state.known = worker[w].known
  BY <1>1 DEF Attempts, Busy
<1>3. state \in WorkerState /\ Becomes(w, state)
  BY <1>2 DEF WorkerState, Reaches
<1>4. /\ worker' \in [Workers -> WorkerState]
      /\ worker'[w] = state
      /\ \A u \in Workers \ {w} : worker'[u] = worker[u]
  BY <1>3, BecomesWorks
<1>5. QED
  BY <1>2, <1>4

LEMMA ProceedWorks ==
  ASSUME TypeOK, NEW w \in Workers, NEW accepted \in BOOLEAN, NEW pc, Proceed(w, accepted, pc)
  PROVE  \/ accepted /\ Reaches(w, pc)
         \/ /\ ~accepted
            /\ worker' \in [Workers -> WorkerState]
            /\ worker'[w].pc = "idle"
            /\ \A u \in Workers \ {w} : worker'[u] = worker[u]
BY BecomesWorks, IdleIsState DEF Proceed

-----------------------------------------------------------------------------
(* What the listing and the reading of a story make of an attempt.         *)
LEMMA StructureWorks ==
  ASSUME TypeOK, NEW w \in Workers, NEW claim \in Claims[worker[w].event],
         Structure(w, claim)
  PROVE  /\ worker' \in [Workers -> WorkerState]
         /\ worker'[w] \in Attempts
         /\ worker'[w].pc = "merge"
         /\ worker'[w].event = worker[w].event
         /\ worker'[w].claim = claim
         /\ worker'[w].unread =
              {m \in Listed(StoryOf(Member(worker[w].event, claim))) :
                 m.event # worker[w].event}
         /\ worker'[w].merged = {}
         /\ worker'[w].known =
              {c \in clusters : /\ c.story = StoryOf(Member(worker[w].event, claim))
                                /\ Indexed(c.event)}
         /\ \A u \in Workers \ {w} : worker'[u] = worker[u]
<1> DEFINE e == worker[w].event
           story == StoryOf(Member(e, claim))
           unread == {m \in Listed(story) : m.event # e}
           known == {c \in clusters : c.story = story /\ Indexed(c.event)}
           state == [pc |-> "merge", event |-> e, claim |-> claim, unread |-> unread,
                     merged |-> {}, known |-> known]
<1>1. e \in Events /\ claim \in ClaimSpace
  <2>1. e \in Events
    BY WorkerIsTyped DEF Structure
  <2>2. QED
    BY <2>1, InputsAssumption
<1>2. unread \in SUBSET StoryMembers /\ known \in SUBSET ClusterSpace
  BY DEF Listed, MembersOf, TypeOK
<1>3. state \in Attempts
  <2> HIDE DEF unread, known
  <2>1. QED
    BY <1>1, <1>2 DEF Attempts, Phases
<1>4. state \in WorkerState /\ Becomes(w, state)
  BY <1>3 DEF WorkerState, Structure
<1>5. /\ worker' \in [Workers -> WorkerState]
      /\ worker'[w] = state
      /\ \A u \in Workers \ {w} : worker'[u] = worker[u]
  BY <1>4, BecomesWorks
<1>6. QED
  BY <1>3, <1>5

LEMMA ReadMemberWorks ==
  ASSUME TypeOK, NEW w \in Workers, NEW m \in worker[w].unread, ReadMember(w, m)
  PROVE  /\ worker' \in [Workers -> WorkerState]
         /\ worker'[w].pc = "merge"
         /\ worker'[w].event = worker[w].event
         /\ worker'[w].claim = worker[w].claim
         /\ worker'[w].unread = worker[w].unread \ {m}
         /\ worker'[w].merged = IF Indexed(m.event) THEN worker[w].merged \cup {m}
                                                    ELSE worker[w].merged
         /\ worker'[w].known = worker[w].known
         /\ \A u \in Workers \ {w} : worker'[u] = worker[u]
<1>1. worker[w] \in Attempts /\ worker[w].pc = "merge"
  BY OwnIsTyped DEF ReadMember, Busy, Phases
<1> DEFINE merged == IF Indexed(m.event) THEN worker[w].merged \cup {m}
                                         ELSE worker[w].merged
           state == [worker[w] EXCEPT !.unread = worker[w].unread \ {m},
                                      !.merged = merged]
<1>2. m \in StoryMembers /\ merged \in SUBSET StoryMembers
  BY <1>1 DEF Attempts
<1>3. Becomes(w, state)
  BY DEF ReadMember
<1>4. /\ state \in Attempts
      /\ state.pc = "merge"
      /\ state.event = worker[w].event
      /\ state.claim = worker[w].claim
      /\ state.unread = worker[w].unread \ {m}
      /\ state.merged = merged
      /\ state.known = worker[w].known
  <2> HIDE DEF merged
  <2>1. QED
    BY <1>1, <1>2 DEF Attempts
<1>5. state \in WorkerState
  BY <1>4 DEF WorkerState
<1>6. /\ worker' \in [Workers -> WorkerState]
      /\ worker'[w] = state
      /\ \A u \in Workers \ {w} : worker'[u] = worker[u]
  <2> HIDE DEF state
  <2>1. QED
    BY <1>3, <1>5, BecomesWorks
<1>7. QED
  BY <1>4, <1>6

LEMMA StartWorks ==
  ASSUME TypeOK, NEW w \in Workers, NEW e \in Events, Start(w, e)
  PROVE  /\ worker' \in [Workers -> WorkerState]
         /\ worker'[w].pc = "unindexed"
         /\ \A u \in Workers \ {w} : worker'[u] = worker[u]
<1>1. [pc |-> "unindexed", event |-> e] \in WorkerState
  BY DEF WorkerState
<1>2. QED
  BY <1>1, BecomesWorks DEF Start

(* How the state of a worker changes with a write: it goes on to the next  *)
(* phase with the object in the bucket, or it is idle and nothing changes. *)
LEMMA WriteWorks ==
  ASSUME TypeOK, NEW w \in Workers, worker[w].pc \in Busy, NEW pc \in Busy,
         NEW objects, NEW objectsNext, NEW clash, NEW o,
         objectsNext = Put(objects, clash, o), Proceed(w, Accepts(clash, o), pc)
  PROVE  /\ worker' \in [Workers -> WorkerState]
         /\ \A u \in Workers \ {w} : worker'[u] = worker[u]
         /\ \/ /\ clash \subseteq {o}
               /\ objectsNext = objects \cup {o}
               /\ worker'[w].pc = pc
               /\ worker'[w].event = worker[w].event
               /\ worker'[w].claim = worker[w].claim
               /\ worker'[w].unread = worker[w].unread
               /\ worker'[w].merged = worker[w].merged
               /\ worker'[w].known = worker[w].known
            \/ /\ ~(clash \subseteq {o})
               /\ objectsNext = objects
               /\ worker'[w].pc = "idle"
<1>1. Accepts(clash, o) \in BOOLEAN
  BY DEF Accepts
<1>2. CASE Accepts(clash, o)
  <2>1. Reaches(w, pc)
    BY <1>1, <1>2, ProceedWorks
  <2>2. QED
    BY <1>2, <2>1, ReachesWorks DEF Put, Accepts
<1>3. CASE ~Accepts(clash, o)
  <2>1. /\ worker' \in [Workers -> WorkerState]
        /\ worker'[w].pc = "idle"
        /\ \A u \in Workers \ {w} : worker'[u] = worker[u]
    BY <1>1, <1>3, ProceedWorks
  <2>2. QED
    BY <1>3, <2>1 DEF Put, Accepts
<1>4. QED
  BY <1>2, <1>3

-----------------------------------------------------------------------------
(* The bucket only grows, and what was said of it stays true.              *)
Grows ==
  /\ members \subseteq members' /\ IsFiniteSet(members')
  /\ clusters \subseteq clusters'
  /\ packets \subseteq packets'
  /\ flags \subseteq flags'
  /\ healths \subseteq healths'
  /\ prepared \subseteq prepared'
  /\ announced \subseteq announced'
  /\ success \subseteq success'

(* What a listing reaches now it reached before.                           *)
LEMMA ReachedBefore ==
  ASSUME members \subseteq members', IsFiniteSet(members'), NEW m, Reached(m)'
  PROVE  Reached(m)
<1>1. Ahead(m) \subseteq Ahead(m)'
  BY DEF Ahead, MembersOf
<1>2. IsFiniteSet(Ahead(m)')
  <2>1. Ahead(m)' \subseteq members'
    BY DEF Ahead, MembersOf
  <2>2. QED
    BY <2>1, FS_Subset
<1>3. /\ IsFiniteSet(Ahead(m))
      /\ Cardinality(Ahead(m)) <= Cardinality(Ahead(m)')
  BY <1>1, <1>2, FS_Subset
<1>4. Cardinality(Ahead(m)) \in Nat /\ Cardinality(Ahead(m)') \in Nat
  BY <1>2, <1>3, FS_CardinalityType
<1>5. Cardinality(Ahead(m))' = Cardinality(Ahead(m)')
  OBVIOUS
<1>6. QED
  BY <1>3, <1>4, LimitsAssumption DEF Reached

(* An attempt keeps what it has read as long as the story and the sets of  *)
(* members it has in hand are the same.                                    *)
LEMMA ReadsAreKept ==
  ASSUME Grows, NEW w \in Workers, ReadsHold(w), KnownHolds(w),
         worker'[w].event = worker[w].event,
         worker'[w].claim = worker[w].claim,
         worker'[w].unread = worker[w].unread,
         worker'[w].merged = worker[w].merged,
         worker'[w].known = worker[w].known
  PROVE  ReadsHold(w)' /\ KnownHolds(w)'
<1>1. Own(w)' = Own(w)
  BY DEF Own
<1>2. \A e : Indexed(e) => Indexed(e)'
  BY DEF Grows, Indexed
<1>3. ReadsHold(w)'
  BY <1>1, <1>2 DEF ReadsHold, Grows
<1>4. KnownHolds(w)'
  <2>1. \A m : Reached(m)' => Reached(m)
    BY ReachedBefore DEF Grows
  <2>2. QED
    BY <1>1, <1>2, <2>1 DEF KnownHolds, Grows
<1>5. QED
  BY <1>3, <1>4

(* An attempt that does not move is not disturbed by the others.           *)
LEMMA OthersAreKept ==
  ASSUME Grows, NEW u \in Workers, AttemptHolds(u), worker'[u] = worker[u]
  PROVE  AttemptHolds(u)'
<1>1. CASE worker[u].pc \in Busy
  <2>1. ReadsHold(u) /\ KnownHolds(u) /\ WritesHold(u)
    BY <1>1 DEF AttemptHolds
  <2>2. ReadsHold(u)' /\ KnownHolds(u)'
    BY <2>1, ReadsAreKept
  <2>3. /\ Own(u)' = Own(u)
        /\ OwnCluster(u)' = OwnCluster(u)
        /\ OwnPacket(u)' = OwnPacket(u)
        /\ OwnFlag(u)' = OwnFlag(u)
        /\ OwnHealth(u)' = OwnHealth(u)
    BY DEF Own, OwnCluster, OwnPacket, OwnFlag, OwnHealth
  <2>4. WritesHold(u)'
    BY <2>1, <2>3 DEF WritesHold, Grows
  <2>5. QED
    BY <2>2, <2>4 DEF AttemptHolds
<1>2. CASE worker[u].pc \notin Busy
  BY <1>2 DEF AttemptHolds
<1>3. QED
  BY <1>1, <1>2

(* What the objects say of each other stays true.                          *)
LEMMA ObjectsAreKept ==
  ASSUME Grows
  PROVE  /\ \A c : ClusterHolds(c) => ClusterHolds(c)'
         /\ \A p : PacketHolds(p) => PacketHolds(p)'
         /\ \A f : FlagHolds(f) => FlagHolds(f)'
         /\ \A h : HealthHolds(h) => HealthHolds(h)'
         /\ \A e : AnnouncedHolds(e) => AnnouncedHolds(e)'
<1>1. \A e : Indexed(e) => Indexed(e)'
  BY DEF Grows, Indexed
<1>2. ASSUME NEW c, ClusterHolds(c) PROVE ClusterHolds(c)'
  BY <1>1, <1>2 DEF ClusterHolds, Grows
<1>3. ASSUME NEW p, PacketHolds(p) PROVE PacketHolds(p)'
  BY <1>3 DEF PacketHolds, Grows
<1>4. ASSUME NEW f, FlagHolds(f) PROVE FlagHolds(f)'
  BY <1>4 DEF FlagHolds, Grows
<1>5. ASSUME NEW h, HealthHolds(h) PROVE HealthHolds(h)'
  BY <1>5 DEF HealthHolds, Grows
<1>6. ASSUME NEW e, AnnouncedHolds(e) PROVE AnnouncedHolds(e)'
  BY <1>6 DEF AnnouncedHolds, Grows
<1>7. QED
  BY <1>2, <1>3, <1>4, <1>5, <1>6

LEMMA RefreshedAreKept ==
  ASSUME Grows, RefreshedHolds, refreshed' = refreshed
  PROVE  RefreshedHolds'
<1>1. \A m : Reached(m)' => Reached(m)
  BY ReachedBefore DEF Grows
<1>2. QED
  BY <1>1 DEF RefreshedHolds

(* A step of one attempt that leaves the bucket alone.                     *)
LEMMA StoreIsKept ==
  ASSUME StoreHolds, UNCHANGED <<store, announced, refreshed>>
  PROVE  StoreHolds' /\ Grows
<1>1. Grows
  BY DEF store, Grows, StoreHolds, MembersHold
<1>2. MembersHold'
  BY DEF store, StoreHolds, MembersHold
<1>3. /\ \A c \in clusters' : ClusterHolds(c)'
      /\ \A p \in packets' : PacketHolds(p)'
      /\ \A f \in flags' : FlagHolds(f)'
      /\ \A h \in healths' : HealthHolds(h)'
      /\ \A e \in announced' : AnnouncedHolds(e)'
  BY <1>1, ObjectsAreKept DEF StoreHolds, store
<1>4. RefreshedHolds'
  BY <1>1, RefreshedAreKept DEF StoreHolds
<1>5. PacketsApart'
  BY DEF StoreHolds, PacketsApart, store
<1>6. QED
  BY <1>1, <1>2, <1>3, <1>4, <1>5 DEF StoreHolds, store

(* One attempt moves, the others are as they were.                         *)
LEMMA OneMoves ==
  ASSUME IInv, NEW w \in Workers, Grows,
         \A u \in Workers \ {w} : worker'[u] = worker[u],
         TypeOK', AttemptHolds(w)', StoreHolds'
  PROVE  IInv'
<1>1. ASSUME NEW u \in Workers PROVE AttemptHolds(u)'
  <2>1. CASE u = w
    BY <2>1
  <2>2. CASE u # w
    BY <2>2, OthersAreKept DEF IInv
  <2>3. QED
    BY <2>1, <2>2
<1>2. QED
  BY <1>1 DEF IInv

LEMMA StartKeeps ==
  ASSUME IInv, NEW w \in Workers, NEW e \in Events, Start(w, e)
  PROVE  IInv'
<1>1. /\ worker' \in [Workers -> WorkerState]
      /\ worker'[w].pc = "unindexed"
      /\ \A u \in Workers \ {w} : worker'[u] = worker[u]
  BY StartWorks DEF IInv
<1>2. StoreHolds' /\ Grows
  BY StoreIsKept DEF IInv, Start
<1>3. TypeOK'
  BY <1>1, LimitsAssumption DEF IInv, TypeOK, Start, Fault, store
<1>4. AttemptHolds(w)'
  BY <1>1 DEF AttemptHolds, Busy
<1>5. QED
  BY <1>1, <1>2, <1>3, <1>4, OneMoves

LEMMA StopKeeps ==
  ASSUME IInv, NEW w \in Workers, Stop(w)
  PROVE  IInv'
<1>1. /\ worker' \in [Workers -> WorkerState]
      /\ worker'[w].pc = "idle"
      /\ \A u \in Workers \ {w} : worker'[u] = worker[u]
  BY BecomesWorks, IdleIsState DEF IInv, Stop
<1>2. StoreHolds' /\ Grows
  BY StoreIsKept DEF IInv, Stop
<1>3. TypeOK'
  BY <1>1, LimitsAssumption DEF IInv, TypeOK, Stop, Fault, store
<1>4. AttemptHolds(w)'
  BY <1>1 DEF AttemptHolds, Busy
<1>5. QED
  BY <1>1, <1>2, <1>3, <1>4, OneMoves

(* The members of a complete cluster are indexed, the listing returns      *)
(* those it reaches, and none but the event's own is left out.             *)
LEMMA StructureKeeps ==
  ASSUME IInv, NEW w \in Workers, NEW claim \in Claims[worker[w].event],
         Structure(w, claim)
  PROVE  IInv'
<1> DEFINE e == worker[w].event
           story == StoryOf(Member(e, claim))
<1>1. /\ worker' \in [Workers -> WorkerState]
      /\ worker'[w].pc = "merge"
      /\ worker'[w].event = e
      /\ worker'[w].claim = claim
      /\ worker'[w].unread = {m \in Listed(story) : m.event # e}
      /\ worker'[w].merged = {}
      /\ worker'[w].known = {c \in clusters : c.story = story /\ Indexed(c.event)}
      /\ \A u \in Workers \ {w} : worker'[u] = worker[u]
  BY StructureWorks DEF IInv
<1>2. UNCHANGED <<delivered, faults, store, announced, refreshed>>
  BY DEF Structure
<1>3. StoreHolds' /\ Grows
  BY <1>2, StoreIsKept DEF IInv
<1>4. TypeOK'
  BY <1>1, <1>2 DEF IInv, TypeOK, store
<1>5. Own(w)' = Member(e, claim)
  BY <1>1 DEF Own
<1>6. ReadsHold(w)'
  BY <1>1, <1>2, <1>5 DEF ReadsHold, Listed, MembersOf, store
<1>7. ASSUME NEW b \in worker'[w].known
      PROVE  /\ b \in clusters'
             /\ b.story = StoryOf(Own(w))'
             /\ Indexed(b.event)'
             /\ \A m \in b.members :
                  Reached(m)' => \/ m.event = worker'[w].event
                                 \/ m \in worker'[w].unread \cup worker'[w].merged
  <2>1. b \in clusters /\ b.story = story /\ Indexed(b.event)
    BY <1>1
  <2>2. Indexed(b.event)'
    BY <1>2, <2>1 DEF Indexed, store
  <2>3. ASSUME NEW m \in b.members, Reached(m)', m.event # e
        PROVE  m \in worker'[w].unread
    <3>1. m \in members /\ StoryOf(m) = story
      BY <2>1 DEF IInv, StoreHolds, ClusterHolds
    <3>2. Reached(m)
      BY <1>3, <2>3, ReachedBefore DEF Grows
    <3>3. QED
      BY <1>1, <2>3, <3>1, <3>2 DEF Listed, MembersOf, Reached
  <2>4. QED
    BY <1>1, <1>2, <1>5, <2>1, <2>2, <2>3 DEF store
<1>8. KnownHolds(w)'
  BY <1>7 DEF KnownHolds
<1>9. AttemptHolds(w)'
  BY <1>1, <1>6, <1>8 DEF AttemptHolds, WritesHold, Writing
<1>10. QED
  BY <1>1, <1>3, <1>4, <1>9, OneMoves

(* A member that belongs to a cluster the attempt knows of is indexed, so  *)
(* reading it keeps it.                                                    *)
LEMMA ReadMemberKeeps ==
  ASSUME IInv, NEW w \in Workers, worker[w].pc = "merge", NEW m \in worker[w].unread,
         ReadMember(w, m)
  PROVE  IInv'
<1>1. /\ worker' \in [Workers -> WorkerState]
      /\ worker'[w].pc = "merge"
      /\ worker'[w].event = worker[w].event
      /\ worker'[w].claim = worker[w].claim
      /\ worker'[w].unread = worker[w].unread \ {m}
      /\ worker'[w].merged = IF Indexed(m.event) THEN worker[w].merged \cup {m}
                                                 ELSE worker[w].merged
      /\ worker'[w].known = worker[w].known
      /\ \A u \in Workers \ {w} : worker'[u] = worker[u]
  BY ReadMemberWorks DEF IInv
<1>2. UNCHANGED <<delivered, faults, store, announced, refreshed>>
  BY DEF ReadMember
<1>3. StoreHolds' /\ Grows
  BY <1>2, StoreIsKept DEF IInv
<1>4. TypeOK'
  BY <1>1, <1>2 DEF IInv, TypeOK, store
<1>5. Own(w)' = Own(w)
  BY <1>1 DEF Own
<1>6. ReadsHold(w) /\ KnownHolds(w)
  BY DEF IInv, AttemptHolds, Busy, Phases
<1>7. \A e : Indexed(e)' = Indexed(e)
  BY <1>2 DEF Indexed, store
<1>8. ReadsHold(w)'
  BY <1>1, <1>2, <1>5, <1>6, <1>7 DEF ReadsHold, store
<1>9. ASSUME NEW b \in worker'[w].known
      PROVE  /\ b \in clusters'
             /\ b.story = StoryOf(Own(w))'
             /\ Indexed(b.event)'
             /\ \A n \in b.members :
                  Reached(n)' => \/ n.event = worker'[w].event
                                 \/ n \in worker'[w].unread \cup worker'[w].merged
  <2>1. /\ b \in clusters
        /\ b.story = StoryOf(Own(w))
        /\ Indexed(b.event)
    BY <1>1, <1>6 DEF KnownHolds
  <2>2. ASSUME NEW n \in b.members, Reached(n)', n.event # worker[w].event
        PROVE  n \in worker'[w].unread \cup worker'[w].merged
    <3>1. Reached(n)
      BY <1>3, <2>2, ReachedBefore DEF Grows
    <3>2. n \in worker[w].unread \cup worker[w].merged
      BY <1>1, <1>6, <2>2, <3>1 DEF KnownHolds
    <3>3. Indexed(n.event)
      BY <2>1 DEF IInv, StoreHolds, ClusterHolds
    <3>4. QED
      BY <1>1, <3>2, <3>3
  <2>3. QED
    BY <1>1, <1>2, <1>5, <1>7, <2>1, <2>2 DEF store
<1>10. KnownHolds(w)'
  BY <1>9 DEF KnownHolds
<1>11. AttemptHolds(w)'
  BY <1>1, <1>8, <1>10 DEF AttemptHolds, WritesHold, Writing
<1>12. QED
  BY <1>1, <1>3, <1>4, <1>11, OneMoves

-----------------------------------------------------------------------------
(* Writes.  A write that is accepted takes the attempt on with what it has *)
(* read in hand.                                                           *)
SameInHand(w) ==
  /\ worker'[w].event = worker[w].event
  /\ worker'[w].claim = worker[w].claim
  /\ worker'[w].unread = worker[w].unread
  /\ worker'[w].merged = worker[w].merged
  /\ worker'[w].known = worker[w].known

LEMMA WriterIsKept ==
  ASSUME IInv, NEW w \in Workers, worker[w].pc \in Busy, Grows, SameInHand(w)
  PROVE  /\ ReadsHold(w)' /\ KnownHolds(w)'
         /\ Own(w)' = Own(w)
         /\ OwnCluster(w)' = OwnCluster(w)
         /\ OwnPacket(w)' = OwnPacket(w)
         /\ OwnFlag(w)' = OwnFlag(w)
         /\ OwnHealth(w)' = OwnHealth(w)
<1>1. ReadsHold(w) /\ KnownHolds(w)
  BY DEF IInv, AttemptHolds
<1>2. ReadsHold(w)' /\ KnownHolds(w)'
  BY <1>1, ReadsAreKept DEF SameInHand
<1>3. QED
  BY <1>2 DEF SameInHand, Own, OwnCluster, OwnPacket, OwnFlag, OwnHealth

LEMMA PutMemberKeeps ==
  ASSUME IInv, NEW w \in Workers, PutMember(w)
  PROVE  IInv'
<1> DEFINE clash == {n \in members : MemberKey(n) = MemberKey(Own(w))}
<1>1. /\ worker[w].pc = "merge"
      /\ worker[w].unread = {}
      /\ members' = Put(members, clash, Own(w))
      /\ Proceed(w, Accepts(clash, Own(w)), "cluster")
      /\ UNCHANGED <<delivered, faults, clusters, packets, flags, healths, prepared,
                     announced, success, refreshed>>
  BY DEF PutMember, Own
<1>2. worker[w].pc \in Busy /\ "cluster" \in Busy /\ Own(w) \in StoryMembers
  BY <1>1, OwnIsTyped DEF IInv, Busy, Phases
<1>3. /\ worker' \in [Workers -> WorkerState]
      /\ \A u \in Workers \ {w} : worker'[u] = worker[u]
      /\ \/ /\ clash \subseteq {Own(w)}
            /\ members' = members \cup {Own(w)}
            /\ worker'[w].pc = "cluster"
            /\ SameInHand(w)
         \/ members' = members /\ worker'[w].pc = "idle"
  <2> HIDE DEF clash
  <2>1. QED
    BY <1>1, <1>2, WriteWorks DEF IInv, SameInHand
<1>4. IsFiniteSet(members')
  BY <1>3, FS_AddElement DEF IInv, StoreHolds, MembersHold
<1>5. Grows
  BY <1>1, <1>3, <1>4 DEF Grows
<1>6. TypeOK'
  BY <1>1, <1>2, <1>3 DEF IInv, TypeOK
<1>7. AttemptHolds(w)'
  <2>1. CASE SameInHand(w) /\ members' = members \cup {Own(w)} /\ worker'[w].pc = "cluster"
    <3>1. ReadsHold(w)' /\ KnownHolds(w)' /\ Own(w)' = Own(w)
      BY <1>2, <1>5, <2>1, WriterIsKept
    <3>2. WritesHold(w)'
      BY <1>1, <2>1, <3>1 DEF WritesHold, SameInHand
    <3>3. QED
      BY <3>1, <3>2 DEF AttemptHolds
  <2>2. CASE worker'[w].pc = "idle"
    BY <2>2 DEF AttemptHolds, Busy
  <2>3. QED
    BY <1>3, <2>1, <2>2
<1>8. MembersHold'
  BY <1>3, <1>4 DEF IInv, StoreHolds, MembersHold
<1>9. StoreHolds'
  <2>1. /\ \A c \in clusters' : ClusterHolds(c)'
        /\ \A p \in packets' : PacketHolds(p)'
        /\ \A f \in flags' : FlagHolds(f)'
        /\ \A h \in healths' : HealthHolds(h)'
        /\ \A e \in announced' : AnnouncedHolds(e)'
    BY <1>1, <1>5, ObjectsAreKept DEF IInv, StoreHolds
  <2>2. RefreshedHolds'
    BY <1>1, <1>5, RefreshedAreKept DEF IInv, StoreHolds
  <2>3. PacketsApart'
    BY <1>1 DEF IInv, StoreHolds, PacketsApart
  <2>4. QED
    BY <1>1, <1>8, <2>1, <2>2, <2>3 DEF IInv, StoreHolds
<1>10. QED
  BY <1>3, <1>5, <1>6, <1>7, <1>9, OneMoves

(* The cluster holds every member of the clusters known to its attempt     *)
(* that is still within reach: those of other events were read, and the    *)
(* event's own member in this story is the one just written.               *)
LEMMA PutClusterKeeps ==
  ASSUME IInv, NEW w \in Workers, PutCluster(w)
  PROVE  IInv'
<1> DEFINE c == OwnCluster(w)
           clash == {b \in clusters : ClusterKey(b) = ClusterKey(c)}
           after == refreshed \cup {[earlier |-> b, later |-> c] : b \in worker[w].known}
<1>1. /\ worker[w].pc = "cluster"
      /\ clusters' = Put(clusters, clash, c)
      /\ refreshed' = IF Accepts(clash, c) THEN after ELSE refreshed
      /\ Proceed(w, Accepts(clash, c), "packet")
      /\ UNCHANGED <<delivered, faults, members, packets, flags, healths, prepared,
                     announced, success>>
  BY DEF PutCluster, OwnCluster
<1>2. worker[w].pc \in Busy /\ "packet" \in Busy /\ c \in ClusterSpace
  BY <1>1, OwnIsTyped DEF IInv, Busy, Phases
<1>3. /\ worker' \in [Workers -> WorkerState]
      /\ \A u \in Workers \ {w} : worker'[u] = worker[u]
      /\ \/ /\ clash \subseteq {c}
            /\ clusters' = clusters \cup {c}
            /\ worker'[w].pc = "packet"
            /\ SameInHand(w)
         \/ ~(clash \subseteq {c}) /\ clusters' = clusters /\ worker'[w].pc = "idle"
  <2> HIDE DEF clash, c
  <2>1. QED
    BY <1>1, <1>2, WriteWorks DEF IInv, SameInHand
<1>4. \/ SameInHand(w) /\ clusters' = clusters \cup {c} /\ worker'[w].pc = "packet"
           /\ refreshed' = after
      \/ clusters' = clusters /\ worker'[w].pc = "idle" /\ refreshed' = refreshed
  <2> HIDE DEF after, clash, c
  <2>1. QED
    BY <1>1, <1>3 DEF Accepts
<1>5. Grows
  BY <1>1, <1>4 DEF Grows, IInv, StoreHolds, MembersHold
<1>6. ReadsHold(w) /\ KnownHolds(w) /\ WritesHold(w)
  BY <1>2 DEF IInv, AttemptHolds
<1>7. TypeOK'
  <2>1. refreshed' \subseteq [earlier : clusters', later : clusters']
    BY <1>4, <1>6 DEF KnownHolds, IInv, TypeOK
  <2>2. clusters' \subseteq ClusterSpace
    BY <1>2, <1>4 DEF IInv, TypeOK
  <2>3. QED
    BY <1>1, <1>3, <2>1, <2>2 DEF IInv, TypeOK
<1>8. AttemptHolds(w)'
  <2>1. CASE SameInHand(w) /\ clusters' = clusters \cup {c} /\ worker'[w].pc = "packet"
    <3>1. ReadsHold(w)' /\ KnownHolds(w)' /\ Own(w)' = Own(w) /\ OwnCluster(w)' = c
      BY <1>2, <1>5, <2>1, WriterIsKept
    <3>2. WritesHold(w)'
      BY <1>1, <1>6, <2>1, <3>1 DEF WritesHold, SameInHand, Writing, Busy, Phases
    <3>3. QED
      BY <3>1, <3>2 DEF AttemptHolds
  <2>2. CASE worker'[w].pc = "idle"
    BY <2>2 DEF AttemptHolds, Busy
  <2>3. QED
    BY <1>4, <2>1, <2>2
<1>9. /\ Own(w) \in members
      /\ c.event = worker[w].event
      /\ c.story = StoryOf(Own(w))
      /\ c.members = worker[w].merged \cup {Own(w)}
      /\ Own(w).event = worker[w].event
  BY <1>1, <1>2, <1>6, OwnIsTyped
     DEF IInv, WritesHold, Writing, Busy, Phases, OwnCluster, Cluster, Own
<1>10. \A b : b = c => ClusterHolds(b)'
  <2>1. ClusterHolds(c)
    BY <1>6, <1>9 DEF ClusterHolds, ReadsHold
  <2>2. QED
    BY <1>5, <2>1, ObjectsAreKept
<1>11. RefreshedHolds'
  <2>1. ASSUME NEW b \in worker[w].known, NEW m \in b.members, Reached(m)
        PROVE  m \in c.members
    <3>1. CASE m.event = worker[w].event
      <4>1. m \in members /\ StoryOf(m) = StoryOf(Own(w))
        BY <1>6, <2>1 DEF KnownHolds, IInv, StoreHolds, ClusterHolds
      <4>2. MemberKey(m) = MemberKey(Own(w))
        BY <1>9, <3>1, <4>1 DEF MemberKey
      <4>3. QED
        BY <1>9, <4>1, <4>2 DEF IInv, StoreHolds, MembersHold
    <3>2. CASE m \in worker[w].unread \cup worker[w].merged
      BY <1>1, <1>6, <1>9, <3>2 DEF WritesHold, Writing, Busy, Phases
    <3>3. QED
      BY <1>6, <2>1, <3>1, <3>2 DEF KnownHolds
  <2>2. ASSUME NEW r \in refreshed', NEW m \in r.earlier.members, Reached(m)'
        PROVE  m \in r.later.members
    <3>1. Reached(m)
      BY <1>5, <2>2, ReachedBefore DEF Grows
    <3>2. CASE r \in refreshed
      BY <2>2, <3>1, <3>2 DEF IInv, StoreHolds, RefreshedHolds
    <3>3. CASE r \notin refreshed
      <4>1. PICK b \in worker[w].known : r = [earlier |-> b, later |-> c]
        BY <1>4, <2>2, <3>3
      <4>2. r.earlier = b /\ r.later = c
        BY <4>1
      <4>3. QED
        BY <2>1, <2>2, <3>1, <4>2
    <3>4. QED
      BY <3>2, <3>3
  <2>3. QED
    BY <2>2 DEF RefreshedHolds
<1>12. StoreHolds'
  <2>1. /\ \A b \in clusters : ClusterHolds(b)'
        /\ \A p \in packets' : PacketHolds(p)'
        /\ \A f \in flags' : FlagHolds(f)'
        /\ \A h \in healths' : HealthHolds(h)'
        /\ \A e \in announced' : AnnouncedHolds(e)'
    BY <1>1, <1>5, ObjectsAreKept DEF IInv, StoreHolds
  <2>2. \A b \in clusters' : ClusterHolds(b)'
    BY <1>4, <1>10, <2>1
  <2>3. PacketsApart' /\ MembersHold'
    BY <1>1 DEF IInv, StoreHolds, PacketsApart, MembersHold
  <2>4. QED
    BY <1>1, <1>11, <2>1, <2>2, <2>3 DEF IInv, StoreHolds
<1>13. QED
  BY <1>3, <1>5, <1>7, <1>8, <1>12, OneMoves

(* The flag and the health event of an attempt are those of its packet.    *)
OwnPacketSays(w) ==
  LET p == OwnPacket(w) IN
  /\ p.event = worker[w].event
  /\ p.claim = worker[w].claim
  /\ p.story = StoryOf(Own(w))
  /\ p.members = worker[w].merged \cup {Own(w)}
  /\ Member(p.event, p.claim) = Own(w)
  /\ Cluster(p.event, p.claim, p.members) = OwnCluster(w)
  /\ Flag(p.event, p.claim, p.members) = OwnFlag(w)
  /\ Health(p.event, p.claim, p.members) = OwnHealth(w)
  /\ OwnFlag(w).event = worker[w].event
  /\ OwnHealth(w).event = worker[w].event

LEMMA OwnPacketIs ==
  ASSUME NEW w \in Workers
  PROVE  OwnPacketSays(w)
<1> DEFINE p == OwnPacket(w)
<1>1. /\ p.event = worker[w].event
      /\ p.claim = worker[w].claim
      /\ p.story = StoryOf(Own(w))
      /\ p.members = worker[w].merged \cup {Own(w)}
  BY DEF OwnPacket, Packet, Own
<1>2. Member(p.event, p.claim) = Own(w)
  BY <1>1 DEF Own
<1>3. p.members \cup {Own(w)} = worker[w].merged \cup {Own(w)}
  BY <1>1
<1>4. Cluster(p.event, p.claim, p.members) = OwnCluster(w)
  BY <1>1, <1>3 DEF Cluster, OwnCluster, Own
<1>5. Flag(p.event, p.claim, p.members) = OwnFlag(w)
  BY <1>1, <1>3 DEF Flag, OwnFlag, Own
<1>6. Health(p.event, p.claim, p.members) = OwnHealth(w)
  BY <1>1, <1>3 DEF Health, OwnHealth, Own
<1>7. OwnFlag(w).event = worker[w].event /\ OwnHealth(w).event = worker[w].event
  BY DEF OwnFlag, Flag, OwnHealth, Health
<1>8. QED
  BY <1>1, <1>2, <1>4, <1>5, <1>6, <1>7 DEF OwnPacketSays

LEMMA PutPacketKeeps ==
  ASSUME IInv, NEW w \in Workers, PutPacket(w)
  PROVE  IInv'
<1> DEFINE p == OwnPacket(w)
           clash == {q \in packets : q.event = p.event}
<1>1. /\ worker[w].pc = "packet"
      /\ packets' = Put(packets, clash, p)
      /\ Proceed(w, Accepts(clash, p), "flag")
      /\ UNCHANGED <<delivered, faults, members, clusters, flags, healths, prepared,
                     announced, success, refreshed>>
  BY DEF PutPacket, OwnPacket
<1>2. worker[w].pc \in Busy /\ "flag" \in Busy /\ p \in PacketSpace
  BY <1>1, OwnIsTyped DEF IInv, Busy, Phases
<1>3. /\ worker' \in [Workers -> WorkerState]
      /\ \A u \in Workers \ {w} : worker'[u] = worker[u]
      /\ \/ /\ clash \subseteq {p}
            /\ packets' = packets \cup {p}
            /\ worker'[w].pc = "flag"
            /\ SameInHand(w)
         \/ packets' = packets /\ worker'[w].pc = "idle"
  <2> HIDE DEF clash, p
  <2>1. QED
    BY <1>1, <1>2, WriteWorks DEF IInv, SameInHand
<1>4. Grows
  BY <1>1, <1>3 DEF Grows, IInv, StoreHolds, MembersHold
<1>5. WritesHold(w)
  BY <1>2 DEF IInv, AttemptHolds
<1>6. TypeOK'
  BY <1>1, <1>2, <1>3 DEF IInv, TypeOK
<1>7. AttemptHolds(w)'
  <2>1. CASE SameInHand(w) /\ packets' = packets \cup {p} /\ worker'[w].pc = "flag"
    <3>1. /\ ReadsHold(w)' /\ KnownHolds(w)'
          /\ Own(w)' = Own(w) /\ OwnCluster(w)' = OwnCluster(w) /\ OwnPacket(w)' = p
      BY <1>2, <1>4, <2>1, WriterIsKept
    <3>2. WritesHold(w)'
      BY <1>1, <1>5, <2>1, <3>1 DEF WritesHold, SameInHand, Writing, Busy, Phases
    <3>3. QED
      BY <3>1, <3>2 DEF AttemptHolds
  <2>2. CASE worker'[w].pc = "idle"
    BY <2>2 DEF AttemptHolds, Busy
  <2>3. QED
    BY <1>3, <2>1, <2>2
<1>8. \A q : q = p => PacketHolds(q)'
  <2>1. OwnCluster(w) \in clusters
    BY <1>1, <1>5 DEF WritesHold, Writing, Busy, Phases
  <2>2. PacketHolds(p)
    BY <2>1, OwnPacketIs DEF PacketHolds, OwnPacketSays
  <2>3. QED
    BY <1>4, <2>2, ObjectsAreKept
<1>9. PacketsApart'
  BY <1>3 DEF IInv, StoreHolds, PacketsApart
<1>10. StoreHolds'
  <2>1. /\ \A c \in clusters' : ClusterHolds(c)'
        /\ \A q \in packets : PacketHolds(q)'
        /\ \A f \in flags' : FlagHolds(f)'
        /\ \A h \in healths' : HealthHolds(h)'
        /\ \A e \in announced' : AnnouncedHolds(e)'
    BY <1>1, <1>4, ObjectsAreKept DEF IInv, StoreHolds
  <2>2. \A q \in packets' : PacketHolds(q)'
    BY <1>3, <1>8, <2>1
  <2>3. RefreshedHolds'
    BY <1>1, <1>4, RefreshedAreKept DEF IInv, StoreHolds
  <2>4. MembersHold'
    BY <1>1 DEF IInv, StoreHolds, MembersHold
  <2>5. QED
    BY <1>1, <1>9, <2>1, <2>2, <2>3, <2>4 DEF IInv, StoreHolds
<1>11. QED
  BY <1>3, <1>4, <1>6, <1>7, <1>10, OneMoves

LEMMA PutFlagKeeps ==
  ASSUME IInv, NEW w \in Workers, PutFlag(w)
  PROVE  IInv'
<1> DEFINE f == OwnFlag(w)
           clash == {g \in flags : g.event = f.event}
<1>1. /\ worker[w].pc = "flag"
      /\ EmitsFlag(worker[w].claim)
      /\ flags' = Put(flags, clash, f)
      /\ Proceed(w, Accepts(clash, f), "health")
      /\ UNCHANGED <<delivered, faults, members, clusters, packets, healths, prepared,
                     announced, success, refreshed>>
  BY DEF PutFlag, OwnFlag
<1>2. worker[w].pc \in Busy /\ "health" \in Busy /\ f \in FlagSpace
  BY <1>1, OwnIsTyped DEF IInv, Busy, Phases
<1>3. /\ worker' \in [Workers -> WorkerState]
      /\ \A u \in Workers \ {w} : worker'[u] = worker[u]
      /\ \/ /\ clash \subseteq {f}
            /\ flags' = flags \cup {f}
            /\ worker'[w].pc = "health"
            /\ SameInHand(w)
         \/ flags' = flags /\ worker'[w].pc = "idle"
  <2> HIDE DEF clash, f
  <2>1. QED
    BY <1>1, <1>2, WriteWorks DEF IInv, SameInHand
<1>4. Grows
  BY <1>1, <1>3 DEF Grows, IInv, StoreHolds, MembersHold
<1>5. WritesHold(w)
  BY <1>2 DEF IInv, AttemptHolds
<1>6. TypeOK'
  BY <1>1, <1>2, <1>3 DEF IInv, TypeOK
<1>7. AttemptHolds(w)'
  <2>1. CASE SameInHand(w) /\ flags' = flags \cup {f} /\ worker'[w].pc = "health"
    <3>1. /\ ReadsHold(w)' /\ KnownHolds(w)'
          /\ Own(w)' = Own(w) /\ OwnCluster(w)' = OwnCluster(w)
          /\ OwnPacket(w)' = OwnPacket(w) /\ OwnFlag(w)' = f
      BY <1>2, <1>4, <2>1, WriterIsKept
    <3>2. WritesHold(w)'
      BY <1>1, <1>5, <2>1, <3>1 DEF WritesHold, SameInHand, Writing, Busy, Phases
    <3>3. QED
      BY <3>1, <3>2 DEF AttemptHolds
  <2>2. CASE worker'[w].pc = "idle"
    BY <2>2 DEF AttemptHolds, Busy
  <2>3. QED
    BY <1>3, <2>1, <2>2
<1>8. \A g : g = f => FlagHolds(g)'
  <2>1. OwnPacket(w) \in packets
    BY <1>1, <1>5 DEF WritesHold, Writing, Busy, Phases
  <2>2. FlagHolds(f)
    BY <1>1, <2>1, OwnPacketIs DEF FlagHolds, OwnPacketSays
  <2>3. QED
    BY <1>4, <2>2, ObjectsAreKept
<1>9. StoreHolds'
  <2>1. /\ \A c \in clusters' : ClusterHolds(c)'
        /\ \A p \in packets' : PacketHolds(p)'
        /\ \A g \in flags : FlagHolds(g)'
        /\ \A h \in healths' : HealthHolds(h)'
        /\ \A e \in announced' : AnnouncedHolds(e)'
    BY <1>1, <1>4, ObjectsAreKept DEF IInv, StoreHolds
  <2>2. \A g \in flags' : FlagHolds(g)'
    BY <1>3, <1>8, <2>1
  <2>3. RefreshedHolds'
    BY <1>1, <1>4, RefreshedAreKept DEF IInv, StoreHolds
  <2>4. MembersHold' /\ PacketsApart'
    BY <1>1 DEF IInv, StoreHolds, MembersHold, PacketsApart
  <2>5. QED
    BY <1>1, <2>1, <2>2, <2>3, <2>4 DEF IInv, StoreHolds
<1>10. QED
  BY <1>3, <1>4, <1>6, <1>7, <1>9, OneMoves

LEMMA SkipFlagKeeps ==
  ASSUME IInv, NEW w \in Workers, SkipFlag(w)
  PROVE  IInv'
<1>1. /\ worker[w].pc = "flag"
      /\ ~EmitsFlag(worker[w].claim)
      /\ Reaches(w, "health")
      /\ UNCHANGED <<delivered, faults, store, announced, refreshed>>
  BY DEF SkipFlag
<1>2. worker[w].pc \in Busy /\ "health" \in Busy
  BY <1>1 DEF Busy, Phases
<1>3. /\ worker' \in [Workers -> WorkerState]
      /\ \A u \in Workers \ {w} : worker'[u] = worker[u]
      /\ worker'[w].pc = "health"
      /\ SameInHand(w)
  BY <1>1, <1>2, ReachesWorks DEF IInv, SameInHand
<1>4. StoreHolds' /\ Grows
  BY <1>1, StoreIsKept DEF IInv
<1>5. TypeOK'
  BY <1>1, <1>3 DEF IInv, TypeOK, store
<1>6. AttemptHolds(w)'
  <2>1. /\ ReadsHold(w)' /\ KnownHolds(w)'
        /\ Own(w)' = Own(w) /\ OwnCluster(w)' = OwnCluster(w)
        /\ OwnPacket(w)' = OwnPacket(w)
    BY <1>2, <1>3, <1>4, WriterIsKept
  <2>2. WritesHold(w)
    BY <1>2 DEF IInv, AttemptHolds
  <2>3. WritesHold(w)'
    BY <1>1, <1>3, <2>1, <2>2
       DEF WritesHold, SameInHand, Writing, Busy, Phases, store
  <2>4. QED
    BY <2>1, <2>3 DEF AttemptHolds
<1>7. QED
  BY <1>3, <1>4, <1>5, <1>6, OneMoves

LEMMA PutHealthKeeps ==
  ASSUME IInv, NEW w \in Workers, PutHealth(w)
  PROVE  IInv'
<1> DEFINE h == OwnHealth(w)
           clash == {i \in healths : i.event = h.event}
<1>1. /\ worker[w].pc = "health"
      /\ healths' = Put(healths, clash, h)
      /\ Proceed(w, Accepts(clash, h), "prepared")
      /\ UNCHANGED <<delivered, faults, members, clusters, packets, flags, prepared,
                     announced, success, refreshed>>
  BY DEF PutHealth, OwnHealth
<1>2. worker[w].pc \in Busy /\ "prepared" \in Busy /\ h \in HealthSpace
  BY <1>1, OwnIsTyped DEF IInv, Busy, Phases
<1>3. /\ worker' \in [Workers -> WorkerState]
      /\ \A u \in Workers \ {w} : worker'[u] = worker[u]
      /\ \/ /\ clash \subseteq {h}
            /\ healths' = healths \cup {h}
            /\ worker'[w].pc = "prepared"
            /\ SameInHand(w)
         \/ healths' = healths /\ worker'[w].pc = "idle"
  <2> HIDE DEF clash, h
  <2>1. QED
    BY <1>1, <1>2, WriteWorks DEF IInv, SameInHand
<1>4. Grows
  BY <1>1, <1>3 DEF Grows, IInv, StoreHolds, MembersHold
<1>5. WritesHold(w)
  BY <1>2 DEF IInv, AttemptHolds
<1>6. TypeOK'
  BY <1>1, <1>2, <1>3 DEF IInv, TypeOK
<1>7. AttemptHolds(w)'
  <2>1. CASE SameInHand(w) /\ healths' = healths \cup {h} /\ worker'[w].pc = "prepared"
    <3>1. /\ ReadsHold(w)' /\ KnownHolds(w)'
          /\ Own(w)' = Own(w) /\ OwnCluster(w)' = OwnCluster(w)
          /\ OwnPacket(w)' = OwnPacket(w) /\ OwnFlag(w)' = OwnFlag(w)
          /\ OwnHealth(w)' = h
      BY <1>2, <1>4, <2>1, WriterIsKept
    <3>2. WritesHold(w)'
      BY <1>1, <1>5, <2>1, <3>1 DEF WritesHold, SameInHand, Writing, Busy, Phases
    <3>3. QED
      BY <3>1, <3>2 DEF AttemptHolds
  <2>2. CASE worker'[w].pc = "idle"
    BY <2>2 DEF AttemptHolds, Busy
  <2>3. QED
    BY <1>3, <2>1, <2>2
<1>8. \A i : i = h => HealthHolds(i)'
  <2>1. OwnPacket(w) \in packets /\ (EmitsFlag(worker[w].claim) => OwnFlag(w) \in flags)
    BY <1>1, <1>5 DEF WritesHold, Writing, Busy, Phases
  <2>2. HealthHolds(h)
    BY <1>1, <2>1, OwnPacketIs DEF HealthHolds, OwnPacketSays
  <2>3. QED
    BY <1>4, <2>2, ObjectsAreKept
<1>9. StoreHolds'
  <2>1. /\ \A c \in clusters' : ClusterHolds(c)'
        /\ \A p \in packets' : PacketHolds(p)'
        /\ \A f \in flags' : FlagHolds(f)'
        /\ \A i \in healths : HealthHolds(i)'
        /\ \A e \in announced' : AnnouncedHolds(e)'
    BY <1>1, <1>4, ObjectsAreKept DEF IInv, StoreHolds
  <2>2. \A i \in healths' : HealthHolds(i)'
    BY <1>3, <1>8, <2>1
  <2>3. RefreshedHolds'
    BY <1>1, <1>4, RefreshedAreKept DEF IInv, StoreHolds
  <2>4. MembersHold' /\ PacketsApart'
    BY <1>1 DEF IInv, StoreHolds, MembersHold, PacketsApart
  <2>5. QED
    BY <1>1, <2>1, <2>2, <2>3, <2>4 DEF IInv, StoreHolds
<1>10. QED
  BY <1>3, <1>4, <1>6, <1>7, <1>9, OneMoves

LEMMA PutPreparedKeeps ==
  ASSUME IInv, NEW w \in Workers, PutPrepared(w)
  PROVE  IInv'
<1> DEFINE e == worker[w].event
           clash == {f \in prepared : Segment(f) = Segment(e)}
<1>1. /\ worker[w].pc = "prepared"
      /\ prepared' = Put(prepared, clash, e)
      /\ Proceed(w, Accepts(clash, e), "publish")
      /\ UNCHANGED <<delivered, faults, members, clusters, packets, flags, healths,
                     announced, success, refreshed>>
  BY DEF PutPrepared
<1>2. worker[w].pc \in Busy /\ "publish" \in Busy /\ e \in Events
  BY <1>1, OwnIsTyped DEF IInv, Busy, Phases
<1>3. /\ worker' \in [Workers -> WorkerState]
      /\ \A u \in Workers \ {w} : worker'[u] = worker[u]
      /\ \/ /\ clash \subseteq {e}
            /\ prepared' = prepared \cup {e}
            /\ worker'[w].pc = "publish"
            /\ SameInHand(w)
         \/ prepared' = prepared /\ worker'[w].pc = "idle"
  <2> HIDE DEF clash, e
  <2>1. QED
    BY <1>1, <1>2, WriteWorks DEF IInv, SameInHand
<1>4. Grows
  BY <1>1, <1>3 DEF Grows, IInv, StoreHolds, MembersHold
<1>5. TypeOK'
  BY <1>1, <1>2, <1>3 DEF IInv, TypeOK
<1>6. AttemptHolds(w)'
  <2>1. CASE SameInHand(w) /\ prepared' = prepared \cup {e} /\ worker'[w].pc = "publish"
    <3>1. /\ ReadsHold(w)' /\ KnownHolds(w)'
          /\ Own(w)' = Own(w) /\ OwnCluster(w)' = OwnCluster(w)
          /\ OwnPacket(w)' = OwnPacket(w) /\ OwnFlag(w)' = OwnFlag(w)
          /\ OwnHealth(w)' = OwnHealth(w)
      BY <1>2, <1>4, <2>1, WriterIsKept
    <3>2. WritesHold(w)
      BY <1>2 DEF IInv, AttemptHolds
    <3>3. WritesHold(w)'
      BY <1>1, <2>1, <3>1, <3>2 DEF WritesHold, SameInHand, Writing, Busy, Phases
    <3>4. QED
      BY <3>1, <3>3 DEF AttemptHolds
  <2>2. CASE worker'[w].pc = "idle"
    BY <2>2 DEF AttemptHolds, Busy
  <2>3. QED
    BY <1>3, <2>1, <2>2
<1>7. \A f, g \in prepared' : Segment(f) = Segment(g) => f = g
  BY <1>3 DEF IInv, StoreHolds
<1>8. StoreHolds'
  <2>1. /\ \A c \in clusters' : ClusterHolds(c)'
        /\ \A p \in packets' : PacketHolds(p)'
        /\ \A f \in flags' : FlagHolds(f)'
        /\ \A h \in healths' : HealthHolds(h)'
        /\ \A f \in announced' : AnnouncedHolds(f)'
    BY <1>1, <1>4, ObjectsAreKept DEF IInv, StoreHolds
  <2>2. RefreshedHolds'
    BY <1>1, <1>4, RefreshedAreKept DEF IInv, StoreHolds
  <2>3. MembersHold' /\ PacketsApart'
    BY <1>1 DEF IInv, StoreHolds, MembersHold, PacketsApart
  <2>4. \A f, g \in prepared' : Segment(f)' = Segment(g)' => f = g
    BY <1>7 DEF Segment
  <2>5. QED
    BY <1>1, <2>1, <2>2, <2>3, <2>4 DEF IInv, StoreHolds
<1>9. QED
  BY <1>3, <1>4, <1>5, <1>6, <1>8, OneMoves

LEMMA PublishKeeps ==
  ASSUME IInv, NEW w \in Workers, Publish(w)
  PROVE  IInv'
<1>1. /\ worker[w].pc = "publish"
      /\ announced' = announced \cup {worker[w].event}
      /\ Reaches(w, "success")
      /\ UNCHANGED <<delivered, faults, store, refreshed>>
  BY DEF Publish
<1>2. worker[w].pc \in Busy /\ "success" \in Busy /\ worker[w].event \in Events
  BY <1>1, OwnIsTyped DEF IInv, Busy, Phases
<1>3. /\ worker' \in [Workers -> WorkerState]
      /\ \A u \in Workers \ {w} : worker'[u] = worker[u]
      /\ worker'[w].pc = "success"
      /\ SameInHand(w)
  BY <1>1, <1>2, ReachesWorks DEF IInv, SameInHand
<1>4. Grows
  BY <1>1 DEF Grows, IInv, StoreHolds, MembersHold, store
<1>5. TypeOK'
  BY <1>1, <1>2, <1>3 DEF IInv, TypeOK, store
<1>6. WritesHold(w)
  BY <1>2 DEF IInv, AttemptHolds
<1>7. AttemptHolds(w)'
  <2>1. /\ ReadsHold(w)' /\ KnownHolds(w)'
        /\ Own(w)' = Own(w) /\ OwnCluster(w)' = OwnCluster(w)
        /\ OwnPacket(w)' = OwnPacket(w) /\ OwnFlag(w)' = OwnFlag(w)
        /\ OwnHealth(w)' = OwnHealth(w)
    BY <1>2, <1>3, <1>4, WriterIsKept
  <2>2. WritesHold(w)'
    BY <1>1, <1>3, <1>6, <2>1
       DEF WritesHold, SameInHand, Writing, Busy, Phases, store
  <2>3. QED
    BY <2>1, <2>2 DEF AttemptHolds
<1>8. \A e : e = worker[w].event => AnnouncedHolds(e)'
  <2>1. /\ OwnPacket(w) \in packets
        /\ Own(w) \in members
        /\ OwnHealth(w) \in healths
        /\ worker[w].event \in prepared
    BY <1>1, <1>6 DEF WritesHold, Writing, Busy, Phases
  <2>2. AnnouncedHolds(worker[w].event)
    BY <2>1, OwnPacketIs DEF AnnouncedHolds, OwnPacketSays
  <2>3. QED
    BY <1>4, <2>2, ObjectsAreKept
<1>9. StoreHolds'
  <2>1. /\ \A c \in clusters' : ClusterHolds(c)'
        /\ \A p \in packets' : PacketHolds(p)'
        /\ \A f \in flags' : FlagHolds(f)'
        /\ \A h \in healths' : HealthHolds(h)'
        /\ \A e \in announced : AnnouncedHolds(e)'
    BY <1>1, <1>4, ObjectsAreKept DEF IInv, StoreHolds, store
  <2>2. \A e \in announced' : AnnouncedHolds(e)'
    BY <1>1, <1>8, <2>1
  <2>3. RefreshedHolds'
    BY <1>1, <1>4, RefreshedAreKept DEF IInv, StoreHolds
  <2>4. MembersHold' /\ PacketsApart'
    BY <1>1 DEF IInv, StoreHolds, MembersHold, PacketsApart, store
  <2>5. success' \subseteq announced'
    BY <1>1 DEF IInv, StoreHolds, store
  <2>6. QED
    BY <1>1, <2>1, <2>2, <2>3, <2>4, <2>5 DEF IInv, StoreHolds, store
<1>10. QED
  BY <1>3, <1>4, <1>5, <1>7, <1>9, OneMoves

LEMMA PutSuccessKeeps ==
  ASSUME IInv, NEW w \in Workers, PutSuccess(w)
  PROVE  IInv'
<1>1. /\ worker[w].pc = "success"
      /\ success' = success \/ success' = success \cup {worker[w].event}
      /\ Becomes(w, Idle)
      /\ UNCHANGED <<delivered, faults, members, clusters, packets, flags, healths,
                     prepared, announced, refreshed>>
  BY DEF PutSuccess, Put
<1>2. worker[w].event \in announced /\ worker[w].event \in Events
  BY <1>1, OwnIsTyped DEF IInv, AttemptHolds, WritesHold, Busy, Phases
<1>3. /\ worker' \in [Workers -> WorkerState]
      /\ worker'[w].pc = "idle"
      /\ \A u \in Workers \ {w} : worker'[u] = worker[u]
  BY <1>1, BecomesWorks, IdleIsState DEF IInv
<1>4. Grows
  BY <1>1 DEF Grows, IInv, StoreHolds, MembersHold
<1>5. TypeOK'
  BY <1>1, <1>2, <1>3 DEF IInv, TypeOK
<1>6. AttemptHolds(w)'
  BY <1>3 DEF AttemptHolds, Busy
<1>7. StoreHolds'
  <2>1. /\ \A c \in clusters' : ClusterHolds(c)'
        /\ \A p \in packets' : PacketHolds(p)'
        /\ \A f \in flags' : FlagHolds(f)'
        /\ \A h \in healths' : HealthHolds(h)'
        /\ \A e \in announced' : AnnouncedHolds(e)'
    BY <1>1, <1>4, ObjectsAreKept DEF IInv, StoreHolds
  <2>2. RefreshedHolds'
    BY <1>1, <1>4, RefreshedAreKept DEF IInv, StoreHolds
  <2>3. MembersHold' /\ PacketsApart'
    BY <1>1 DEF IInv, StoreHolds, MembersHold, PacketsApart
  <2>4. success' \subseteq announced'
    BY <1>1, <1>2 DEF IInv, StoreHolds
  <2>5. QED
    BY <1>1, <2>1, <2>2, <2>3, <2>4 DEF IInv, StoreHolds
<1>8. QED
  BY <1>3, <1>4, <1>5, <1>6, <1>7, OneMoves

-----------------------------------------------------------------------------
(* The invariant is inductive.                                             *)
LEMMA InitHolds == Init => IInv
<1> SUFFICES ASSUME Init PROVE IInv
  OBVIOUS
<1>1. Idle \in WorkerState /\ Idle.pc = "idle"
  BY IdleIsState
<1>2. TypeOK
  BY <1>1, LimitsAssumption DEF Init, TypeOK
<1>3. \A w \in Workers : AttemptHolds(w)
  BY <1>1 DEF Init, AttemptHolds, Busy
<1>4. StoreHolds
  BY FS_EmptySet DEF Init, StoreHolds, MembersHold, PacketsApart, RefreshedHolds
<1>5. QED
  BY <1>2, <1>3, <1>4 DEF IInv

LEMMA StepKeeps == IInv /\ [Next]_vars => IInv'
<1> SUFFICES ASSUME IInv, [Next]_vars PROVE IInv'
  OBVIOUS
<1>1. CASE UNCHANGED vars
  <2>1. StoreHolds' /\ Grows
    BY <1>1, StoreIsKept DEF IInv, vars
  <2>2. TypeOK'
    BY <1>1 DEF IInv, TypeOK, vars, store
  <2>3. \A w \in Workers : AttemptHolds(w)'
    BY <1>1, <2>1, OthersAreKept DEF IInv, vars
  <2>4. QED
    BY <2>1, <2>2, <2>3 DEF IInv
<1>2. CASE Next
  <2>1. PICK w \in Workers : Step(w)
    BY <1>2 DEF Next
  <2>2. CASE \E e \in Events : Start(w, e)
    BY <2>2, StartKeeps
  <2>3. CASE \E claim \in Claims[worker[w].event] : Structure(w, claim)
    BY <2>3, StructureKeeps
  <2>4. CASE worker[w].pc = "merge" /\ \E m \in worker[w].unread : ReadMember(w, m)
    BY <2>4, ReadMemberKeeps
  <2>5. CASE PutMember(w)
    BY <2>5, PutMemberKeeps
  <2>6. CASE PutCluster(w)
    BY <2>6, PutClusterKeeps
  <2>7. CASE PutPacket(w)
    BY <2>7, PutPacketKeeps
  <2>8. CASE PutFlag(w)
    BY <2>8, PutFlagKeeps
  <2>9. CASE SkipFlag(w)
    BY <2>9, SkipFlagKeeps
  <2>10. CASE PutHealth(w)
    BY <2>10, PutHealthKeeps
  <2>11. CASE PutPrepared(w)
    BY <2>11, PutPreparedKeeps
  <2>12. CASE Publish(w)
    BY <2>12, PublishKeeps
  <2>13. CASE PutSuccess(w)
    BY <2>13, PutSuccessKeeps
  <2>14. CASE Stop(w)
    BY <2>14, StopKeeps
  <2>15. QED
    BY <2>1, <2>2, <2>3, <2>4, <2>5, <2>6, <2>7, <2>8, <2>9, <2>10, <2>11, <2>12,
       <2>13, <2>14 DEF Step
<1>3. QED
  BY <1>1, <1>2

LEMMA InvariantHolds == Spec => []IInv
BY InitHolds, StepKeeps, PTL DEF Spec

(* The variables hold what they are declared to hold.                      *)
THEOREM TypeCorrect == Spec => []TypeOK
<1>1. IInv => TypeOK
  BY DEF IInv
<1>2. QED
  BY <1>1, InvariantHolds, PTL

(* However the attempts interleave, a refreshed cluster keeps every source *)
(* of the clusters it refreshes that the member listing still reaches.     *)
THEOREM SourcesAreMerged == Spec => []SourcesCarryOver
<1>1. IInv => SourcesCarryOver
  BY DEF IInv, StoreHolds, RefreshedHolds, SourcesCarryOver, Reached
<1>2. QED
  BY <1>1, InvariantHolds, PTL

(* More members are in no less conflict.                                   *)
LEMMA ConflictsGrow ==
  ASSUME NEW ms, NEW ns, ms \subseteq ns
  PROVE  /\ ConflictLevel(ms) <= ConflictLevel(ns)
         /\ ConflictingSources(ms) \subseteq ConflictingSources(ns)
<1>1. Contradictions(ms) \subseteq Contradictions(ns)
  BY DEF Contradictions, MixedTopic
<1>2. Severe(Contradictions(ms)) => Severe(Contradictions(ns))
  BY <1>1 DEF Severe
<1>3. SourceIds(ms) \subseteq SourceIds(ns)
  BY DEF SourceIds
<1>4. ConflictLevel(ms) <= ConflictLevel(ns)
  BY <1>1, <1>2, <1>3 DEF ConflictLevel
<1>5. ConflictLevel(ms) \in 0..3 /\ ConflictLevel(ns) \in 0..3
  BY DEF ConflictLevel
<1>6. QED
  BY <1>3, <1>4, <1>5 DEF ConflictingSources

(* A conflict that a complete cluster reported is not lost when the story  *)
(* is refreshed, nor is a source that was part of it.                      *)
THEOREM ConflictsAreMerged == Spec => []ConflictsCarryOver
<1>1. ASSUME IInv, NEW r \in refreshed,
             \A m \in r.earlier.members : Cardinality(Ahead(m)) < ScanLimit
      PROVE  /\ ConflictLevel(r.earlier.members) <= ConflictLevel(r.later.members)
             /\ ConflictingSources(r.earlier.members) \subseteq
                  ConflictingSources(r.later.members)
  <2>1. r.earlier.members \subseteq r.later.members
    BY <1>1 DEF IInv, StoreHolds, RefreshedHolds, Reached
  <2>2. QED
    BY <2>1, ConflictsGrow
<1>2. IInv => ConflictsCarryOver
  BY <1>1 DEF ConflictsCarryOver
<1>3. QED
  BY <1>2, InvariantHolds, PTL

(* The members of a packet are of one story, the packet's.                 *)
LEMMA PacketIsOfItsStory ==
  ASSUME IInv, NEW p \in packets
  PROVE  /\ p \in PacketSpace
         /\ p.members \subseteq StoryMembers
         /\ Member(p.event, p.claim) \in p.members
         /\ p.story = StoryOf(Member(p.event, p.claim))
         /\ \A m \in p.members : StoryOf(m) = p.story
<1>1. p \in PacketSpace /\ PacketHolds(p)
  BY DEF IInv, TypeOK, StoreHolds
<1> DEFINE c == Cluster(p.event, p.claim, p.members)
<1>2. c \in clusters /\ c.story = p.story /\ c.members = p.members
  BY <1>1 DEF PacketHolds, Cluster
<1>3. \A m \in p.members : StoryOf(m) = p.story
  BY <1>2 DEF IInv, StoreHolds, ClusterHolds
<1>4. p.members \subseteq StoryMembers
  BY <1>1 DEF PacketSpace
<1>5. QED
  BY <1>1, <1>3, <1>4 DEF PacketHolds

(* Whatever was merged, a stored packet belongs to the story its cluster   *)
(* was filed under, and its members are of one topic.                      *)
THEOREM PacketsStayInStory == Spec => []PacketsNameTheirStory
<1>1. ASSUME IInv, NEW p \in packets
      PROVE  /\ StoryHint(p.event, p.claim.type, RelatedSymbols(p.members)) = p.story
             /\ ~MixedTopic(p.members)
  <2> DEFINE own == Member(p.event, p.claim)
             related == RelatedSymbols(p.members)
  <2>1. /\ p.members \subseteq StoryMembers
        /\ own \in p.members
        /\ p.story = StoryOf(own)
        /\ \A m \in p.members : StoryOf(m) = p.story
    BY <1>1, PacketIsOfItsStory
  <2>2. /\ p.story = StoryHint(p.event, p.claim.type, p.claim.symbols)
        /\ p.story.signature = Signature(p.claim.symbols)
    BY <2>1 DEF StoryOf, Member, StoryHint
  <2>3. \A m \in p.members : /\ Signature(m.symbols) = p.story.signature
                             /\ m.type = p.story.type
    <3>1. ASSUME NEW m PROVE /\ StoryOf(m).signature = Signature(m.symbols)
                             /\ StoryOf(m).type = m.type
      BY DEF StoryOf, StoryHint
    <3>2. QED
      BY <2>1, <3>1
  <2>4. Signature(related) = p.story.signature
    <3>1. \A s \in Signature(related) : s \in p.story.signature
      BY <2>3 DEF Signature, RelatedSymbols
    <3>2. p.claim.symbols \subseteq related
      BY <2>1 DEF RelatedSymbols, Member
    <3>3. \A s \in p.story.signature : s \in Signature(related)
      BY <2>2, <3>2 DEF Signature
    <3>4. QED
      BY <3>1, <3>3 DEF Signature
  <2>5. related = {} <=> p.claim.symbols = {}
    BY <2>2, <2>4 DEF Signature
  <2>6. ~MixedTopic(p.members)
    BY <2>3 DEF MixedTopic
  <2>7. QED
    BY <2>2, <2>4, <2>5, <2>6 DEF StoryHint
<1>2. IInv => PacketsNameTheirStory
  BY <1>1 DEF PacketsNameTheirStory
<1>3. QED
  BY <1>2, InvariantHolds, PTL

(* A stored flag is that of the stored packet of its event.                *)
THEOREM FlagsSayWhatPacketsSay == Spec => []FlagsFollowPackets
<1>1. ASSUME IInv, NEW f \in flags
      PROVE  \E p \in packets :
               /\ p.event = f.event
               /\ p.story = f.story
               /\ p.claim = f.claim
               /\ f.symbols = RelatedSymbols(p.members)
               /\ p.claim.terminal \in {"high_confidence_structured", "general_market_context"}
               /\ p.claim.type = "funding_shift" => p.claim.usable
  <2>1. PICK p \in packets : /\ p.event = f.event
                             /\ EmitsFlag(p.claim)
                             /\ f = Flag(p.event, p.claim, p.members)
    BY <1>1 DEF IInv, StoreHolds, FlagHolds
  <2>2. /\ Member(p.event, p.claim) \in p.members
        /\ p.story = StoryOf(Member(p.event, p.claim))
    BY <1>1, PacketIsOfItsStory
  <2>3. p.members \cup {Member(p.event, p.claim)} = p.members
    BY <2>2
  <2>4. /\ f.story = p.story
        /\ f.claim = p.claim
        /\ f.symbols = RelatedSymbols(p.members)
    BY <2>1, <2>2, <2>3 DEF Flag
  <2>5. QED
    BY <2>1, <2>4 DEF EmitsFlag
<1>2. IInv => FlagsFollowPackets
  BY <1>1 DEF FlagsFollowPackets
<1>3. QED
  BY <1>2, InvariantHolds, PTL

(* A health event tells the conflict of the stored cluster and whether a   *)
(* flag is stored.                                                         *)
THEOREM HealthTellsTheStory == Spec => []HealthReportsStory
<1>1. ASSUME IInv, NEW h \in healths
      PROVE  \E p \in packets, c \in clusters :
               /\ p.event = h.event /\ c.event = h.event
               /\ c.story = p.story /\ c.members = p.members
               /\ h.high = (ConflictLevel(c.members) = 3)
               /\ h.flagged = (\E f \in flags : f.event = h.event)
               /\ h.level = "healthy" => ConflictLevel(c.members) < 3 /\ ~p.claim.fallback
  <2>1. PICK p \in packets :
          /\ p.event = h.event
          /\ h = Health(p.event, p.claim, p.members)
          /\ EmitsFlag(p.claim) => Flag(p.event, p.claim, p.members) \in flags
    BY <1>1 DEF IInv, StoreHolds, HealthHolds
  <2>2. PacketHolds(p)
    BY <1>1 DEF IInv, StoreHolds
  <2>3. p.members \cup {Member(p.event, p.claim)} = p.members
    BY <2>2 DEF PacketHolds
  <2> DEFINE c == Cluster(p.event, p.claim, p.members)
  <2>4. /\ c \in clusters
        /\ c.event = h.event
        /\ c.story = p.story
        /\ c.members = p.members
    BY <2>1, <2>2, <2>3 DEF PacketHolds, Cluster
  <2>5. /\ h.high = (ConflictLevel(p.members) = 3)
        /\ h.flagged = EmitsFlag(p.claim)
        /\ h.level = "healthy" => ConflictLevel(p.members) # 3 /\ ~p.claim.fallback
    BY <2>1, <2>3 DEF Health
  <2>6. EmitsFlag(p.claim) <=> \E f \in flags : f.event = h.event
    <3>1. ASSUME EmitsFlag(p.claim) PROVE \E f \in flags : f.event = h.event
      BY <2>1, <3>1 DEF Flag
    <3>2. ASSUME NEW f \in flags, f.event = h.event PROVE EmitsFlag(p.claim)
      <4>1. PICK q \in packets : q.event = f.event /\ EmitsFlag(q.claim)
        BY <1>1 DEF IInv, StoreHolds, FlagHolds
      <4>2. QED
        BY <1>1, <2>1, <3>2, <4>1 DEF IInv, StoreHolds, PacketsApart
    <3>3. QED
      BY <3>1, <3>2
  <2>7. EmitsFlag(p.claim) \in BOOLEAN
    BY DEF EmitsFlag
  <2>8. h.flagged = (\E f \in flags : f.event = h.event)
    BY <2>5, <2>6, <2>7
  <2>9. ConflictLevel(p.members) \in 0..3
    BY DEF ConflictLevel
  <2>10. QED
    BY <2>1, <2>4, <2>5, <2>8, <2>9
<1>2. IInv => HealthReportsStory
  BY <1>1 DEF HealthReportsStory
<1>3. QED
  BY <1>2, InvariantHolds, PTL

(* Of two events that share a path segment at most one is announced, with  *)
(* all its objects stored.                                                 *)
THEOREM SegmentsAreNotShared == Spec => []OneEventPerSegment
<1>1. ASSUME IInv, NEW e \in announced
      PROVE  \E p \in packets, h \in healths :
               /\ p.event = e /\ h.event = e
               /\ Member(e, p.claim) \in members
               /\ Cluster(e, p.claim, p.members) \in clusters
               /\ h = Health(e, p.claim, p.members)
  <2>1. PICK p \in packets : /\ p.event = e
                             /\ Member(e, p.claim) \in members
                             /\ Health(e, p.claim, p.members) \in healths
    BY <1>1 DEF IInv, StoreHolds, AnnouncedHolds
  <2>2. Cluster(e, p.claim, p.members) \in clusters
    BY <1>1, <2>1 DEF IInv, StoreHolds, PacketHolds
  <2>3. Health(e, p.claim, p.members).event = e
    BY DEF Health
  <2>4. QED
    BY <2>1, <2>2, <2>3
<1>2. ASSUME IInv, NEW e \in announced, NEW f \in announced, Segment(e) = Segment(f)
      PROVE  e = f
  BY <1>2 DEF IInv, StoreHolds, AnnouncedHolds
<1>3. IInv => OneEventPerSegment
  BY <1>1, <1>2 DEF OneEventPerSegment, IInv, StoreHolds
<1>4. QED
  BY <1>3, InvariantHolds, PTL

-----------------------------------------------------------------------------
(***************************************************************************)
(* What a step does                                                        *)
(***************************************************************************)

(* The attempt that moves stays at its claim or takes one of its event,    *)
(* and what it stores is its own.                                          *)
Moves(w) ==
  /\ \A u \in Workers \ {w} : worker'[u] = worker[u]
  /\ \/ worker'[w].pc \notin Busy
     \/ worker[w].pc \in Busy /\ worker'[w].event = worker[w].event
                              /\ worker'[w].claim = worker[w].claim
     \/ worker'[w].claim \in Claims[worker[w].event] /\ worker'[w].event = worker[w].event
  /\ members \subseteq members'
  /\ clusters \subseteq clusters'
  /\ packets' = packets \/ /\ worker[w].pc = "packet"
                           /\ packets' = packets \cup {OwnPacket(w)}
  /\ flags \subseteq flags'
  /\ healths \subseteq healths'
  /\ prepared \subseteq prepared'

LEMMA PutKeeps ==
  ASSUME NEW objects, NEW clash, NEW o
  PROVE  objects \subseteq Put(objects, clash, o)
BY DEF Put

LEMMA PutPacketMoves ==
  ASSUME IInv, NEW w \in Workers, PutPacket(w)
  PROVE  Moves(w)
<1> DEFINE clash == {q \in packets : q.event = OwnPacket(w).event}
<1>1. /\ worker[w].pc = "packet"
      /\ packets' = Put(packets, clash, OwnPacket(w))
      /\ Proceed(w, Accepts(clash, OwnPacket(w)), "flag")
      /\ UNCHANGED <<members, clusters, flags, healths, prepared>>
  BY DEF PutPacket, OwnPacket
<1>2. worker[w].pc \in Busy /\ "flag" \in Busy
  BY <1>1 DEF Busy, Phases
<1> HIDE DEF clash
<1>3. /\ \A u \in Workers \ {w} : worker'[u] = worker[u]
      /\ \/ /\ packets' = packets \cup {OwnPacket(w)}
            /\ worker'[w].event = worker[w].event
            /\ worker'[w].claim = worker[w].claim
         \/ packets' = packets /\ worker'[w].pc = "idle"
  BY <1>1, <1>2, WriteWorks DEF IInv
<1>. QED
  BY <1>1, <1>2, <1>3 DEF Moves, Busy

(* Any other write.                                                        *)
LEMMA WriteMoves ==
  ASSUME IInv, NEW w \in Workers, worker[w].pc \in Busy, NEW pc \in Busy,
         NEW accepted \in BOOLEAN, Proceed(w, accepted, pc),
         members \subseteq members', clusters \subseteq clusters', packets' = packets,
         flags \subseteq flags', healths \subseteq healths', prepared \subseteq prepared'
  PROVE  Moves(w)
<1>1. CASE Reaches(w, pc)
  BY <1>1, ReachesWorks DEF IInv, Moves
<1>2. CASE worker'[w].pc = "idle" /\ \A u \in Workers \ {w} : worker'[u] = worker[u]
  BY <1>2 DEF Moves, Busy
<1>. QED
  BY <1>1, <1>2, ProceedWorks DEF IInv

LEMMA QuietMoves ==
  ASSUME IInv, NEW w \in Workers, NEW state \in WorkerState, Becomes(w, state),
         state.pc \notin Busy, UNCHANGED <<members, clusters, packets, flags, healths, prepared>>
  PROVE  Moves(w)
BY BecomesWorks DEF IInv, Moves

LEMMA StepMoves ==
  ASSUME IInv, NEW w \in Workers, Step(w)
  PROVE  Moves(w)
<1>1. ASSUME NEW e \in Events, Start(w, e) PROVE Moves(w)
  BY <1>1, StartWorks DEF IInv, Start, Moves, store, Busy
<1>2. ASSUME NEW claim \in Claims[worker[w].event], Structure(w, claim) PROVE Moves(w)
  BY <1>2, StructureWorks DEF IInv, Structure, Moves, store
<1>3. ASSUME NEW m \in worker[w].unread, ReadMember(w, m) PROVE Moves(w)
  BY <1>3, ReadMemberWorks DEF IInv, ReadMember, Moves, store, Busy, Phases
<1>4. CASE PutMember(w)
  <2> DEFINE clash == {n \in members : MemberKey(n) = MemberKey(Own(w))}
  <2>1. /\ worker[w].pc \in Busy /\ "cluster" \in Busy
        /\ members \subseteq members'
        /\ Proceed(w, Accepts(clash, Own(w)), "cluster")
        /\ UNCHANGED <<clusters, packets, flags, healths, prepared>>
    BY <1>4, PutKeeps DEF PutMember, Own, Busy, Phases
  <2>2. Accepts(clash, Own(w)) \in BOOLEAN
    BY DEF Accepts
  <2> HIDE DEF clash
  <2>. QED
    BY <2>1, <2>2, WriteMoves
<1>5. CASE PutCluster(w)
  <2> DEFINE clash == {b \in clusters : ClusterKey(b) = ClusterKey(OwnCluster(w))}
  <2>1. /\ worker[w].pc \in Busy /\ "packet" \in Busy
        /\ clusters \subseteq clusters'
        /\ Proceed(w, Accepts(clash, OwnCluster(w)), "packet")
        /\ UNCHANGED <<members, packets, flags, healths, prepared>>
    BY <1>5, PutKeeps DEF PutCluster, OwnCluster, Busy, Phases
  <2>2. Accepts(clash, OwnCluster(w)) \in BOOLEAN
    BY DEF Accepts
  <2> HIDE DEF clash
  <2>. QED
    BY <2>1, <2>2, WriteMoves
<1>6. CASE PutPacket(w)
  BY <1>6, PutPacketMoves
<1>7. CASE PutFlag(w)
  <2> DEFINE clash == {g \in flags : g.event = OwnFlag(w).event}
  <2>1. /\ worker[w].pc \in Busy /\ "health" \in Busy
        /\ flags \subseteq flags'
        /\ Proceed(w, Accepts(clash, OwnFlag(w)), "health")
        /\ UNCHANGED <<members, clusters, packets, healths, prepared>>
    BY <1>7, PutKeeps DEF PutFlag, OwnFlag, Busy, Phases
  <2>2. Accepts(clash, OwnFlag(w)) \in BOOLEAN
    BY DEF Accepts
  <2> HIDE DEF clash
  <2>. QED
    BY <2>1, <2>2, WriteMoves
<1>8. CASE SkipFlag(w)
  BY <1>8, ReachesWorks DEF IInv, SkipFlag, Moves, store, Busy, Phases
<1>9. CASE PutHealth(w)
  <2> DEFINE clash == {i \in healths : i.event = OwnHealth(w).event}
  <2>1. /\ worker[w].pc \in Busy /\ "prepared" \in Busy
        /\ healths \subseteq healths'
        /\ Proceed(w, Accepts(clash, OwnHealth(w)), "prepared")
        /\ UNCHANGED <<members, clusters, packets, flags, prepared>>
    BY <1>9, PutKeeps DEF PutHealth, OwnHealth, Busy, Phases
  <2>2. Accepts(clash, OwnHealth(w)) \in BOOLEAN
    BY DEF Accepts
  <2> HIDE DEF clash
  <2>. QED
    BY <2>1, <2>2, WriteMoves
<1>10. CASE PutPrepared(w)
  <2> DEFINE clash == {f \in prepared : Segment(f) = Segment(worker[w].event)}
  <2>1. /\ worker[w].pc \in Busy /\ "publish" \in Busy
        /\ prepared \subseteq prepared'
        /\ Proceed(w, Accepts(clash, worker[w].event), "publish")
        /\ UNCHANGED <<members, clusters, packets, flags, healths>>
    BY <1>10, PutKeeps DEF PutPrepared, Busy, Phases
  <2>2. Accepts(clash, worker[w].event) \in BOOLEAN
    BY DEF Accepts
  <2> HIDE DEF clash
  <2>. QED
    BY <2>1, <2>2, WriteMoves
<1>11. CASE Publish(w)
  BY <1>11, ReachesWorks DEF IInv, Publish, Moves, store, Busy, Phases
<1>12. CASE PutSuccess(w)
  BY <1>12, QuietMoves, IdleIsState DEF PutSuccess, Busy
<1>13. CASE Stop(w)
  BY <1>13, QuietMoves, IdleIsState DEF Stop, Busy, store
<1>. QED
  BY <1>1, <1>2, <1>3, <1>4, <1>5, <1>6, <1>7, <1>8, <1>9, <1>10, <1>11, <1>12, <1>13
     DEF Step

(* Only a publish announces and only the last write completes.             *)
LEMMA StepAnnounces ==
  ASSUME NEW w \in Workers, Step(w)
  PROVE  \/ UNCHANGED <<announced, success>>
         \/ /\ Publish(w)
            /\ worker[w].pc = "publish"
            /\ announced' = announced \cup {worker[w].event}
            /\ success' = success
         \/ /\ worker[w].pc = "success"
            /\ announced' = announced
            /\ success' = success \/ success' = success \cup {worker[w].event}
BY DEF Step, Start, Structure, ReadMember, PutMember, PutCluster, PutPacket, PutFlag,
       SkipFlag, PutHealth, PutPrepared, Publish, PutSuccess, Put, Stop, store

LEMMA StepGrows ==
  ASSUME IInv, [Next]_vars
  PROVE  Grows
<1>1. IsFiniteSet(members')
  BY StepKeeps DEF IInv, StoreHolds, MembersHold
<1>2. ASSUME NEW w \in Workers, Step(w)
      PROVE  Grows
  <2>1. announced \subseteq announced' /\ success \subseteq success'
    BY <1>2, StepAnnounces
  <2>2. Moves(w)
    BY <1>2, StepMoves
  <2>. QED
    BY <1>1, <2>1, <2>2 DEF Moves, Grows
<1>3. CASE UNCHANGED vars
  BY <1>1, <1>3 DEF vars, store, Grows
<1>. QED
  BY <1>2, <1>3 DEF Next

(* Nothing that is stored or announced of a story is replaced or taken     *)
(* back by another attempt, however often a message is redelivered: every  *)
(* write is a put_bytes_idempotent.                                        *)
THEOREM NothingIsRewritten == Spec => [][Grows]_vars
<1>1. IInv /\ [Next]_vars => Grows
  BY StepGrows
<1>. QED
  BY <1>1, InvariantHolds, PTL DEF Spec

-----------------------------------------------------------------------------
(***************************************************************************)
(* The refinement of StoryContract                                         *)
(***************************************************************************)

ClaimsHold ==
  /\ \A w \in Workers : worker[w].pc \in Busy => worker[w].claim \in Claims[worker[w].event]
  /\ \A p \in packets : p.claim \in Claims[p.event]

LEMMA ClaimsStep ==
  ASSUME IInv, ClaimsHold, [Next]_vars
  PROVE  ClaimsHold'
<1>1. ASSUME NEW w \in Workers, Step(w)
      PROVE  ClaimsHold'
  <2>1. Moves(w)
    BY <1>1, StepMoves
  <2>2. worker'[w].pc \in Busy => worker'[w].claim \in Claims[worker'[w].event]
    BY <2>1 DEF Moves, ClaimsHold
  <2>3. worker[w].pc = "packet" => OwnPacket(w).claim \in Claims[OwnPacket(w).event]
    BY DEF ClaimsHold, OwnPacket, Packet, Busy, Phases
  <2>. QED
    BY <2>1, <2>2, <2>3 DEF Moves, ClaimsHold
<1>2. CASE UNCHANGED vars
  BY <1>2 DEF vars, store, ClaimsHold
<1>. QED
  BY <1>1, <1>2 DEF Next

(* What is said of an announced event, by its packet alone.                *)
ReportsSettled ==
  \A e \in announced, p \in packets :
    p.event = e =>
      Reports(e) = {[claim |-> p.claim, flagged |-> EmitsFlag(p.claim),
                     severe |-> ConflictLevel(p.members) = 3]}

LEMMA ReportIsSettled == IInv => ReportsSettled
<1>. SUFFICES ASSUME IInv, NEW e \in announced, NEW p \in packets, p.event = e
              PROVE  Reports(e) = {[claim |-> p.claim, flagged |-> EmitsFlag(p.claim),
                                    severe |-> ConflictLevel(p.members) = 3]}
  BY DEF ReportsSettled
<1>1. \A q \in packets : q.event = e => q = p
  BY DEF IInv, StoreHolds, PacketsApart
<1>2. p.members \cup {Member(e, p.claim)} = p.members
  BY DEF IInv, StoreHolds, PacketHolds
<1>3. \A h \in healths : h.event = e =>
        /\ h = Health(e, p.claim, p.members)
        /\ EmitsFlag(p.claim) => Flag(e, p.claim, p.members) \in flags
  BY <1>1 DEF IInv, StoreHolds, HealthHolds
<1>4. Health(e, p.claim, p.members) \in healths
  BY <1>1 DEF IInv, StoreHolds, AnnouncedHolds
<1>5. /\ Health(e, p.claim, p.members).event = e
      /\ Health(e, p.claim, p.members).high = (ConflictLevel(p.members) = 3)
  BY <1>2 DEF Health
<1>6. HighReported(e) = (ConflictLevel(p.members) = 3)
  BY <1>3, <1>4, <1>5 DEF HighReported
<1>7. FlagStored(e) = EmitsFlag(p.claim)
  <2>1. ASSUME NEW f \in flags, f.event = e PROVE EmitsFlag(p.claim)
    BY <1>1, <2>1 DEF IInv, StoreHolds, FlagHolds
  <2>2. ASSUME EmitsFlag(p.claim) PROVE \E f \in flags : f.event = e
    <3>1. Flag(e, p.claim, p.members).event = e
      BY DEF Flag
    <3>. QED
      BY <1>3, <1>4, <1>5, <2>2, <3>1
  <2>3. EmitsFlag(p.claim) \in BOOLEAN
    BY DEF EmitsFlag
  <2>. QED
    BY <2>1, <2>2, <2>3 DEF FlagStored
<1>8. {q \in packets : q.event = e} = {p}
  BY <1>1
<1>. QED
  BY <1>6, <1>7, <1>8 DEF Reports

LEMMA ReportIsSettledNext == IInv' => ReportsSettled'
BY ReportIsSettled, PTL

(* The variables and constants of StoryContract.                           *)
Told == [e \in Events |-> IF e \in announced THEN Reports(e) ELSE {}]

FlaggedClaims == {claim \in ClaimsMade : EmitsFlag(claim)}

GraveClaims == {claim \in ClaimsMade : Severe(claim.flags)}

ContractStep == [Contract!Next]_(Contract!vars)

LEMMA ContractMapping ==
  /\ Contract!Init <=> Told = [e \in Events |-> {}] /\ success = {}
  /\ \A e \in Events : \A claim \in Claims[e], severe \in BOOLEAN :
       /\ \A f \in Events : Segment(f) = Segment(e) => Told[f] = {}
       /\ claim \in GraveClaims => severe
       /\ Told' = [Told EXCEPT ![e] = {[claim |-> claim, flagged |-> claim \in FlaggedClaims,
                                        severe |-> severe]}]
       /\ success' = success
       => ContractStep
  /\ \A e \in Events :
       /\ Told[e] # {}
       /\ success' = success \cup {e}
       /\ Told' = Told
       => ContractStep
  /\ Told' = Told /\ success' = success => ContractStep
BY DEF ContractStep, Contract!Init, Contract!Next, Contract!vars, Contract!Announce,
       Contract!Complete, Told, FlaggedClaims, GraveClaims

(* A report stays what it is.                                              *)
LEMMA ReportStays ==
  ASSUME IInv, IInv', Grows, NEW e \in announced
  PROVE  Reports(e)' = Reports(e) /\ Reports(e) # {}
<1>1. PICK p \in packets : p.event = e
  BY DEF IInv, StoreHolds, AnnouncedHolds
<1>2. p \in packets' /\ e \in announced'
  BY DEF Grows
<1>3. Reports(e) = {[claim |-> p.claim, flagged |-> EmitsFlag(p.claim),
                     severe |-> ConflictLevel(p.members) = 3]}
  BY <1>1, ReportIsSettled DEF ReportsSettled
<1>4. Reports(e)' = {[claim |-> p.claim, flagged |-> EmitsFlag(p.claim),
                      severe |-> ConflictLevel(p.members) = 3]}
  BY <1>1, <1>2, ReportIsSettledNext DEF ReportsSettled
<1>. QED
  BY <1>3, <1>4

LEMMA ToldStays ==
  ASSUME IInv, IInv', Grows, announced' = announced
  PROVE  Told' = Told
BY ReportStays DEF Told

(* The first publish of an event tells its report.                         *)
LEMMA PublishContracts ==
  ASSUME IInv, IInv', Grows, ClaimsHold', NEW e \in Events, e \notin announced,
         announced' = announced \cup {e}, success' = success
  PROVE  ContractStep
<1>1. PICK p \in packets' : p.event = e
  BY DEF IInv, StoreHolds, AnnouncedHolds
<1>. DEFINE severe == ConflictLevel(p.members) = 3
            said == [claim |-> p.claim, flagged |-> p.claim \in FlaggedClaims,
                     severe |-> severe]
<1>2. p.claim \in Claims[e] /\ p.claim \in ClaimsMade
  BY <1>1 DEF ClaimsHold, ClaimsMade
<1>3. \A f \in Events : Segment(f) = Segment(e) => Told[f] = {}
  <2>1. ASSUME NEW f \in announced, Segment(f) = Segment(e)
        PROVE  FALSE
    <3>1. f \in prepared' /\ e \in prepared'
      BY DEF IInv, StoreHolds, AnnouncedHolds
    <3>2. \A g, h \in prepared' : Segment(g) = Segment(h) => g = h
      BY DEF IInv, StoreHolds, Segment
    <3>. QED
      BY <2>1, <3>1, <3>2
  <2>. QED
    BY <2>1 DEF Told
<1>4. p.claim \in GraveClaims => severe
  <2>1. Member(e, p.claim) \in p.members
    BY <1>1 DEF IInv, StoreHolds, PacketHolds
  <2>2. p.claim.flags \subseteq Contradictions(p.members)
    BY <2>1 DEF Contradictions, Member
  <2>. QED
    BY <2>2 DEF GraveClaims, Severe, ConflictLevel
<1>5. Reports(e)' = {said}
  <2>1. Reports(e)' = {[claim |-> p.claim, flagged |-> EmitsFlag(p.claim), severe |-> severe]}
    BY <1>1, ReportIsSettledNext DEF ReportsSettled
  <2>2. EmitsFlag(p.claim) = (p.claim \in FlaggedClaims)
    <3>1. EmitsFlag(p.claim) \in BOOLEAN
      BY DEF EmitsFlag
    <3>. QED
      BY <1>2, <3>1 DEF FlaggedClaims
  <2>. QED
    BY <2>1, <2>2, Zenon
<1>6. Told' = [Told EXCEPT ![e] = {said}]
  <2>1. \A f \in Events \ {e} : Told'[f] = Told[f]
    BY ReportStays DEF Told
  <2>2. Told'[e] = {said}
    BY <1>5 DEF Told
  <2>3. Told \in [Events -> {Told[f] : f \in Events}] /\ Told' = [f \in Events |-> Told'[f]]
    BY DEF Told
  <2>. HIDE DEF said
  <2>. QED
    BY <2>1, <2>2, <2>3
<1>. QED
  BY <1>2, <1>3, <1>4, <1>6, ContractMapping

LEMMA NextContracts ==
  ASSUME IInv, IInv', ClaimsHold, ClaimsHold', [Next]_vars
  PROVE  ContractStep
<1>1. Grows
  BY StepGrows
<1>2. CASE UNCHANGED <<announced, success>>
  BY <1>1, <1>2, ToldStays, ContractMapping
<1>3. ASSUME NEW w \in Workers, worker[w].pc = "publish",
             announced' = announced \cup {worker[w].event}, success' = success
      PROVE  ContractStep
  <2>1. worker[w].event \in Events
    BY <1>3, OwnIsTyped DEF IInv, Busy, Phases
  <2>2. CASE worker[w].event \in announced
    BY <1>2, <1>3, <2>2
  <2>3. CASE worker[w].event \notin announced
    BY <1>1, <1>3, <2>1, <2>3, PublishContracts
  <2>. QED
    BY <2>2, <2>3
<1>4. ASSUME NEW w \in Workers, worker[w].pc = "success", announced' = announced,
             success' = success \cup {worker[w].event}
      PROVE  ContractStep
  <2>1. worker[w].event \in announced /\ worker[w].event \in Events
    BY <1>4, OwnIsTyped DEF IInv, AttemptHolds, WritesHold, Busy, Phases
  <2>2. Told[worker[w].event] # {}
    BY <1>1, <2>1, ReportStays DEF Told
  <2>3. Told' = Told
    BY <1>1, <1>4, ToldStays
  <2>. QED
    BY <1>4, <2>1, <2>2, <2>3, ContractMapping
<1>5. CASE UNCHANGED vars
  BY <1>2, <1>5 DEF vars, store
<1>. QED
  BY <1>2, <1>3, <1>4, <1>5, StepAnnounces DEF Next

(* Packet, flag and health event of an event are written and announced one *)
(* by one, possibly by attempts that decided differently, merged different *)
(* members or stopped half-way: consumers are nevertheless told one report *)
(* of it, of one event per path segment, and the success index comes after *)
(* it (put_bytes_idempotent, the order of writes in process_pointer).      *)
THEOREM StoriesAreReportedOnce == Spec => ImplementsContract
<1>1. Init => Contract!Init
  BY ContractMapping DEF Init, Told
<1>2. Init => ClaimsHold
  BY DEF Init, ClaimsHold, Idle, Busy
<1>3. IInv /\ ClaimsHold /\ [Next]_vars => ClaimsHold'
  BY ClaimsStep
<1>4. IInv /\ IInv' /\ ClaimsHold /\ ClaimsHold' /\ [Next]_vars
        => [Contract!Next]_(Contract!vars)
  BY NextContracts DEF ContractStep
<1>. QED
  BY InvariantHolds, <1>1, <1>2, <1>3, <1>4, PTL DEF Spec, Contract!Spec, ImplementsContract
=============================================================================
