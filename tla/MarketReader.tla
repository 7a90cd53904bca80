---------------------------- MODULE MarketReader ----------------------------
(***************************************************************************)
(* MarketL1Reader::context_for (market/reader.rs): one lookup of the       *)
(* market context of an event.  The reader lists the window index of each  *)
(* hour of the lookback range to find the latest window, then reads the    *)
(* windows around the event's own and the latest one, and merges what it   *)
(* could read.  Market-L1 indexes further windows meanwhile, and any call  *)
(* may fail: a failure is swallowed, whatever it hides.                    *)
(*                                                                         *)
(* A window is named by its start.                                         *)
(***************************************************************************)
EXTENDS Integers, FiniteSets

CONSTANTS
  Starts,       \* windows Market-L1 may index
  Bases,        \* windows an event's time may fall into
  Window,       \* window_ms
  Radius,       \* radius_windows
  Lookback,     \* latest_before_lookback_ms
  StaleAfter,   \* stale_after_ms
  HourLength,   \* HOUR_MS
  ListLimit,    \* LATEST_BEFORE_MAX_INDEX_KEYS_PER_HOUR
  None,         \* no window, no context
  MaxWrites     \* bound on what Market-L1 indexes during the lookup

ASSUME StartsAssumption ==
  /\ Starts \subseteq Nat
  /\ Bases \subseteq Nat
  /\ None \notin Nat
ASSUME SettingsAssumption ==
  /\ Window \in Nat \ {0}
  /\ Radius \in Nat
  /\ Lookback \in Nat /\ Lookback >= Window
  /\ StaleAfter \in Nat /\ StaleAfter >= Window
  /\ HourLength \in Nat \ {0}
  /\ MaxWrites \in Nat

(* What a window of the index leads to.                                    *)
(* absent:  no index pointer                                               *)
(* refused: a pointer from which no read plan is built: the pointer, the   *)
(*          manifest or the report is missing, is no success, does not     *)
(*          cover the window, or does not agree with the others            *)
(* general: a read plan whose slices do not mention the event's symbols    *)
(* symbol:  a read plan whose slices do                                    *)
WindowStates == {"absent", "refused", "general", "symbol"}

VARIABLES
  index,     \* [Starts -> WindowStates]: the Market-L1 bucket
  writes,    \* how often Market-L1 has changed the index since the start
  basis,     \* the window of the event's time
  symbols,   \* does the event name symbols?
  pc,        \* "list", "read" or "done"
  hours,     \* hours whose index prefix is still to be listed
  latest,    \* latest window found so far
  todo,      \* windows still to be read
  answer,    \* merge of the windows read so far, and at last the context
  failed,    \* has a call failed?
  before     \* history variable: the index when the lookup began

lookupVars == <<basis, symbols, pc, hours, latest, todo, answer, failed, before>>
vars == <<index, writes, lookupVars>>

-----------------------------------------------------------------------------
(* time_part: the hour a pointer is filed under.                           *)
HourOf(t) == t \div HourLength

(* The windows of an hour fit into one listing; window_ms >= 720 does it.  *)
ASSUME ListingAssumption ==
  /\ ListLimit \in Nat
  /\ \A h \in {HourOf(w) : w \in Starts} :
       /\ IsFiniteSet({w \in Starts : HourOf(w) = h})
       /\ Cardinality({w \in Starts : HourOf(w) = h}) <= ListLimit

Indexed(s) == index[s] # "absent"

(* build_market_l1_read_plan succeeds.                                     *)
Admits(state) == state \in {"general", "symbol"}

RadiusWindows(b) == {w \in Starts : \E k \in -Radius..Radius : w = b + k * Window}

Earliest(b) == b - Lookback

InLookback(b, w) == w \in Earliest(b)..b

(* Faulty: only the oldest and the current hour are listed.                *)
EndsOfLookback(b) == {HourOf(Earliest(b)), HourOf(b)}

(* index_prefixes                                                          *)
HoursOfLookback(b) == HourOf(Earliest(b))..HourOf(b)

(* list_keys: the first ListLimit pointers of the hour.                    *)
Listing(h) ==
  LET keys == {w \in Starts : Indexed(w) /\ HourOf(w) = h} IN
  {w \in keys : Cardinality({v \in keys : v < w}) < ListLimit}

(* context_status of a window that is read.                                *)
StatusOf(w) ==
  IF ~symbols \/ index[w] # "symbol" THEN "available_general_context"
  ELSE IF w = basis THEN "available_symbol_context"
  ELSE IF basis - w > StaleAfter THEN "stale_but_usable"
  ELSE "nearest_available"

Statuses ==
  {"available_symbol_context", "nearest_available", "stale_but_usable",
   "available_general_context"}

(* Faulty: the status of the first window stays.                           *)
MergeKeepsFirst(left, right) == left

(* merge_status, for the statuses a window can have                        *)
MergeStatus(left, right) ==
  IF "available_symbol_context" \in {left, right} THEN "available_symbol_context"
  ELSE IF "nearest_available" \in {left, right} THEN "nearest_available"
  ELSE IF "stale_but_usable" \in {left, right} THEN "stale_but_usable"
  ELSE "available_general_context"

(* window: the one whose bounds and manifest the context names             *)
(* read: the windows whose slices it refers to                             *)
(* summaries: the windows its symbol summaries come from                   *)
MarketContexts ==
  [status : Statuses, window : Starts, read : SUBSET Starts, summaries : SUBSET Starts]

ASSUME NoneAssumption == None \notin MarketContexts

(* merge_snapshots, one snapshot at a time                                 *)
Merged(w) ==
  LET summaries == IF symbols /\ index[w] = "symbol" THEN {w} ELSE {} IN
  IF answer = None
  THEN [status |-> StatusOf(w), window |-> w, read |-> {w}, summaries |-> summaries]
  ELSE [status |-> MergeStatus(answer.status, StatusOf(w)),
        window |-> answer.window,
        read |-> answer.read \cup {w},
        summaries |-> answer.summaries \cup summaries]

-----------------------------------------------------------------------------
(* Faulty: the windows before the event's own are left to the lookback.    *)
CandidatesAfter(found) ==
  {w \in RadiusWindows(basis) : w >= basis} \cup ({found} \ {None})

(* Faulty: a latest window is read even if there is none.                  *)
CandidatesUnchecked(found) == RadiusWindows(basis) \cup {found}

(* candidate_window_starts; the other windows of the radius hold nothing.  *)
Candidates(found) == RadiusWindows(basis) \cup ({found} \ {None})

(* The radius windows are read in order of time, the latest one after them.*)
IsNext(w) ==
  /\ w \in todo
  /\ \A v \in todo \ {w} :
       IF w \in RadiusWindows(basis) THEN v \in RadiusWindows(basis) => w < v
                                     ELSE v \notin RadiusWindows(basis)

StartsReading(found) ==
  /\ pc' = "read"
  /\ todo' = Candidates(found)

ListHour(h) ==
  /\ pc = "list"
  /\ h \in hours /\ \A other \in hours : h <= other
  /\ hours' = hours \ {h}
  /\ \E found \in Starts \cup {None} :
       /\ LET seen == {w \in Listing(h) : InLookback(basis, w)} \cup ({latest} \ {None}) IN
          IF seen = {} THEN found = None
          ELSE found \in seen /\ \A w \in seen : w <= found
       /\ latest' = found
       /\ IF hours' = {} THEN StartsReading(found) ELSE UNCHANGED <<pc, todo>>
  /\ UNCHANGED <<index, writes, basis, symbols, answer, failed, before>>

(* An error of any listing drops the latest window, found or not.          *)
ListFails ==
  /\ pc = "list"
  /\ hours' = {}
  /\ latest' = None
  /\ StartsReading(None)
  /\ failed' = TRUE
  /\ UNCHANGED <<index, writes, basis, symbols, answer, before>>

(* Faulty: a window that is not admitted ends the lookup.                  *)
ReadWindowOrGiveUp(w) ==
  /\ pc = "read"
  /\ IsNext(w)
  /\ IF Admits(index[w]) THEN answer' = Merged(w) /\ todo' = todo \ {w}
     ELSE UNCHANGED answer /\ todo' = {}
  /\ UNCHANGED <<index, writes, basis, symbols, pc, hours, latest, failed, before>>

(* The pointer decides: what it leads to is never written again.           *)
ReadWindow(w) ==
  /\ pc = "read"
  /\ IsNext(w)
  /\ todo' = todo \ {w}
  /\ IF Admits(index[w]) THEN answer' = Merged(w) ELSE UNCHANGED answer
  /\ UNCHANGED <<index, writes, basis, symbols, pc, hours, latest, failed, before>>

ReadFails(w) ==
  /\ pc = "read"
  /\ IsNext(w)
  /\ todo' = todo \ {w}
  /\ failed' = TRUE
  /\ UNCHANGED <<index, writes, basis, symbols, pc, hours, latest, answer, before>>

(* Without any snapshot context_for answers "pending": answer = None.      *)
Answer ==
  /\ pc = "read"
  /\ todo = {}
  /\ pc' = "done"
  /\ UNCHANGED <<index, writes, basis, symbols, hours, latest, todo, answer, failed, before>>

(* Market-L1 indexes a window, or replaces its pointer by a better run's.  *)
Improves(old, new) ==
  \/ old = "absent" /\ new # "absent"
  \/ old = "refused" /\ Admits(new)
  \/ old = "general" /\ new = "symbol"

IndexWindow(w, state) ==
  /\ writes < MaxWrites
  /\ Improves(index[w], state)
  /\ index' = [index EXCEPT ![w] = state]
  /\ writes' = writes + 1
  /\ UNCHANGED lookupVars

Init ==
  /\ index \in [Starts -> WindowStates]
  /\ writes = 0
  /\ basis \in Bases
  /\ symbols \in BOOLEAN
  /\ pc = "list"
  /\ hours = HoursOfLookback(basis)
  /\ latest = None
  /\ todo = {}
  /\ answer = None
  /\ failed = FALSE
  /\ before = index

Next ==
  \/ \E h \in hours : ListHour(h)
  \/ ListFails
  \/ \E w \in todo : ReadWindow(w) \/ ReadFails(w)
  \/ Answer
  \/ \E w \in Starts, state \in WindowStates : IndexWindow(w, state)

Spec == Init /\ [][Next]_vars

-----------------------------------------------------------------------------
(***************************************************************************)
(* Properties                                                              *)
(***************************************************************************)

TypeOK ==
  /\ index \in [Starts -> WindowStates]
  /\ writes \in 0..MaxWrites
  /\ basis \in Bases
  /\ symbols \in BOOLEAN
  /\ pc \in {"list", "read", "done"}
  /\ hours \subseteq HoursOfLookback(basis)
  /\ latest \in Starts \cup {None}
  /\ todo \subseteq Starts
  /\ answer \in MarketContexts \cup {None}
  /\ failed \in BOOLEAN
  /\ before \in [Starts -> WindowStates]

(* The status of a context is that of the best window with the event's     *)
(* symbols, in whatever order the windows were read; routing and the       *)
(* context flags trust it.                                                 *)
StatusIsEarned ==
  answer # None =>
    answer.status =
      IF answer.summaries = {} THEN "available_general_context"
      ELSE IF basis \in answer.summaries THEN "available_symbol_context"
      ELSE IF \E w \in answer.summaries : basis - w <= StaleAfter THEN "nearest_available"
      ELSE "stale_but_usable"

(* A window outside the radius is used only if no later one, up to the     *)
(* event's own, was indexed when the lookup began: the lookback "must not  *)
(* jump" over fresher windows to stale ones.                               *)
NoFresherWindow ==
  answer # None =>
    \A w \in answer.read \ RadiusWindows(basis) :
      \A v \in Starts : w < v /\ v <= basis => before[v] = "absent"

(* Unless a call failed, a lookup is pending only if no window of the      *)
(* radius could be used when it began, and each usable window of the       *)
(* lookback is hidden by a later one that is indexed but refused.          *)
PendingIsJustified ==
  pc = "done" /\ answer = None /\ ~failed =>
    /\ \A w \in RadiusWindows(basis) : ~Admits(before[w])
    /\ \A w \in Starts :
         InLookback(basis, w) /\ Admits(before[w]) =>
           \E v \in Starts : w < v /\ v <= basis /\ Indexed(v)

(* Only a failed call can cost an event the symbol context of its own      *)
(* window, if it was there when the lookup began.                          *)
ExactWindowWins ==
  pc = "done" /\ ~failed /\ symbols /\ basis \in Starts /\ before[basis] = "symbol" =>
      answer # None /\ answer.status = "available_symbol_context"
=============================================================================
