------------------------- MODULE MarketReaderProofs -------------------------
(***************************************************************************)
(* Proofs about MarketReader, for any index, any settings and any          *)
(* interleaving of the lookup with Market-L1.                              *)
(*                                                                         *)
(* The argument: the index only improves while the lookup runs             *)
(* (IndexGrew), so that what the reader lists and reads is at least what   *)
(* was there when it began: the latest window found is not before any      *)
(* window of an hour already listed (LatestKnown), and each candidate that *)
(* is read and could be used then is in the answer (WindowsRead).          *)
(***************************************************************************)
EXTENDS MarketReader, FiniteSetTheorems, TLAPS

Kept(old, new) == old = new \/ Improves(old, new)

IndexGrew == \A w \in Starts : Kept(before[w], index[w])

LatestKnown ==
  /\ latest # None => InLookback(basis, latest) /\ Indexed(latest)
  /\ latest # None \/ ~failed =>
       \A w \in Starts :
         before[w] # "absent" /\ InLookback(basis, w) /\ HourOf(w) \notin hours =>
           latest # None /\ w <= latest

Phases ==
  /\ pc = "list" => answer = None /\ todo = {} /\ ~failed
  /\ pc # "list" => hours = {} /\ todo \subseteq Candidates(latest)
  /\ pc = "done" => todo = {}

WindowsRead ==
  /\ answer # None => answer.read \subseteq Candidates(latest)
  /\ pc # "list" /\ ~failed =>
       \A w \in Candidates(latest) \ todo :
         Admits(before[w]) =>
           /\ answer # None
           /\ symbols /\ before[w] = "symbol" => w \in answer.summaries

(* The inductive invariant.                                                *)
IInv == TypeOK /\ IndexGrew /\ LatestKnown /\ Phases /\ WindowsRead /\ StatusIsEarned

-----------------------------------------------------------------------------
(* Hours do not run backwards.                                             *)
LEMMA HoursGrow ==
  ASSUME NEW s \in Int, NEW t \in Int, s <= t
  PROVE  HourOf(s) \in Int /\ HourOf(t) \in Int /\ HourOf(s) <= HourOf(t)
<1>1. HourLength \in Int /\ HourLength > 0
  BY SettingsAssumption
<1>2. /\ s = HourLength * (s \div HourLength) + (s % HourLength)
      /\ t = HourLength * (t \div HourLength) + (t % HourLength)
      /\ s % HourLength \in 0..(HourLength - 1)
      /\ t % HourLength \in 0..(HourLength - 1)
      /\ s \div HourLength \in Int
      /\ t \div HourLength \in Int
  BY <1>1
<1>3. ASSUME s \div HourLength >= (t \div HourLength) + 1
      PROVE  FALSE
  <2>1. HourLength * (s \div HourLength) >= HourLength * ((t \div HourLength) + 1)
    BY <1>1, <1>2, <1>3
  <2>2. HourLength * ((t \div HourLength) + 1) = HourLength * (t \div HourLength) + HourLength
    BY <1>1, <1>2
  <2>3. QED
    BY <1>1, <1>2, <2>1, <2>2
<1>4. QED
  BY <1>2, <1>3 DEF HourOf

(* The hour of a window of the lookback is one of those listed.            *)
LEMMA LookbackIsListed ==
  ASSUME NEW b \in Bases, NEW w \in Starts, InLookback(b, w)
  PROVE  HourOf(w) \in HoursOfLookback(b)
<1>1. b \in Int /\ w \in Int /\ Earliest(b) \in Int
  BY StartsAssumption, SettingsAssumption DEF Earliest
<1>2. Earliest(b) <= w /\ w <= b
  BY <1>1 DEF InLookback
<1>3. QED
  BY <1>1, <1>2, HoursGrow DEF HoursOfLookback

(* A listing shows every indexed window of its hour.                       *)
LEMMA ListingIsComplete ==
  ASSUME NEW w \in Starts, Indexed(w)
  PROVE  w \in Listing(HourOf(w))
<1> DEFINE all == {v \in Starts : HourOf(v) = HourOf(w)}
           keys == {v \in Starts : Indexed(v) /\ HourOf(v) = HourOf(w)}
           smaller == {v \in keys : v < w}
<1>1. IsFiniteSet(all) /\ Cardinality(all) <= ListLimit /\ ListLimit \in Nat
  BY ListingAssumption
<1>2. smaller \subseteq all \ {w} /\ w \in all
  BY StartsAssumption
<1>3. Cardinality(smaller) < Cardinality(all)
  <2>1. IsFiniteSet(all \ {w}) /\ Cardinality(all \ {w}) = Cardinality(all) - 1
    BY <1>1, <1>2, FS_RemoveElement
  <2>2. Cardinality(smaller) <= Cardinality(all \ {w})
    BY <1>2, <2>1, FS_Subset
  <2>3. Cardinality(all) \in Nat /\ Cardinality(smaller) \in Nat
    BY <1>1, <1>2, <2>1, FS_Subset, FS_CardinalityType
  <2>4. QED
    BY <2>1, <2>2, <2>3
<1>4. Cardinality(smaller) < ListLimit
  <2>1. Cardinality(all) \in Nat /\ Cardinality(smaller) \in Nat
    BY <1>1, <1>2, FS_Subset, FS_CardinalityType, FS_RemoveElement
  <2>2. QED
    BY <1>1, <1>3, <2>1
<1>5. QED
  BY <1>4 DEF Listing

(* What has improved keeps what it had.                                    *)
LEMMA KeptFacts ==
  ASSUME NEW old \in WindowStates, NEW new \in WindowStates, Kept(old, new)
  PROVE  /\ old # "absent" => new # "absent"
         /\ Admits(old) => Admits(new)
         /\ old = "symbol" => new = "symbol"
BY DEF Kept, Improves, Admits, WindowStates

LEMMA KeptTransitive ==
  ASSUME NEW a \in WindowStates, NEW b \in WindowStates, NEW c \in WindowStates,
         Kept(a, b), Kept(b, c)
  PROVE  Kept(a, c)
BY DEF Kept, Improves, Admits, WindowStates

(* The candidates are windows of the index.                                *)
LEMMA CandidatesAreStarts ==
  ASSUME NEW found \in Starts \cup {None}
  PROVE  Candidates(found) \subseteq Starts
BY DEF Candidates, RadiusWindows

-----------------------------------------------------------------------------
LEMMA InitOK == Init => IInv
<1> SUFFICES ASSUME Init PROVE IInv
  OBVIOUS
<1>1. TypeOK
  <2>1. writes \in 0..MaxWrites /\ hours \subseteq HoursOfLookback(basis)
    BY SettingsAssumption DEF Init
  <2>2. symbols \in BOOLEAN /\ failed \in BOOLEAN
    BY Zenon DEF Init
  <2>3. QED
    BY <2>1, <2>2 DEF Init, TypeOK
<1>2. IndexGrew
  BY DEF Init, IndexGrew, Kept
<1>3. LatestKnown
  <2>1. \A w \in Starts : InLookback(basis, w) => HourOf(w) \in hours
    BY LookbackIsListed DEF Init
  <2>2. QED
    BY <2>1 DEF Init, LatestKnown
<1>4. Phases /\ WindowsRead /\ StatusIsEarned
  BY DEF Init, Phases, WindowsRead, StatusIsEarned
<1>5. QED
  BY <1>1, <1>2, <1>3, <1>4 DEF IInv

(* Listing an hour, the last or another: the latest window found is not    *)
(* before any window of the hours listed so far.                           *)
LEMMA ListHourOK ==
  ASSUME IInv, NEW h \in hours, ListHour(h)
  PROVE  IInv'
<1> USE DEF IInv
<1>1. /\ pc = "list" /\ answer = None /\ todo = {} /\ ~failed
      /\ hours' = hours \ {h}
      /\ UNCHANGED <<index, writes, basis, symbols, answer, failed, before>>
  BY DEF ListHour, Phases
<1> DEFINE seen == {w \in Listing(h) : InLookback(basis, w)} \cup ({latest} \ {None})
<1>2. PICK found \in Starts \cup {None} :
        /\ IF seen = {} THEN found = None ELSE found \in seen /\ \A w \in seen : w <= found
        /\ latest' = found
        /\ IF hours' = {} THEN StartsReading(found) ELSE UNCHANGED <<pc, todo>>
  BY DEF ListHour
<1>3. pc' \in {"list", "read"} /\ todo' \subseteq Candidates(found)
      /\ (pc' = "read" => todo' = Candidates(found) /\ hours' = {})
      /\ (pc' = "list" => todo' = {})
  BY <1>1, <1>2 DEF StartsReading
<1>4. Candidates(latest)' = Candidates(found)
  BY <1>1, <1>2 DEF Candidates, RadiusWindows
<1>5. TypeOK'
  <2>1. todo' \subseteq Starts
    BY <1>3, CandidatesAreStarts
  <2>2. QED
    BY <1>1, <1>2, <1>3, <2>1 DEF TypeOK, HoursOfLookback, Earliest, HourOf
<1>6. IndexGrew'
  BY <1>1 DEF IndexGrew
<1>7. LatestKnown'
  <2>1. found # None => InLookback(basis, found) /\ Indexed(found)
    BY <1>2 DEF Listing, LatestKnown
  <2>2. ASSUME NEW w \in Starts, before[w] # "absent", InLookback(basis, w), HourOf(w) \notin hours'
        PROVE  found # None /\ w <= found
    <3>1. CASE HourOf(w) = h
      <4>1. Indexed(w)
        BY <2>2, KeptFacts DEF IndexGrew, Indexed, TypeOK
      <4>2. w \in seen
        BY <2>2, <3>1, <4>1, ListingIsComplete
      <4>3. QED
        BY <1>2, <4>2, StartsAssumption DEF Listing, TypeOK
    <3>2. CASE HourOf(w) # h
      <4>1. latest # None /\ w <= latest
        BY <1>1, <2>2, <3>2 DEF LatestKnown
      <4>2. latest \in seen /\ found \in seen /\ latest <= found
        BY <1>2, <4>1
      <4>3. w \in Nat /\ latest \in Nat /\ found \in Nat /\ None \notin Nat
        BY <1>2, <4>1, <4>2, StartsAssumption DEF TypeOK, Listing
      <4>4. QED
        BY <4>1, <4>2, <4>3
    <3>3. QED
      BY <3>1, <3>2
  <2>3. QED
    BY <1>1, <1>2, <2>1, <2>2 DEF LatestKnown, InLookback, Earliest, Indexed, HourOf
<1>8. Phases'
  BY <1>1, <1>3, <1>4 DEF Phases
<1>9. WindowsRead'
  BY <1>1, <1>3, <1>4 DEF WindowsRead
<1>10. StatusIsEarned'
  BY <1>1 DEF StatusIsEarned
<1>11. QED
  BY <1>5, <1>6, <1>7, <1>8, <1>9, <1>10

LEMMA ListFailsOK == ASSUME IInv, ListFails PROVE IInv'
<1> USE DEF IInv
<1>1. /\ pc = "list" /\ answer = None /\ pc' = "read" /\ hours' = {} /\ latest' = None
      /\ failed' = TRUE /\ todo' = Candidates(None)
      /\ UNCHANGED <<index, writes, basis, symbols, answer, before>>
  BY DEF ListFails, StartsReading, Phases
<1>2. Candidates(latest)' = Candidates(None)
  BY <1>1 DEF Candidates, RadiusWindows
<1>3. TypeOK'
  BY <1>1, CandidatesAreStarts DEF TypeOK
<1>4. IndexGrew' /\ LatestKnown'
  BY <1>1 DEF IndexGrew, LatestKnown
<1>5. Phases' /\ WindowsRead' /\ StatusIsEarned'
  BY <1>1, <1>2 DEF Phases, WindowsRead, StatusIsEarned
<1>6. QED
  BY <1>3, <1>4, <1>5

-----------------------------------------------------------------------------
(* What a window adds to the answer.                                       *)
LEMMA MergedOK ==
  ASSUME TypeOK, StatusIsEarned, NEW w \in Starts, answer' = Merged(w), UNCHANGED <<basis, symbols>>
  PROVE  /\ answer' \in MarketContexts /\ answer' # None
         /\ answer'.read = (IF answer = None THEN {} ELSE answer.read) \cup {w}
         /\ answer # None => answer.summaries \subseteq answer'.summaries
         /\ symbols /\ index[w] = "symbol" => w \in answer'.summaries
         /\ StatusIsEarned'
<1> DEFINE new == IF symbols /\ index[w] = "symbol" THEN {w} ELSE {}
<1>1. StatusOf(w) \in Statuses /\ new \subseteq Starts
  BY DEF StatusOf, Statuses
<1>2. None \notin MarketContexts
  BY NoneAssumption
<1>3. /\ w \in Int /\ basis \in Int /\ StaleAfter \in Int
      /\ Starts \subseteq Int
  BY StartsAssumption, SettingsAssumption DEF TypeOK
<1>4. CASE answer = None
  <2>1. answer' = [status |-> StatusOf(w), window |-> w, read |-> {w}, summaries |-> new]
    BY <1>4 DEF Merged
  <2>2. /\ answer'.status = StatusOf(w) /\ answer'.window = w
        /\ answer'.read = {w} /\ answer'.summaries = new /\ answer' \in MarketContexts
    BY <1>1, <2>1 DEF MarketContexts
  <2>3. StatusIsEarned'
    BY <1>3, <2>2 DEF StatusIsEarned, StatusOf
  <2>4. QED
    BY <1>2, <1>4, <2>2, <2>3
<1>5. CASE answer # None
  <2>1. answer' = [status |-> MergeStatus(answer.status, StatusOf(w)), window |-> answer.window,
                   read |-> answer.read \cup {w}, summaries |-> answer.summaries \cup new]
    BY <1>5 DEF Merged
  <2>2. answer \in MarketContexts /\ MergeStatus(answer.status, StatusOf(w)) \in Statuses
    BY <1>5 DEF TypeOK, MergeStatus, Statuses
  <2>3. /\ answer'.status = MergeStatus(answer.status, StatusOf(w))
        /\ answer'.read = answer.read \cup {w}
        /\ answer'.summaries = answer.summaries \cup new
        /\ answer' \in MarketContexts
    BY <1>1, <2>1, <2>2 DEF MarketContexts
  <2>4. StatusIsEarned'
    <3>1. /\ answer.summaries \subseteq Int /\ answer.summaries \subseteq Starts
          /\ answer.status = IF answer.summaries = {} THEN "available_general_context"
              ELSE IF basis \in answer.summaries THEN "available_symbol_context"
              ELSE IF \E v \in answer.summaries : basis - v <= StaleAfter THEN "nearest_available"
              ELSE "stale_but_usable"
      BY <1>3, <1>5, <2>2 DEF StatusIsEarned, MarketContexts
    <3>2. CASE new = {}
      BY <2>3, <3>1, <3>2 DEF StatusIsEarned, StatusOf, MergeStatus
    <3>3. CASE new = {w}
      <4> DEFINE all == answer.summaries \cup {w}
      <4>1. symbols /\ index[w] = "symbol" /\ all # {} /\ answer'.summaries = all
        BY <2>3, <3>3
      <4>2. CASE w = basis
        <5>1. StatusOf(w) = "available_symbol_context" /\ basis \in all
          BY <4>1, <4>2 DEF StatusOf
        <5>2. QED
          BY <2>3, <4>1, <5>1 DEF StatusIsEarned, MergeStatus
      <4>3. CASE w # basis /\ basis - w <= StaleAfter
        <5>1. StatusOf(w) = "nearest_available"
          BY <1>3, <4>1, <4>3 DEF StatusOf
        <5>2. /\ \E v \in all : basis - v <= StaleAfter
              /\ basis \in all <=> basis \in answer.summaries
          BY <4>3
        <5>3. QED
          BY <2>3, <3>1, <4>1, <5>1, <5>2 DEF StatusIsEarned, MergeStatus
      <4>4. CASE w # basis /\ ~(basis - w <= StaleAfter)
        <5>1. StatusOf(w) = "stale_but_usable"
          BY <1>3, <4>1, <4>4 DEF StatusOf
        <5>2. /\ basis \in all <=> basis \in answer.summaries
              /\ (\E v \in all : basis - v <= StaleAfter)
                   <=> (\E v \in answer.summaries : basis - v <= StaleAfter)
          BY <4>4
        <5>3. QED
          BY <2>3, <3>1, <4>1, <5>1, <5>2 DEF StatusIsEarned, MergeStatus
      <4>5. QED
        BY <4>2, <4>3, <4>4
    <3>4. QED
      BY <3>2, <3>3
  <2>5. QED
    BY <1>2, <1>5, <2>3, <2>4
<1>6. QED
  BY <1>4, <1>5

(* Reading a candidate: it joins the answer if it is admitted, and it is,  *)
(* if it could be used when the lookup began.                              *)
LEMMA ReadWindowOK ==
  ASSUME IInv, NEW w \in todo, ReadWindow(w)
  PROVE  IInv'
<1> USE DEF IInv
<1>1. /\ pc = "read" /\ todo' = todo \ {w}
      /\ IF Admits(index[w]) THEN answer' = Merged(w) ELSE answer' = answer
      /\ UNCHANGED <<index, writes, basis, symbols, pc, hours, latest, failed, before>>
  BY DEF ReadWindow
<1>2. w \in Starts /\ w \in Candidates(latest) /\ todo \subseteq Candidates(latest)
  BY <1>1 DEF Phases, TypeOK
<1>3. Candidates(latest)' = Candidates(latest)
  BY <1>1 DEF Candidates, RadiusWindows
<1>4. Admits(index[w]) =>
        /\ answer' \in MarketContexts /\ answer' # None
        /\ answer'.read = (IF answer = None THEN {} ELSE answer.read) \cup {w}
        /\ answer # None => answer.summaries \subseteq answer'.summaries
        /\ symbols /\ index[w] = "symbol" => w \in answer'.summaries
        /\ StatusIsEarned'
  BY <1>1, <1>2, MergedOK
<1>5. StatusIsEarned'
  BY <1>1, <1>4 DEF StatusIsEarned
<1>6. TypeOK'
  BY <1>1, <1>4 DEF TypeOK, HoursOfLookback, Earliest, HourOf
<1>7. IndexGrew' /\ LatestKnown'
  BY <1>1 DEF IndexGrew, LatestKnown, InLookback, Earliest, Indexed, HourOf
<1>8. Phases'
  BY <1>1, <1>3 DEF Phases
<1>9. WindowsRead'
  <2>1. answer' # None => answer'.read \subseteq Candidates(latest)
    BY <1>1, <1>2, <1>4 DEF WindowsRead
  <2>2. ASSUME ~failed, NEW v \in Candidates(latest) \ todo', Admits(before[v])
        PROVE  /\ answer' # None
               /\ symbols /\ before[v] = "symbol" => v \in answer'.summaries
    <3>1. CASE v = w
      <4>1. Admits(index[w]) /\ (before[w] = "symbol" => index[w] = "symbol")
        BY <1>2, <2>2, <3>1, KeptFacts DEF IndexGrew, TypeOK
      <4>2. QED
        BY <1>4, <3>1, <4>1
    <3>2. CASE v # w
      <4>1. /\ answer # None
            /\ symbols /\ before[v] = "symbol" => v \in answer.summaries
        BY <1>1, <2>2, <3>2 DEF WindowsRead
      <4>2. QED
        BY <1>1, <1>4, <4>1
    <3>3. QED
      BY <3>1, <3>2
  <2>3. QED
    BY <1>1, <1>3, <2>1, <2>2 DEF WindowsRead
<1>10. QED
  BY <1>5, <1>6, <1>7, <1>8, <1>9

LEMMA ReadFailsOK ==
  ASSUME IInv, NEW w \in todo, ReadFails(w)
  PROVE  IInv'
<1> USE DEF IInv
<1>1. /\ pc = "read" /\ todo' = todo \ {w} /\ failed' = TRUE
      /\ UNCHANGED <<index, writes, basis, symbols, pc, hours, latest, answer, before>>
  BY DEF ReadFails
<1>2. Candidates(latest)' = Candidates(latest)
  BY <1>1 DEF Candidates, RadiusWindows
<1>3. TypeOK'
  BY <1>1 DEF TypeOK, HoursOfLookback, Earliest, HourOf
<1>4. IndexGrew' /\ LatestKnown' /\ StatusIsEarned'
  BY <1>1 DEF IndexGrew, LatestKnown, StatusIsEarned, InLookback, Earliest, Indexed, HourOf
<1>5. Phases' /\ WindowsRead'
  BY <1>1, <1>2 DEF Phases, WindowsRead
<1>6. QED
  BY <1>3, <1>4, <1>5

LEMMA AnswerOK == ASSUME IInv, Answer PROVE IInv'
<1> USE DEF IInv
<1>1. /\ pc = "read" /\ todo = {} /\ pc' = "done"
      /\ UNCHANGED <<index, writes, basis, symbols, hours, latest, todo, answer, failed, before>>
  BY DEF Answer
<1>2. Candidates(latest)' = Candidates(latest)
  BY <1>1 DEF Candidates, RadiusWindows
<1>3. TypeOK'
  BY <1>1 DEF TypeOK, HoursOfLookback, Earliest, HourOf
<1>4. IndexGrew' /\ LatestKnown' /\ StatusIsEarned'
  BY <1>1 DEF IndexGrew, LatestKnown, StatusIsEarned, InLookback, Earliest, Indexed, HourOf
<1>5. Phases' /\ WindowsRead'
  BY <1>1, <1>2 DEF Phases, WindowsRead
<1>6. QED
  BY <1>3, <1>4, <1>5

(* Market-L1 only adds to what the lookup may find.                        *)
LEMMA IndexWindowOK ==
  ASSUME IInv, NEW w \in Starts, NEW state \in WindowStates, IndexWindow(w, state)
  PROVE  IInv'
<1> USE DEF IInv
<1>1. /\ writes < MaxWrites /\ Improves(index[w], state)
      /\ index' = [index EXCEPT ![w] = state] /\ writes' = writes + 1
      /\ UNCHANGED <<basis, symbols, pc, hours, latest, todo, answer, failed, before>>
  BY DEF IndexWindow, lookupVars
<1>2. \A v \in Starts : index'[v] \in WindowStates /\ Kept(index[v], index'[v])
  BY <1>1 DEF TypeOK, Kept
<1>3. Candidates(latest)' = Candidates(latest)
  BY <1>1 DEF Candidates, RadiusWindows
<1>4. TypeOK'
  <2>1. writes' \in 0..MaxWrites /\ index' \in [Starts -> WindowStates]
    BY <1>1, SettingsAssumption DEF TypeOK
  <2>2. QED
    BY <1>1, <2>1 DEF TypeOK, HoursOfLookback, Earliest, HourOf
<1>5. IndexGrew'
  <2>1. ASSUME NEW v \in Starts PROVE Kept(before[v], index'[v])
    BY <1>2, KeptTransitive DEF IndexGrew, TypeOK
  <2>2. QED
    BY <1>1, <2>1 DEF IndexGrew
<1>6. LatestKnown'
  <2>1. latest # None => Indexed(latest)'
    BY <1>1, <1>2, KeptFacts DEF LatestKnown, Indexed, TypeOK
  <2>2. QED
    BY <1>1, <2>1 DEF LatestKnown, InLookback, Earliest, HourOf
<1>7. Phases' /\ WindowsRead' /\ StatusIsEarned'
  BY <1>1, <1>3 DEF Phases, WindowsRead, StatusIsEarned
<1>8. QED
  BY <1>4, <1>5, <1>6, <1>7

LEMMA StutterOK == ASSUME IInv, UNCHANGED vars PROVE IInv'
<1> USE DEF IInv
<1>1. UNCHANGED <<index, writes, basis, symbols, pc, hours, latest, todo, answer, failed, before>>
  BY DEF vars, lookupVars
<1>2. Candidates(latest)' = Candidates(latest)
  BY <1>1 DEF Candidates, RadiusWindows
<1>3. TypeOK'
  BY <1>1 DEF TypeOK, HoursOfLookback, Earliest, HourOf
<1>4. IndexGrew' /\ LatestKnown' /\ StatusIsEarned'
  BY <1>1 DEF IndexGrew, LatestKnown, StatusIsEarned, InLookback, Earliest, Indexed, HourOf
<1>5. Phases' /\ WindowsRead'
  BY <1>1, <1>2 DEF Phases, WindowsRead
<1>6. QED
  BY <1>3, <1>4, <1>5

LEMMA NextOK == IInv /\ [Next]_vars => IInv'
<1> SUFFICES ASSUME IInv, [Next]_vars PROVE IInv'
  OBVIOUS
<1>1. ASSUME NEW h \in hours, ListHour(h) PROVE IInv'
  BY <1>1, ListHourOK
<1>2. CASE ListFails
  BY <1>2, ListFailsOK
<1>3. ASSUME NEW w \in todo, ReadWindow(w) PROVE IInv'
  BY <1>3, ReadWindowOK
<1>4. ASSUME NEW w \in todo, ReadFails(w) PROVE IInv'
  BY <1>4, ReadFailsOK
<1>5. CASE Answer
  BY <1>5, AnswerOK
<1>6. ASSUME NEW w \in Starts, NEW state \in WindowStates, IndexWindow(w, state) PROVE IInv'
  BY <1>6, IndexWindowOK
<1>7. CASE UNCHANGED vars
  BY <1>7, StutterOK
<1>8. QED
  BY <1>1, <1>2, <1>3, <1>4, <1>5, <1>6, <1>7 DEF Next

-----------------------------------------------------------------------------
(* The inductive invariant holds in every reachable state.                 *)
THEOREM InvariantHolds == Spec => []IInv
BY InitOK, NextOK, PTL DEF Spec

(* Every variable of the lookup keeps its type.                            *)
THEOREM TypeCorrect == Spec => []TypeOK
<1>1. IInv => TypeOK
  BY DEF IInv
<1>2. QED
  BY <1>1, InvariantHolds, PTL

(* The status of a context is that of the best window in it, in whatever   *)
(* order and from whatever windows it was merged.                          *)
THEOREM StatusIsEarnedAlways == Spec => []StatusIsEarned
<1>1. IInv => StatusIsEarned
  BY DEF IInv
<1>2. QED
  BY <1>1, InvariantHolds, PTL

(* The lookback never jumps over a fresher window that was indexed when    *)
(* the lookup began, although calls fail and the index changes meanwhile.  *)
THEOREM NoFresherWindowAlways == Spec => []NoFresherWindow
<1>1. IInv => NoFresherWindow
  <2> SUFFICES ASSUME IInv, answer # None,
                      NEW w \in answer.read \ RadiusWindows(basis),
                      NEW v \in Starts, w < v, v <= basis, before[v] # "absent"
               PROVE  FALSE
    BY DEF NoFresherWindow
  <2>1. w = latest /\ latest # None /\ hours = {}
    BY DEF IInv, WindowsRead, Phases, Candidates, TypeOK
  <2>2. InLookback(basis, latest) /\ latest \in Nat /\ v \in Nat /\ basis \in Nat
    BY <2>1, StartsAssumption DEF IInv, LatestKnown, TypeOK
  <2>3. InLookback(basis, v)
    BY <2>1, <2>2, SettingsAssumption DEF InLookback, Earliest
  <2>4. v <= latest
    BY <2>1, <2>3 DEF IInv, LatestKnown
  <2>5. QED
    BY <2>1, <2>2, <2>4
<1>2. QED
  BY <1>1, InvariantHolds, PTL

(* A lookup without failed calls is pending only if there was nothing to   *)
(* use around the event, and a refused window hides what is further back.  *)
THEOREM PendingIsJustifiedAlways == Spec => []PendingIsJustified
<1>1. IInv => PendingIsJustified
  <2> SUFFICES ASSUME IInv, pc = "done", answer = None, ~failed
               PROVE  /\ \A w \in RadiusWindows(basis) : ~Admits(before[w])
                      /\ \A w \in Starts :
                           InLookback(basis, w) /\ Admits(before[w]) =>
                             \E v \in Starts : w < v /\ v <= basis /\ Indexed(v)
    BY DEF PendingIsJustified
  <2>1. hours = {} /\ \A w \in Candidates(latest) : ~Admits(before[w])
    BY DEF IInv, Phases, WindowsRead
  <2>2. ASSUME NEW w \in Starts, InLookback(basis, w), Admits(before[w])
        PROVE  \E v \in Starts : w < v /\ v <= basis /\ Indexed(v)
    <3>1. before[w] # "absent"
      BY <2>2 DEF Admits
    <3>2. /\ latest # None /\ w <= latest /\ latest \in Starts
          /\ InLookback(basis, latest) /\ Indexed(latest)
      BY <2>1, <2>2, <3>1 DEF IInv, LatestKnown, TypeOK
    <3>3. latest \in Candidates(latest)
      BY <3>2 DEF Candidates
    <3>4. w # latest
      BY <2>1, <2>2, <3>3
    <3>5. w \in Nat /\ latest \in Nat /\ latest <= basis
      BY <2>2, <3>2, StartsAssumption DEF InLookback
    <3>6. QED
      BY <3>2, <3>4, <3>5
  <2>3. QED
    BY <2>1, <2>2 DEF Candidates
<1>2. QED
  BY <1>1, InvariantHolds, PTL

(* Without failed calls, symbols in the event's own window are never       *)
(* traded for a neighbouring, a stale or a general context.                *)
THEOREM ExactWindowWinsAlways == Spec => []ExactWindowWins
<1>1. IInv => ExactWindowWins
  <2> SUFFICES ASSUME IInv, pc = "done", ~failed, symbols, basis \in Starts,
                      before[basis] = "symbol"
               PROVE  answer # None /\ answer.status = "available_symbol_context"
    BY DEF ExactWindowWins
  <2>1. basis \in Candidates(latest)
    <3>1. 0 \in -Radius..Radius /\ basis = basis + 0 * Window
      BY StartsAssumption, SettingsAssumption
    <3>2. QED
      BY <3>1 DEF Candidates, RadiusWindows
  <2>2. answer # None /\ basis \in answer.summaries
    BY <2>1 DEF IInv, Phases, WindowsRead, Admits
  <2>3. QED
    BY <2>2 DEF IInv, StatusIsEarned
<1>2. QED
  BY <1>1, InvariantHolds, PTL

-----------------------------------------------------------------------------
(***************************************************************************)
(* A lookup ends                                                           *)
(***************************************************************************)

(* How many calls of the lookup are left at most, its answer included:     *)
(* one per hour to be listed, one per window to be read.                   *)
LookupLeft ==
  CASE pc = "list" -> Cardinality(hours) + 2 * Radius + 3
    [] pc = "read" -> Cardinality(todo) + 1
    [] pc = "done" -> 0

(* The hours are finitely many, one of them is left while the reader lists *)
(* them, and the candidates are the windows of the radius and one more.    *)
ReadsAreFinite ==
  /\ IsFiniteSet(hours) /\ Cardinality(hours) <= Cardinality(HoursOfLookback(basis))
  /\ IsFiniteSet(todo) /\ Cardinality(todo) <= 2 * Radius + 2
  /\ pc = "list" => hours # {}

LookupIsBounded ==
  LookupLeft \in 0..(Cardinality(HoursOfLookback(basis)) + 2 * Radius + 3)

(* A call of the lookup, failed or not, brings it nearer to its answer;    *)
(* Market-L1 does not change what is left.                                 *)
LookupAdvances ==
  /\ lookupVars' # lookupVars => LookupLeft' < LookupLeft
  /\ index' # index => LookupLeft' = LookupLeft

LEMMA CandidatesAreFew ==
  ASSUME NEW found
  PROVE  IsFiniteSet(Candidates(found)) /\ Cardinality(Candidates(found)) <= 2 * Radius + 2
<1>. DEFINE offsets == -Radius..Radius
            slot == [k \in offsets |-> basis + k * Window]
            slots == {slot[k] : k \in offsets}
<1>1. IsFiniteSet(offsets) /\ Cardinality(offsets) = 2 * Radius + 1
  BY SettingsAssumption, FS_Interval
<1>2. slot \in Surjection(offsets, slots)
  BY DEF Surjection
<1>3. Candidates(found) \subseteq slots \cup {found}
  BY DEF Candidates, RadiusWindows
<1>. HIDE DEF slots, slot, offsets
<1>4. IsFiniteSet(slots) /\ Cardinality(slots) <= 2 * Radius + 1
  BY <1>1, <1>2, FS_Surjection
<1>5. /\ IsFiniteSet(slots \cup {found})
      /\ Cardinality(slots \cup {found}) <= Cardinality(slots) + 1
  <2>1. /\ IsFiniteSet(slots \cup {found})
        /\ Cardinality(slots \cup {found}) \in {Cardinality(slots), Cardinality(slots) + 1}
    BY <1>4, FS_AddElement
  <2>2. Cardinality(slots) \in Nat
    BY <1>4, FS_CardinalityType
  <2>. QED
    BY <2>1, <2>2
<1>6. /\ IsFiniteSet(Candidates(found))
      /\ Cardinality(Candidates(found)) <= Cardinality(slots \cup {found})
  BY <1>3, <1>5, FS_Subset
<1>7. /\ Cardinality(slots) \in Nat /\ Cardinality(slots \cup {found}) \in Nat
      /\ Cardinality(Candidates(found)) \in Nat /\ Radius \in Nat
  BY <1>4, <1>5, <1>6, FS_CardinalityType, SettingsAssumption
<1>. QED
  BY <1>4, <1>5, <1>6, <1>7

LEMMA HoursAreFinite ==
  ASSUME NEW b \in Bases
  PROVE  IsFiniteSet(HoursOfLookback(b)) /\ HoursOfLookback(b) # {}
<1>1. b \in Int /\ Earliest(b) \in Int /\ Earliest(b) <= b
  BY StartsAssumption, SettingsAssumption DEF Earliest
<1>2. /\ HourOf(Earliest(b)) \in Int /\ HourOf(b) \in Int
      /\ HourOf(Earliest(b)) <= HourOf(b)
  BY <1>1, HoursGrow
<1>. QED
  BY <1>2, FS_Interval DEF HoursOfLookback

(* One call less, in the phase of listing or of reading.                   *)
LEMMA OneLess ==
  ASSUME ReadsAreFinite
  PROVE  /\ \A h \in hours : /\ IsFiniteSet(hours \ {h})
                             /\ Cardinality(hours \ {h}) = Cardinality(hours) - 1
         /\ \A w \in todo : /\ IsFiniteSet(todo \ {w})
                            /\ Cardinality(todo \ {w}) = Cardinality(todo) - 1
         /\ Cardinality(hours) \in Nat /\ Cardinality(todo) \in Nat
<1>1. IsFiniteSet(hours) /\ IsFiniteSet(todo)
  BY DEF ReadsAreFinite
<1>2. ASSUME NEW h \in hours
      PROVE  IsFiniteSet(hours \ {h}) /\ Cardinality(hours \ {h}) = Cardinality(hours) - 1
  BY <1>1, FS_RemoveElement
<1>3. ASSUME NEW w \in todo
      PROVE  IsFiniteSet(todo \ {w}) /\ Cardinality(todo \ {w}) = Cardinality(todo) - 1
  BY <1>1, FS_RemoveElement
<1>. QED
  BY <1>1, <1>2, <1>3, FS_CardinalityType

LEMMA LookupStep ==
  ASSUME TypeOK, ReadsAreFinite, [Next]_vars
  PROVE  ReadsAreFinite' /\ LookupAdvances
<1>. DEFINE H == Cardinality(HoursOfLookback(basis))
            Fewer == /\ IsFiniteSet(hours') /\ Cardinality(hours') <= Cardinality(hours)
                     /\ IsFiniteSet(todo') /\ Cardinality(todo') <= 2 * Radius + 2
                     /\ pc' = "list" => hours' # {}
                     /\ basis' = basis /\ index' = index
                     /\ LookupLeft' < LookupLeft
<1>1. H \in Nat /\ Radius \in Nat
  <2>1. basis \in Bases
    BY DEF TypeOK
  <2>. QED
    BY <2>1, HoursAreFinite, FS_CardinalityType, SettingsAssumption
<1>2. Fewer => ReadsAreFinite' /\ LookupAdvances
  <2>. SUFFICES ASSUME Fewer PROVE ReadsAreFinite' /\ LookupAdvances
    OBVIOUS
  <2>1. HoursOfLookback(basis)' = HoursOfLookback(basis)
    BY DEF HoursOfLookback, Earliest, HourOf
  <2>2. Cardinality(hours') \in Nat /\ Cardinality(hours) \in Nat
    BY OneLess, FS_CardinalityType
  <2>. QED
    BY <1>1, <2>1, <2>2 DEF ReadsAreFinite, LookupAdvances
<1>3. ASSUME NEW h \in hours, ListHour(h) PROVE Fewer
  <2>1. /\ pc = "list" /\ hours' = hours \ {h} /\ basis' = basis /\ index' = index
        /\ \/ pc' = "read" /\ \E found : todo' = Candidates(found)
           \/ pc' = "list" /\ todo' = todo /\ hours' # {}
    BY <1>3 DEF ListHour, StartsReading
  <2>2. IsFiniteSet(hours') /\ Cardinality(hours') = Cardinality(hours) - 1
    BY <2>1, OneLess
  <2>3. IsFiniteSet(todo') /\ Cardinality(todo') <= 2 * Radius + 2
    BY <2>1, CandidatesAreFew DEF ReadsAreFinite
  <2>4. Cardinality(hours) \in Nat /\ Cardinality(todo') \in Nat /\ Cardinality(hours') \in Nat
    BY <2>2, <2>3, OneLess, FS_CardinalityType
  <2>5. LookupLeft = Cardinality(hours) + 2 * Radius + 3 /\ Cardinality(hours) >= 1
    BY <2>1, <2>2, <2>4, FS_CardinalityType DEF LookupLeft
  <2>6. LookupLeft' \in {Cardinality(todo') + 1, Cardinality(hours') + 2 * Radius + 3}
    BY <2>1 DEF LookupLeft
  <2>. QED
    BY <1>1, <2>1, <2>2, <2>3, <2>4, <2>5, <2>6
<1>4. ASSUME ListFails PROVE Fewer
  <2>1. /\ pc = "list" /\ pc' = "read" /\ hours' = {} /\ basis' = basis /\ index' = index
        /\ todo' = Candidates(None)
    BY <1>4 DEF ListFails, StartsReading
  <2>2. /\ IsFiniteSet(hours') /\ Cardinality(hours') = 0
        /\ IsFiniteSet(todo') /\ Cardinality(todo') <= 2 * Radius + 2
    BY <2>1, CandidatesAreFew, FS_EmptySet
  <2>3. Cardinality(hours) \in Nat \ {0} /\ Cardinality(todo') \in Nat
    <3>1. IsFiniteSet(hours) /\ hours # {}
      BY <2>1 DEF ReadsAreFinite
    <3>2. Cardinality(hours) # 0
      BY <3>1, FS_EmptySet
    <3>. QED
      BY <2>2, <3>2, OneLess, FS_CardinalityType
  <2>4. /\ LookupLeft = Cardinality(hours) + 2 * Radius + 3
        /\ LookupLeft' = Cardinality(todo') + 1
    BY <2>1 DEF LookupLeft
  <2>. QED
    BY <1>1, <2>1, <2>2, <2>3, <2>4
<1>5. ASSUME NEW w \in todo, ReadWindow(w) \/ ReadFails(w) PROVE Fewer
  <2>1. /\ pc = "read" /\ pc' = "read" /\ hours' = hours /\ basis' = basis /\ index' = index
        /\ todo' = todo \ {w}
    BY <1>5 DEF ReadWindow, ReadFails
  <2>2. IsFiniteSet(todo') /\ Cardinality(todo') = Cardinality(todo) - 1
    BY <2>1, OneLess
  <2>3. /\ Cardinality(hours) \in Nat /\ Cardinality(todo) \in Nat
        /\ IsFiniteSet(hours) /\ Cardinality(todo) <= 2 * Radius + 2
    BY OneLess DEF ReadsAreFinite
  <2>4. LookupLeft = Cardinality(todo) + 1 /\ LookupLeft' = Cardinality(todo') + 1
    BY <2>1 DEF LookupLeft
  <2>. QED
    BY <1>1, <2>1, <2>2, <2>3, <2>4
<1>6. ASSUME Answer PROVE Fewer
  <2>1. /\ pc = "read" /\ pc' = "done" /\ hours' = hours /\ todo' = todo
        /\ basis' = basis /\ index' = index
    BY <1>6 DEF Answer
  <2>2. /\ Cardinality(hours) \in Nat /\ Cardinality(todo) \in Nat
        /\ IsFiniteSet(hours) /\ IsFiniteSet(todo) /\ Cardinality(todo) <= 2 * Radius + 2
    BY OneLess DEF ReadsAreFinite
  <2>3. LookupLeft = Cardinality(todo) + 1 /\ LookupLeft' = 0
    BY <2>1 DEF LookupLeft
  <2>. QED
    BY <1>1, <2>1, <2>2, <2>3
<1>7. ASSUME UNCHANGED lookupVars PROVE ReadsAreFinite' /\ LookupAdvances
  <2>1. UNCHANGED <<basis, pc, hours, todo>>
    BY <1>7 DEF lookupVars
  <2>2. HoursOfLookback(basis)' = HoursOfLookback(basis)
    BY <2>1 DEF HoursOfLookback, Earliest, HourOf
  <2>3. LookupLeft' = LookupLeft
    BY <2>1 DEF LookupLeft
  <2>4. ReadsAreFinite'
    BY <2>1, <2>2 DEF ReadsAreFinite
  <2>. QED
    BY <1>7, <2>3, <2>4 DEF LookupAdvances
<1>8. UNCHANGED vars => UNCHANGED lookupVars
  BY DEF vars
<1>9. ASSUME NEW w \in Starts, NEW state \in WindowStates, IndexWindow(w, state)
      PROVE  UNCHANGED lookupVars
  BY <1>9 DEF IndexWindow
<1>. QED
  BY <1>2, <1>3, <1>4, <1>5, <1>6, <1>7, <1>8, <1>9 DEF Next

LEMMA ReadsAreFiniteAlways == Spec => []ReadsAreFinite
<1>1. Init => ReadsAreFinite
  <2>. SUFFICES ASSUME Init PROVE ReadsAreFinite
    OBVIOUS
  <2>1. basis \in Bases /\ hours = HoursOfLookback(basis) /\ todo = {}
    BY DEF Init
  <2>2. IsFiniteSet(hours) /\ Cardinality(hours) \in Nat
    BY <2>1, HoursAreFinite, FS_CardinalityType
  <2>3. IsFiniteSet(todo) /\ Cardinality(todo) = 0 /\ 0 <= 2 * Radius + 2
    BY <2>1, FS_EmptySet, SettingsAssumption
  <2>4. Cardinality(hours) <= Cardinality(HoursOfLookback(basis))
    BY <2>1, <2>2
  <2>5. hours # {}
    BY <2>1, HoursAreFinite
  <2>. QED
    BY <2>2, <2>3, <2>4, <2>5 DEF ReadsAreFinite
<1>2. TypeOK /\ ReadsAreFinite /\ [Next]_vars => ReadsAreFinite'
  BY LookupStep
<1>. QED
  BY <1>1, <1>2, TypeCorrect, PTL DEF Spec

(* A lookup makes at most one call per hour of the lookback and one per    *)
(* window of the radius and the latest one, whatever Market-L1 adds while  *)
(* it runs: the hours and candidates are fixed before they are read        *)
(* (latest_before_window_start, candidate_window_starts).                  *)
THEOREM LookupsAreBounded == Spec => []LookupIsBounded
<1>1. TypeOK /\ ReadsAreFinite => LookupIsBounded
  <2>. SUFFICES ASSUME TypeOK, ReadsAreFinite PROVE LookupIsBounded
    OBVIOUS
  <2>1. /\ Cardinality(HoursOfLookback(basis)) \in Nat /\ Radius \in Nat
        /\ pc \in {"list", "read", "done"}
    BY HoursAreFinite, FS_CardinalityType, SettingsAssumption DEF TypeOK
  <2>2. Cardinality(hours) \in Nat /\ Cardinality(todo) \in Nat
    BY OneLess
  <2>. QED
    BY <2>1, <2>2 DEF ReadsAreFinite, LookupIsBounded, LookupLeft
<1>. QED
  BY <1>1, ReadsAreFiniteAlways, TypeCorrect, PTL

(* Each call of a lookup, failed or not, brings its answer nearer, and no  *)
(* window that Market-L1 indexes meanwhile sets it back: a lookup neither  *)
(* waits nor retries (context_for swallows every error).                   *)
THEOREM LookupsAdvance == Spec => [][LookupAdvances]_vars
<1>1. TypeOK /\ ReadsAreFinite /\ [Next]_vars => LookupAdvances
  BY LookupStep
<1>. QED
  BY <1>1, ReadsAreFiniteAlways, TypeCorrect, PTL DEF Spec
=============================================================================
