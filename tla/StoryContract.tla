---------------------------- MODULE StoryContract ----------------------------
(***************************************************************************)
(* What a consumer of the output stream may rely on when it puts together  *)
(* what it is told of one event: structured packet, context flag and       *)
(* health event, each announced and stored on its own, by attempts that    *)
(* may have decided differently.                                           *)
(*                                                                         *)
(*   - once an event is announced, the three are one report that never     *)
(*     changes: there is a flag exactly if the claim of the packet calls   *)
(*     for one, and a claim in severe conflict with itself is reported as  *)
(*     a severe conflict;                                                  *)
(*   - of the events whose ids share a path segment one is reported;       *)
(*   - an event is complete only after it has been reported.               *)
(*                                                                         *)
(* StoryMerge implements this specification.                               *)
(***************************************************************************)

CONSTANTS
  Events,     \* raw events
  Segments,   \* [Events -> path segments]
  Claims,     \* [Events -> sets of claims]
  Flagged,    \* the claims that call for a context flag
  Grave       \* the claims in severe conflict with themselves

VARIABLES
  reports,    \* [Events -> sets of reports]: what consumers are told of an event
  complete    \* events with a success index

vars == <<reports, complete>>

Init ==
  /\ reports = [e \in Events |-> {}]
  /\ complete = {}

Announce(e, claim, severe) ==
  /\ \A f \in Events : Segments[f] = Segments[e] => reports[f] = {}
  /\ claim \in Grave => severe
  /\ reports' = [reports EXCEPT ![e] =
                   {[claim |-> claim, flagged |-> claim \in Flagged, severe |-> severe]}]
  /\ UNCHANGED complete

Complete(e) ==
  /\ reports[e] # {}
  /\ complete' = complete \cup {e}
  /\ UNCHANGED reports

Next ==
  \E e \in Events :
    \/ \E claim \in Claims[e], severe \in BOOLEAN : Announce(e, claim, severe)
    \/ Complete(e)

Spec == Init /\ [][Next]_vars
=============================================================================
