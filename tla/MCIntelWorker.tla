---------------------------- MODULE MCIntelWorker ----------------------------
(* Instances of IntelWorker for TLC.                                       *)
EXTENDS IntelWorker, TLC

(* One event, one message: several workers on the same delivery.           *)
OneEvent == [m \in Messages |-> 1]

(* Each message points at the event of the same number.                    *)
OwnEvent == [m \in Messages |-> m]

CONSTANTS claim1, claim2, ctx1, ctx2, storyA, storyB

(* All claims of all events belong to one story.                           *)
OneStory == [e \in Events |-> [c \in Claims |-> storyA]]

(* The claim decides the story.                                            *)
StoryByClaim == [e \in Events |-> [c \in Claims |-> IF c = claim1 THEN storyA ELSE storyB]]

(* The messages numbered as an event point at it, the others do not parse. *)
SomeUnparsable == [m \in Messages |-> IF m \in Events THEN m ELSE Unknown]

WorkerSymmetry == Permutations(Workers)
=============================================================================
