---------------------------- MODULE IntelContract ----------------------------
(***************************************************************************)
(* What the INTEL-L1 worker promises to the two sides it connects, with    *)
(* every storage and messaging step left out:                              *)
(*                                                                         *)
(*   - downstream, an event has at most one structured pointer, which      *)
(*     never changes once a consumer can see it;                           *)
(*   - an event is complete (its success index exists) only after its      *)
(*     pointer has been announced, and stays complete;                     *)
(*   - upstream, a RAW_INTEL message is acknowledged only when its event   *)
(*     is complete or has a quarantine record; a message that JetStream    *)
(*     has stopped delivering is lost.                                     *)
(*                                                                         *)
(* The quarantine record is what the code promises.  ENTERPRISE_DOD.md,    *)
(* README.md and raw_ack_rule of nats.asyncapi.json promise more, an ack   *)
(* after the complete success path only, and the code does not keep that.  *)
(*                                                                         *)
(* IntelWorker implements this specification.                              *)
(***************************************************************************)

CONSTANTS
  Messages,   \* RAW_INTEL messages
  Events,     \* raw events the messages point at
  Unknown,    \* stands for the event of a message that cannot be parsed
  EventOf,    \* the event a message points at, or Unknown
  Pointers,   \* payloads a structured pointer may carry
  None        \* no pointer yet

VARIABLES
  pointer,    \* [Events -> Pointers \cup {None}]: what consumers have received
  complete,   \* the events whose success index exists
  refused,    \* the events (or Unknown) with a quarantine record
  verdict     \* [Messages -> {"open", "acked", "lost"}]

vars == <<pointer, complete, refused, verdict>>

Init ==
  /\ pointer = [e \in Events |-> None]
  /\ complete = {}
  /\ refused = {}
  /\ verdict = [m \in Messages |-> "open"]

(* The first structured pointer of an event reaches the output stream.     *)
Announce(e, p) ==
  /\ pointer[e] = None
  /\ pointer' = [pointer EXCEPT ![e] = p]
  /\ UNCHANGED <<complete, refused, verdict>>

(* The success index of an event is written, after its pointer.            *)
Complete(e) ==
  /\ pointer[e] # None
  /\ complete' = complete \cup {e}
  /\ UNCHANGED <<pointer, refused, verdict>>

(* A quarantine record is written.                                         *)
Refuse(s) ==
  /\ refused' = refused \cup {s}
  /\ UNCHANGED <<pointer, complete, verdict>>

(* The code's condition, a refused event included; the documents allow     *)
(* complete events only.                                                   *)
Ack(m) ==
  /\ EventOf[m] \in complete \cup refused
  /\ verdict[m] = "open"
  /\ verdict' = [verdict EXCEPT ![m] = "acked"]
  /\ UNCHANGED <<pointer, complete, refused>>

(* The last allowed delivery of a message went unanswered.                 *)
Lose(m) ==
  /\ verdict[m] = "open"
  /\ verdict' = [verdict EXCEPT ![m] = "lost"]
  /\ UNCHANGED <<pointer, complete, refused>>

Next ==
  \/ \E e \in Events, p \in Pointers : Announce(e, p)
  \/ \E e \in Events : Complete(e)
  \/ \E s \in Events \cup {Unknown} : Refuse(s)
  \/ \E m \in Messages : Ack(m) \/ Lose(m)

Spec == Init /\ [][Next]_vars
=============================================================================
