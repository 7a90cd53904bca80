---------------------------- MODULE MarketContext ----------------------------
(***************************************************************************)
(* What the workers and the rehydrator together promise of the market      *)
(* context of a structured packet, with every pass, write and message left *)
(* out:                                                                    *)
(*                                                                         *)
(*   - a packet has one first context, which never changes;                *)
(*   - a pending one gets one final context, which never changes either,   *)
(*     not before its retry time, and "unavailable" not before it expires; *)
(*   - consumers are told of a revision only when it has its context.      *)
(*                                                                         *)
(* Rehydration implements this specification.                              *)
(***************************************************************************)
EXTENDS Naturals

CONSTANTS
  Families,     \* packet families: raw events
  Available,    \* contexts with a market snapshot
  Pending,      \* the context of a packet without one
  Unavailable,  \* the context of a packet that will never have one
  RetryAfter,   \* [Families -> Nat]
  ExpireAt,     \* [Families -> Nat]
  None          \* no packet

VARIABLES
  first,        \* [Families -> Available \cup {Pending, None}]
  final,        \* [Families -> Available \cup {Unavailable, None}]
  told,         \* set of <<family, revision>>
  clock

vars == <<first, final, told, clock>>

Init ==
  /\ first = [f \in Families |-> None]
  /\ final = [f \in Families |-> None]
  /\ told = {}
  /\ clock = 0

Draft(f, c) ==
  /\ first[f] = None
  /\ first' = [first EXCEPT ![f] = c]
  /\ UNCHANGED <<final, told, clock>>

Settle(f, c) ==
  /\ first[f] = Pending
  /\ final[f] = None
  /\ RetryAfter[f] <= clock
  /\ c = Unavailable => ExpireAt[f] <= clock
  /\ final' = [final EXCEPT ![f] = c]
  /\ UNCHANGED <<first, told, clock>>

TellFirst(f) ==
  /\ first[f] # None
  /\ told' = told \cup {<<f, 0>>}
  /\ UNCHANGED <<first, final, clock>>

TellFinal(f) ==
  /\ final[f] # None
  /\ told' = told \cup {<<f, 1>>}
  /\ UNCHANGED <<first, final, clock>>

Tick ==
  /\ clock' = clock + 1
  /\ UNCHANGED <<first, final, told>>

Next ==
  \/ \E f \in Families :
       \/ \E c \in Available \cup {Pending} : Draft(f, c)
       \/ \E c \in Available \cup {Unavailable} : Settle(f, c)
       \/ TellFirst(f)
       \/ TellFinal(f)
  \/ Tick

Spec == Init /\ [][Next]_vars
=============================================================================
