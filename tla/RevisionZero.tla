---------------------------- MODULE RevisionZero ----------------------------
(***************************************************************************)
(* What the rehydrator sees of the INTEL-L1 workers: the structured packet *)
(* of an event family at revision 0, its revision index, and whether its   *)
(* pointer has been announced.  The worker may stop between any two of the *)
(* three.  IntelWorker implements this specification, Rehydration builds   *)
(* on it.                                                                  *)
(***************************************************************************)

CONSTANTS
  Families,   \* packet families: raw events
  Contexts,   \* market contexts of a revision 0 packet
  None        \* no packet

VARIABLES
  packet,     \* [Families -> Contexts \cup {None}]: the packet's context
  indexed,    \* families with a revision index for revision 0
  told        \* families whose revision 0 has been announced

zeroVars == <<packet, indexed, told>>

ZeroInit ==
  /\ packet = [f \in Families |-> None]
  /\ indexed = {}
  /\ told = {}

(* The first packet stored for a family stays: writes are put-if-absent.   *)
StoreZero(f, c) ==
  /\ packet[f] = None
  /\ packet' = [packet EXCEPT ![f] = c]
  /\ UNCHANGED <<indexed, told>>

IndexZero(f) ==
  /\ packet[f] # None
  /\ indexed' = indexed \cup {f}
  /\ UNCHANGED <<packet, told>>

TellZero(f) ==
  /\ f \in indexed
  /\ told' = told \cup {f}
  /\ UNCHANGED <<packet, indexed>>

ZeroNext ==
  \E f \in Families :
    \/ \E c \in Contexts : StoreZero(f, c)
    \/ IndexZero(f)
    \/ TellZero(f)

ZeroSpec == ZeroInit /\ [][ZeroNext]_zeroVars
=============================================================================
