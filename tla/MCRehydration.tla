---------------------------- MODULE MCRehydration ----------------------------
(* Instances of Rehydration for TLC.                                       *)
EXTENDS Rehydration, TLC

CONSTANTS ctx1, ctx2

(* All packets are observed in the first hour; each is due for a retry one *)
(* tick later than the one before it, and expires one tick after that.     *)
FirstHour == [f \in Families |-> 0]

Staggered == [f \in Families |-> f - 1]

Expiry == [f \in Families |-> f]

RehydratorSymmetry == Permutations(Rehydrators)
=============================================================================
