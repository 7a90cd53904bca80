--------------------------- MODULE MCMarketReader ---------------------------
(* Instances of MarketReader for TLC.                                      *)
EXTENDS MarketReader

(* Hours are two windows long: the window 3 is in an hour between that of  *)
(* the event and the oldest of the lookback, and outside the radius.       *)
SparseStarts == {1, 3, 4, 5, 6}
=============================================================================
