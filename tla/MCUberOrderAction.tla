------------------------- MODULE MCUberOrderAction -------------------------
(* Two workers on the ACCEPT and the CANCEL of one order.                   *)
EXTENDS UberOrderAction, TLC

MCRequestable == {"ACCEPT", "CANCEL"}

MCWritable == {"pending", "making"}

Symmetric == Permutations(Workers) \cup Permutations(Tokens)
=============================================================================
