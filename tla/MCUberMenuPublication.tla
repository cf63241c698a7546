----------------------- MODULE MCUberMenuPublication -----------------------
(* The donor store has no price of its own for any item, and no rows of     *)
(* options.                                                                 *)
EXTENDS UberMenuPublication

MCDonor == [i \in Items |-> IF i \in Options THEN NoRow ELSE [price |-> "null", on |-> TRUE]]
=============================================================================
