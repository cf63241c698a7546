--------------------------- MODULE MCPosPrintJob ---------------------------
(* A few calls around one target of a print job.                            *)
EXTENDS PosPrintJob, TLC

Symmetric == Permutations(Tasks)
=============================================================================
