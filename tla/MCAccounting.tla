---------------------------- MODULE MCAccounting ----------------------------
(* Four calls, the last of which may close a month; two orders.            *)
EXTENDS Accounting

CONSTANTS c1, c2, c3, c4

MCOperations == [c \in Calls |->
    CASE c = c1 -> {"create", "accrue", "accrueDaily"}
      [] c = c2 -> {"accrue", "accrueDaily", "update"}
      [] c = c3 -> {"update", "delete"}
      [] OTHER -> {"close"}]
=============================================================================
