----------------------- MODULE UberOrderStateMachine -----------------------
(***************************************************************************)
(* The pure decisions about the status of an Uber order: which commands    *)
(* may be requested in which status, what a confirmed command or a         *)
(* cancellation does to the status, and the transitions the rest of the    *)
(* Orders service allows.                                                  *)
(***************************************************************************)
EXTENDS Naturals

OrderStatuses == {"pending", "paid", "making", "ready", "completed", "refunded"}

\* No order row, and no next status.
Absent == "absent"
NoStatus == "null"

ActionNames == {"ACCEPT", "DENY", "CANCEL", "READY_FOR_PICKUP"}

CanRequestAction(s, a) ==
    IF a \in {"ACCEPT", "DENY"} THEN s \in {"pending", "paid"}
                                ELSE s \in {"paid", "making"}

AfterCancellation(s) ==
    IF s \in {"pending", "paid", "making"} THEN "refunded" ELSE NoStatus

AfterConfirmedAction(s, a) ==
    CASE a = "ACCEPT" /\ s \in {"pending", "paid"}           -> "paid"
      [] a = "CANCEL"                                        -> AfterCancellation(s)
      [] a = "READY_FOR_PICKUP" /\ s \in {"paid", "making"}  -> "ready"
      [] OTHER                                               -> NoStatus

\* ORDER_STATUS_TRANSITIONS of the Orders service.
OrderStatusTransitions ==
    [s \in OrderStatuses |->
        CASE s = "pending"   -> {"paid", "refunded"}
          [] s = "paid"      -> {"making", "refunded"}
          [] s = "making"    -> {"ready", "refunded"}
          [] s = "ready"     -> {"completed"}
          [] s = "completed" -> {"refunded"}
          [] s = "refunded"  -> {}]

\* The ranks by which an import decides whether an incoming status is older
\* than the stored one.
StatusRank ==
    [s \in OrderStatuses |->
        CASE s = "pending" -> 0 [] s = "paid" -> 1 [] s = "making" -> 2
          [] s = "ready" -> 3 [] s = "completed" -> 4 [] s = "refunded" -> 5]

EffectiveStatus(incoming, stored) ==
    IF stored # Absent /\ StatusRank[incoming] < StatusRank[stored]
    THEN stored ELSE incoming
=============================================================================
