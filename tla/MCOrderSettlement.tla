-------------------------- MODULE MCOrderSettlement --------------------------
(* Instances of OrderSettlement for TLC: a member and the one who referred *)
(* them, an in-store order and a couriered web order of the member.        *)
EXTENDS OrderSettlement, TLC

CONSTANTS member, friend, counter, web, topup, adjust

MCReferrer == [a \in Accounts |-> IF a = member /\ friend \in Accounts THEN friend ELSE Nobody]
MCPayload == [r \in Requests |->
    IF r = topup
    THEN [op |-> "topup", account |-> member, amount |-> 1, bonus |-> 1]
    ELSE [op |-> "manual", account |-> friend, amount |-> -1, bonus |-> 0]]
Wish(points, balance, withCoupon, discount) ==
    [points |-> points, balance |-> balance, coupon |-> withCoupon,
     discount |-> discount]
MCWishes == [o \in Orders |->
    IF Cardinality(Orders) = 1
    THEN {Wish(1, 0, FALSE, 0), Wish(0, 1, FALSE, 1), Wish(1, 1, TRUE, 0)}
    ELSE IF o = counter THEN {Wish(1, 0, TRUE, 0)}
    ELSE {Wish(1, 0, TRUE, 0), Wish(1, 0, FALSE, 1)}]
MCOwner == [o \in Orders |-> member]
VoidOne == [gross |-> 1, extra |-> 0, void |-> 1, add |-> 0]
RefundTwo == [gross |-> 2, extra |-> 0, void |-> 0, add |-> 0]
MCChanges == {VoidOne, RefundTwo}

Symmetry == Permutations(Calls)
=============================================================================
