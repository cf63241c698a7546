--------------------------- MODULE MCCouponProgram ---------------------------
(* A prize, which an administrator may distribute in every way, and a      *)
(* program for birthdays; the birthday month has three nights in the first *)
(* year and one in the second.                                             *)
EXTENDS CouponProgram

CONSTANTS u1, u2, prize, birthday, c1, c2

MCDistributions == [p \in Programs |->
    IF p = birthday THEN {"AUTOMATIC_TRIGGER"} ELSE DistributionTypes]
MCTrigger == [p \in Programs |->
    IF p = birthday THEN "BIRTHDAY_MONTH" ELSE "SIGNUP_COMPLETED"]
MCRequiredQuantity == [p \in Programs |-> IF p = birthday THEN 2 ELSE 1]
MCPerUserLimit == [p \in Programs |-> 1]
MCLimits == [p \in Programs |-> IF p = prize THEN {NoLimit, 1} ELSE {NoLimit}]
MCRequests == [c \in Calls |->
    [kind : IF c = c1 THEN {"claim"} ELSE {"claim", "signup", "push"},
     user : {u1}, program : {prize}]]
MCYearOf == [d \in Days |-> IF d < 3 THEN 0 ELSE 1]
=============================================================================
