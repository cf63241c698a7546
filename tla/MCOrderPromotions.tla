------------------------- MODULE MCOrderPromotions -------------------------
(* Two lines of up to two products, the specials and rules that meet on    *)
(* them, and one coupon or none.                                           *)
EXTENDS OrderPromotions

NoSpecial == [mode |-> "NONE", value |-> 0, noCoupons |-> FALSE]
BelowZero == [mode |-> "DISCOUNT_DELTA", value |-> 6, noCoupons |-> TRUE]
HalfPrice == [mode |-> "DISCOUNT_PERCENT", value |-> 50, noCoupons |-> FALSE]
SetPrice == [mode |-> "OVERRIDE_PRICE", value |-> 3, noCoupons |-> TRUE]

Line(product, quantity, custom, special) ==
    [product |-> product, quantity |-> quantity, base |-> 4, options |-> 1,
     custom |-> custom, special |-> special]

Plain(product, quantity) == Line(product, quantity, NoCustomPrice, NoSpecial)

FirstLines == {Plain("p", 1), Line("p", 1, NoCustomPrice, BelowZero),
               Line("p", 1, 5, SetPrice), Line("p", 1, NoCustomPrice, HalfPrice)}
SecondLines == {Plain("q", 2), Plain("p", 1), Line("q", 1, NoCustomPrice, SetPrice)}

MCBaskets == {<<k, l>> : k \in FirstLines, l \in SecondLines}

Rule(type, priority, policy, coupons, items, targets) ==
    [type |-> type, priority |-> priority, policy |-> policy, active |-> TRUE,
     excludesCoupons |-> coupons, excludesItemPromotions |-> items,
     buy |-> {"p"}, buyQuantity |-> 1, targets |-> targets, quantity |-> 1,
     percent |-> 50, cents |-> 3, minSpend |-> 0]

SomeRules ==
    {Rule("PERCENTAGE_OFF", 175, "EXCLUSIVE", TRUE, FALSE, {}),
     Rule("PERCENTAGE_OFF", 175, "STACKABLE", FALSE, TRUE, {"p"}),
     Rule("FIXED_AMOUNT_OFF", 250, "STACKABLE", TRUE, FALSE, {"q"}),
     Rule("FIXED_AMOUNT_OFF", 350, "EXCLUSIVE", FALSE, FALSE, {"p"}),
     Rule("FREE_ITEM", 200, "STACKABLE", TRUE, TRUE, {"p", "q"}),
     Rule("LOYALTY_MULTIPLIER", 250, "EXCLUSIVE", TRUE, FALSE, {}),
     [Rule("BUY_X_GET_Y", 150, "EXCLUSIVE", FALSE, FALSE, {"q"}) EXCEPT !.minSpend = 10],
     [Rule("BUY_X_GET_Y", 200, "STACKABLE", FALSE, FALSE, {"p"}) EXCEPT !.percent = 100],
     [Rule("PERCENTAGE_OFF", 101, "EXCLUSIVE", TRUE, TRUE, {}) EXCEPT !.active = FALSE]}

MCRuleLists ==
    {<<>>} \cup {<<r>> : r \in SomeRules}
    \cup {<<r, s>> \in SomeRules \X SomeRules : r # s /\ r.priority <= s.priority}

Coupon(mode, percent, cents, products, minSpend) ==
    [mode |-> mode, percent |-> percent, cents |-> cents, products |-> products,
     minSpend |-> minSpend]

MCCoupons == {Coupon("NONE", 0, 0, {}, 0), Coupon("EXCLUSIVE", 50, 0, {}, 0),
              Coupon("STACKABLE", 0, 3, {"p"}, 0), Coupon("EXCLUSIVE", 0, 3, {}, 6)}
=============================================================================
