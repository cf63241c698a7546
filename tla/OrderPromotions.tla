-------------------------- MODULE OrderPromotions --------------------------
(***************************************************************************)
(* What an order costs before points, fees and tax: daily specials,        *)
(* automatic rules, coupons and the discount given at the counter          *)
(* (promotions/order-promotion-evaluator.ts).  Each is a candidate; the    *)
(* engine takes the candidates by priority and accepts one unless it       *)
(* conflicts with one it accepted before (promotion-engine.ts).  The       *)
(* evaluator runs the engine twice: without the coupons, to learn which    *)
(* lines a coupon may not touch, and then with all of them.                *)
(*                                                                         *)
(* The price is computed for the quote and again, from the database, when  *)
(* the order is created.  Here neither the basket nor the rules change in  *)
(* between; only the lines get new random keys.                            *)
(*                                                                         *)
(* A line is its place in the basket.  A candidate that names no lines     *)
(* (targetLineKeys undefined) is one for all of them.                      *)
(***************************************************************************)
EXTENDS Integers, Sequences, FiniteSets, Functions

CONSTANTS
    Products,
    Baskets,      \* bounds: the inputs an evaluation may get
    RuleLists,    \* ACTIVE rules of the channel, in the order of the query
    Coupons,
    Entitlements, \* the stacking policy of a coupon for hidden items, or NONE
    Discounts     \* discounts asked for at the counter, in cents

NoCustomPrice == -1

Policies == {"EXCLUSIVE", "STACKABLE"}
PricingModes == {"OVERRIDE_PRICE", "DISCOUNT_DELTA", "DISCOUNT_PERCENT"}
RuleTypes == {"PERCENTAGE_OFF", "FIXED_AMOUNT_OFF", "BUY_X_GET_Y", "FREE_ITEM",
              "LOYALTY_MULTIPLIER"}

LineRecords ==
    [product : Products, quantity : Nat \ {0}, base : Nat, options : Nat,
     custom : Nat \cup {NoCustomPrice},
     special : [mode : PricingModes \cup {"NONE"}, value : Nat, noCoupons : BOOLEAN]]

\* What normalizeConfig of the admin service lets through.
RuleRecords ==
    [type : RuleTypes, priority : Nat, policy : Policies, active : BOOLEAN,
     excludesCoupons : BOOLEAN, excludesItemPromotions : BOOLEAN,
     buy : SUBSET Products, buyQuantity : Nat \ {0},
     targets : SUBSET Products, quantity : Nat \ {0},
     percent : 0..100, cents : Nat, minSpend : Nat]

\* CouponPromotionLike; NONE stands for no coupon.
CouponRecords ==
    [mode : Policies \cup {"NONE"}, percent : Nat, cents : Nat,
     products : SUBSET Products, minSpend : Nat]

\* The products to buy and to get are named, and are the same ones or
\* different ones.
Disjoint(rule) ==
    rule.type = "BUY_X_GET_Y" =>
        /\ rule.buy # {} /\ rule.targets # {}
        /\ rule.buy = rule.targets \/ rule.buy \cap rule.targets = {}

ASSUME PromotionAssumption ==
    /\ Baskets \subseteq Seq(LineRecords)
    /\ RuleLists \subseteq Seq(RuleRecords)
    /\ \A list \in RuleLists : \A r \in DOMAIN list : Disjoint(list[r])
    /\ Coupons \subseteq CouponRecords
    /\ Entitlements \subseteq Policies \cup {"NONE"}
    /\ Discounts \subseteq Nat

VARIABLES
    basket,      \* the lines of the order
    rules,
    coupon,      \* the ordinary coupon; mode NONE if there is none
    entitlement,
    discount,
    rank,        \* the order of the lines' random keys
    phase,
    candidates,  \* of the running pass, by their places
    considered,  \* candidates the running pass of the engine has taken
    accepted,    \* those it accepted
    kept,        \* what the first pass accepted
    quoted,      \* the quoted price, or NoCustomPrice
    total

inputs == <<basket, rules, coupon, entitlement, discount>>
vars == <<inputs, rank, phase, candidates, considered, accepted, kept, quoted, total>>

\* rules: the pass without coupons; all: the pass with all candidates.
Phases == {"rules", "all", "quoted", "ordered", "refused", "mismatch"}

Lines == DOMAIN basket
Ranks == {r \in [Lines -> Lines] : \A k, l \in Lines : r[k] = r[l] => k = l}

-----------------------------------------------------------------------------
(* Prices of the lines.                                                     *)

AtMost(bound, n) == IF n < bound THEN n ELSE bound
AtLeastZero(n) == IF n > 0 THEN n ELSE 0

\* Math.round(a / b) of naturals.
Rounded(a, b) == (2 * a + b) \div (2 * b)

\* resolvePromotionLinePriceCents: of the special in the line's base price
\* and of the adjustment the special makes.
LinePrice(base, special) ==
    AtLeastZero(AtMost(base,
        CASE special.mode = "OVERRIDE_PRICE" -> special.value
          [] special.mode = "DISCOUNT_DELTA" -> base - special.value
          [] special.mode = "DISCOUNT_PERCENT" -> Rounded(base * (100 - special.value), 100)
          [] OTHER -> base))

IsCustom(l) == basket[l].custom # NoCustomPrice

UnitPrice(l) ==
    IF IsCustom(l) THEN basket[l].custom
    ELSE LinePrice(basket[l].base, basket[l].special) + basket[l].options

LineTotal(l) == UnitPrice(l) * basket[l].quantity

Subtotal(lines) == SumFunction([l \in lines |-> LineTotal(l)])

\* targetLines: no products stand for all lines.
TargetLines(products) ==
    {l \in Lines : products = {} \/ basket[l].product \in products}

-----------------------------------------------------------------------------
(* The units a rule gives away.                                             *)

UnitsOf(lines) == UNION {{l} \X (1..basket[l].quantity) : l \in lines}

Quantity(lines) == Cardinality(UnitsOf(lines))

RewardPrice(u) == Rounded(LineTotal(u[1]), basket[u[1]].quantity)

\* Mutant: the units of the line with the smaller key first.
CheaperByKey(u, v) ==
    rank[u[1]] < rank[v[1]] \/ (u[1] = v[1] /\ u[2] < v[2])

\* The cheaper unit first; of the same price, the one with the smaller key.
Cheaper(u, v) ==
    \/ RewardPrice(u) < RewardPrice(v)
    \/ /\ RewardPrice(u) = RewardPrice(v)
       /\ rank[u[1]] < rank[v[1]] \/ (u[1] = v[1] /\ u[2] < v[2])

\* Mutant: a unit counts as bought and as given.
QualifyingSetsTwice(rule) ==
    Quantity(TargetLines(rule.buy)) \div rule.buyQuantity

QualifyingSets(rule) ==
    Quantity(TargetLines(rule.buy)) \div
        (IF rule.buy = rule.targets THEN rule.buyQuantity + rule.quantity
                                    ELSE rule.buyQuantity)

RewardQuantity(rule) ==
    IF rule.type = "FREE_ITEM" THEN rule.quantity
    ELSE QualifyingSets(rule) * rule.quantity

\* resolveRewardDiscount: the cheapest units, the given number of them.
Rewarded(rule) ==
    LET units == UnitsOf(TargetLines(rule.targets))
    IN  {u \in units : Cardinality({v \in units : Cheaper(v, u)}) < RewardQuantity(rule)}

RewardDiscount(rule) ==
    LET percent == IF rule.type = "FREE_ITEM" THEN 100 ELSE rule.percent
    IN  SumFunction([u \in Rewarded(rule) |-> Rounded(RewardPrice(u) * percent, 100)])

-----------------------------------------------------------------------------
(* The candidates.  Their number is the order they are handed over in.      *)

RuleSlot(r) == Len(basket) + r
EntitlementSlot == Len(basket) + Len(rules) + 1
CouponSlot == EntitlementSlot + 1
CounterSlot == CouponSlot + 1

\* Mutant: a price typed in makes the line an ordinary one.
SpecialCandidateUnlessCustom(l) ==
    [source |-> "DAILY_SPECIAL", priority |-> 100, eligible |-> TRUE,
     group |-> "ITEM_PRICE", mode |-> "EXCLUSIVE",
     excludes |-> IF basket[l].special.noCoupons /\ ~IsCustom(l) THEN {"COUPON"} ELSE {},
     targets |-> {l},
     cents |-> 0]

\* toDailySpecialPromotionCandidate.  A price typed in at the counter takes
\* the discount from the special, not its place.
SpecialCandidate(l) ==
    [source |-> "DAILY_SPECIAL", priority |-> 100, eligible |-> TRUE,
     group |-> "ITEM_PRICE", mode |-> "EXCLUSIVE",
     excludes |-> IF basket[l].special.noCoupons THEN {"COUPON"} ELSE {},
     targets |-> {l},
     cents |-> IF IsCustom(l) THEN 0
               ELSE (basket[l].base - LinePrice(basket[l].base, basket[l].special))
                        * basket[l].quantity]

\* The adapter keeps a rule behind the specials, whatever its priority.
PriorityOf(rule) == IF rule.priority > 101 THEN rule.priority ELSE 101

GivesUnits(rule) == rule.type \in {"BUY_X_GET_Y", "FREE_ITEM"}

RuleTargets(rule) ==
    CASE GivesUnits(rule) -> {u[1] : u \in Rewarded(rule)}
      [] rule.type = "LOYALTY_MULTIPLIER" -> Lines
      [] OTHER -> TargetLines(rule.targets)

RuleDiscount(rule) ==
    LET applicable == Subtotal(TargetLines(rule.targets))
    IN  CASE GivesUnits(rule) -> RewardDiscount(rule)
          [] rule.type = "LOYALTY_MULTIPLIER" -> 0
          [] rule.type = "PERCENTAGE_OFF" ->
                 AtMost(applicable, Rounded(applicable * rule.percent, 100))
          [] OTHER -> AtMost(applicable, rule.cents)

\* eligibilityForSpend.  A reward has to be worth something, the lines of a
\* percentage have to.
RuleEligible(rule) ==
    /\ rule.active
    /\ CASE GivesUnits(rule) -> RewardDiscount(rule) > 0
         [] rule.type = "LOYALTY_MULTIPLIER" -> TRUE
         [] OTHER -> Subtotal(TargetLines(rule.targets)) > 0
    /\ Subtotal(Lines) >= rule.minSpend

RuleCandidate(rule) ==
    [source |-> IF rule.type = "LOYALTY_MULTIPLIER" THEN "LOYALTY_PROMOTION"
                                                    ELSE "AUTOMATIC_PROMOTION",
     priority |-> PriorityOf(rule), eligible |-> RuleEligible(rule),
     group |-> IF rule.type = "LOYALTY_MULTIPLIER" THEN "LOYALTY_BONUS"
                                                   ELSE "AUTOMATIC_DISCOUNT",
     mode |-> rule.policy,
     excludes |-> {g \in {"COUPON", "ITEM_PRICE"} :
                      \/ g = "COUPON" /\ rule.excludesCoupons
                      \/ g = "ITEM_PRICE" /\ rule.excludesItemPromotions},
     targets |-> RuleTargets(rule), cents |-> RuleDiscount(rule)]

\* The coupon for the hidden items of the order: it costs nothing.
EntitlementCandidate ==
    [source |-> "COUPON", priority |-> 150, eligible |-> TRUE,
     group |-> "COUPON_ENTITLEMENT", mode |-> entitlement,
     excludes |-> IF entitlement = "EXCLUSIVE" THEN {"COUPON"} ELSE {},
     targets |-> Lines, cents |-> 0]

CounterCandidate ==
    [source |-> "POS_MANUAL_DISCOUNT", priority |-> 300, eligible |-> TRUE,
     group |-> "POS_MANUAL_DISCOUNT", mode |-> "STACKABLE", excludes |-> {},
     targets |-> Lines, cents |-> AtMost(Subtotal(Lines), discount)]

SpecialLines == {l \in Lines : basket[l].special.mode # "NONE"}

\* The first pass: the specials and the rules.
Basic == SpecialLines \cup {RuleSlot(r) : r \in DOMAIN rules}

BasicCandidates ==
    [i \in Basic |->
        IF i \in Lines THEN SpecialCandidate(i) ELSE RuleCandidate(rules[i - Len(basket)])]

\* Mutant: only specials keep a coupon from their lines in the first pass.
BlockedBySpecials ==
    UNION {candidates[i].targets :
              i \in {j \in accepted \cap Lines : "COUPON" \in candidates[j].excludes}}

\* At the end of the first pass: the lines a coupon may not touch.
BlockedLines ==
    UNION {candidates[i].targets :
              i \in {j \in accepted : "COUPON" \in candidates[j].excludes}}

\* evaluateCouponPromotion.
CouponCandidate(blocked) ==
    LET lines == TargetLines(coupon.products) \ blocked
        applicable == Subtotal(lines)
        share == IF coupon.percent > 0
                 THEN Rounded(applicable * coupon.percent, 100) ELSE coupon.cents
    IN  [source |-> "COUPON", priority |-> 200,
         eligible |-> applicable > 0 /\ applicable >= coupon.minSpend,
         group |-> "COUPON", mode |-> coupon.mode,
         excludes |-> IF coupon.mode = "EXCLUSIVE" THEN {"COUPON_ENTITLEMENT"} ELSE {},
         targets |-> lines, cents |-> AtMost(applicable, share)]

Extras ==
    {i \in {EntitlementSlot, CouponSlot, CounterSlot} :
        \/ i = EntitlementSlot /\ entitlement # "NONE"
        \/ i = CouponSlot /\ coupon.mode # "NONE"
        \/ i = CounterSlot /\ discount > 0 /\ Subtotal(Lines) > 0}

\* The second pass: those of the first, and the coupons and the discount.
AllCandidates ==
    [i \in DOMAIN candidates \cup Extras |->
        CASE i = EntitlementSlot -> EntitlementCandidate
          [] i = CouponSlot -> CouponCandidate(BlockedLines)
          [] i = CounterSlot -> CounterCandidate
          [] OTHER -> candidates[i]]

Init ==
    /\ basket \in Baskets
    /\ rules \in RuleLists
    /\ coupon \in Coupons
    /\ entitlement \in Entitlements
    /\ discount \in Discounts
    /\ rank \in Ranks
    /\ phase = "rules"
    /\ candidates = BasicCandidates
    /\ considered = {} /\ accepted = {} /\ kept = {}
    /\ quoted = NoCustomPrice /\ total = 0

-----------------------------------------------------------------------------
(* resolvePromotionCandidates.                                              *)

\* candidatesConflict.  Exclusive coupons are so in the whole order.
Conflict(c, d) ==
    LET overlap == c.targets \cap d.targets # {}
    IN  IF c.group = d.group
        THEN /\ "EXCLUSIVE" \in {c.mode, d.mode}
             /\ c.group = "COUPON" \/ overlap
        ELSE overlap /\ (d.group \in c.excludes \/ c.group \in d.excludes)

\* The stable sort by priority.
Before(i, j) ==
    \/ candidates[i].priority < candidates[j].priority
    \/ candidates[i].priority = candidates[j].priority /\ i < j

Acceptable(i) ==
    /\ candidates[i].eligible
    /\ \A j \in accepted : ~Conflict(candidates[j], candidates[i])

Consider(i) ==
    /\ phase \in {"rules", "all"}
    /\ i \in DOMAIN candidates \ considered
    /\ \A j \in DOMAIN candidates \ considered : j = i \/ Before(i, j)
    /\ considered' = considered \cup {i}
    /\ accepted' = IF Acceptable(i) THEN accepted \cup {i} ELSE accepted
    /\ UNCHANGED <<inputs, rank, phase, candidates, kept, quoted, total>>

StartSecondPass ==
    /\ phase = "rules" /\ considered = DOMAIN candidates
    /\ phase' = "all"
    /\ candidates' = AllCandidates
    /\ kept' = accepted
    /\ considered' = {} /\ accepted' = {}
    /\ UNCHANGED <<inputs, rank, quoted, total>>

-----------------------------------------------------------------------------
(* calculateQuote and createInternal.                                       *)

DiscountFrom(sources) ==
    SumFunction([i \in {j \in accepted : candidates[j].source \in sources} |->
                     candidates[i].cents])

\* A special is in the prices of the lines already.
Price ==
    AtLeastZero(Subtotal(Lines) -
        DiscountFrom({"POS_MANUAL_DISCOUNT", "COUPON", "AUTOMATIC_PROMOTION"}))

\* assertCouponPromotionAccepted.
CouponRefused == coupon.mode # "NONE" /\ CouponSlot \notin accepted

Evaluated == phase = "all" /\ considered = DOMAIN candidates

Refuse ==
    /\ Evaluated /\ CouponRefused
    /\ phase' = "refused"
    /\ UNCHANGED <<inputs, rank, candidates, considered, accepted, kept, quoted, total>>

Quote ==
    /\ Evaluated /\ ~CouponRefused /\ quoted = NoCustomPrice
    /\ phase' = "quoted" /\ quoted' = Price /\ total' = Price
    /\ UNCHANGED <<inputs, rank, candidates, considered, accepted, kept>>

\* The order is created: its lines are built anew.
PlaceOrder ==
    /\ phase = "quoted"
    /\ phase' = "rules"
    /\ UNCHANGED inputs
    /\ rank' \in Ranks
    /\ candidates' = BasicCandidates'
    /\ considered' = {} /\ accepted' = {} /\ kept' = {}
    /\ UNCHANGED <<quoted, total>>

\* "Price mismatch": the customer has paid the quoted price.
CreateOrder ==
    /\ Evaluated /\ ~CouponRefused /\ quoted # NoCustomPrice
    /\ total' = Price
    /\ phase' = IF Price = quoted THEN "ordered" ELSE "mismatch"
    /\ UNCHANGED <<inputs, rank, candidates, considered, accepted, kept, quoted>>

Next ==
    \/ \E i \in DOMAIN candidates : Consider(i)
    \/ StartSecondPass \/ Refuse \/ Quote \/ PlaceOrder \/ CreateOrder

Spec == Init /\ [][Next]_vars

-----------------------------------------------------------------------------
(* Properties.                                                              *)

\* No price and no discount is ever negative, and the engine accepts what it
\* considers.
TypeOK ==
    /\ basket \in Baskets /\ rules \in RuleLists /\ coupon \in Coupons
    /\ entitlement \in Entitlements /\ discount \in Discounts
    /\ \A l \in Lines : LineTotal(l) \in Nat
    /\ rank \in Ranks /\ phase \in Phases
    /\ \A i \in DOMAIN candidates : candidates[i].cents \in Nat
    /\ kept \subseteq DOMAIN candidates
    /\ considered \subseteq DOMAIN candidates /\ accepted \subseteq considered
    /\ total \in Nat /\ quoted \in Nat \cup {NoCustomPrice}

\* The engine comes to the one outcome its rules describe: a candidate is
\* accepted if and only if it is eligible and conflicts with no accepted one
\* that goes before it.  In particular no two accepted ones conflict.
OutcomeIsGreedy ==
    \A i \in considered :
        i \in accepted <=>
            /\ candidates[i].eligible
            /\ \A j \in accepted : Before(j, i) => ~Conflict(candidates[j], candidates[i])

Complete == phase # "rules" /\ considered = DOMAIN candidates

\* What the first pass accepted, and the coupon was computed from, is what is
\* accepted in the end: a coupon, whatever its priority, displaces no rule and
\* frees none.
PassesAgree == Complete => {i \in accepted : i < EntitlementSlot} = kept

\* A coupon is never computed from a line whose special disallows coupons,
\* at a price typed in at the counter either, nor from a line of an accepted
\* rule that excludes coupons.
CouponSparesLines ==
    Complete /\ CouponSlot \in accepted =>
        \A l \in candidates[CouponSlot].targets :
            /\ ~(basket[l].special.mode # "NONE" /\ basket[l].special.noCoupons)
            /\ \A r \in DOMAIN rules :
                  RuleSlot(r) \in accepted /\ rules[r].excludesCoupons =>
                      l \notin candidates[RuleSlot(r)].targets

\* A special that is in the price of its line already is accepted: no rule
\* wins by rejecting it.
SpecialsStand ==
    Complete => SpecialLines \subseteq accepted

\* Nobody gets units for units they did not pay for: what a buy-x-get-y rule
\* gives away is in proportion to the units that were bought beside it.
RewardsAreBought ==
    \A r \in DOMAIN rules : rules[r].type = "BUY_X_GET_Y" =>
        LET given == Rewarded(rules[r])
            bought == UnitsOf(TargetLines(rules[r].buy)) \ given
        IN  Cardinality(given) * rules[r].buyQuantity
                <= Cardinality(bought) * rules[r].quantity

\* Of units with one price on two lines some are given away, some are not.
Tied(rule) ==
    \E u \in Rewarded(rule), v \in UnitsOf(TargetLines(rule.targets)) \ Rewarded(rule) :
        u[1] # v[1] /\ RewardPrice(u) = RewardPrice(v)

\* An order is created at the price that was quoted and paid if its basket and
\* the rules are what they were, except where a rule gives away one of several
\* units of one price: the random keys then decide which lines are left to
\* the coupon and to the other rules.
QuoteIsHonoured ==
    phase = "mismatch" \/ (phase = "refused" /\ quoted # NoCustomPrice) =>
        \E r \in DOMAIN rules : GivesUnits(rules[r]) /\ Tied(rules[r])
=============================================================================
