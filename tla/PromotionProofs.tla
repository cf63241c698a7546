-------------------------- MODULE PromotionProofs --------------------------
(***************************************************************************)
(* What the engine accepts and gives away, for every basket and every list *)
(* of rules, and what the programs that hand out coupons keep, for any     *)
(* programs, members, calls and days.                                      *)
(*                                                                         *)
(* The engine takes the candidates in an order (Sorted), so that what it   *)
(* has accepted is the kernel of what it has considered.  After the first  *)
(* pass the kernel of the specials and rules is kept; the second pass      *)
(* comes to the same decisions on them, because no coupon and no counter   *)
(* discount conflicts with a kept candidate (Built).                       *)
(*                                                                         *)
(* A claim holds the row it was decided on (ClaimInv), the job what it has *)
(* decided of a member (InTurn), and every coupon issued is a new row      *)
(* (Numbered).                                                             *)
(***************************************************************************)
EXTENDS OrderPromotions, CouponProgram, FiniteSetTheorems, WellFoundedInduction, TLAPS

InputsOK ==
    /\ basket \in Seq(LineRecords) /\ rules \in Seq(RuleRecords)

\* What the adapters make of a special or a rule.
BasicOK(i, c) ==
    /\ c.priority \in Nat
    /\ c.group \in {"ITEM_PRICE", "AUTOMATIC_DISCOUNT", "LOYALTY_BONUS"}
    /\ c.excludes \subseteq {"COUPON", "ITEM_PRICE"}
    /\ i \in SpecialLines =>
          /\ c.priority = 100 /\ c.eligible /\ c.targets = {i} /\ c.group = "ITEM_PRICE"
          /\ basket[i].special.noCoupons => "COUPON" \in c.excludes
    /\ i \notin SpecialLines => c.priority > 100
    /\ \A r \in DOMAIN rules :
          i = RuleSlot(r) /\ rules[r].excludesCoupons => "COUPON" \in c.excludes

\* What they make of the coupons and the counter discount, the first pass
\* having kept what it kept.
ExtraOK(e, c) ==
    /\ c.priority \in Nat /\ c.priority > 100
    /\ e = CouponSlot => c.targets \subseteq Lines
    /\ \A i \in kept :
          /\ ~Conflict(c, candidates[i])
          /\ e = CouponSlot /\ "COUPON" \in candidates[i].excludes =>
                c.targets \cap candidates[i].targets = {}

Built ==
    /\ Basic \subseteq DOMAIN candidates
    /\ DOMAIN candidates \subseteq Basic \cup {EntitlementSlot, CouponSlot, CounterSlot}
    /\ phase = "rules" => DOMAIN candidates = Basic
    /\ \A i \in Basic : BasicOK(i, candidates[i])
    /\ \A e \in DOMAIN candidates \ Basic : ExtraOK(e, candidates[e])

Sorted ==
    /\ considered \subseteq DOMAIN candidates
    /\ \A i \in considered, j \in DOMAIN candidates \ considered : Before(i, j)

\* A is what a greedy choice from D accepts.
Kernel(A, D) ==
    /\ A \subseteq D
    /\ \A i \in D :
          i \in A <=>
              /\ candidates[i].eligible
              /\ \A j \in A : Before(j, i) => ~Conflict(candidates[j], candidates[i])

Kept == phase # "rules" => Kernel(kept, Basic)

Agreed ==
    phase # "rules" => \A i \in considered \cap Basic : i \in accepted <=> i \in kept

IInv == InputsOK /\ Built /\ Sorted /\ Kernel(accepted, considered) /\ Kept /\ Agreed

-----------------------------------------------------------------------------
(* The places and what is built for them.                                   *)

LEMMA Places ==
    ASSUME InputsOK
    PROVE  /\ Len(basket) \in Nat /\ Len(rules) \in Nat
           /\ Lines = 1..Len(basket) /\ DOMAIN rules = 1..Len(rules)
           /\ \A i \in Basic : i \in Nat /\ i < EntitlementSlot
           /\ \A r \in DOMAIN rules : RuleSlot(r) \notin Lines /\ RuleSlot(r) - Len(basket) = r
           /\ \A r, q \in DOMAIN rules : RuleSlot(r) = RuleSlot(q) => r = q
           /\ EntitlementSlot \in Nat
           /\ CouponSlot = EntitlementSlot + 1 /\ CounterSlot = EntitlementSlot + 2
<1>1. /\ Len(basket) \in Nat /\ Len(rules) \in Nat
      /\ Lines = 1..Len(basket) /\ DOMAIN rules = 1..Len(rules)
  BY DEF InputsOK, Lines
<1>2. QED
  BY <1>1 DEF Basic, SpecialLines, RuleSlot, EntitlementSlot, CouponSlot, CounterSlot

LEMMA BasicFacts == InputsOK => \A i \in Basic : BasicOK(i, BasicCandidates[i])
<1> SUFFICES ASSUME InputsOK, NEW i \in Basic PROVE BasicOK(i, BasicCandidates[i])
  OBVIOUS
<1>1. CASE i \in SpecialLines
  <2>1. i \in Lines /\ \A r \in DOMAIN rules : i # RuleSlot(r)
    BY <1>1, Places DEF SpecialLines
  <2>2. BasicCandidates[i] = SpecialCandidate(i)
    BY <2>1 DEF BasicCandidates
  <2>3. QED
    BY <1>1, <2>1, <2>2 DEF BasicOK, SpecialCandidate
<1>2. CASE i \notin SpecialLines
  <2>1. PICK r \in DOMAIN rules : i = RuleSlot(r)
    BY <1>2 DEF Basic
  <2>2. i \notin Lines /\ i - Len(basket) = r /\ \A q \in DOMAIN rules : i = RuleSlot(q) => q = r
    BY <2>1, Places
  <2>3. BasicCandidates[i] = RuleCandidate(rules[i - Len(basket)])
    <3> DEFINE F(k) == IF k \in Lines THEN SpecialCandidate(k)
                                      ELSE RuleCandidate(rules[k - Len(basket)])
    <3>1. BasicCandidates = [k \in Basic |-> F(k)]
      BY DEF BasicCandidates
    <3>2. BasicCandidates[i] = F(i)
      <4> HIDE DEF F
      <4> QED BY <3>1
    <3> QED
      BY <2>2, <3>2
  <2>4. rules[r].priority \in Nat
    <3>1. rules[r] \in RuleRecords
      BY <2>1 DEF InputsOK
    <3>2. QED
      BY <3>1 DEF RuleRecords
  <2>5. QED
    BY <1>2, <2>1, <2>2, <2>3, <2>4 DEF BasicOK, RuleCandidate, PriorityOf
<1>3. QED
  BY <1>1, <1>2

LEMMA Ordered ==
    ASSUME InputsOK, Built
    PROVE  /\ \A i, j \in DOMAIN candidates :
                 /\ ~(Before(i, j) /\ Before(j, i))
                 /\ i = j \/ Before(i, j) \/ Before(j, i)
           /\ \A i, j, k \in DOMAIN candidates :
                 Before(i, j) /\ Before(j, k) => Before(i, k)
<1>1. \A i \in DOMAIN candidates : i \in Nat /\ candidates[i].priority \in Nat
  BY Places DEF Built, BasicOK, ExtraOK
<1>2. QED
  BY <1>1 DEF Before

\* Nothing that is computed from the inputs alone changes while they do not.
LEMMA SameInputs ==
    ASSUME UNCHANGED inputs
    PROVE  /\ UNCHANGED <<Lines, Basic, SpecialLines, EntitlementSlot, CouponSlot, CounterSlot>>
           /\ InputsOK => InputsOK'
           /\ \A i, c : BasicOK(i, c) => BasicOK(i, c)'
BY DEF inputs, Basic, SpecialLines, Lines, RuleSlot, EntitlementSlot, CouponSlot,
       CounterSlot, InputsOK, BasicOK

LEMMA SameCandidates ==
    ASSUME Built, UNCHANGED <<inputs, candidates, kept>>, phase' = "rules" => phase = "rules"
    PROVE  Built'
BY SameInputs DEF Built, ExtraOK, Conflict

-----------------------------------------------------------------------------
(* The steps.                                                               *)

LEMMA InitOK == Init => IInv
<1> SUFFICES ASSUME Init PROVE IInv
  OBVIOUS
<1>1. InputsOK
  BY PromotionAssumption DEF Init, InputsOK
<1>2. Built
  BY <1>1, BasicFacts DEF Init, Built, BasicCandidates
<1>3. QED
  BY <1>1, <1>2 DEF Init, IInv, Sorted, Kernel, Kept, Agreed

\* The engine takes the first candidate that is left.
LEMMA ConsiderOK ==
    ASSUME IInv, NEW i \in DOMAIN candidates, Consider(i)
    PROVE  IInv'
<1>1. InputsOK' /\ Built' /\ UNCHANGED <<Basic, candidates, kept, phase>>
  BY SameInputs, SameCandidates DEF IInv, Consider
<1>2. /\ i \notin considered /\ considered' = considered \cup {i}
      /\ \A j \in DOMAIN candidates \ considered : j = i \/ Before(i, j)
      /\ i \in accepted' <=> Acceptable(i)
      /\ \A k \in considered : k \in accepted' <=> k \in accepted
      /\ accepted' \subseteq accepted \cup {i}
  BY DEF Consider, IInv, Kernel
<1>3. /\ considered \subseteq DOMAIN candidates /\ accepted \subseteq considered
      /\ \A j \in considered : Before(j, i)
  BY <1>2 DEF IInv, Sorted, Kernel
<1>4. /\ \A j, k \in DOMAIN candidates : ~(Before(j, k) /\ Before(k, j))
      /\ \A j, k : Before(j, k)' <=> Before(j, k)
  BY <1>1, Ordered DEF IInv, Before
<1>5. Sorted'
  BY <1>1, <1>2, <1>3, <1>4 DEF IInv, Sorted
<1>6. Kernel(accepted, considered)'
  <2> SUFFICES ASSUME NEW k \in considered'
               PROVE  k \in accepted' <=>
                        /\ candidates[k].eligible
                        /\ \A j \in accepted' :
                              Before(j, k) => ~Conflict(candidates[j], candidates[k])
    BY <1>1, <1>2, <1>3, <1>4 DEF Kernel
  <2>1. CASE k \in considered
    BY <2>1, <1>2, <1>3, <1>4 DEF IInv, Kernel
  <2>2. CASE k = i
    BY <2>2, <1>2, <1>3, <1>4 DEF Acceptable
  <2>3. QED
    BY <1>2, <2>1, <2>2
<1>7. Agreed'
  <2> SUFFICES ASSUME phase # "rules", i \in Basic
               PROVE  i \in accepted' <=> i \in kept
    BY <1>1, <1>2 DEF IInv, Agreed
  <2>1. /\ kept \subseteq Basic /\ Basic \subseteq DOMAIN candidates
        /\ i \in kept <=>
              /\ candidates[i].eligible
              /\ \A j \in kept : Before(j, i) => ~Conflict(candidates[j], candidates[i])
        /\ \A j \in considered \cap Basic : j \in accepted <=> j \in kept
    BY DEF IInv, Kept, Kernel, Agreed, Built
  <2>2. ASSUME Acceptable(i) PROVE i \in kept
    BY <2>1, <2>2, <1>2, <1>4 DEF Acceptable
  <2>3. ASSUME i \in kept PROVE Acceptable(i)
    <3>1. ASSUME NEW j \in accepted PROVE ~Conflict(candidates[j], candidates[i])
      <4>1. CASE j \in Basic
        BY <4>1, <2>1, <2>3, <1>3
      <4>2. CASE j \notin Basic
        BY <4>2, <2>3, <1>3 DEF IInv, Built, ExtraOK
      <4>3. QED
        BY <4>1, <4>2
    <3>2. QED
      BY <2>1, <2>3, <3>1 DEF Acceptable
  <2>4. QED
    BY <1>2, <1>5, <2>2, <2>3
<1>8. Kept'
  BY <1>1, <1>4 DEF IInv, Kept, Kernel
<1>9. QED
  BY <1>1, <1>5, <1>6, <1>7, <1>8 DEF IInv

\* The coupon is computed from lines that no kept candidate keeps from it.
LEMMA StartSecondPassOK ==
    ASSUME IInv, StartSecondPass
    PROVE  IInv'
<1>1. InputsOK' /\ UNCHANGED <<Lines, Basic, EntitlementSlot, CouponSlot, CounterSlot>>
  BY SameInputs DEF IInv, StartSecondPass
<1>2. /\ DOMAIN candidates = Basic /\ considered = Basic /\ accepted \subseteq Basic
      /\ kept' = accepted /\ considered' = {} /\ accepted' = {}
      /\ candidates' = AllCandidates /\ phase' = "all"
  BY DEF IInv, Built, Kernel, StartSecondPass
<1>3. /\ Extras \subseteq {EntitlementSlot, CouponSlot, CounterSlot}
      /\ \A i \in Basic : i \notin {EntitlementSlot, CouponSlot, CounterSlot}
      /\ EntitlementSlot # CouponSlot /\ EntitlementSlot # CounterSlot
      /\ CouponSlot # CounterSlot
  BY Places DEF IInv, Extras
<1>4. /\ DOMAIN candidates' = Basic \cup Extras
      /\ \A i \in Basic : candidates'[i] = candidates[i]
      /\ EntitlementSlot \in Extras => candidates'[EntitlementSlot] = EntitlementCandidate
      /\ CouponSlot \in Extras => candidates'[CouponSlot] = CouponCandidate(BlockedLines)
      /\ CounterSlot \in Extras => candidates'[CounterSlot] = CounterCandidate
  BY <1>2, <1>3 DEF AllCandidates
<1>5. ASSUME NEW i \in accepted
      PROVE  /\ candidates[i].group \in {"ITEM_PRICE", "AUTOMATIC_DISCOUNT", "LOYALTY_BONUS"}
             /\ candidates[i].excludes \subseteq {"COUPON", "ITEM_PRICE"}
             /\ "COUPON" \in candidates[i].excludes =>
                   candidates[i].targets \subseteq BlockedLines
  BY <1>2 DEF IInv, Built, BasicOK, BlockedLines
<1>6. ASSUME NEW e \in Extras
      PROVE  /\ candidates'[e].priority \in Nat /\ candidates'[e].priority > 100
             /\ e = CouponSlot => candidates'[e].targets \subseteq Lines
             /\ \A i \in accepted :
                  /\ ~Conflict(candidates'[e], candidates[i])
                  /\ e = CouponSlot /\ "COUPON" \in candidates[i].excludes =>
                        candidates'[e].targets \cap candidates[i].targets = {}
  <2>1. CASE e = EntitlementSlot
    BY <2>1, <1>3, <1>4, <1>5 DEF EntitlementCandidate, Conflict
  <2>2. CASE e = CouponSlot
    BY <2>2, <1>3, <1>4, <1>5 DEF CouponCandidate, Conflict, TargetLines
  <2>3. CASE e = CounterSlot
    BY <2>3, <1>3, <1>4, <1>5 DEF CounterCandidate, Conflict
  <2>4. QED
    BY <1>3, <2>1, <2>2, <2>3
<1>7. Built'
  <2>1. \A i \in Basic : BasicOK(i, candidates[i])'
    <3>1. \A i \in Basic : BasicOK(i, candidates[i])
      BY DEF IInv, Built
    <3>2. QED
      BY <3>1, <1>4, SameInputs DEF StartSecondPass, BasicOK
  <2>2. \A e \in Extras : ExtraOK(e, candidates[e])'
    BY <1>1, <1>2, <1>4, <1>6 DEF ExtraOK, Conflict
  <2>3. QED
    BY <1>1, <1>2, <1>3, <1>4, <2>1, <2>2 DEF Built
<1>8. Kept'
  <2>1. Kernel(accepted, Basic)
    BY <1>2 DEF IInv
  <2>2. \A i, j \in Basic : Before(i, j)' <=> Before(i, j)
    BY <1>4 DEF Before
  <2>3. QED
    BY <1>1, <1>2, <1>4, <2>1, <2>2 DEF Kept, Kernel
<1>9. QED
  BY <1>1, <1>2, <1>7, <1>8 DEF IInv, Sorted, Kernel, Agreed

\* The order's evaluation starts as the quote's did.
LEMMA PlaceOrderOK ==
    ASSUME IInv, PlaceOrder
    PROVE  IInv'
<1>1. InputsOK' /\ UNCHANGED Basic
  BY SameInputs DEF IInv, PlaceOrder
<1>2. (InputsOK => \A i \in Basic : BasicOK(i, BasicCandidates[i]))'
  BY BasicFacts, PTL
<1>3. DOMAIN candidates' = Basic'
  BY DEF PlaceOrder, BasicCandidates
<1>4. Built'
  BY <1>1, <1>2, <1>3 DEF PlaceOrder, Built
<1>5. QED
  BY <1>1, <1>4 DEF PlaceOrder, IInv, Sorted, Kernel, Kept, Agreed

LEMMA StayOK ==
    ASSUME IInv, UNCHANGED <<inputs, candidates, considered, accepted, kept>>,
           phase' = "rules" <=> phase = "rules"
    PROVE  IInv'
BY SameInputs, SameCandidates DEF IInv, Sorted, Kernel, Kept, Agreed, Before

LEMMA NextOK == IInv /\ [Next]_vars => IInv'
<1> SUFFICES ASSUME IInv, [Next]_vars PROVE IInv'
  OBVIOUS
<1>1. ASSUME NEW i \in DOMAIN candidates, Consider(i) PROVE IInv'
  BY <1>1, ConsiderOK
<1>2. CASE StartSecondPass
  BY <1>2, StartSecondPassOK
<1>3. CASE PlaceOrder
  BY <1>3, PlaceOrderOK
<1>4. CASE Refuse \/ Quote \/ CreateOrder \/ UNCHANGED vars
  BY <1>4, StayOK DEF Refuse, Quote, CreateOrder, vars, Evaluated
<1>5. QED
  BY <1>1, <1>2, <1>3, <1>4 DEF Next

LEMMA PromotionsInductive == Spec => []IInv
BY InitOK, NextOK, PTL DEF Spec

-----------------------------------------------------------------------------
(* The properties.                                                          *)

LEMMA KernelIsGreedy == IInv => OutcomeIsGreedy
BY DEF IInv, Kernel, OutcomeIsGreedy

LEMMA KeptIsAccepted == IInv => PassesAgree
<1> SUFFICES ASSUME IInv, Complete PROVE {i \in accepted : i < EntitlementSlot} = kept
  BY DEF PassesAgree
<1>1. /\ accepted \subseteq DOMAIN candidates /\ Basic \subseteq considered
      /\ kept \subseteq Basic /\ \A i \in Basic : i \in accepted <=> i \in kept
  BY DEF IInv, Complete, Kernel, Built, Kept, Agreed
<1>2. \A i \in DOMAIN candidates : i < EntitlementSlot <=> i \in Basic
  BY Places DEF IInv, Built
<1>3. QED
  BY <1>1, <1>2

\* Before a special there are only specials, of other lines.
LEMMA NothingBeforeSpecials == IInv => SpecialsStand
<1> SUFFICES ASSUME IInv, Complete, NEW l \in SpecialLines PROVE l \in accepted
  BY DEF SpecialsStand
<1>1. l \in Basic /\ l \in considered /\ BasicOK(l, candidates[l])
  BY DEF IInv, Complete, Built, Basic
<1>0. candidates[l].eligible /\ candidates[l].priority = 100 /\ l \in Nat
  <2>1. l \in Nat
    BY <1>1, Places DEF IInv
  <2>2. QED
    BY <1>1, <2>1 DEF BasicOK
<1>2. ASSUME NEW j \in accepted, Before(j, l)
      PROVE  ~Conflict(candidates[j], candidates[l])
  <2>1. j \in DOMAIN candidates
    BY DEF IInv, Kernel, Sorted
  <2>2. j \in SpecialLines
    BY <1>1, <1>2, <2>1 DEF IInv, Built, BasicOK, ExtraOK, Before
  <2>3. j \in Basic /\ BasicOK(j, candidates[j])
    BY <2>2 DEF IInv, Built, Basic
  <2>4. j # l
    BY <1>0, <1>2 DEF Before
  <2>5. QED
    BY <1>1, <2>2, <2>3, <2>4 DEF BasicOK, Conflict
<1>3. Kernel(accepted, considered)
  BY DEF IInv
<1>4. QED
  BY <1>1, <1>0, <1>2, <1>3 DEF Kernel

LEMMA CouponIsDisjoint == IInv => CouponSparesLines
<1> SUFFICES ASSUME IInv, Complete, CouponSlot \in accepted,
                    NEW l \in candidates[CouponSlot].targets
             PROVE  /\ ~(basket[l].special.mode # "NONE" /\ basket[l].special.noCoupons)
                    /\ \A r \in DOMAIN rules :
                          RuleSlot(r) \in accepted /\ rules[r].excludesCoupons =>
                              l \notin candidates[RuleSlot(r)].targets
  BY DEF CouponSparesLines
<1>1. CouponSlot \in DOMAIN candidates \ Basic
  BY Places DEF IInv, Kernel, Sorted
<1>2. /\ l \in Lines
      /\ \A i \in kept : "COUPON" \in candidates[i].excludes => l \notin candidates[i].targets
  BY <1>1 DEF IInv, Built, ExtraOK
<1>3. /\ \A i \in Basic : BasicOK(i, candidates[i])
      /\ \A i \in Basic : i \in accepted => i \in kept
  BY DEF IInv, Complete, Built, Agreed
<1>4. ~(basket[l].special.mode # "NONE" /\ basket[l].special.noCoupons)
  <2> SUFFICES ASSUME basket[l].special.mode # "NONE", basket[l].special.noCoupons
               PROVE  FALSE
    OBVIOUS
  <2>1. l \in SpecialLines
    BY <1>2 DEF SpecialLines
  <2>2. l \in accepted /\ l \in Basic
    BY <2>1, NothingBeforeSpecials DEF SpecialsStand, Basic
  <2>3. BasicOK(l, candidates[l]) /\ l \in kept
    BY <1>3, <2>2
  <2>4. /\ candidates[l].targets = {l}
        /\ basket[l].special.noCoupons => "COUPON" \in candidates[l].excludes
    BY <2>1, <2>3 DEF BasicOK
  <2>5. QED
    BY <1>2, <2>3, <2>4
<1>5. ASSUME NEW r \in DOMAIN rules, RuleSlot(r) \in accepted, rules[r].excludesCoupons
      PROVE  l \notin candidates[RuleSlot(r)].targets
  <2>1. RuleSlot(r) \in Basic
    BY DEF Basic
  <2>2. BasicOK(RuleSlot(r), candidates[RuleSlot(r)]) /\ RuleSlot(r) \in kept
    BY <1>3, <1>5, <2>1
  <2>3. rules[r].excludesCoupons => "COUPON" \in candidates[RuleSlot(r)].excludes
    BY <2>2 DEF BasicOK
  <2>4. QED
    BY <1>2, <1>5, <2>2, <2>3
<1>6. QED
  BY <1>4, <1>5

\* What an evaluation accepts is what the greedy choice in the order of the
\* priorities describes (resolvePromotionCandidates), for all candidates.
THEOREM PromotionsOutcomeIsGreedy == Spec => []OutcomeIsGreedy
BY PromotionsInductive, KernelIsGreedy, PTL

\* The pass with the coupons accepts the specials and rules that the pass
\* without them did (evaluateOrderPromotions), so that the lines the coupon
\* was computed from are the right ones.
THEOREM PromotionsPassesAgree == Spec => []PassesAgree
BY PromotionsInductive, KeptIsAccepted, PTL

\* A special that is in the price of its line is always accepted: the adapter
\* of the rules keeps them behind the specials.
THEOREM PromotionsSpecialsStand == Spec => []SpecialsStand
BY PromotionsInductive, NothingBeforeSpecials, PTL

\* An accepted coupon is computed from no line that a special or an accepted
\* rule keeps from coupons.
THEOREM PromotionsCouponSparesLines == Spec => []CouponSparesLines
BY PromotionsInductive, CouponIsDisjoint, PTL

-----------------------------------------------------------------------------
(* What a buy-x-get-y rule gives away.                                      *)

\* The rules are rules the administrator's form let through, and the keys of
\* the lines are different.
Ranked ==
    /\ InputsOK /\ rank \in Ranks
    /\ \A r \in DOMAIN rules : Disjoint(rules[r])

StrictOrder(R, T) ==
    /\ \A u \in T : <<u, u>> \notin R
    /\ \A u, v, w \in T : <<u, v>> \in R /\ <<v, w>> \in R => <<u, w>> \in R
    /\ \A u, v \in T : u = v \/ <<u, v>> \in R \/ <<v, u>> \in R

\* No more than n members of an ordered set have fewer than n before them.
LEMMA FirstOnes ==
    ASSUME NEW T, IsFiniteSet(T), NEW R, StrictOrder(R, T), NEW n \in Nat
    PROVE  LET first == {u \in T : Cardinality({v \in T : <<v, u>> \in R}) < n}
           IN  IsFiniteSet(first) /\ Cardinality(first) <= n
<1> DEFINE Below(u) == {v \in T : <<v, u>> \in R}
           first == {u \in T : Cardinality(Below(u)) < n}
           f == [u \in first |-> Cardinality(Below(u))]
<1>1. \A u \in T : IsFiniteSet(Below(u)) /\ Cardinality(Below(u)) \in Nat
  BY FS_Subset, FS_CardinalityType
<1>2. ASSUME NEW u \in T, NEW w \in T, <<u, w>> \in R
      PROVE  Cardinality(Below(u)) # Cardinality(Below(w))
  <2>1. Below(u) \in SUBSET Below(w)
    BY <1>2 DEF StrictOrder
  <2>2. u \in Below(w) /\ u \notin Below(u)
    BY <1>2 DEF StrictOrder
  <2>3. Below(u) # Below(w)
    BY <2>2
  <2> HIDE DEF Below
  <2>4. QED
    BY <1>1, <2>1, <2>3, FS_Subset
<1>3. f \in [first -> 0..(n - 1)]
  <2> HIDE DEF Below
  <2>1. QED
    BY <1>1
<1>4. \A u, w \in first : f[u] = f[w] => u = w
  <2> HIDE DEF Below
  <2>1. QED
    BY <1>2 DEF StrictOrder
<1> HIDE DEF f, first
<1>5. f \in Injection(first, 0..(n - 1))
  BY <1>3, <1>4 DEF Injection, IsInjective
<1>6. IsFiniteSet(0..(n - 1)) /\ Cardinality(0..(n - 1)) = n
  <2>1. 0 \in Int /\ n - 1 \in Int /\ (0 > n - 1 => n = 0) /\ (n - 1) - 0 + 1 = n
    OBVIOUS
  <2>2. QED
    BY <2>1, FS_Interval
<1>7. IsFiniteSet(first) /\ Cardinality(first) <= n
  BY <1>5, <1>6, FS_Injection
<1>8. QED
  BY <1>7 DEF first

LEMMA PricesAreNat ==
    ASSUME InputsOK, NEW l \in Lines
    PROVE  /\ LineTotal(l) \in Nat /\ basket[l].quantity \in Nat \ {0}
           /\ Rounded(LineTotal(l), basket[l].quantity) \in Int
<1>1. basket[l] \in LineRecords
  BY DEF InputsOK, Lines
<1>2. /\ basket[l].quantity \in Nat \ {0} /\ basket[l].base \in Nat /\ basket[l].options \in Nat
      /\ basket[l].custom \in Nat \cup {NoCustomPrice}
  BY <1>1 DEF LineRecords
<1>3. ASSUME NEW b \in Nat, NEW x PROVE AtLeastZero(AtMost(b, x)) \in Nat \/ x \notin Int
  BY DEF AtLeastZero, AtMost
<1>4. ASSUME NEW a \in Int, NEW b \in Nat \ {0} PROVE Rounded(a, b) \in Int
  BY DEF Rounded
<1>5. UnitPrice(l) \in Nat
  <2>1. CASE IsCustom(l)
    BY <1>2, <2>1 DEF UnitPrice, IsCustom, NoCustomPrice
  <2>2. CASE ~IsCustom(l)
    <3> DEFINE s == basket[l].special
               b == basket[l].base
    <3>1. s.value \in Nat
      BY <1>1 DEF LineRecords
    <3>2. b - s.value \in Int /\ Rounded(b * (100 - s.value), 100) \in Int
      <4>1. b * (100 - s.value) \in Int
        BY <1>2, <3>1
      <4>2. QED
        BY <1>2, <1>4, <3>1, <4>1
    <3>3. LinePrice(b, s) \in Nat
      BY <1>2, <3>1, <3>2 DEF LinePrice, AtLeastZero, AtMost
    <3>4. QED
      BY <1>2, <2>2, <3>3 DEF UnitPrice
  <2>3. QED
    BY <2>1, <2>2
<1>6. LineTotal(l) \in Nat
  BY <1>2, <1>5 DEF LineTotal
<1>7. QED
  BY <1>2, <1>4, <1>6

LEMMA UnitsAreFinite ==
    ASSUME InputsOK, NEW K, K \subseteq Lines
    PROVE  IsFiniteSet(UnitsOf(K)) /\ Cardinality(UnitsOf(K)) \in Nat
<1> DEFINE f == [l \in K |-> {l} \X (1..basket[l].quantity)]
           F == {{l} \X (1..basket[l].quantity) : l \in K}
<1>1. IsFiniteSet(K)
  <2>1. Lines = 1..Len(basket) /\ Len(basket) \in Nat
    BY DEF InputsOK, Lines
  <2>2. IsFiniteSet(Lines)
    BY <2>1, FS_Interval
  <2>3. QED
    BY <2>2, FS_Subset
<1>2. f \in Surjection(K, F)
  <2>1. f \in [K -> F] /\ \A t \in F : \E l \in K : f[l] = t
    OBVIOUS
  <2> HIDE DEF f, F
  <2>2. QED
    BY <2>1 DEF Surjection
<1>3. IsFiniteSet(F)
  <2> HIDE DEF f, F
  <2>1. QED
    BY <1>1, <1>2, FS_Surjection
<1>4. \A t \in F : IsFiniteSet(t)
  <2>1. ASSUME NEW l \in K PROVE IsFiniteSet({l} \X (1..basket[l].quantity))
    <3>1. basket[l].quantity \in Nat
      BY PricesAreNat
    <3>2. IsFiniteSet(1..basket[l].quantity)
      <4> DEFINE q == basket[l].quantity
      <4>1. 1 \in Int /\ q \in Int
        BY <3>1
      <4> HIDE DEF q
      <4>2. IsFiniteSet(1..q)
        BY <4>1, FS_Interval
      <4>3. QED
        BY <4>2 DEF q
    <3>3. QED
      BY <3>2, FS_Singleton, FS_Product
  <2>2. QED
    BY <2>1
<1>5. IsFiniteSet(UNION F)
  <2> HIDE DEF F
  <2>1. QED
    BY <1>3, <1>4, FS_UNION
<1>6. QED
  BY <1>5, FS_CardinalityType DEF UnitsOf

\* The cheaper unit, and of equal ones the one with the smaller key, is a
\* choice between any two.
LEMMA CheaperOrders ==
    ASSUME Ranked, NEW K, K \subseteq Lines
    PROVE  LET T == UnitsOf(K)
           IN  StrictOrder({uv \in T \X T : Cheaper(uv[1], uv[2])}, T)
<1> DEFINE T == UnitsOf(K)
<1>1. ASSUME NEW u \in T
      PROVE  /\ u = <<u[1], u[2]>> /\ u[1] \in Lines /\ u[2] \in Int
             /\ RewardPrice(u) \in Int /\ rank[u[1]] \in Int
  <2>1. PICK l \in K : u \in {l} \X (1..basket[l].quantity)
    BY DEF UnitsOf
  <2>2. u = <<u[1], u[2]>> /\ u[1] \in Lines /\ u[2] \in Int
    BY <2>1
  <2>3. Lines \subseteq Int /\ rank \in [Lines -> Lines]
    BY DEF Ranked, InputsOK, Lines, Ranks
  <2>4. QED
    BY <2>2, <2>3, PricesAreNat DEF RewardPrice, Ranked
<1>2. \A k, l \in Lines : rank[k] = rank[l] => k = l
  BY DEF Ranked, Ranks
<1> HIDE DEF T
<1>3. \A u \in T : ~Cheaper(u, u)
  BY <1>1 DEF Cheaper
<1>4. \A u, v, w \in T : Cheaper(u, v) /\ Cheaper(v, w) => Cheaper(u, w)
  BY <1>1, <1>2 DEF Cheaper
<1>5. \A u, v \in T : u = v \/ Cheaper(u, v) \/ Cheaper(v, u)
  <2> SUFFICES ASSUME NEW u \in T, NEW v \in T, ~Cheaper(u, v), ~Cheaper(v, u) PROVE u = v
    OBVIOUS
  <2>1. u[1] = v[1]
    BY <1>1, <1>2 DEF Cheaper
  <2>2. u[2] = v[2]
    BY <1>1, <1>2, <2>1 DEF Cheaper
  <2>3. QED
    BY <1>1, <2>1, <2>2
<1> DEFINE R == {uv \in T \X T : Cheaper(uv[1], uv[2])}
<1>6. \A u, v \in T : <<u, v>> \in R <=> Cheaper(u, v)
  OBVIOUS
<1> HIDE DEF R
<1>7. StrictOrder(R, T)
  BY <1>3, <1>4, <1>5, <1>6 DEF StrictOrder
<1>8. QED
  BY <1>7 DEF R, T

\* A rule gives away no more units than its reward is.
LEMMA RewardIsBounded ==
    ASSUME Ranked, NEW rule, RewardQuantity(rule) \in Nat
    PROVE  /\ Rewarded(rule) \subseteq UnitsOf(TargetLines(rule.targets))
           /\ Cardinality(Rewarded(rule)) \in Nat
           /\ Cardinality(Rewarded(rule)) <= RewardQuantity(rule)
<1> DEFINE K == TargetLines(rule.targets)
           T == UnitsOf(K)
           R == {uv \in T \X T : Cheaper(uv[1], uv[2])}
           n == RewardQuantity(rule)
           first == {u \in T : Cardinality({v \in T : <<v, u>> \in R}) < n}
<1>1. K \subseteq Lines
  BY DEF TargetLines
<1>2. IsFiniteSet(T) /\ StrictOrder(R, T)
  BY <1>1, UnitsAreFinite, CheaperOrders DEF Ranked
<1>3. Rewarded(rule) = first
  <2>1. \A u \in T : {v \in T : <<v, u>> \in R} = {v \in T : Cheaper(v, u)}
    <3> HIDE DEF T
    <3>1. QED
      OBVIOUS
  <2>2. Rewarded(rule) = {u \in T : Cardinality({v \in T : Cheaper(v, u)}) < n}
    BY DEF Rewarded
  <2> HIDE DEF T, R, n
  <2>3. QED
    BY <2>1, <2>2
<1>4. IsFiniteSet(first) /\ Cardinality(first) <= n
  <2> HIDE DEF T, R, n
  <2>1. n \in Nat
    BY DEF n
  <2>2. QED
    BY <1>2, <2>1, FirstOnes
<1>5. first \subseteq T
  OBVIOUS
<1> HIDE DEF first, n
<1>6. QED
  BY <1>3, <1>4, <1>5, FS_CardinalityType DEF n

LEMMA Division ==
    ASSUME NEW a \in Nat, NEW d \in Nat \ {0}
    PROVE  a \div d \in Nat /\ (a \div d) * d <= a
<1>1. a \div d \in Int /\ d * (a \div d) <= a /\ a < d * (a \div d) + d
  OBVIOUS
<1>2. a \div d >= 0
  OBVIOUS
<1>3. QED
  BY <1>1, <1>2

\* Every set of bought units earns its reward, and where the same products are
\* bought and given a set has both in it.
LEMMA RuleRewardIsBought ==
    ASSUME Ranked, NEW r \in DOMAIN rules, rules[r].type = "BUY_X_GET_Y"
    PROVE  LET given == Rewarded(rules[r])
               bought == UnitsOf(TargetLines(rules[r].buy)) \ given
           IN  Cardinality(given) * rules[r].buyQuantity
                   <= Cardinality(bought) * rules[r].quantity
<1> DEFINE rule == rules[r]
           given == Rewarded(rule)
           U == UnitsOf(TargetLines(rule.buy))
           b == rule.buyQuantity
           q == rule.quantity
           k == QualifyingSets(rule)
<1>1. rule \in RuleRecords /\ Disjoint(rule)
  BY DEF Ranked, InputsOK
<1>2. b \in Nat \ {0} /\ q \in Nat \ {0} /\ rule.buy # {} /\ rule.targets # {}
      /\ (rule.buy = rule.targets \/ rule.buy \cap rule.targets = {})
  BY <1>1 DEF RuleRecords, Disjoint
<1>3. IsFiniteSet(U) /\ Cardinality(U) \in Nat
  BY UnitsAreFinite DEF TargetLines, Ranked
<1>4. /\ k \in Nat
      /\ rule.buy = rule.targets => k * (b + q) <= Cardinality(U)
      /\ rule.buy # rule.targets => k * b <= Cardinality(U)
  <2>1. k = Cardinality(U) \div (IF rule.buy = rule.targets THEN b + q ELSE b)
    BY DEF QualifyingSets, Quantity
  <2> HIDE DEF k, U, b, q
  <2>2. b + q \in Nat \ {0} /\ b \in Nat \ {0}
    BY <1>2
  <2>3. QED
    BY <1>3, <2>1, <2>2, Division
<1>5. RewardQuantity(rule) = k * q /\ k * q \in Nat
  BY <1>2, <1>4 DEF RewardQuantity
<1>6. /\ given \subseteq UnitsOf(TargetLines(rule.targets))
      /\ Cardinality(given) \in Nat /\ Cardinality(given) <= k * q
  BY <1>5, RewardIsBounded
<1>7. Cardinality(given) * b <= k * q * b
  <2> HIDE DEF given, k, b, q
  <2>1. QED
    BY <1>2, <1>4, <1>6
<1>8. CASE rule.buy = rule.targets
  <2>1. Cardinality(U \ given) = Cardinality(U) - Cardinality(given)
    <3>1. U \cap given = given
      BY <1>6, <1>8
    <3>2. QED
      BY <1>3, <3>1, FS_Difference
  <2>2. Cardinality(U \ given) >= k * b
    <3> HIDE DEF U, given, k, b, q
    <3>1. k * (b + q) = k * b + k * q /\ k * b \in Nat
      BY <1>2, <1>4
    <3>2. QED
      BY <1>2, <1>3, <1>4, <1>6, <1>8, <2>1, <3>1
  <2>3. Cardinality(U \ given) \in Int
    BY <1>3, <1>6, <2>1
  <2>4. Cardinality(U \ given) * q >= k * b * q
    <3> HIDE DEF U, given, k, b, q
    <3>1. QED
      BY <1>2, <1>4, <2>2, <2>3
  <2>5. QED
    <3> HIDE DEF U, given, k, b, q
    <3>1. k * b * q = k * q * b
      BY <1>2, <1>4
    <3>2. Cardinality(given) * b <= Cardinality(U \ given) * q
      BY <1>2, <1>4, <1>6, <1>7, <2>3, <2>4, <3>1
    <3>3. QED
      BY <3>2 DEF U, given, b, q
<1>9. CASE rule.buy \cap rule.targets = {}
  <2>1. U \ given = U
    <3>1. \A l \in TargetLines(rule.targets) : l \notin TargetLines(rule.buy)
      BY <1>2, <1>9 DEF TargetLines
    <3>2. UnitsOf(TargetLines(rule.targets)) \cap U = {}
      BY <3>1 DEF UnitsOf
    <3>3. QED
      BY <1>6, <3>2
  <2>2. k * b <= Cardinality(U)
    BY <1>2, <1>4, <1>9
  <2>3. k * b * q <= Cardinality(U) * q
    <3> HIDE DEF U, k, b, q
    <3>1. QED
      BY <1>2, <1>3, <1>4, <2>2
  <2>4. QED
    <3> HIDE DEF U, given, k, b, q
    <3>1. k * b * q = k * q * b
      BY <1>2, <1>4
    <3>2. Cardinality(given) * b <= Cardinality(U) * q
      BY <1>2, <1>3, <1>4, <1>6, <1>7, <2>3, <3>1
    <3>3. QED
      BY <2>1, <3>2 DEF U, given, b, q
<1>10. QED
  BY <1>2, <1>8, <1>9

LEMMA RankedNext == Ranked /\ [Next]_vars => Ranked'
<1> SUFFICES ASSUME Ranked, [Next]_vars PROVE Ranked'
  OBVIOUS
<1>1. UNCHANGED <<basket, rules>> /\ (UNCHANGED rank \/ rank' \in Ranks)
  BY DEF Next, Consider, StartSecondPass, Refuse, Quote, PlaceOrder, CreateOrder, vars, inputs
<1>2. Ranks' = Ranks
  BY <1>1 DEF Ranks, Lines
<1> QED
  BY <1>1, <1>2 DEF Ranked, InputsOK, Disjoint

LEMMA RankedInductive == Spec => []Ranked
<1>1. Init => Ranked
  BY PromotionAssumption DEF Init, Ranked, InputsOK
<1> QED
  BY <1>1, RankedNext, PTL DEF Spec

\* A buy-x-get-y rule gives away units in proportion to those that are paid
\* for, because its products are the same ones or different ones and the
\* cheapest units are counted out one by one.
THEOREM PromotionsRewardsAreBought == Spec => []RewardsAreBought
<1>1. Ranked => RewardsAreBought
  BY RuleRewardIsBought DEF RewardsAreBought
<1>2. QED
  BY <1>1, RankedInductive, PTL

-----------------------------------------------------------------------------
(* What the random keys of the lines decide.  Two orders of the units that  *)
(* agree on which side of the border a unit is give away the same units;    *)
(* keys only order units of one price on different lines.                   *)

FirstOf(T, R, n) == {u \in T : Cardinality({v \in T : <<v, u>> \in R}) < n}

\* Every non-empty set of subsets of a finite set has a smallest member.
LEMMA Smallest ==
    ASSUME NEW S, IsFiniteSet(S), NEW B, B \subseteq SUBSET S, B # {}
    PROVE  \E s \in B : \A t \in B : t \subseteq s => t = s
<1>1. IsWellFoundedOn(StrictSubsetOrdering(S), SUBSET S)
  BY FS_StrictSubsetOrderingWellFounded, FS_FiniteSubsetsOfFinite
<1>2. PICK s \in B : \A t \in B : ~(<<t, s>> \in StrictSubsetOrdering(S))
  BY <1>1, WFMin
<1>3. ASSUME NEW t \in B, t \subseteq s, t # s PROVE FALSE
  <2>1. <<t, s>> \in StrictSubsetOrdering(S)
    BY <1>3 DEF StrictSubsetOrdering
  <2> QED BY <2>1, <1>2
<1> QED BY <1>3

\* A set of members of an ordered finite set has a first one.
LEMMA FirstMember ==
    ASSUME NEW T, IsFiniteSet(T), NEW R, StrictOrder(R, T), NEW rest \in SUBSET T, rest # {}
    PROVE  \E u \in rest : \A w \in rest : <<w, u>> \notin R
<1> DEFINE Below(u) == {v \in T : <<v, u>> \in R}
           B == {Below(u) : u \in rest}
<1>1. PICK s \in B : \A t \in B : t \subseteq s => t = s
  <2>1. B \subseteq SUBSET T /\ B # {}
    OBVIOUS
  <2> HIDE DEF B
  <2> QED
    BY <2>1, Smallest
<1>2. PICK u \in rest : s = Below(u)
  BY <1>1
<1>3. ASSUME NEW w \in rest, <<w, u>> \in R PROVE FALSE
  <2>1. Below(w) \subseteq Below(u)
    BY <1>3 DEF StrictOrder
  <2>2. Below(w) \in B
    OBVIOUS
  <2>3. Below(w) = Below(u)
    <3> HIDE DEF Below, B
    <3> QED
      BY <1>1, <1>2, <2>1, <2>2
  <2>4. w \in Below(u) /\ w \notin Below(w)
    BY <1>3 DEF StrictOrder
  <2> QED
    BY <2>3, <2>4
<1> QED
  BY <1>3

\* The first ones come before the others.
LEMMA FirstOnesFirst ==
    ASSUME NEW T, IsFiniteSet(T), NEW R, StrictOrder(R, T), NEW n \in Nat,
           NEW u \in FirstOf(T, R, n), NEW v \in T \ FirstOf(T, R, n)
    PROVE  <<u, v>> \in R
<1> SUFFICES ASSUME <<u, v>> \notin R PROVE FALSE
  OBVIOUS
<1> DEFINE Below(w) == {x \in T : <<x, w>> \in R}
<1>1. u \in T /\ u # v
  BY DEF FirstOf
<1>2. <<v, u>> \in R
  BY <1>1 DEF StrictOrder
<1>3. Below(v) \subseteq Below(u)
  BY <1>1, <1>2 DEF StrictOrder
<1>4. /\ IsFiniteSet(Below(u)) /\ IsFiniteSet(Below(v))
      /\ Cardinality(Below(u)) \in Nat /\ Cardinality(Below(v)) \in Nat
  BY FS_Subset, FS_CardinalityType
<1>5. Cardinality(Below(v)) <= Cardinality(Below(u))
  <2> HIDE DEF Below
  <2> QED
    BY <1>3, <1>4, FS_Subset
<1>6. Cardinality(Below(u)) < n
  BY DEF FirstOf
<1>7. ~(Cardinality(Below(v)) < n)
  BY DEF FirstOf
<1> HIDE DEF Below
<1> QED
  BY <1>4, <1>5, <1>6, <1>7

\* They are as many as asked for, unless there are no others.
LEMMA FirstOnesAreAll ==
    ASSUME NEW T, IsFiniteSet(T), NEW R, StrictOrder(R, T), NEW n \in Nat,
           FirstOf(T, R, n) # T
    PROVE  n <= Cardinality(FirstOf(T, R, n))
<1> DEFINE first == FirstOf(T, R, n)
           Below(w) == {x \in T : <<x, w>> \in R}
<1>0. first \subseteq T
  BY DEF FirstOf
<1>1. PICK u \in T \ first : \A w \in T \ first : <<w, u>> \notin R
  <2>1. T \ first \in SUBSET T /\ T \ first # {}
    BY <1>0
  <2> HIDE DEF first
  <2> QED
    BY <2>1, FirstMember
<1>2. Below(u) \subseteq first
  BY <1>1
<1>3. IsFiniteSet(Below(u)) /\ IsFiniteSet(first)
  BY <1>0, FS_Subset
<1>4. ~(Cardinality(Below(u)) < n)
  BY DEF FirstOf
<1> HIDE DEF first, Below
<1>5. Cardinality(Below(u)) \in Nat /\ Cardinality(first) \in Nat
  BY <1>3, FS_CardinalityType
<1>6. Cardinality(Below(u)) <= Cardinality(first)
  BY <1>2, <1>3, FS_Subset
<1> QED
  BY <1>4, <1>5, <1>6 DEF first

LEMMA FirstOnesAgree ==
    ASSUME NEW T, IsFiniteSet(T), NEW R, StrictOrder(R, T), NEW Q, StrictOrder(Q, T),
           NEW n \in Nat,
           \A u \in FirstOf(T, Q, n), v \in T \ FirstOf(T, Q, n) : <<u, v>> \in R
    PROVE  FirstOf(T, R, n) = FirstOf(T, Q, n)
<1> DEFINE first == FirstOf(T, Q, n)
           Below(w) == {x \in T : <<x, w>> \in R}
<1>1. first \subseteq T /\ IsFiniteSet(first) /\ Cardinality(first) \in Nat
  <2>1. first \subseteq T
    BY DEF FirstOf
  <2> QED
    BY <2>1, FS_Subset, FS_CardinalityType
<1>2. Cardinality(first) <= n
  BY FirstOnes DEF FirstOf
<1>3. ASSUME NEW u \in T PROVE IsFiniteSet(Below(u)) /\ Cardinality(Below(u)) \in Nat
  BY FS_Subset, FS_CardinalityType
<1>4. ASSUME NEW u \in first PROVE Cardinality(Below(u)) < n
  <2>1. Below(u) \subseteq first
    BY <1>1 DEF StrictOrder
  <2>2. u \in first /\ u \notin Below(u)
    BY <1>1 DEF StrictOrder
  <2>5. u \in T
    BY <1>1
  <2>6. IsFiniteSet(Below(u)) /\ Cardinality(Below(u)) \in Nat
    BY <1>3, <2>5
  <2> HIDE DEF first, Below
  <2>3. Below(u) # first /\ Below(u) \in SUBSET first
    BY <2>1, <2>2
  <2>4. Cardinality(Below(u)) < Cardinality(first)
    <3>1. /\ Cardinality(Below(u)) <= Cardinality(first)
          /\ Cardinality(Below(u)) = Cardinality(first) => Below(u) = first
      BY <1>1, <2>3, FS_Subset
    <3> QED
      BY <1>1, <2>3, <2>6, <3>1
  <2> QED
    BY <1>1, <1>2, <1>3, <2>4, <2>5
<1>5. ASSUME NEW v \in T \ first PROVE ~(Cardinality(Below(v)) < n)
  <2>1. first \subseteq Below(v)
    BY <1>1
  <2>2. n <= Cardinality(first)
    BY FirstOnesAreAll
  <2>3. IsFiniteSet(Below(v)) /\ Cardinality(Below(v)) \in Nat
    BY <1>3
  <2> HIDE DEF first, Below
  <2>4. Cardinality(first) <= Cardinality(Below(v))
    BY <2>1, <2>3, FS_Subset
  <2> QED
    BY <1>1, <2>2, <2>3, <2>4
<1>6. FirstOf(T, R, n) = {u \in T : Cardinality(Below(u)) < n}
  BY DEF FirstOf
<1> HIDE DEF first, Below
<1>7. FirstOf(T, R, n) = first
  BY <1>1, <1>4, <1>5, <1>6
<1> QED
  BY <1>7 DEF first

\* The order in which a rule gives away its units.
PriceOrder(rule) ==
    LET T == UnitsOf(TargetLines(rule.targets))
    IN  {uv \in T \X T : Cheaper(uv[1], uv[2])}

FirstAreGiven ==
    \A rule :
        /\ IsFiniteSet(UnitsOf(TargetLines(rule.targets)))
        /\ StrictOrder(PriceOrder(rule), UnitsOf(TargetLines(rule.targets)))
        /\ Rewarded(rule) = FirstOf(UnitsOf(TargetLines(rule.targets)), PriceOrder(rule),
                                    RewardQuantity(rule))

LEMMA RewardsAreFirst == Ranked => FirstAreGiven
<1> SUFFICES ASSUME Ranked, NEW rule
             PROVE  /\ IsFiniteSet(UnitsOf(TargetLines(rule.targets)))
                    /\ StrictOrder(PriceOrder(rule), UnitsOf(TargetLines(rule.targets)))
                    /\ Rewarded(rule) = FirstOf(UnitsOf(TargetLines(rule.targets)),
                                                PriceOrder(rule), RewardQuantity(rule))
  BY DEF FirstAreGiven
<1> DEFINE K == TargetLines(rule.targets)
           T == UnitsOf(K)
           R == PriceOrder(rule)
<1>1. K \subseteq Lines
  BY DEF TargetLines
<1>2. IsFiniteSet(T) /\ StrictOrder(R, T)
  BY <1>1, UnitsAreFinite, CheaperOrders DEF Ranked, PriceOrder
<1>3. \A u, v \in T : <<v, u>> \in R <=> Cheaper(v, u)
  <2> DEFINE U == T
  <2>1. R = {uv \in U \X U : Cheaper(uv[1], uv[2])}
    BY DEF PriceOrder
  <2> HIDE DEF U, R
  <2>2. \A u, v \in U : <<v, u>> \in R <=> Cheaper(v, u)
    BY <2>1
  <2> QED
    BY <2>2 DEF U, R
<1>4. Rewarded(rule) = {u \in T : Cardinality({v \in T : Cheaper(v, u)}) < RewardQuantity(rule)}
  BY DEF Rewarded
<1> HIDE DEF T, R
<1>5. \A u \in T : {v \in T : <<v, u>> \in R} = {v \in T : Cheaper(v, u)}
  BY <1>3
<1>6. Rewarded(rule) = FirstOf(T, R, RewardQuantity(rule))
  BY <1>4, <1>5 DEF FirstOf
<1> QED
  BY <1>2, <1>6 DEF T, R

LEMMA RewardsAreCounted ==
    ASSUME Ranked, NEW rule \in RuleRecords PROVE RewardQuantity(rule) \in Nat
<1> DEFINE b == rule.buyQuantity
           q == rule.quantity
           c == Cardinality(UnitsOf(TargetLines(rule.buy)))
<1>1. b \in Nat \ {0} /\ q \in Nat \ {0}
  BY DEF RuleRecords
<1>2. c \in Nat
  BY UnitsAreFinite DEF TargetLines, Ranked
<1>3. QualifyingSets(rule) \in Nat
  <2>1. QualifyingSets(rule) = c \div (IF rule.buy = rule.targets THEN b + q ELSE b)
    BY DEF QualifyingSets, Quantity
  <2> HIDE DEF b, q, c
  <2>2. b + q \in Nat \ {0}
    BY <1>1
  <2> QED
    BY <1>1, <1>2, <2>1, <2>2, Division
<1>4. QualifyingSets(rule) * q \in Nat
  BY <1>1, <1>3
<1> QED
  BY <1>1, <1>4 DEF RewardQuantity

\* Prices and units are computed from the inputs alone.
LEMMA SamePrices ==
    ASSUME UNCHANGED inputs
    PROVE  /\ \A l : LineTotal(l)' = LineTotal(l)
           /\ \A K : UnitsOf(K)' = UnitsOf(K) /\ Subtotal(K)' = Subtotal(K)
           /\ \A products : TargetLines(products)' = TargetLines(products)
           /\ \A u : RewardPrice(u)' = RewardPrice(u)
           /\ \A rule : RewardQuantity(rule)' = RewardQuantity(rule)
<1>0. UNCHANGED <<basket, Lines>>
  BY DEF inputs, Lines
<1>1. \A l : LineTotal(l)' = LineTotal(l)
  BY <1>0 DEF LineTotal, UnitPrice, IsCustom
<1>2. \A K : UnitsOf(K)' = UnitsOf(K)
  BY <1>0 DEF UnitsOf
<1>3. \A K : Subtotal(K)' = Subtotal(K)
  <2> SUFFICES ASSUME NEW K PROVE Subtotal(K)' = Subtotal(K)
    OBVIOUS
  <2>1. [l \in K |-> LineTotal(l)'] = [l \in K |-> LineTotal(l)]
    BY <1>1
  <2> QED
    BY <2>1 DEF Subtotal
<1>4. \A products : TargetLines(products)' = TargetLines(products)
  BY <1>0 DEF TargetLines
<1>5. \A u : RewardPrice(u)' = RewardPrice(u)
  BY <1>0, <1>1 DEF RewardPrice
<1>6. \A rule : RewardQuantity(rule)' = RewardQuantity(rule)
  <2> SUFFICES ASSUME NEW rule PROVE RewardQuantity(rule)' = RewardQuantity(rule)
    OBVIOUS
  <2>1. UnitsOf(TargetLines(rule.buy))' = UnitsOf(TargetLines(rule.buy))
    <3>1. TargetLines(rule.buy)' = TargetLines(rule.buy)
      BY <1>4
    <3> QED
      BY <1>0, <3>1 DEF UnitsOf
  <2> QED
    BY <2>1 DEF RewardQuantity, QualifyingSets, Quantity
<1> QED
  BY <1>1, <1>2, <1>3, <1>4, <1>5, <1>6

LEMMA SameUnits ==
    ASSUME UNCHANGED inputs, NEW rule
    PROVE  UnitsOf(TargetLines(rule.targets))' = UnitsOf(TargetLines(rule.targets))
<1>1. TargetLines(rule.targets)' = TargetLines(rule.targets) /\ UNCHANGED basket
  BY SamePrices DEF inputs
<1> QED
  BY <1>1 DEF UnitsOf

\* New keys, but no tie: the same units are given away.
LEMMA RewardsStay ==
    ASSUME Ranked, Ranked', UNCHANGED inputs, NEW rule \in RuleRecords,
           UNCHANGED rank \/ ~Tied(rule)'
    PROVE  Rewarded(rule)' = Rewarded(rule)
<1> DEFINE T == UnitsOf(TargetLines(rule.targets))
           n == RewardQuantity(rule)
           R == PriceOrder(rule)
           Q == PriceOrder(rule)'
<1>1. T' = T /\ n' = n /\ \A u : RewardPrice(u)' = RewardPrice(u)
  BY SamePrices, SameUnits
<1>2. n \in Nat
  BY RewardsAreCounted
<1>3. IsFiniteSet(T) /\ StrictOrder(R, T) /\ Rewarded(rule) = FirstOf(T, R, n)
  BY RewardsAreFirst DEF FirstAreGiven
<1>4. StrictOrder(Q, T) /\ Rewarded(rule)' = FirstOf(T, Q, n)
  <2>1. (Ranked => FirstAreGiven)'
    BY RewardsAreFirst, PTL
  <2>2. StrictOrder(Q, T') /\ Rewarded(rule)' = FirstOf(T', Q, n')
    BY <2>1 DEF FirstAreGiven
  <2> QED
    BY <1>1, <2>2
<1>5. \A u, v \in T : /\ <<u, v>> \in R <=> Cheaper(u, v)
                      /\ <<u, v>> \in Q <=> Cheaper(u, v)'
  <2> DEFINE U == T
  <2>1. R = {uv \in U \X U : Cheaper(uv[1], uv[2])}
    BY DEF PriceOrder
  <2>2. Q = {uv \in T' \X T' : Cheaper(uv[1], uv[2])'}
    BY DEF PriceOrder
  <2>3. T' = U
    BY <1>1
  <2> HIDE DEF U, R, Q, T
  <2>4. \A u, v \in U : /\ <<u, v>> \in R <=> Cheaper(u, v)
                        /\ <<u, v>> \in Q <=> Cheaper(u, v)'
    BY <2>1, <2>2, <2>3
  <2> QED
    BY <2>4 DEF U
<1>6. ASSUME NEW u \in Rewarded(rule)', NEW v \in T \ Rewarded(rule)'
      PROVE  <<u, v>> \in R
  <2>1. u \in T /\ v \in T /\ <<u, v>> \in Q
    <3>1. u \in T
      BY <1>4 DEF FirstOf
    <3> HIDE DEF T, Q, n
    <3> QED
      BY <1>2, <1>3, <1>4, <3>1, FirstOnesFirst
  <2>2. Cheaper(u, v)'
    BY <1>5, <2>1
  <2>3. CASE UNCHANGED rank
    BY <1>1, <1>5, <2>1, <2>2, <2>3 DEF Cheaper
  <2>4. CASE ~Tied(rule)'
    <3>1. ~(u[1] # v[1] /\ RewardPrice(u)' = RewardPrice(v)')
      BY <1>1, <2>1, <2>4 DEF Tied
    <3>2. u[1] \in Lines /\ rank'[u[1]] \in Int
      <4>1. u[1] \in Lines
        BY <2>1 DEF UnitsOf, TargetLines
      <4>2. Lines' = Lines /\ rank' \in [Lines -> Lines] /\ Lines \subseteq Int
        BY DEF Ranked, InputsOK, Ranks, Lines, inputs
      <4> QED
        BY <4>1, <4>2
    <3> QED
      BY <1>1, <1>5, <2>1, <2>2, <3>1, <3>2 DEF Cheaper
  <2> QED
    BY <2>3, <2>4
<1> HIDE DEF T, n, R, Q
<1>7. FirstOf(T, R, n) = FirstOf(T, Q, n)
  BY <1>2, <1>3, <1>4, <1>6, FirstOnesAgree
<1> QED
  BY <1>3, <1>4, <1>7

\* No rule gives away one of several units of one price.
NoTies == \A r \in DOMAIN rules : GivesUnits(rules[r]) => ~Tied(rules[r])

LEMMA RewardOfRuleStays ==
    ASSUME Ranked, Ranked', UNCHANGED inputs, UNCHANGED rank \/ NoTies',
           NEW r \in DOMAIN rules, NEW rule, rule = rules[r], GivesUnits(rule)
    PROVE  Rewarded(rule)' = Rewarded(rule)
<1>1. rule \in RuleRecords
  BY DEF Ranked, InputsOK
<1>2. rules' = rules
  BY DEF inputs
<1>3. NoTies' => ~Tied(rule)'
  BY <1>2 DEF NoTies, Tied, GivesUnits
<1> QED
  BY <1>1, <1>3, RewardsStay

LEMMA RewardsOfRulesStay ==
    ASSUME Ranked, Ranked', UNCHANGED inputs, UNCHANGED rank \/ NoTies'
    PROVE  \A r \in DOMAIN rules :
              GivesUnits(rules[r]) => Rewarded(rules[r])' = Rewarded(rules[r])
<1> SUFFICES ASSUME NEW r \in DOMAIN rules, GivesUnits(rules[r])
             PROVE  Rewarded(rules[r])' = Rewarded(rules[r])
  OBVIOUS
<1>1. PICK rule : rule = rules[r]
  OBVIOUS
<1>2. rules' = rules
  BY DEF inputs
<1>3. Rewarded(rule)' = Rewarded(rule)
  BY <1>1, RewardOfRuleStays
<1> QED
  BY <1>1, <1>2, <1>3 DEF Rewarded, UnitsOf, TargetLines, RewardQuantity, QualifyingSets,
                          Quantity

LEMMA TiesStay ==
    ASSUME Ranked, Ranked', UNCHANGED inputs, UNCHANGED rank \/ NoTies'
    PROVE  NoTies' <=> NoTies
<1>0. rules' = rules
  BY DEF inputs
<1>1. ASSUME NEW r \in DOMAIN rules, GivesUnits(rules[r])
      PROVE  Tied(rules[r])' <=> Tied(rules[r])
  <2>1. Rewarded(rules[r])' = Rewarded(rules[r])
    BY <1>1, RewardsOfRulesStay
  <2>2. UnitsOf(TargetLines(rules[r].targets))' = UnitsOf(TargetLines(rules[r].targets))
    BY SameUnits, <1>0 DEF inputs, UnitsOf, TargetLines, Lines
  <2> QED
    BY <2>1, <2>2, SamePrices DEF Tied
<1> QED
  BY <1>0, <1>1 DEF NoTies, GivesUnits

LEMMA RuleCandidatesStay ==
    ASSUME UNCHANGED inputs, NEW rule,
           GivesUnits(rule) => Rewarded(rule)' = Rewarded(rule)
    PROVE  RuleCandidate(rule)' = RuleCandidate(rule)
<1>0. UNCHANGED Lines
  BY DEF inputs, Lines
<1>1. /\ Subtotal(TargetLines(rule.targets))' = Subtotal(TargetLines(rule.targets))
      /\ Subtotal(Lines)' = Subtotal(Lines)
  <2>1. TargetLines(rule.targets)' = TargetLines(rule.targets)
    BY SamePrices
  <2>2. PICK K, L : K = TargetLines(rule.targets) /\ L = Lines
    OBVIOUS
  <2>3. Subtotal(K)' = Subtotal(K) /\ Subtotal(L)' = Subtotal(L)
    BY SamePrices
  <2> QED
    BY <1>0, <2>1, <2>2, <2>3 DEF Subtotal
<1>2. ASSUME GivesUnits(rule) PROVE RewardDiscount(rule)' = RewardDiscount(rule)
  <2>1. Rewarded(rule)' = Rewarded(rule) /\ \A u : RewardPrice(u)' = RewardPrice(u)
    BY <1>2, SamePrices
  <2> DEFINE percent == IF rule.type = "FREE_ITEM" THEN 100 ELSE rule.percent
  <2>2. [u \in Rewarded(rule)' |-> Rounded(RewardPrice(u)' * percent, 100)]
            = [u \in Rewarded(rule) |-> Rounded(RewardPrice(u) * percent, 100)]
    BY <2>1
  <2> QED
    BY <2>2 DEF RewardDiscount
<1>3. RuleTargets(rule)' = RuleTargets(rule)
  <2>1. TargetLines(rule.targets)' = TargetLines(rule.targets)
    BY SamePrices
  <2>2. CASE GivesUnits(rule)
    BY <2>2 DEF RuleTargets, GivesUnits
  <2>3. CASE ~GivesUnits(rule)
    BY <1>0, <2>1, <2>3 DEF RuleTargets, GivesUnits
  <2> QED
    BY <2>2, <2>3
<1>4. RuleDiscount(rule)' = RuleDiscount(rule)
  <2>1. CASE GivesUnits(rule)
    BY <1>2, <2>1 DEF RuleDiscount, GivesUnits
  <2>2. CASE ~GivesUnits(rule)
    BY <1>1, <2>2 DEF RuleDiscount, GivesUnits
  <2> QED
    BY <2>1, <2>2
<1>5. RuleEligible(rule)' = RuleEligible(rule)
  <2>1. CASE GivesUnits(rule)
    BY <1>1, <1>2, <2>1 DEF RuleEligible, GivesUnits
  <2>2. CASE ~GivesUnits(rule)
    BY <1>1, <2>2 DEF RuleEligible, GivesUnits
  <2> QED
    BY <2>1, <2>2
<1> QED
  BY <1>3, <1>4, <1>5 DEF RuleCandidate

LEMMA BasicCandidatesStay ==
    ASSUME Ranked, Ranked', UNCHANGED inputs, UNCHANGED rank \/ NoTies'
    PROVE  BasicCandidates' = BasicCandidates
<1>0. UNCHANGED <<basket, rules, Lines, Basic>> /\ InputsOK
  BY SameInputs DEF inputs, Ranked
<1>1. ASSUME NEW i \in Lines PROVE SpecialCandidate(i)' = SpecialCandidate(i)
  BY <1>0 DEF SpecialCandidate, IsCustom
<1>2. ASSUME NEW r \in DOMAIN rules
      PROVE  RuleCandidate(rules[r])' = RuleCandidate(rules[r])
  <2>1. PICK rule : rule = rules[r]
    OBVIOUS
  <2>2. GivesUnits(rule) => Rewarded(rule)' = Rewarded(rule)
    BY <2>1, RewardOfRuleStays
  <2>3. RuleCandidate(rule)' = RuleCandidate(rule)
    BY <2>2, RuleCandidatesStay
  <2> QED
    BY <1>0, <2>1, <2>3
<1>3. ASSUME NEW i \in Basic
      PROVE  i \notin Lines => i - Len(basket) \in DOMAIN rules
  BY <1>0, Places DEF Basic, SpecialLines
<1> DEFINE F(k) == IF k \in Lines THEN SpecialCandidate(k)
                                  ELSE RuleCandidate(rules[k - Len(basket)])
<1>4. \A i \in Basic : F(i)' = F(i)
  BY <1>0, <1>1, <1>2, <1>3
<1>5. BasicCandidates = [k \in Basic |-> F(k)]
  BY DEF BasicCandidates
<1>6. BasicCandidates' = [k \in Basic' |-> F(k)']
  BY DEF BasicCandidates
<1> HIDE DEF F
<1> QED
  BY <1>0, <1>4, <1>5, <1>6

-----------------------------------------------------------------------------
(* The quote and the order.  An evaluation has one outcome for its          *)
(* candidates (OneKernel), the candidates of the rules change with the keys *)
(* only where there is a tie, and everything else is computed from the      *)
(* inputs: without a tie the order comes to the outcome of the quote.       *)

BeforeIn(c, i, j) ==
    \/ c[i].priority < c[j].priority
    \/ c[i].priority = c[j].priority /\ i < j

\* A is what a greedy choice from the candidates c accepts.
KernelIn(A, c) ==
    /\ A \subseteq DOMAIN c
    /\ \A i \in DOMAIN c :
          i \in A <=>
              /\ c[i].eligible
              /\ \A j \in A : BeforeIn(c, j, i) => ~Conflict(c[j], c[i])

Placed(c) ==
    /\ IsFiniteSet(DOMAIN c)
    /\ \A i \in DOMAIN c : i \in Nat /\ c[i].priority \in Nat

\* There is one such choice.
LEMMA OneKernel ==
    ASSUME NEW c, Placed(c), NEW A, KernelIn(A, c), NEW B, KernelIn(B, c)
    PROVE  A = B
<1> DEFINE D == DOMAIN c
           R == {ij \in D \X D : BeforeIn(c, ij[1], ij[2])}
           rest == {i \in D : ~(i \in A <=> i \in B)}
<1>1. \A i, j \in D : <<i, j>> \in R <=> BeforeIn(c, i, j)
  <2> HIDE DEF D
  <2> QED
    OBVIOUS
<1>2. IsFiniteSet(D) /\ \A i \in D : i \in Nat /\ c[i].priority \in Nat
  BY DEF Placed
<1>3. A \subseteq D /\ B \subseteq D
  BY DEF KernelIn
<1> HIDE DEF R, D
<1>4. StrictOrder(R, D)
  BY <1>1, <1>2 DEF StrictOrder, BeforeIn
<1> SUFFICES ASSUME rest # {} PROVE FALSE
  BY <1>3
<1>5. PICK u \in rest : \A w \in rest : <<w, u>> \notin R
  <2>1. rest \in SUBSET D
    OBVIOUS
  <2> HIDE DEF rest
  <2> QED
    BY <1>2, <1>4, <2>1, FirstMember
<1>6. \A j \in D : BeforeIn(c, j, u) => (j \in A <=> j \in B)
  BY <1>1, <1>5
<1>7. u \in A <=> u \in B
  BY <1>3, <1>6 DEF KernelIn, D
<1> QED
  BY <1>7

\* The lines a coupon may not touch when A was accepted of c, all candidates
\* then, and the price when A was accepted of these.
BlockedOf(c, A) == UNION {c[i].targets : i \in {j \in A : "COUPON" \in c[j].excludes}}

AllOf(c, A) ==
    [i \in DOMAIN c \cup Extras |->
        CASE i = EntitlementSlot -> EntitlementCandidate
          [] i = CouponSlot -> CouponCandidate(BlockedOf(c, A))
          [] i = CounterSlot -> CounterCandidate
          [] OTHER -> c[i]]

PriceOf(c, A) ==
    AtLeastZero(Subtotal(Lines) -
        SumFunction([i \in {j \in A : c[j].source \in
                                {"POS_MANUAL_DISCOUNT", "COUPON", "AUTOMATIC_PROMOTION"}} |->
                        c[i].cents]))

LEMMA AllCandidatesAre ==
    /\ AllCandidates = AllOf(candidates, accepted)
    /\ Price = PriceOf(candidates, accepted)
BY DEF AllCandidates, AllOf, BlockedLines, BlockedOf, Price, PriceOf, DiscountFrom

\* They are computed from the inputs.
LEMMA AllStay ==
    ASSUME UNCHANGED inputs, NEW c, NEW A
    PROVE  AllOf(c, A)' = AllOf(c, A) /\ PriceOf(c, A)' = PriceOf(c, A)
<1>0. /\ UNCHANGED <<basket, rules, coupon, entitlement, discount, Lines>>
      /\ UNCHANGED <<EntitlementSlot, CouponSlot, CounterSlot>>
  BY SameInputs DEF inputs
<1>1. Subtotal(Lines)' = Subtotal(Lines)
  <2>1. PICK K : K = Lines
    OBVIOUS
  <2>2. Subtotal(K)' = Subtotal(K)
    BY SamePrices
  <2> QED
    BY <1>0, <2>1, <2>2 DEF Subtotal
<1>2. Extras' = Extras
  BY <1>0, <1>1 DEF Extras
<1>3. EntitlementCandidate' = EntitlementCandidate
  BY <1>0 DEF EntitlementCandidate
<1>4. CounterCandidate' = CounterCandidate
  BY <1>0, <1>1 DEF CounterCandidate
<1>5. PICK blocked : blocked = BlockedOf(c, A)
  OBVIOUS
<1>6. CouponCandidate(blocked)' = CouponCandidate(blocked)
  <2>1. TargetLines(coupon.products)' = TargetLines(coupon.products)
    BY <1>0 DEF TargetLines
  <2>2. PICK K : K = TargetLines(coupon.products) \ blocked
    OBVIOUS
  <2>3. Subtotal(K)' = Subtotal(K)
    BY SamePrices
  <2>4. Subtotal(TargetLines(coupon.products) \ blocked)'
            = Subtotal(TargetLines(coupon.products) \ blocked)
    BY <2>1, <2>2, <2>3 DEF Subtotal
  <2> QED
    BY <1>0, <2>1, <2>4 DEF CouponCandidate
<1>7. AllOf(c, A)' = AllOf(c, A)
  BY <1>0, <1>2, <1>3, <1>4, <1>5, <1>6 DEF AllOf
<1>8. PriceOf(c, A)' = PriceOf(c, A)
  BY <1>1 DEF PriceOf
<1> QED
  BY <1>7, <1>8

\* What the running evaluation takes its candidates from.
Fresh ==
    /\ phase = "rules" => candidates = BasicCandidates
    /\ phase # "rules" => /\ KernelIn(kept, BasicCandidates)
                          /\ candidates = AllOf(BasicCandidates, kept)

\* The quoted price is that of an outcome of the candidates as they are now.
Outcome(b, A1, A2) ==
    /\ KernelIn(A1, b) /\ KernelIn(A2, AllOf(b, A1))
    /\ coupon.mode # "NONE" => CouponSlot \in A2

HonestQuote ==
    quoted # NoCustomPrice /\ NoTies =>
        \E A1, A2 : /\ Outcome(BasicCandidates, A1, A2)
                    /\ quoted = PriceOf(AllOf(BasicCandidates, A1), A2)

QuoteInv == IInv /\ Ranked /\ Fresh /\ HonestQuote /\ QuoteIsHonoured

LEMMA CandidatesArePlaced ==
    IInv => Placed(BasicCandidates) /\ Placed(candidates)
<1> SUFFICES ASSUME IInv PROVE Placed(BasicCandidates) /\ Placed(candidates)
  OBVIOUS
<1>1. InputsOK /\ Built /\ DOMAIN BasicCandidates = Basic
  BY DEF IInv, BasicCandidates
<1>2. \A i \in DOMAIN candidates : i \in Nat /\ candidates[i].priority \in Nat
  BY <1>1, Places DEF Built, BasicOK, ExtraOK
<1>3. \A i \in Basic : i \in Nat /\ BasicCandidates[i].priority \in Nat
  BY <1>1, Places, BasicFacts DEF BasicOK
<1>4. IsFiniteSet(DOMAIN candidates) /\ IsFiniteSet(Basic)
  <2>1. EntitlementSlot \in Nat /\ \A i \in DOMAIN candidates : i <= EntitlementSlot + 2
    BY <1>1, Places DEF Built
  <2>2. DOMAIN candidates \subseteq 0 .. (EntitlementSlot + 2)
    BY <1>2, <2>1
  <2>3. IsFiniteSet(0 .. (EntitlementSlot + 2))
    BY <2>1, FS_Interval
  <2> QED
    BY <1>1, <2>2, <2>3, FS_Subset DEF Built
<1> QED
  BY <1>1, <1>2, <1>3, <1>4 DEF Placed

\* An evaluation that is over has the outcome of its candidates.
LEMMA EvaluationIsOutcome ==
    ASSUME QuoteInv, Evaluated
    PROVE  /\ KernelIn(kept, BasicCandidates)
           /\ KernelIn(accepted, AllOf(BasicCandidates, kept))
           /\ Price = PriceOf(AllOf(BasicCandidates, kept), accepted)
<1>1. /\ phase # "rules" /\ considered = DOMAIN candidates
      /\ KernelIn(kept, BasicCandidates) /\ candidates = AllOf(BasicCandidates, kept)
  BY DEF Evaluated, QuoteInv, Fresh
<1>2. KernelIn(accepted, candidates)
  BY <1>1 DEF QuoteInv, IInv, Kernel, KernelIn, Before, BeforeIn
<1> QED
  BY <1>1, <1>2, AllCandidatesAre

\* Without a tie it is the one of the quote.
LEMMA OutcomeIsQuoted ==
    ASSUME QuoteInv, Evaluated, quoted # NoCustomPrice, NoTies
    PROVE  Price = quoted /\ ~CouponRefused
<1>1. PICK A1, A2 : /\ Outcome(BasicCandidates, A1, A2)
                    /\ quoted = PriceOf(AllOf(BasicCandidates, A1), A2)
  BY DEF QuoteInv, HonestQuote
<1>2. A1 = kept
  <2>1. Placed(BasicCandidates)
    BY CandidatesArePlaced DEF QuoteInv
  <2>2. PICK c : c = BasicCandidates
    OBVIOUS
  <2> QED
    BY <1>1, <2>1, <2>2, EvaluationIsOutcome, OneKernel DEF Outcome
<1>3. A2 = accepted
  <2>1. PICK c : c = AllOf(BasicCandidates, kept)
    OBVIOUS
  <2>2. Placed(c)
    BY <2>1, CandidatesArePlaced DEF QuoteInv, Fresh, Evaluated
  <2> QED
    BY <1>1, <1>2, <2>1, <2>2, EvaluationIsOutcome, OneKernel DEF Outcome
<1> QED
  BY <1>1, <1>2, <1>3, EvaluationIsOutcome DEF Outcome, CouponRefused

LEMMA QuoteInitially == Init => QuoteInv
<1> SUFFICES ASSUME Init PROVE QuoteInv
  OBVIOUS
<1>1. IInv /\ Ranked
  BY InitOK, PromotionAssumption DEF Init, Ranked, InputsOK
<1>2. Fresh /\ HonestQuote /\ QuoteIsHonoured
  BY DEF Init, Fresh, HonestQuote, QuoteIsHonoured
<1> QED
  BY <1>1, <1>2 DEF QuoteInv

LEMMA QuoteStep == QuoteInv /\ [Next]_vars => QuoteInv'
<1> SUFFICES ASSUME QuoteInv, [Next]_vars PROVE QuoteInv'
  OBVIOUS
<1>0. IInv' /\ Ranked'
  BY NextOK, RankedNext DEF QuoteInv
<1>1. UNCHANGED inputs /\ (UNCHANGED rank \/ PlaceOrder)
  BY DEF Next, Consider, StartSecondPass, Refuse, Quote, PlaceOrder, CreateOrder, vars
<1>2. ASSUME UNCHANGED rank \/ NoTies'
      PROVE  BasicCandidates' = BasicCandidates /\ (NoTies' <=> NoTies)
  BY <1>0, <1>1, <1>2, BasicCandidatesStay, TiesStay DEF QuoteInv
<1>3. \A c, A : AllOf(c, A)' = AllOf(c, A) /\ PriceOf(c, A)' = PriceOf(c, A)
  BY <1>1, AllStay
<1>4. UNCHANGED <<coupon, CouponSlot>>
  BY <1>1, SameInputs DEF inputs
<1>5. Fresh'
  <2>1. CASE StartSecondPass
    <3>1. BasicCandidates' = BasicCandidates
      BY <1>2, <2>1 DEF StartSecondPass
    <3>2. KernelIn(accepted, candidates) /\ candidates = BasicCandidates
      BY <2>1 DEF StartSecondPass, QuoteInv, Fresh, IInv, Kernel, KernelIn, Before, BeforeIn
    <3>3. phase' = "all" /\ kept' = accepted /\ candidates' = AllOf(candidates, accepted)
      BY <2>1, AllCandidatesAre DEF StartSecondPass
    <3>4. PICK b, A : b = BasicCandidates /\ A = accepted
      OBVIOUS
    <3>5. AllOf(BasicCandidates, kept)' = AllOf(b, A)
      <4>1. AllOf(BasicCandidates, kept)' = AllOf(b, A)'
        BY <3>1, <3>3, <3>4 DEF AllOf, BlockedOf
      <4> QED
        BY <1>3, <4>1
    <3>6. KernelIn(kept, BasicCandidates)'
      BY <3>1, <3>2, <3>3 DEF KernelIn, BeforeIn, Conflict
    <3> QED
      BY <3>2, <3>3, <3>4, <3>5, <3>6 DEF Fresh
  <2>2. CASE PlaceOrder
    BY <2>2 DEF PlaceOrder, Fresh
  <2>3. CASE /\ UNCHANGED <<candidates, kept, rank>>
             /\ phase' = "rules" <=> phase = "rules"
    <3>1. BasicCandidates' = BasicCandidates
      BY <1>2, <2>3
    <3>2. PICK b, A : b = BasicCandidates /\ A = kept
      OBVIOUS
    <3>3. AllOf(BasicCandidates, kept)' = AllOf(BasicCandidates, kept)
      <4>1. AllOf(BasicCandidates, kept)' = AllOf(b, A)'
        BY <2>3, <3>1, <3>2 DEF AllOf, BlockedOf
      <4> QED
        BY <1>3, <3>2, <4>1
    <3>4. KernelIn(kept, BasicCandidates)' <=> KernelIn(kept, BasicCandidates)
      BY <2>3, <3>1 DEF KernelIn, BeforeIn, Conflict
    <3> QED
      BY <2>3, <3>1, <3>3, <3>4 DEF QuoteInv, Fresh
  <2>4. \/ StartSecondPass \/ PlaceOrder
        \/ /\ UNCHANGED <<candidates, kept, rank>>
           /\ phase' = "rules" <=> phase = "rules"
    BY DEF Next, Consider, Refuse, Quote, CreateOrder, Evaluated, vars
  <2> QED
    BY <2>1, <2>2, <2>3, <2>4
<1>6. HonestQuote'
  <2> SUFFICES ASSUME quoted' # NoCustomPrice, NoTies'
               PROVE  (\E A1, A2 : /\ Outcome(BasicCandidates, A1, A2)
                                   /\ quoted = PriceOf(AllOf(BasicCandidates, A1), A2))'
    BY DEF HonestQuote
  <2>1. BasicCandidates' = BasicCandidates /\ NoTies
    BY <1>2
  <2>2. PICK A1, A2 : /\ Outcome(BasicCandidates, A1, A2)
                      /\ quoted' = PriceOf(AllOf(BasicCandidates, A1), A2)
    <3>1. CASE quoted' = quoted
      BY <2>1, <3>1 DEF QuoteInv, HonestQuote
    <3>2. CASE quoted' # quoted
      <4>1. Quote
        BY <3>2 DEF Next, Consider, StartSecondPass, Refuse, PlaceOrder, CreateOrder, vars
      <4>2. Evaluated /\ ~CouponRefused /\ quoted' = Price
        BY <4>1 DEF Quote
      <4> QED
        BY <4>2, EvaluationIsOutcome DEF Outcome, CouponRefused
    <3> QED
      BY <3>1, <3>2
  <2>3. PICK b : b = BasicCandidates
    OBVIOUS
  <2>4. PICK c : c = AllOf(b, A1)
    OBVIOUS
  <2>5. AllOf(b, A1)' = c /\ PriceOf(c, A2)' = PriceOf(c, A2)
    BY <1>3, <2>4
  <2>6. quoted' = PriceOf(c, A2) /\ KernelIn(A1, b) /\ KernelIn(A2, c)
        /\ (coupon.mode # "NONE" => CouponSlot \in A2)
    BY <2>2, <2>3, <2>4 DEF Outcome
  <2>7. AllOf(BasicCandidates, A1)' = c
    <3>1. AllOf(BasicCandidates, A1)' = AllOf(b, A1)'
      BY <2>1, <2>3 DEF AllOf, BlockedOf
    <3> QED
      BY <2>5, <3>1
  <2>8. PriceOf(AllOf(BasicCandidates, A1), A2)' = quoted'
    <3>1. PriceOf(AllOf(BasicCandidates, A1), A2)' = PriceOf(c, A2)'
      BY <2>7 DEF PriceOf
    <3> QED
      BY <2>5, <2>6, <3>1
  <2>9. Outcome(BasicCandidates, A1, A2)'
    <3>1. KernelIn(A1, BasicCandidates)'
      BY <2>1, <2>3, <2>6 DEF KernelIn, BeforeIn, Conflict
    <3>2. KernelIn(A2, AllOf(BasicCandidates, A1))'
      BY <2>6, <2>7 DEF KernelIn, BeforeIn, Conflict
    <3> QED
      BY <1>4, <2>6, <3>1, <3>2 DEF Outcome
  <2> QED
    BY <2>8, <2>9
<1>7. QuoteIsHonoured'
  <2> SUFFICES ASSUME phase' = "mismatch" \/ (phase' = "refused" /\ quoted' # NoCustomPrice),
                      NoTies'
               PROVE  FALSE
    BY DEF QuoteIsHonoured, NoTies
  <2>1. NoTies
    BY <1>2
  <2>2. CASE CreateOrder
    BY <2>1, <2>2, OutcomeIsQuoted DEF CreateOrder
  <2>3. CASE Refuse
    BY <2>1, <2>3, OutcomeIsQuoted DEF Refuse
  <2>4. CASE UNCHANGED <<phase, quoted>>
    BY <2>1, <2>4 DEF QuoteInv, QuoteIsHonoured, NoTies
  <2>5. CreateOrder \/ Refuse \/ UNCHANGED <<phase, quoted>>
    BY DEF Next, Consider, StartSecondPass, Quote, PlaceOrder, vars
  <2> QED
    BY <2>2, <2>3, <2>4, <2>5
<1> QED
  BY <1>0, <1>5, <1>6, <1>7 DEF QuoteInv

\* An order is created at the price that was quoted and paid, its coupon is not
\* refused after it was granted, unless a rule gives away one of several units
\* of one price (calculateQuote and createInternal in orders.service.ts).
THEOREM PromotionsQuoteIsHonoured == Spec => []QuoteIsHonoured
<1>1. QuoteInv => QuoteIsHonoured
  BY DEF QuoteInv
<1> QED
  BY <1>1, QuoteInitially, QuoteStep, PTL DEF Spec

-----------------------------------------------------------------------------
(* Sums.  A sum takes its summands in the order in which CHOOSE picks them;  *)
(* what it is, is shown by a smallest set for which it is not.               *)

Chosen(s) == CHOOSE x \in s : TRUE
Rest(s) == s \ {Chosen(s)}

IsSum(g, f, S) ==
    g = [s \in SUBSET S |-> IF s = {} THEN 0 ELSE f[Chosen(s)] + g[Rest(s)]]

LEMMA SumIsChosen == \A f : SumFunction(f) = (CHOOSE g : IsSum(g, f, DOMAIN f))[DOMAIN f]
  BY DEF SumFunction, SumFunctionOnSet, FoldFunctionOnSet, MapThenFoldSet, IsSum, Chosen, Rest

LEMMA RestSmaller ==
    ASSUME NEW s, s # {}
    PROVE  Chosen(s) \in s /\ Rest(s) \subseteq s /\ Rest(s) # s
BY DEF Chosen, Rest

LEMMA SumStep ==
    ASSUME NEW f, NEW S, NEW g, IsSum(g, f, S)
    PROVE  /\ g[{}] = 0
           /\ \A s \in SUBSET S : s # {} => g[s] = f[Chosen(s)] + g[Rest(s)]
<1>1. {} \in SUBSET S
  OBVIOUS
<1>2. \A s \in SUBSET S : g[s] = IF s = {} THEN 0 ELSE f[Chosen(s)] + g[Rest(s)]
  BY DEF IsSum
<1> QED
  BY <1>1, <1>2

LEMMA SumIsUnique ==
    ASSUME NEW f, NEW S, IsFiniteSet(S), NEW T \in SUBSET S,
           NEW g, IsSum(g, f, S), NEW h, IsSum(h, f, T)
    PROVE  \A s \in SUBSET T : g[s] = h[s]
<1> DEFINE B == {s \in SUBSET T : g[s] # h[s]}
<1> SUFFICES ASSUME B # {} PROVE FALSE
  OBVIOUS
<1>1. IsFiniteSet(T)
  BY FS_Subset
<1>2. PICK s \in B : \A t \in B : t \subseteq s => t = s
  <2>1. B \subseteq SUBSET T
    OBVIOUS
  <2> HIDE DEF B
  <2> QED
    BY <1>1, <2>1, Smallest
<1>3. s # {}
  BY SumStep
<1>4. Rest(s) \notin B /\ Rest(s) \in SUBSET T
  BY <1>2, <1>3, RestSmaller
<1>5. g[s] = f[Chosen(s)] + g[Rest(s)] /\ h[s] = f[Chosen(s)] + h[Rest(s)]
  BY <1>3, SumStep
<1> QED
  BY <1>4, <1>5

LEMMA SumExists ==
    ASSUME NEW f, NEW S, IsFiniteSet(S)
    PROVE  \E g : IsSum(g, f, S)
<1> DEFINE B == {s \in SUBSET S : ~\E g : IsSum(g, f, s)}
<1> SUFFICES ASSUME B # {} PROVE FALSE
  OBVIOUS
<1>1. PICK s \in B : \A t \in B : t \subseteq s => t = s
  <2>1. B \subseteq SUBSET S
    OBVIOUS
  <2> HIDE DEF B
  <2> QED
    BY <2>1, Smallest
<1> DEFINE G(t) == CHOOSE g : IsSum(g, f, t)
           h == [t \in SUBSET s |->
                  IF t = {} THEN 0 ELSE f[Chosen(t)] + G(Rest(t))[Rest(t)]]
<1>2. ASSUME NEW t \in SUBSET s, t # s PROVE IsSum(G(t), f, t)
  <2>1. \E g : IsSum(g, f, t)
    BY <1>1, <1>2
  <2> QED
    BY <2>1
<1>3. ASSUME NEW t \in SUBSET s, t # {} PROVE h[Rest(t)] = G(Rest(t))[Rest(t)]
  <2> DEFINE u == Rest(t)
  <2>1. u \in SUBSET s /\ u # s
    BY <1>3, RestSmaller
  <2>2. IsSum(G(u), f, u)
    BY <2>1, <1>2
  <2>3. CASE u = {}
    BY <2>1, <2>2, <2>3, SumStep
  <2>4. CASE u # {}
    <3>1. Rest(u) \in SUBSET u /\ Rest(u) \in SUBSET s /\ Rest(u) # s
      BY <2>1, <2>4, RestSmaller
    <3>2. IsSum(G(Rest(u)), f, Rest(u))
      BY <3>1, <1>2
    <3>3. IsFiniteSet(u)
      BY <2>1, FS_Subset
    <3>4. G(u)[Rest(u)] = G(Rest(u))[Rest(u)]
      <4> HIDE DEF G
      <4> QED
        BY <2>2, <3>1, <3>2, <3>3, SumIsUnique
    <3>5. u \in SUBSET u
      OBVIOUS
    <3>6. G(u)[u] = f[Chosen(u)] + G(u)[Rest(u)]
      <4> HIDE DEF G, u
      <4> QED
        BY <2>2, <2>4, <3>5, SumStep
    <3>7. h[u] = f[Chosen(u)] + G(Rest(u))[Rest(u)]
      BY <2>1, <2>4
    <3> QED
      BY <3>4, <3>6, <3>7
  <2> QED
    BY <2>3, <2>4
<1>4. IsSum(h, f, s)
  <2>1. \A t \in SUBSET s : t # {} =>
            f[Chosen(t)] + G(Rest(t))[Rest(t)] = f[Chosen(t)] + h[Rest(t)]
    <3> HIDE DEF h, G
    <3> QED
      BY <1>3
  <2>2. h = [t \in SUBSET s |-> IF t = {} THEN 0 ELSE f[Chosen(t)] + h[Rest(t)]]
    <3> HIDE DEF G
    <3> QED
      BY <2>1
  <2> HIDE DEF h
  <2> QED
    BY <2>2 DEF IsSum
<1> QED
  BY <1>4

LEMMA SumIsNat ==
    ASSUME NEW f, IsFiniteSet(DOMAIN f), \A x \in DOMAIN f : f[x] \in Nat
    PROVE  SumFunction(f) \in Nat
<1> DEFINE g == CHOOSE h : IsSum(h, f, DOMAIN f)
           B == {s \in SUBSET DOMAIN f : g[s] \notin Nat}
<1>1. IsSum(g, f, DOMAIN f)
  BY SumExists
<1>2. B = {}
  <2> SUFFICES ASSUME B # {} PROVE FALSE
    OBVIOUS
  <2>1. PICK s \in B : \A t \in B : t \subseteq s => t = s
    <3>1. B \subseteq SUBSET DOMAIN f
      OBVIOUS
    <3> HIDE DEF B
    <3> QED
      BY <3>1, Smallest
  <2> HIDE DEF g
  <2>2. s # {}
    <3>1. g[{}] = 0
      BY <1>1, SumStep
    <3> QED
      BY <3>1
  <2>3. g[Rest(s)] \in Nat /\ f[Chosen(s)] \in Nat
    BY <2>1, <2>2, RestSmaller
  <2>4. g[s] = f[Chosen(s)] + g[Rest(s)]
    BY <1>1, <2>2, SumStep
  <2> QED
    BY <2>3, <2>4
<1>3. SumFunction(f) = g[DOMAIN f]
  BY SumIsChosen
<1> HIDE DEF g
<1> QED
  BY <1>2, <1>3

-----------------------------------------------------------------------------
(* No discount is negative.                                                 *)

LEMMA RoundedIsNat ==
    ASSUME NEW a \in Nat, NEW b \in Nat \ {0}
    PROVE  Rounded(a, b) \in Nat
<1>1. 2 * a + b \in Nat /\ 2 * b \in Nat \ {0}
  OBVIOUS
<1> QED
  BY <1>1, Division DEF Rounded

LEMMA PercentIsNat == \A a \in Nat : Rounded(a, 100) \in Nat
  BY RoundedIsNat

LEMMA NaturalsStay ==
    /\ \A a, b \in Nat : AtMost(a, b) \in Nat
    /\ \A a, b \in Nat : AtLeastZero(a - b) \in Nat
BY DEF AtMost, AtLeastZero

LEMMA SubtotalIsNat ==
    ASSUME InputsOK, NEW K, K \subseteq Lines
    PROVE  Subtotal(K) \in Nat
<1> DEFINE f == [l \in K |-> LineTotal(l)]
<1>1. IsFiniteSet(Lines)
  <2>1. Len(basket) \in Int /\ Lines = 1..Len(basket)
    BY Places
  <2> QED
    BY <2>1, FS_Interval
<1>2. IsFiniteSet(DOMAIN f)
  BY <1>1, FS_Subset
<1>3. \A l \in DOMAIN f : f[l] \in Nat
  BY PricesAreNat
<1> HIDE DEF f
<1>4. SumFunction(f) \in Nat
  BY <1>2, <1>3, SumIsNat
<1> QED
  BY <1>4 DEF Subtotal, f

LEMMA RewardDiscountIsNat ==
    ASSUME InputsOK, NEW rule, rule.percent \in Nat
    PROVE  RewardDiscount(rule) \in Nat
<1> DEFINE percent == IF rule.type = "FREE_ITEM" THEN 100 ELSE rule.percent
           f == [u \in Rewarded(rule) |-> Rounded(RewardPrice(u) * percent, 100)]
<1>1. /\ Rewarded(rule) \subseteq UnitsOf(TargetLines(rule.targets))
      /\ TargetLines(rule.targets) \subseteq Lines
  BY DEF Rewarded, TargetLines
<1>2. IsFiniteSet(DOMAIN f)
  BY <1>1, UnitsAreFinite, FS_Subset
<1>3. ASSUME NEW u \in Rewarded(rule) PROVE f[u] \in Nat
  <2>1. u[1] \in Lines
    BY <1>1 DEF UnitsOf
  <2>2. RewardPrice(u) \in Nat
    BY <2>1, PricesAreNat, RoundedIsNat DEF RewardPrice
  <2>3. RewardPrice(u) * percent \in Nat
    BY <2>2
  <2>4. Rounded(RewardPrice(u) * percent, 100) \in Nat
    <3>1. PICK n \in Nat : n = RewardPrice(u) * percent
      BY <2>3
    <3>2. Rounded(n, 100) \in Nat
      BY PercentIsNat
    <3> QED
      BY <3>1, <3>2
  <2> QED
    BY <2>4
<1> HIDE DEF f
<1>4. SumFunction(f) \in Nat
  <2>1. DOMAIN f = Rewarded(rule)
    BY DEF f
  <2> QED
    BY <1>2, <1>3, <2>1, SumIsNat
<1> QED
  BY <1>4 DEF RewardDiscount, f

LEMMA RuleDiscountIsNat ==
    ASSUME InputsOK, NEW r \in DOMAIN rules
    PROVE  RuleDiscount(rules[r]) \in Nat
<1>1. /\ rules[r].percent \in Nat /\ rules[r].cents \in Nat /\ rules[r].type \in RuleTypes
  <2>1. rules[r] \in RuleRecords
    BY DEF InputsOK
  <2>2. /\ rules[r].percent \in 0..100 /\ rules[r].cents \in Nat
        /\ rules[r].type \in RuleTypes
    BY <2>1 DEF RuleRecords
  <2> QED
    BY <2>2
<1> DEFINE applicable == Subtotal(TargetLines(rules[r].targets))
<1>2. applicable \in Nat
  BY SubtotalIsNat DEF TargetLines
<1>3. RewardDiscount(rules[r]) \in Nat
  BY <1>1, RewardDiscountIsNat
<1>4. Rounded(applicable * rules[r].percent, 100) \in Nat
  <2>1. applicable * rules[r].percent \in Nat
    BY <1>1, <1>2
  <2> DEFINE n == applicable * rules[r].percent
  <2>2. n \in Nat
    BY <2>1
  <2> HIDE DEF n
  <2>3. Rounded(n, 100) \in Nat
    BY <2>2, PercentIsNat
  <2> QED
    BY <2>3 DEF n
<1>5. /\ AtMost(applicable, Rounded(applicable * rules[r].percent, 100)) \in Nat
      /\ AtMost(applicable, rules[r].cents) \in Nat
  BY <1>1, <1>2, <1>4, NaturalsStay
<1> QED
  BY <1>3, <1>5 DEF RuleDiscount

LEMMA SpecialDiscountIsNat ==
    ASSUME InputsOK, NEW l \in Lines
    PROVE  SpecialCandidate(l).cents \in Nat
<1> DEFINE s == basket[l].special
           b == basket[l].base
<1>1. /\ b \in Nat /\ s.value \in Nat /\ basket[l].quantity \in Nat
  <2>1. basket[l] \in LineRecords
    BY DEF InputsOK, Lines
  <2> QED
    BY <2>1 DEF LineRecords
<1>2. Rounded(b * (100 - s.value), 100) \in Int
  <2>1. b * (100 - s.value) \in Int
    BY <1>1
  <2> HIDE DEF b, s
  <2> QED
    BY <2>1 DEF Rounded
<1>3. b - LinePrice(b, s) \in Nat
  BY <1>1, <1>2 DEF LinePrice, AtLeastZero, AtMost
<1>4. (b - LinePrice(b, s)) * basket[l].quantity \in Nat
  <2> DEFINE d == b - LinePrice(b, s)
             q == basket[l].quantity
  <2>1. d \in Nat /\ q \in Nat
    BY <1>1, <1>3
  <2> HIDE DEF d, q
  <2>2. d * q \in Nat
    BY <2>1
  <2> QED
    BY <2>2 DEF d, q
<1> QED
  BY <1>4 DEF SpecialCandidate

LEMMA BasicDiscountsAreNat ==
    InputsOK => \A i \in Basic : BasicCandidates[i].cents \in Nat
<1> SUFFICES ASSUME InputsOK, NEW i \in Basic PROVE BasicCandidates[i].cents \in Nat
  OBVIOUS
<1>1. CASE i \in Lines
  BY <1>1, SpecialDiscountIsNat DEF BasicCandidates
<1>2. CASE i \notin Lines
  <2>1. i - Len(basket) \in DOMAIN rules
    BY <1>2, Places DEF Basic, SpecialLines
  <2>2. BasicCandidates[i] = RuleCandidate(rules[i - Len(basket)])
    BY <1>2 DEF BasicCandidates
  <2>3. BasicCandidates[i].cents = RuleDiscount(rules[i - Len(basket)])
    BY <2>2 DEF RuleCandidate
  <2> QED
    BY <2>1, <2>3, RuleDiscountIsNat
<1> QED
  BY <1>1, <1>2

LEMMA LinesAreNat == InputsOK => \A l \in Lines : LineTotal(l) \in Nat
  BY PricesAreNat

LEMMA ExtraDiscountsAreNat ==
    ASSUME InputsOK, coupon \in CouponRecords, discount \in Nat
    PROVE  /\ \A blocked : CouponCandidate(blocked).cents \in Nat
           /\ EntitlementCandidate.cents \in Nat /\ CounterCandidate.cents \in Nat
<1>1. ASSUME NEW blocked PROVE CouponCandidate(blocked).cents \in Nat
  <2> DEFINE applicable == Subtotal(TargetLines(coupon.products) \ blocked)
             n == applicable * coupon.percent
  <2>1. applicable \in Nat
    BY SubtotalIsNat DEF TargetLines
  <2>2. coupon.percent \in Nat /\ coupon.cents \in Nat
    BY DEF CouponRecords
  <2>3. n \in Nat
    BY <2>1, <2>2
  <2> HIDE DEF n
  <2>4. Rounded(n, 100) \in Nat
    BY <2>3, PercentIsNat
  <2>5. /\ AtMost(applicable, Rounded(n, 100)) \in Nat
        /\ AtMost(applicable, coupon.cents) \in Nat
    BY <2>1, <2>2, <2>4, NaturalsStay
  <2> QED
    BY <2>5 DEF CouponCandidate, n
<1>2. EntitlementCandidate.cents \in Nat
  BY DEF EntitlementCandidate
<1>3. CounterCandidate.cents \in Nat
  BY SubtotalIsNat, NaturalsStay DEF CounterCandidate
<1> QED
  BY <1>1, <1>2, <1>3

-----------------------------------------------------------------------------
(* Types.                                                                   *)

Priced == \A i \in DOMAIN candidates : candidates[i].cents \in Nat

LEMMA PriceIsNat ==
    ASSUME IInv, Priced
    PROVE  Price \in Nat
<1>1. InputsOK /\ accepted \subseteq DOMAIN candidates
  BY DEF IInv, Sorted, Kernel
<1>2. IsFiniteSet(DOMAIN candidates)
  <2>1. IsFiniteSet(1..Len(basket)) /\ IsFiniteSet(1..(Len(basket) + Len(rules)))
    <3>1. Len(basket) \in Int /\ Len(basket) + Len(rules) \in Int
      BY <1>1, Places
    <3> QED
      BY <3>1, FS_Interval
  <2>2. Basic \subseteq 1..(Len(basket) + Len(rules))
    BY <1>1, Places DEF Basic, SpecialLines, RuleSlot
  <2>3. IsFiniteSet({EntitlementSlot, CouponSlot, CounterSlot})
    <3> DEFINE a == EntitlementSlot
               b == CouponSlot
               c == CounterSlot
    <3> HIDE DEF a, b, c
    <3>1. IsFiniteSet({a}) /\ IsFiniteSet({b}) /\ IsFiniteSet({c})
      BY FS_Singleton
    <3>2. IsFiniteSet({a} \cup {b} \cup {c}) /\ {a} \cup {b} \cup {c} = {a, b, c}
      BY <3>1, FS_Union
    <3> QED
      BY <3>2 DEF a, b, c
  <2>4. DOMAIN candidates \subseteq
            1..(Len(basket) + Len(rules)) \cup {EntitlementSlot, CouponSlot, CounterSlot}
    BY <2>2 DEF IInv, Built
  <2> QED
    BY <2>1, <2>3, <2>4, FS_Union, FS_Subset
<1>3. ASSUME NEW sources PROVE DiscountFrom(sources) \in Nat
  <2> DEFINE f == [i \in {j \in accepted : candidates[j].source \in sources} |->
                       candidates[i].cents]
  <2>1. DOMAIN f \subseteq DOMAIN candidates /\ \A i \in DOMAIN f : f[i] \in Nat
    BY <1>1 DEF Priced
  <2> HIDE DEF f
  <2>2. SumFunction(f) \in Nat
    BY <1>2, <2>1, FS_Subset, SumIsNat
  <2> QED
    BY <2>2 DEF DiscountFrom, f
<1>4. Subtotal(Lines) \in Nat
  BY <1>1, SubtotalIsNat
<1> QED
  BY <1>3, <1>4, NaturalsStay DEF Price

LEMMA PromotionTypesStay ==
    ASSUME IInv, IInv', TypeOK, [Next]_vars
    PROVE  TypeOK'
<1>1. coupon \in CouponRecords /\ discount \in Nat /\ InputsOK /\ InputsOK'
  BY PromotionAssumption DEF TypeOK, IInv
<1>2. /\ (basket \in Baskets /\ rules \in RuleLists /\ coupon \in Coupons)'
      /\ (entitlement \in Entitlements /\ discount \in Discounts)' /\ UNCHANGED Lines
  BY DEF Next, Consider, StartSecondPass, Refuse, Quote, PlaceOrder, CreateOrder,
         vars, inputs, TypeOK, Lines
<1>3. (\A l \in Lines : LineTotal(l) \in Nat)'
  <2>1. (InputsOK => \A l \in Lines : LineTotal(l) \in Nat)'
    BY LinesAreNat, PTL
  <2> QED
    BY <1>1, <2>1
<1>4. rank' \in Ranks'
  BY <1>2 DEF Next, Consider, StartSecondPass, Refuse, Quote, PlaceOrder, CreateOrder,
              vars, TypeOK, Ranks
<1>5. phase' \in Phases
  BY DEF Next, Consider, StartSecondPass, Refuse, Quote, PlaceOrder, CreateOrder,
         vars, TypeOK, Phases
<1>6. (\A i \in DOMAIN candidates : candidates[i].cents \in Nat)'
  <2>1. CASE StartSecondPass
    <3>1. \A i \in DOMAIN AllCandidates : AllCandidates[i].cents \in Nat
      BY <1>1, ExtraDiscountsAreNat DEF AllCandidates, TypeOK, Extras
    <3> QED
      BY <2>1, <3>1 DEF StartSecondPass
  <2>2. CASE PlaceOrder
    <3>1. (InputsOK => \A i \in Basic : BasicCandidates[i].cents \in Nat)'
      BY BasicDiscountsAreNat, PTL
    <3>2. DOMAIN candidates' = Basic'
      BY <2>2 DEF PlaceOrder, BasicCandidates
    <3> QED
      BY <1>1, <2>2, <3>1, <3>2 DEF PlaceOrder
  <2>3. CASE UNCHANGED candidates
    BY <2>3 DEF TypeOK
  <2> QED
    BY <2>1, <2>2, <2>3 DEF Next, Consider, Refuse, Quote, CreateOrder, vars
<1>7. (kept \subseteq DOMAIN candidates /\ considered \subseteq DOMAIN candidates
        /\ accepted \subseteq considered)'
  <2>1. (considered \subseteq DOMAIN candidates /\ accepted \subseteq considered)'
    BY DEF IInv, Sorted, Kernel
  <2>2. (phase # "rules" => kept \subseteq Basic /\ Basic \subseteq DOMAIN candidates)'
    BY DEF IInv, Kept, Kernel, Built
  <2>3. phase' = "rules" => kept' \subseteq DOMAIN candidates'
    BY DEF Next, Consider, StartSecondPass, Refuse, Quote, PlaceOrder, CreateOrder,
           vars, TypeOK
  <2> QED
    BY <2>1, <2>2, <2>3
<1>8. Price \in Nat
  BY PriceIsNat DEF TypeOK, Priced
<1>9. total' \in Nat /\ quoted' \in Nat \cup {NoCustomPrice}
  BY <1>8 DEF Next, Consider, StartSecondPass, Refuse, Quote, PlaceOrder, CreateOrder,
              vars, TypeOK
<1> QED
  BY <1>2, <1>3, <1>4, <1>5, <1>6, <1>7, <1>9 DEF TypeOK

\* Prices and discounts are never negative: a special takes no more than the
\* price of its line, a rule or a coupon no more than the lines it applies to,
\* and the sum of them is cut off at nothing.
THEOREM PromotionsTypeCorrect == Spec => []TypeOK
<1>1. Init => TypeOK
  <2> SUFFICES ASSUME Init PROVE TypeOK
    OBVIOUS
  <2>1. InputsOK
    BY InitOK DEF IInv
  <2>2. \A l \in Lines : LineTotal(l) \in Nat
    BY <2>1, LinesAreNat
  <2>3. \A i \in DOMAIN candidates : candidates[i].cents \in Nat
    BY <2>1, BasicDiscountsAreNat DEF Init, BasicCandidates
  <2> QED
    BY <2>2, <2>3 DEF Init, TypeOK, Phases
<1>2. IInv /\ IInv' /\ TypeOK /\ [Next]_vars => TypeOK'
  BY PromotionTypesStay
<1> QED
  BY <1>1, <1>2, PromotionsInductive, PTL DEF Spec

-----------------------------------------------------------------------------
(* The programs that hand out coupons (CouponProgram).                      *)

ProgramRows ==
    [type : DistributionTypes, active : BOOLEAN, limit : Int, issued : Nat, version : Nat]

WorkerOK(w) ==
    /\ work[w].step \in Steps /\ work[w].attempt \in 0..(MaxAttempts - 1)
    /\ work[w].todo \subseteq Programs \X Users
    /\ work[w].at \in (Programs \X Users) \cup {Nobody}
    /\ work[w] = [step |-> work[w].step, attempt |-> work[w].attempt,
                  loaded |-> work[w].loaded, todo |-> work[w].todo, at |-> work[w].at]

\* The rows and the workers' records are what the actions make of them.
Shaped ==
    /\ ProgramTypeOK
    /\ row \in [Programs -> ProgramRows]
    /\ DOMAIN work = Workers
    /\ \A w \in Workers : WorkerOK(w)
    /\ \A c \in Calls : request[c] \in Requests[c]

\* The numbers of a member's coupons run up to how many there are.
Numbered ==
    /\ IsFiniteSet(coupons)
    /\ \A c \in coupons : c.number <= Cardinality(Owned(c.campaign, c.user))

\* A trigger works with the active programs of its kind, as it loaded them.
TriggerInv(w) ==
    /\ \A p \in DOMAIN work[w].loaded :
          /\ p \in Programs /\ Trigger[p] = TriggerOf(w)
          /\ work[w].loaded[p] \in ProgramRows
          /\ work[w].loaded[p].type = "AUTOMATIC_TRIGGER"
    /\ \A item \in work[w].todo : item[1] \in DOMAIN work[w].loaded
    /\ work[w].at # Nobody => work[w].at[1] \in DOMAIN work[w].loaded

PushInv(w) ==
    /\ work[w].todo = {}
    /\ work[w].at # Nobody => "ADMIN_PUSH" \in Distributions[work[w].at[1]]

Within(program, p, u) ==
    /\ program.limit = NoLimit \/ program.issued + RequiredQuantity[p] <= program.limit
    /\ IssuedOn(p, u, Days) < PerUserLimit[p]

\* The snapshot a claim was decided on is the row while its version is.
ClaimInv(w) ==
    LET p == request[w].program
        u == request[w].user
    IN  /\ work[w].todo = {} /\ work[w].at = <<p, u>>
        /\ "MANUAL_CLAIM" \in Distributions[p]
        /\ work[w].loaded[p].version \in Nat
        /\ work[w].loaded[p].version <= row[p].version
        /\ work[w].loaded[p].version = row[p].version =>
              row[p].active /\ row[p].type = "MANUAL_CLAIM" /\ Within(row[p], p, u)

WorkInv(w) ==
    /\ work[w].step # "running" => work[w].todo = {} /\ work[w].at = Nobody
    /\ work[w].step = "running" =>
          /\ w = "job" \/ Is(w, "signup") => TriggerInv(w)
          /\ Is(w, "push") => PushInv(w)
          /\ Is(w, "claim") => ClaimInv(w)

Decided == \A w \in Workers : WorkInv(w)

ThisYear == {d \in Days : YearOf[d] = YearOf[day]}

\* Whom the job is about to give birthday coupons, may have them.
InTurn ==
    \A p \in BirthdayPrograms, u \in Users :
        work["job"].at # Nobody /\ work["job"].at = <<p, u>> =>
            IssuedOn(p, u, ThisYear) < PerUserLimit[p]

ProgramInv ==
    Shaped /\ Numbered /\ IssuedIsCounted /\ Decided /\ InTurn /\ BirthdayOnceAYear

-----------------------------------------------------------------------------
(* Issuing.                                                                 *)

\* What is issued is new and is as much as the program gives at a time.
LEMMA NewCouponsAreNew ==
    ASSUME Shaped, Numbered, NEW p \in Programs, NEW u \in Users
    PROVE  /\ NewCoupons(p, u) \subseteq
                 [campaign : Programs, user : Users, issuedAt : Days, number : Nat \ {0}]
           /\ NewCoupons(p, u) \cap coupons = {}
           /\ IsFiniteSet(NewCoupons(p, u))
           /\ Cardinality(NewCoupons(p, u)) = RequiredQuantity[p]
<1> DEFINE n == Cardinality(Owned(p, u))
           q == RequiredQuantity[p]
           N == NewCoupons(p, u)
           I == (n + 1)..(n + q)
           f == [i \in I |-> [campaign |-> p, user |-> u, issuedAt |-> day, number |-> i]]
<1>1. n \in Nat /\ q \in Nat \ {0} /\ day \in Days
  <2>1. IsFiniteSet(Owned(p, u))
    BY FS_Subset DEF Numbered, Owned
  <2>2. QED
    BY <2>1, FS_CardinalityType, CouponAssumption DEF Shaped, ProgramTypeOK
<1>2. N = [campaign : {p}, user : {u}, issuedAt : {day}, number : I]
  BY DEF NewCoupons
<1>3. N \subseteq [campaign : Programs, user : Users, issuedAt : Days, number : Nat \ {0}]
  <2>1. I \subseteq Nat \ {0}
    BY <1>1
  <2> HIDE DEF I, N, n
  <2>2. QED
    BY <1>1, <1>2, <2>1
<1>4. N \cap coupons = {}
  <2> SUFFICES ASSUME NEW c \in N \cap coupons PROVE FALSE
    OBVIOUS
  <2>1. c.campaign = p /\ c.user = u /\ c.number \in I
    BY <1>2
  <2>2. c.number <= n
    BY <2>1 DEF Numbered
  <2>3. QED
    BY <1>1, <2>1, <2>2
<1>5. IsFiniteSet(I) /\ Cardinality(I) = q
  <2> HIDE DEF n, q
  <2>1. n + 1 \in Int /\ n + q \in Int /\ ~(n + 1 > n + q) /\ (n + q) - (n + 1) + 1 = q
    BY <1>1
  <2>2. QED
    BY <2>1, FS_Interval
<1>6. f \in Bijection(I, N)
  <2> HIDE DEF I, N, n
  <2>1. f \in [I -> N]
    BY <1>2
  <2>2. \A i, j \in I : f[i] = f[j] => i = j
    <3>1. \A i \in I : f[i].number = i
      OBVIOUS
    <3> HIDE DEF f
    <3>2. QED
      BY <3>1
  <2>3. \A c \in N : \E i \in I : f[i] = c
    <3> TAKE c \in N
    <3>1. c = [campaign |-> p, user |-> u, issuedAt |-> day, number |-> c.number] /\ c.number \in I
      BY <1>2
    <3>2. f[c.number] = c
      BY <3>1
    <3>3. QED
      BY <3>1, <3>2
  <2> HIDE DEF f
  <2>4. QED
    BY <2>1, <2>2, <2>3 DEF Bijection, Injection, Surjection, IsInjective
<1>7. QED
  <2> HIDE DEF f, I, n, N
  <2>1. ExistsBijection(I, N)
    BY <1>6 DEF ExistsBijection
  <2>2. IsFiniteSet(N) /\ Cardinality(N) = q
    BY <1>5, <2>1, FS_Bijection
  <2>3. QED
    BY <1>3, <1>4, <2>2 DEF N

\* What the issued coupons add to a set of them.
LEMMA Added ==
    ASSUME NEW S, NEW N, IsFiniteSet(S), IsFiniteSet(N), S \cap N = {}
    PROVE  /\ IsFiniteSet(S \cup N)
           /\ Cardinality(S \cup N) = Cardinality(S) + Cardinality(N)
           /\ Cardinality(S) \in Nat /\ Cardinality(N) \in Nat
<1>1. Cardinality(S \cap N) = 0
  BY FS_EmptySet
<1>2. Cardinality(S) \in Nat /\ Cardinality(N) \in Nat
  BY FS_CardinalityType
<1>3. /\ IsFiniteSet(S \cup N)
      /\ Cardinality(S \cup N) = Cardinality(S) + Cardinality(N) - Cardinality(S \cap N)
  BY FS_Union
<1>4. QED
  BY <1>1, <1>2, <1>3

\* What issuing changes of the counts.
LEMMA IssueCounts ==
    ASSUME Shaped, Numbered, IssuedIsCounted, NEW p \in Programs, NEW u \in Users,
           NEW w, Issue(w, p, u), day' = day
    PROVE  /\ Numbered' /\ IssuedIsCounted'
           /\ coupons' \subseteq
                 [campaign : Programs, user : Users, issuedAt : Days, number : Nat \ {0}]
           /\ \A q \in Programs, v \in Users : q # p => Owned(q, v)' = Owned(q, v)
           /\ \A v \in Users : v # u => Owned(p, v)' = Owned(p, v)
           /\ \A T : \/ day \notin T /\ IssuedOn(p, u, T)' = IssuedOn(p, u, T)
                     \/ IssuedOn(p, u, T)' = IssuedOn(p, u, T) + RequiredQuantity[p]
<1> DEFINE N == NewCoupons(p, u)
           C == coupons \cup N
<1>1. /\ N \subseteq [campaign : Programs, user : Users, issuedAt : Days, number : Nat \ {0}]
      /\ N \cap coupons = {} /\ IsFiniteSet(N) /\ Cardinality(N) = RequiredQuantity[p]
  BY NewCouponsAreNew
<1>2. \A c \in N : c.campaign = p /\ c.user = u /\ c.issuedAt = day
  BY DEF NewCoupons
<1>3. /\ coupons' = C
      /\ \A c \in N : c.number <= Cardinality(Owned(p, u)) + RequiredQuantity[p]
  <2>1. coupons' = C
    BY DEF Issue
  <2>2. Cardinality(Owned(p, u)) \in Nat /\ RequiredQuantity[p] \in Nat
    BY FS_Subset, FS_CardinalityType, CouponAssumption DEF Numbered, Owned
  <2>3. QED
    BY <2>1, <2>2 DEF NewCoupons
<1> HIDE DEF N
<1>4. /\ \A q, v : q # p => Owned(q, v)' = Owned(q, v)
      /\ \A v : v # u => Owned(p, v)' = Owned(p, v)
      /\ Owned(p, u)' = Owned(p, u) \cup N
  BY <1>2, <1>3 DEF Owned
<1>5. IsFiniteSet(Owned(p, u)) /\ Owned(p, u) \cap N = {}
  BY <1>1, FS_Subset DEF Numbered, Owned
<1>6. /\ IsFiniteSet(C)
      /\ Cardinality(Owned(p, u)') = Cardinality(Owned(p, u)) + RequiredQuantity[p]
      /\ Cardinality(Owned(p, u)) \in Nat /\ RequiredQuantity[p] \in Nat
  BY <1>1, <1>4, <1>5, Added DEF Numbered
<1>7. Numbered'
  <2>1. SUFFICES ASSUME NEW c \in C
                 PROVE  c.number <= Cardinality(Owned(c.campaign, c.user)')
    BY <1>3, <1>6 DEF Numbered
  <2>2. CASE c \in N
    BY <1>2, <1>3, <1>6, <2>2
  <2>3. CASE c \in coupons
    <3>0. c.number <= Cardinality(Owned(c.campaign, c.user)) /\ c.number \in Nat
      BY <2>3 DEF Numbered, Shaped, ProgramTypeOK
    <3>1. CASE c.campaign = p /\ c.user = u
      BY <1>6, <3>0, <3>1
    <3>2. CASE ~(c.campaign = p /\ c.user = u)
      BY <1>4, <3>0, <3>2
    <3>3. QED
      BY <3>1, <3>2
  <2>4. QED
    BY <2>2, <2>3
<1>8. IssuedIsCounted'
  <2>1. SUFFICES ASSUME NEW q \in Programs
                 PROVE  row'[q].issued = Cardinality({c \in C : c.campaign = q})
    BY <1>3 DEF IssuedIsCounted
  <2> DEFINE S == {c \in coupons : c.campaign = q}
  <2>2. IsFiniteSet(S) /\ row[q].issued = Cardinality(S)
    BY FS_Subset DEF Numbered, IssuedIsCounted
  <2>3. CASE q = p
    <3>1. {c \in C : c.campaign = q} = S \cup N /\ S \cap N = {}
      BY <1>1, <1>2, <2>3
    <3>2. row'[p].issued = row[p].issued + RequiredQuantity[p]
      BY DEF Issue, Shaped, ProgramRows
    <3>3. Cardinality(S \cup N) = Cardinality(S) + RequiredQuantity[p]
      BY <1>1, <2>2, <3>1, Added
    <3> HIDE DEF S, C
    <3>4. QED
      BY <2>2, <2>3, <3>1, <3>2, <3>3
  <2>4. CASE q # p
    <3>1. {c \in C : c.campaign = q} = S
      BY <1>2, <2>4
    <3>2. row'[q] = row[q]
      BY <2>4 DEF Issue, Shaped
    <3>3. QED
      BY <2>2, <3>1, <3>2
  <2>5. QED
    BY <2>3, <2>4
<1>9. ASSUME NEW T
      PROVE  \/ day \notin T /\ IssuedOn(p, u, T)' = IssuedOn(p, u, T)
             \/ IssuedOn(p, u, T)' = IssuedOn(p, u, T) + RequiredQuantity[p]
  <2> DEFINE S == {c \in Owned(p, u) : c.issuedAt \in T}
  <2>1. CASE day \in T
    <3>1. {c \in Owned(p, u) \cup N : c.issuedAt \in T} = S \cup N
      BY <1>2, <2>1
    <3>2. IsFiniteSet(S) /\ S \cap N = {}
      BY <1>5, FS_Subset
    <3>3. Cardinality(S \cup N) = Cardinality(S) + RequiredQuantity[p]
      BY <1>1, <3>2, Added
    <3>4. QED
      BY <1>4, <3>1, <3>3 DEF IssuedOn
  <2>2. CASE day \notin T
    <3>1. {c \in Owned(p, u) \cup N : c.issuedAt \in T} = S
      BY <1>2, <2>2
    <3>2. QED
      BY <1>4, <2>2, <3>1 DEF IssuedOn
  <2>3. QED
    BY <2>1, <2>2
<1>10. coupons' \subseteq [campaign : Programs, user : Users, issuedAt : Days, number : Nat \ {0}]
  BY <1>1, <1>3 DEF Shaped, ProgramTypeOK
<1>11. QED
  BY <1>4, <1>7, <1>8, <1>9, <1>10

-----------------------------------------------------------------------------
(* Steps of one worker.                                                     *)

LEMMA Kinds ==
    ASSUME Shaped
    PROVE  /\ \A c \in Calls :
                 /\ c # "job" /\ c \in Workers
                 /\ request[c].user \in Users /\ request[c].program \in Programs
                 /\ Is(c, "claim") \/ Is(c, "signup") \/ Is(c, "push")
           /\ \A w : /\ ~(Is(w, "claim") /\ Is(w, "push"))
                     /\ ~(Is(w, "claim") /\ Is(w, "signup"))
                     /\ ~(Is(w, "push") /\ Is(w, "signup"))
                     /\ w = "job" => ~Is(w, "claim") /\ ~Is(w, "push") /\ ~Is(w, "signup")
           /\ "job" \in Workers
<1>1. \A c \in Calls :
         request[c] \in [kind : {"claim", "signup", "push"}, user : Users, program : Programs]
  BY CouponAssumption DEF Shaped
<1>2. QED
  BY <1>1, CouponAssumption DEF Is, Workers

\* Nothing but the job gives birthday coupons.
LEMMA OnlyTheJob ==
    ASSUME Shaped, NEW c \in Calls, WorkInv(c), work[c].at # Nobody
    PROVE  work[c].at[1] \notin BirthdayPrograms
<1>1. work[c].step = "running"
  BY DEF WorkInv
<1>2. CASE Is(c, "signup")
  BY <1>1, <1>2, Kinds DEF WorkInv, TriggerInv, TriggerOf, BirthdayPrograms
<1>3. CASE Is(c, "push")
  BY <1>1, <1>3 DEF WorkInv, PushInv, BirthdayPrograms
<1>4. CASE Is(c, "claim")
  BY <1>1, <1>4 DEF WorkInv, ClaimInv, BirthdayPrograms
<1>5. QED
  BY <1>2, <1>3, <1>4, Kinds

\* A worker that issues nothing.
LEMMA WorkerStep ==
    ASSUME ProgramInv, NEW w \in Workers,
           UNCHANGED <<row, request, coupons, day, updates>>,
           process' = process, faults' \in 0..MaxFaults,
           DOMAIN work' = Workers, \A v \in Workers \ {w} : work'[v] = work[v],
           WorkerOK(w)', WorkInv(w)',
           w = "job" /\ work'[w].at # Nobody =>
               \A p \in BirthdayPrograms, u \in Users :
                   work'[w].at = <<p, u>> => IssuedOn(p, u, ThisYear) < PerUserLimit[p]
    PROVE  ProgramInv'
<1>1. Shaped'
  BY DEF ProgramInv, Shaped, ProgramTypeOK, WorkerOK
<1>2. Numbered' /\ IssuedIsCounted' /\ BirthdayOnceAYear'
  BY DEF ProgramInv, Numbered, IssuedIsCounted, BirthdayOnceAYear, IssuedOn, Owned
<1>3. Decided'
  <2> SUFFICES ASSUME NEW v \in Workers, v # w PROVE WorkInv(v)'
    BY DEF Decided
  <2>1. WorkInv(v) /\ work'[v] = work[v]
    BY DEF ProgramInv, Decided
  <2>2. QED
    BY <2>1 DEF WorkInv, TriggerInv, PushInv, ClaimInv, Within, Is, IssuedOn, Owned
<1>4. InTurn'
  <2> SUFFICES ASSUME NEW p \in BirthdayPrograms, NEW u \in Users,
                      work'["job"].at # Nobody, work'["job"].at = <<p, u>>
               PROVE  IssuedOn(p, u, ThisYear)' < PerUserLimit[p]
    BY DEF InTurn
  <2>1. IssuedOn(p, u, ThisYear)' = IssuedOn(p, u, ThisYear)
    BY DEF IssuedOn, Owned, ThisYear
  <2>2. CASE w = "job"
    BY <2>1, <2>2
  <2>3. CASE w # "job"
    BY <2>1, <2>3, Kinds DEF ProgramInv, InTurn
  <2>4. QED
    BY <2>2, <2>3
<1>5. QED
  BY <1>1, <1>2, <1>3, <1>4 DEF ProgramInv

\* A worker that issues.
LEMMA IssueStep ==
    ASSUME ProgramInv, NEW w \in Workers, NEW p \in Programs, NEW u \in Users,
           work[w].at = <<p, u>>, work[w].at # Nobody, Issue(w, p, u),
           UNCHANGED <<request, day, process, updates, faults>>,
           DOMAIN work' = Workers, \A v \in Workers \ {w} : work'[v] = work[v],
           WorkerOK(w)', WorkInv(w)', work'[w].at = Nobody
    PROVE  ProgramInv'
<1> USE DEF ProgramInv
<1>1. /\ Numbered' /\ IssuedIsCounted'
      /\ coupons' \subseteq
            [campaign : Programs, user : Users, issuedAt : Days, number : Nat \ {0}]
      /\ \A q \in Programs, v \in Users : q # p => Owned(q, v)' = Owned(q, v)
      /\ \A v \in Users : v # u => Owned(p, v)' = Owned(p, v)
      /\ \A T : \/ day \notin T /\ IssuedOn(p, u, T)' = IssuedOn(p, u, T)
                \/ IssuedOn(p, u, T)' = IssuedOn(p, u, T) + RequiredQuantity[p]
  BY IssueCounts
<1>2. /\ row' \in [Programs -> ProgramRows]
      /\ \A q \in Programs \ {p} : row'[q] = row[q]
      /\ row'[p].type = row[p].type /\ row'[p].active = row[p].active
      /\ row'[p].limit = row[p].limit /\ row'[p].version = row[p].version + 1
      /\ row'[p].issued = row[p].issued + RequiredQuantity[p]
      /\ RequiredQuantity[p] \in Nat /\ row[p].version \in Nat /\ row[p].issued \in Nat
  <2>1. row[p] \in ProgramRows /\ RequiredQuantity[p] \in Nat
    BY CouponAssumption DEF Shaped
  <2>2. row' = [row EXCEPT ![p].issued = @ + RequiredQuantity[p], ![p].version = @ + 1]
    BY DEF Issue
  <2>3. QED
    BY <2>1, <2>2 DEF Shaped, ProgramRows
<1>3. Shaped'
  <2>1. \A q \in Programs : row'[q].type \in Distributions[q] /\ row'[q].limit \in Limits[q]
    BY <1>2 DEF Shaped, ProgramTypeOK
  <2>2. \A q \in Programs : row'[q].active \in BOOLEAN /\ row'[q].issued \in Nat /\ row'[q].version \in Nat
    BY <1>2 DEF ProgramRows
  <2>3. \A v \in Workers : WorkerOK(v)'
    BY DEF Shaped, WorkerOK
  <2>4. QED
    BY <1>1, <1>2, <2>1, <2>2, <2>3 DEF Shaped, ProgramTypeOK, WorkerOK
<1>4. Decided'
  <2> SUFFICES ASSUME NEW v \in Workers, v # w PROVE WorkInv(v)'
    BY DEF Decided
  <2>1. WorkInv(v) /\ work'[v] = work[v] /\ Is(v, "claim")' = Is(v, "claim")
        /\ Is(v, "signup")' = Is(v, "signup") /\ Is(v, "push")' = Is(v, "push")
    BY DEF Decided, Is
  <2>2. TriggerInv(v) => TriggerInv(v)'
    BY <2>1 DEF TriggerInv
  <2>3. PushInv(v) => PushInv(v)'
    BY <2>1 DEF PushInv
  <2>4. ASSUME Is(v, "claim"), ClaimInv(v) PROVE ClaimInv(v)'
    <3> DEFINE q == request[v].program
               x == request[v].user
    <3>1. q \in Programs /\ x \in Users
      BY <2>4, Kinds DEF Is
    <3>2. CASE q = p
      <4>1. work[v].loaded[p].version <= row[p].version
        BY <2>4, <3>2 DEF ClaimInv
      <4>2. /\ work[v].todo = {} /\ work[v].at = <<q, x>> /\ "MANUAL_CLAIM" \in Distributions[q]
            /\ work[v].loaded[q].version \in Nat
        BY <2>4 DEF ClaimInv
      <4>3. QED
        BY <1>2, <2>1, <3>2, <4>1, <4>2 DEF ClaimInv
    <3>3. CASE q # p
      <4>1. row'[q] = row[q] /\ IssuedOn(q, x, Days)' = IssuedOn(q, x, Days)
        BY <1>1, <1>2, <3>1, <3>3 DEF IssuedOn
      <4>2. QED
        BY <2>1, <2>4, <4>1 DEF ClaimInv, Within
    <3>4. QED
      BY <3>2, <3>3
  <2>5. QED
    BY <2>1, <2>2, <2>3, <2>4 DEF WorkInv
<1>5. InTurn'
  <2> SUFFICES ASSUME NEW q \in BirthdayPrograms, NEW x \in Users,
                      work'["job"].at # Nobody, work'["job"].at = <<q, x>>
               PROVE  IssuedOn(q, x, ThisYear)' < PerUserLimit[q]
    BY DEF InTurn
  <2>1. CASE w = "job"
    BY <2>1
  <2>2. CASE w # "job"
    <3>1. w \in Calls
      BY <2>2 DEF Workers
    <3>2. p # q /\ q \in Programs
      <4>1. work[w].at[1] \notin BirthdayPrograms
        BY <3>1, OnlyTheJob DEF Decided
      <4>2. QED
        BY <4>1 DEF BirthdayPrograms
    <3>3. IssuedOn(q, x, ThisYear)' = IssuedOn(q, x, ThisYear)
      BY <1>1, <3>2 DEF IssuedOn, ThisYear
    <3>4. QED
      BY <2>2, <3>3, Kinds DEF InTurn
  <2>3. QED
    BY <2>1, <2>2
<1>6. BirthdayOnceAYear'
  <2> SUFFICES ASSUME NEW q \in BirthdayPrograms, NEW x \in Users, NEW y \in Years
               PROVE  IssuedOn(q, x, {d \in Days : YearOf[d] = y})' < PerUserLimit[q] + RequiredQuantity[q]
    BY DEF BirthdayOnceAYear
  <2> DEFINE T == {d \in Days : YearOf[d] = y}
  <2>1. q \in Programs /\ IssuedOn(q, x, T) < PerUserLimit[q] + RequiredQuantity[q]
    BY DEF BirthdayOnceAYear, BirthdayPrograms
  <2>2. CASE q = p /\ x = u
    <3>1. w = "job"
      <4>1. w \in Calls => work[w].at[1] \notin BirthdayPrograms
        BY OnlyTheJob DEF Decided
      <4>2. QED
        BY <2>2, <4>1 DEF Workers
    <3>2. CASE day \in T
      <4>1. T = ThisYear
        BY <3>2 DEF ThisYear
      <4>2. IssuedOn(p, u, T) < PerUserLimit[p]
        BY <2>2, <3>1, <4>1 DEF InTurn
      <4>3. IssuedOn(p, u, T)' = IssuedOn(p, u, T) + RequiredQuantity[p]
        BY <1>1, <3>2
      <4>4. IssuedOn(p, u, T) \in Nat /\ PerUserLimit[p] \in Nat
        BY FS_Subset, FS_CardinalityType, CouponAssumption DEF Numbered, IssuedOn, Owned
      <4>5. IssuedOn(p, u, T)' < PerUserLimit[p] + RequiredQuantity[p]
        <5> HIDE DEF T
        <5>1. QED
          BY <1>2, <4>2, <4>3, <4>4
      <4>6. QED
        BY <2>2, <4>5
    <3>3. CASE day \notin T
      <4>1. IssuedOn(p, u, T)' = IssuedOn(p, u, T)
        <5>1. coupons' = coupons \cup NewCoupons(p, u)
          BY DEF Issue
        <5>2. \A c \in NewCoupons(p, u) : c.issuedAt = day
          BY DEF NewCoupons
        <5>3. {c \in Owned(p, u)' : c.issuedAt \in T} = {c \in Owned(p, u) : c.issuedAt \in T}
          BY <3>3, <5>1, <5>2 DEF Owned
        <5>4. QED
          BY <5>3 DEF IssuedOn
      <4>2. QED
        BY <2>1, <2>2, <4>1
    <3>4. QED
      BY <3>2, <3>3
  <2>3. CASE ~(q = p /\ x = u)
    <3>1. Owned(q, x)' = Owned(q, x)
      BY <1>1, <2>1, <2>3
    <3>2. IssuedOn(q, x, T)' = IssuedOn(q, x, T)
      BY <3>1 DEF IssuedOn
    <3>3. QED
      BY <2>1, <3>2
  <2>4. QED
    BY <2>2, <2>3
<1>7. QED
  BY <1>1, <1>3, <1>4, <1>5, <1>6

-----------------------------------------------------------------------------
(* The actions.                                                             *)

LEMMA ProgramStart == ProgramInit => ProgramInv
<1> SUFFICES ASSUME ProgramInit PROVE ProgramInv
  OBVIOUS
<1>1. PICK type \in [Programs -> DistributionTypes], limit \in [Programs -> AllLimits] :
         /\ \A p \in Programs : type[p] \in Distributions[p] /\ limit[p] \in Limits[p]
         /\ row = [p \in Programs |-> [type |-> type[p], active |-> TRUE,
                                       limit |-> limit[p], issued |-> 0, version |-> 0]]
  BY DEF ProgramInit
<1>2. \A p \in Programs : limit[p] \in Int
  BY <1>1, CouponAssumption DEF NoLimit
<1>3. row \in [Programs -> ProgramRows]
  BY <1>1, <1>2 DEF ProgramRows
<1>4. /\ coupons = {} /\ \A w \in Workers : work[w] = Idle("new")
      /\ DOMAIN work = Workers /\ day \in Days
  BY CouponAssumption DEF ProgramInit, Days
<1>5. \A w \in Workers : WorkerOK(w) /\ WorkInv(w)
  <2>1. \A w \in Workers : WorkerOK(w)
    BY <1>4, CouponAssumption DEF WorkerOK, Idle, Steps
  <2>2. QED
    BY <1>4, <2>1 DEF WorkInv, Idle
<1>6. Shaped
  <2>1. \A p \in Programs :
          /\ row[p].type \in Distributions[p] /\ row[p].active \in BOOLEAN
          /\ row[p].limit \in Limits[p] /\ row[p].issued \in Nat /\ row[p].version \in Nat
    BY <1>1
  <2>2. /\ process = "up" /\ updates = 0 /\ faults = 0
        /\ \A c \in Calls : request[c] \in Requests[c]
    BY DEF ProgramInit
  <2>3. ProgramTypeOK
    BY <1>4, <1>5, <2>1, <2>2, CouponAssumption DEF ProgramTypeOK, WorkerOK
  <2>4. QED
    BY <1>3, <1>4, <1>5, <2>2, <2>3 DEF Shaped
<1>7. Numbered /\ \A p, u, T : IssuedOn(p, u, T) = 0
  BY <1>4, FS_EmptySet DEF Numbered, IssuedOn, Owned
<1>8. IssuedIsCounted
  BY <1>1, <1>4, FS_EmptySet DEF IssuedIsCounted
<1>9. BirthdayOnceAYear /\ InTurn
  BY <1>5, <1>7, CouponAssumption, Kinds, <1>6
  DEF BirthdayOnceAYear, InTurn, BirthdayPrograms, WorkInv
<1>10. QED
  BY <1>5, <1>6, <1>7, <1>8, <1>9 DEF ProgramInv, Decided

LEMMA ClaimReadsKeeps ==
    ASSUME ProgramInv, NEW c \in Calls, ClaimReads(c) PROVE ProgramInv'
<1> DEFINE p == request[c].program
           u == request[c].user
<1>1. p \in Programs /\ u \in Users /\ c \in Workers /\ c # "job"
  BY Kinds DEF ProgramInv
<1>2. /\ UNCHANGED <<row, request, coupons, day, process, updates, faults>>
      /\ DOMAIN work' = Workers /\ \A v \in Workers \ {c} : work'[v] = work[v]
  BY DEF ClaimReads, ProgramInv, Shaped
<1>3. WorkerOK(c) /\ WorkInv(c) /\ work[c].step = "new" /\ Is(c, "claim")
  BY <1>1 DEF ClaimReads, ProgramInv, Shaped, Decided
<1>4. CASE /\ row[p].type = "MANUAL_CLAIM" /\ row[p].active /\ CanIssue(row[p], p, u)
  <2>1. work'[c] = [work[c] EXCEPT !.step = "running", !.loaded = Rows({p}), !.at = <<p, u>>]
    BY <1>1, <1>4 DEF ClaimReads, ProgramInv, Shaped
  <2>2. /\ work'[c] = [step |-> "running", attempt |-> work[c].attempt, loaded |-> Rows({p}),
                       todo |-> {}, at |-> <<p, u>>]
        /\ work[c].attempt \in 0..(MaxAttempts - 1)
    <3>1. work[c].todo = {}
      BY <1>3 DEF WorkInv
    <3>2. QED
      BY <1>3, <2>1, <3>1 DEF WorkerOK
  <2>8. /\ work'[c].step = "running" /\ work'[c].todo = {} /\ work'[c].at = <<p, u>>
        /\ work'[c].loaded[p] = row[p]
    BY <2>2 DEF Rows
  <2>9. WorkerOK(c)'
    BY <1>1, <2>2 DEF WorkerOK, Steps
  <2>3. Within(row[p], p, u)
    BY <1>4 DEF CanIssue, IssuedToUser, CountedDays, Within
  <2>4. row[p].version \in Nat /\ "MANUAL_CLAIM" \in Distributions[p]
    BY <1>1, <1>4 DEF ProgramInv, Shaped, ProgramTypeOK
  <2>5. ClaimInv(c)'
    BY <1>2, <1>4, <2>8, <2>3, <2>4 DEF ClaimInv, Within, IssuedOn, Owned
  <2>6. WorkInv(c)'
    BY <1>1, <1>2, <1>3, <2>8, <2>5, Kinds DEF WorkInv, Is, ProgramInv
  <2>7. QED
    BY <1>1, <1>2, <2>9, <2>6, WorkerStep DEF ProgramInv, Shaped, ProgramTypeOK
<1>5. CASE ~(row[p].type = "MANUAL_CLAIM" /\ row[p].active /\ CanIssue(row[p], p, u))
  <2>1. work'[c] = [work[c] EXCEPT !.step = "refused"]
    BY <1>1, <1>5 DEF ClaimReads, ProgramInv, Shaped
  <2>2. WorkerOK(c)' /\ WorkInv(c)'
    BY <1>3, <2>1 DEF WorkerOK, WorkInv, Steps
  <2>3. QED
    BY <1>1, <1>2, <2>2, WorkerStep DEF ProgramInv, Shaped, ProgramTypeOK
<1>6. QED
  BY <1>4, <1>5

\* A record a worker is left with when it does nothing.
LEMMA IdleIsFine ==
    ASSUME NEW w, NEW s \in {"new", "done", "failed"}, work'[w] = Idle(s)
    PROVE  WorkerOK(w)' /\ WorkInv(w)' /\ work'[w].at = Nobody
<1>1. /\ work'[w].step = s /\ work'[w].attempt = 0 /\ work'[w].loaded = <<>>
      /\ work'[w].todo = {} /\ work'[w].at = Nobody
  BY DEF Idle
<1>2. WorkerOK(w)'
  BY <1>1, CouponAssumption DEF WorkerOK, Idle, Steps
<1>3. QED
  BY <1>1, <1>2 DEF WorkInv

LEMMA ClaimCommitsKeeps ==
    ASSUME ProgramInv, NEW c \in Calls, ClaimCommits(c) PROVE ProgramInv'
<1> DEFINE p == request[c].program
           u == request[c].user
<1>1. p \in Programs /\ u \in Users /\ c \in Workers
  BY Kinds DEF ProgramInv
<1>2. work[c].at = <<p, u>> /\ <<p, u>> # <<>>
  BY <1>1 DEF ClaimCommits, Running, ProgramInv, Decided, WorkInv, ClaimInv
<1>3. Issue(c, p, u)
  BY <1>2 DEF ClaimCommits
<1>4. /\ DOMAIN work' = Workers /\ \A v \in Workers \ {c} : work'[v] = work[v]
      /\ work'[c] = Idle("done") /\ UNCHANGED <<request, day, process, updates, faults>>
  BY <1>1 DEF ClaimCommits, ProgramInv, Shaped
<1>5. WorkerOK(c)' /\ WorkInv(c)' /\ work'[c].at = Nobody
  BY <1>4, IdleIsFine
<1>6. QED
  BY <1>1, <1>2, <1>3, <1>4, <1>5, IssueStep DEF Nobody

LEMMA ClaimConflictsKeeps ==
    ASSUME ProgramInv, NEW c \in Calls, ClaimConflicts(c) PROVE ProgramInv'
<1>1. /\ UNCHANGED <<row, request, coupons, day, process, updates, faults>>
      /\ DOMAIN work' = Workers /\ \A v \in Workers \ {c} : work'[v] = work[v]
      /\ c \in Workers /\ c # "job"
  BY Kinds DEF ClaimConflicts, ProgramInv, Shaped
<1>2. CASE Again(c)
  <2>1. work'[c] = [Idle("new") EXCEPT !.attempt = work[c].attempt + 1]
    BY <1>1, <1>2 DEF ClaimConflicts, ProgramInv, Shaped
  <2>2. work[c].attempt + 1 \in 0..(MaxAttempts - 1)
    BY <1>1, <1>2, CouponAssumption DEF Again, ProgramInv, Shaped, WorkerOK
  <2>3. WorkerOK(c)' /\ WorkInv(c)'
    BY <2>1, <2>2 DEF WorkerOK, WorkInv, Idle, Steps
  <2>4. QED
    BY <1>1, <2>3, WorkerStep DEF ProgramInv, Shaped, ProgramTypeOK
<1>3. CASE ~Again(c)
  <2>1. work'[c] = Idle("failed")
    BY <1>1, <1>3 DEF ClaimConflicts, ProgramInv, Shaped
  <2>2. WorkerOK(c)' /\ WorkInv(c)'
    BY <2>1, IdleIsFine
  <2>3. QED
    BY <1>1, <2>2, WorkerStep DEF ProgramInv, Shaped, ProgramTypeOK
<1>4. QED
  BY <1>2, <1>3

LEMMA TriggerLoadsKeeps ==
    ASSUME ProgramInv, NEW w \in Workers, TriggerLoads(w) PROVE ProgramInv'
<1> DEFINE programs == {p \in Programs : /\ row[p].type = "AUTOMATIC_TRIGGER"
                                         /\ Trigger[p] = TriggerOf(w) /\ row[p].active}
           members == IF w = "job" THEN Users ELSE {request[w].user}
<1>1. /\ UNCHANGED <<row, request, coupons, day, process, updates, faults>>
      /\ DOMAIN work' = Workers /\ \A v \in Workers \ {w} : work'[v] = work[v]
      /\ work'[w] = [work[w] EXCEPT !.step = "running", !.loaded = Rows(programs),
                                    !.todo = programs \X members]
  BY DEF TriggerLoads, ProgramInv, Shaped
<1>2. WorkerOK(w) /\ work[w].at = Nobody
  BY DEF TriggerLoads, ProgramInv, Shaped, Decided, WorkInv
<1>3. members \subseteq Users
  BY Kinds DEF TriggerLoads, ProgramInv, Workers, Is
<1>4. WorkerOK(w)' /\ work'[w].at = Nobody
  <2>1. /\ work'[w] = [step |-> "running", attempt |-> work[w].attempt, loaded |-> Rows(programs),
                       todo |-> programs \X members, at |-> Nobody]
        /\ work[w].attempt \in 0..(MaxAttempts - 1)
    BY <1>1, <1>2 DEF WorkerOK
  <2>2. programs \X members \subseteq Programs \X Users
    BY <1>3
  <2> HIDE DEF programs, members
  <2>3. QED
    BY <2>1, <2>2 DEF WorkerOK, Steps
<1>5. TriggerInv(w)'
  <2>1. work'[w].loaded = [p \in programs |-> row[p]] /\ work'[w].todo = programs \X members
    BY <1>1, <1>2 DEF WorkerOK, Rows
  <2>2. \A p \in programs : row[p] \in ProgramRows
    BY DEF ProgramInv, Shaped
  <2>3. QED
    BY <1>4, <2>1, <2>2 DEF TriggerInv, TriggerOf
<1>6. WorkInv(w)'
  <2>1. w = "job" \/ Is(w, "signup")
    BY DEF TriggerLoads
  <2>2. ~Is(w, "push")' /\ ~Is(w, "claim")'
    BY <1>1, <2>1, Kinds DEF Is, ProgramInv
  <2>3. work'[w].step = "running"
    BY <1>1, <1>2 DEF WorkerOK
  <2>4. QED
    BY <1>5, <2>2, <2>3 DEF WorkInv
<1>7. QED
  BY <1>1, <1>4, <1>6, WorkerStep DEF ProgramInv, Shaped, ProgramTypeOK

LEMMA TriggerEvaluatesKeeps ==
    ASSUME ProgramInv, NEW w \in Workers, TriggerEvaluates(w) PROVE ProgramInv'
<1>1. PICK item \in work[w].todo :
        work' = [work EXCEPT
                   ![w].todo = Left(w, item[1], item[2]),
                   ![w].at = IF CanIssue(work[w].loaded[item[1]], item[1], item[2])
                             THEN item ELSE Nobody]
  BY DEF TriggerEvaluates
<1> DEFINE p == item[1]
           u == item[2]
           At == IF CanIssue(work[w].loaded[p], p, u) THEN item ELSE Nobody
<1>2. /\ UNCHANGED <<row, request, coupons, day, process, updates, faults>>
      /\ DOMAIN work' = Workers /\ \A v \in Workers \ {w} : work'[v] = work[v]
      /\ work'[w] = [work[w] EXCEPT !.todo = Left(w, p, u), !.at = At]
  BY <1>1 DEF TriggerEvaluates, ProgramInv, Shaped
<1>3. WorkerOK(w) /\ WorkInv(w) /\ work[w].step = "running"
  BY DEF TriggerEvaluates, Running, ProgramInv, Shaped, Decided
<1>4. item \in Programs \X Users /\ p \in Programs /\ u \in Users /\ item = <<p, u>>
  BY <1>3 DEF WorkerOK
<1>5. At \in (Programs \X Users) \cup {Nobody} /\ At \in {item, Nobody}
  BY <1>4
<1> HIDE DEF At
<1>6. /\ work'[w] = [step |-> work[w].step, attempt |-> work[w].attempt,
                     loaded |-> work[w].loaded, todo |-> Left(w, p, u), at |-> At]
      /\ work'[w].step = "running" /\ work'[w].loaded = work[w].loaded
      /\ work'[w].todo = Left(w, p, u) /\ work'[w].at = At
  BY <1>2, <1>3 DEF WorkerOK
<1>7. Left(w, p, u) \subseteq work[w].todo
  BY DEF Left
<1>8. WorkerOK(w)'
  BY <1>3, <1>5, <1>6, <1>7 DEF WorkerOK
<1>9. TriggerInv(w) /\ (w = "job" \/ Is(w, "signup")) /\ ~Is(w, "push") /\ ~Is(w, "claim")
  BY <1>3, Kinds DEF WorkInv, PushInv, ClaimInv, ProgramInv, Workers
<1>10. WorkInv(w)'
  <2>1. p \in DOMAIN work[w].loaded
    BY <1>9 DEF TriggerInv
  <2>2. \A i \in work'[w].todo : i[1] \in DOMAIN work'[w].loaded
    BY <1>6, <1>7, <1>9 DEF TriggerInv
  <2>3. work'[w].at # Nobody => work'[w].at[1] \in DOMAIN work'[w].loaded
    BY <1>5, <1>6, <2>1
  <2>4. TriggerInv(w)'
    BY <1>6, <1>9, <2>2, <2>3 DEF TriggerInv, TriggerOf
  <2>5. ~Is(w, "push")' /\ ~Is(w, "claim")'
    BY <1>2, <1>9 DEF Is
  <2>6. QED
    BY <1>6, <2>4, <2>5 DEF WorkInv
<1>11. ASSUME w = "job", work'[w].at # Nobody, NEW q \in BirthdayPrograms, NEW x \in Users,
              work'[w].at = <<q, x>>
       PROVE  IssuedOn(q, x, ThisYear) < PerUserLimit[q]
  <2>1. At = item /\ CanIssue(work[w].loaded[p], p, u)
    BY <1>6, <1>11 DEF At
  <2>2. q = p /\ x = u
    BY <1>4, <1>6, <1>11, <2>1
  <2>3. work[w].loaded[p].type = "AUTOMATIC_TRIGGER" /\ Trigger[p] = "BIRTHDAY_MONTH"
    BY <1>9, <2>2 DEF TriggerInv, BirthdayPrograms
  <2>4. IssuedToUser(work[w].loaded[p], p, u) = IssuedOn(p, u, ThisYear)
    BY <2>3 DEF IssuedToUser, CountedDays, ThisYear
  <2>5. QED
    BY <2>1, <2>2, <2>4 DEF CanIssue
<1>12. QED
  BY <1>2, <1>8, <1>10, <1>11, WorkerStep DEF ProgramInv, Shaped, ProgramTypeOK

LEMMA TriggerIssuesKeeps ==
    ASSUME ProgramInv, NEW w \in Workers, TriggerIssues(w) PROVE ProgramInv'
<1>1. WorkerOK(w) /\ WorkInv(w) /\ work[w].step = "running" /\ work[w].at # Nobody
  BY DEF TriggerIssues, Running, ProgramInv, Shaped, Decided
<1>2. PICK p \in Programs, u \in Users : work[w].at = <<p, u>>
  BY <1>1 DEF WorkerOK
<1>3. Issue(w, p, u)
  BY <1>2 DEF TriggerIssues
<1>4. /\ DOMAIN work' = Workers /\ \A v \in Workers \ {w} : work'[v] = work[v]
      /\ work'[w] = [work[w] EXCEPT !.at = Nobody]
      /\ UNCHANGED <<request, day, process, updates, faults>>
  BY DEF TriggerIssues, ProgramInv, Shaped
<1>5. /\ work'[w] = [step |-> work[w].step, attempt |-> work[w].attempt,
                     loaded |-> work[w].loaded, todo |-> work[w].todo, at |-> Nobody]
  BY <1>1, <1>4 DEF WorkerOK
<1>6. WorkerOK(w)' /\ work'[w].at = Nobody
  BY <1>1, <1>5 DEF WorkerOK
<1>7. WorkInv(w)'
  <2>1. ~Is(w, "claim") /\ ~Is(w, "claim")' /\ Is(w, "signup")' = Is(w, "signup")
        /\ Is(w, "push")' = Is(w, "push")
    BY <1>4 DEF TriggerIssues, Is
  <2>2. PushInv(w) => PushInv(w)'
    BY <1>5 DEF PushInv
  <2>3. TriggerInv(w) => TriggerInv(w)'
    BY <1>5 DEF TriggerInv
  <2>4. QED
    BY <1>1, <1>5, <2>1, <2>2, <2>3 DEF WorkInv
<1>8. QED
  BY <1>1, <1>2, <1>3, <1>4, <1>6, <1>7, IssueStep

LEMMA TriggerEndsKeeps ==
    ASSUME ProgramInv, NEW w \in Workers, TriggerEnds(w) PROVE ProgramInv'
<1>1. /\ UNCHANGED <<row, request, coupons, day, process, updates, faults>>
      /\ DOMAIN work' = Workers /\ \A v \in Workers \ {w} : work'[v] = work[v]
      /\ work'[w] = Idle("done")
  BY DEF TriggerEnds, ProgramInv, Shaped
<1>2. WorkerOK(w)' /\ WorkInv(w)' /\ work'[w].at = Nobody
  BY <1>1, IdleIsFine
<1>3. QED
  BY <1>1, <1>2, WorkerStep DEF ProgramInv, Shaped, ProgramTypeOK

LEMMA PushLoadsKeeps ==
    ASSUME ProgramInv, NEW c \in Calls, PushLoads(c) PROVE ProgramInv'
<1> DEFINE p == request[c].program
           u == request[c].user
<1>1. p \in Programs /\ u \in Users /\ c \in Workers /\ c # "job"
  BY Kinds DEF ProgramInv
<1>2. /\ UNCHANGED <<row, request, coupons, day, process, updates, faults>>
      /\ DOMAIN work' = Workers /\ \A v \in Workers \ {c} : work'[v] = work[v]
  BY DEF PushLoads, ProgramInv, Shaped
<1>3. WorkerOK(c) /\ WorkInv(c) /\ work[c].step = "new" /\ Is(c, "push") /\ work[c].todo = {}
  BY <1>1 DEF PushLoads, ProgramInv, Shaped, Decided, WorkInv
<1>4. CASE row[p].type = "ADMIN_PUSH"
  <2>1. work'[c] = [work[c] EXCEPT !.step = "running", !.loaded = Rows({p}), !.at = <<p, u>>]
    BY <1>1, <1>4 DEF PushLoads, ProgramInv, Shaped
  <2>2. /\ work'[c] = [step |-> "running", attempt |-> work[c].attempt, loaded |-> Rows({p}),
                       todo |-> {}, at |-> <<p, u>>]
        /\ work[c].attempt \in 0..(MaxAttempts - 1)
    BY <1>3, <2>1 DEF WorkerOK
  <2>3. WorkerOK(c)'
    BY <1>1, <2>2 DEF WorkerOK, Steps
  <2>4. "ADMIN_PUSH" \in Distributions[p]
    BY <1>1, <1>4 DEF ProgramInv, Shaped, ProgramTypeOK
  <2>5. PushInv(c)'
    BY <2>2, <2>4 DEF PushInv
  <2>6. Is(c, "push")' /\ ~Is(c, "claim")' /\ ~Is(c, "signup")'
    BY <1>2, <1>3 DEF Is
  <2>7. WorkInv(c)'
    BY <1>1, <2>2, <2>5, <2>6 DEF WorkInv
  <2>8. QED
    BY <1>1, <1>2, <2>3, <2>7, WorkerStep DEF ProgramInv, Shaped, ProgramTypeOK
<1>5. CASE row[p].type # "ADMIN_PUSH"
  <2>1. work'[c] = [work[c] EXCEPT !.step = "refused"]
    BY <1>1, <1>5 DEF PushLoads, ProgramInv, Shaped
  <2>2. WorkerOK(c)' /\ WorkInv(c)'
    BY <1>3, <2>1 DEF WorkerOK, WorkInv, Steps
  <2>3. QED
    BY <1>1, <1>2, <2>2, WorkerStep DEF ProgramInv, Shaped, ProgramTypeOK
<1>6. QED
  BY <1>4, <1>5

LEMMA DatabaseFailsKeeps ==
    ASSUME ProgramInv, NEW w \in Workers, DatabaseFails(w) PROVE ProgramInv'
<1>1. /\ UNCHANGED <<row, request, coupons, day, process, updates>>
      /\ DOMAIN work' = Workers /\ \A v \in Workers \ {w} : work'[v] = work[v]
      /\ work'[w] = Idle("failed") /\ faults' \in 0..MaxFaults
  BY CouponAssumption DEF DatabaseFails, ProgramInv, Shaped, ProgramTypeOK
<1>2. WorkerOK(w)' /\ WorkInv(w)' /\ work'[w].at = Nobody
  BY <1>1, IdleIsFine
<1>3. QED
  BY <1>1, <1>2, WorkerStep

LEMMA UpdateProgramKeeps ==
    ASSUME ProgramInv, NEW p \in Programs, UpdateProgram(p) PROVE ProgramInv'
<1>1. PICK type \in Distributions[p], active \in BOOLEAN, limit \in Limits[p] :
         row' = [row EXCEPT ![p].type = type, ![p].active = active,
                            ![p].limit = limit, ![p].version = @ + 1]
  BY DEF UpdateProgram
<1>2. UNCHANGED <<request, coupons, day, process, work, faults>> /\ updates' \in 0..MaxUpdates
  BY CouponAssumption DEF UpdateProgram, ProgramInv, Shaped, ProgramTypeOK
<1>3. type \in DistributionTypes /\ limit \in Int
  BY CouponAssumption DEF NoLimit
<1>4. /\ row' \in [Programs -> ProgramRows]
      /\ \A q \in Programs \ {p} : row'[q] = row[q]
      /\ row'[p].type = type /\ row'[p].active = active /\ row'[p].limit = limit
      /\ row'[p].version = row[p].version + 1 /\ row'[p].issued = row[p].issued
      /\ row[p].version \in Nat
  <2>1. row[p] \in ProgramRows
    BY DEF ProgramInv, Shaped
  <2>2. QED
    BY <1>1, <1>3, <2>1 DEF ProgramInv, Shaped, ProgramRows
<1>5. Shaped'
  <2>1. \A q \in Programs :
          /\ row'[q].type \in Distributions[q] /\ row'[q].limit \in Limits[q]
          /\ row'[q].active \in BOOLEAN /\ row'[q].issued \in Nat /\ row'[q].version \in Nat
    BY <1>4 DEF ProgramInv, Shaped, ProgramTypeOK, ProgramRows
  <2>2. QED
    BY <1>2, <1>4, <2>1 DEF ProgramInv, Shaped, ProgramTypeOK, WorkerOK
<1>6. Numbered' /\ BirthdayOnceAYear' /\ InTurn'
  BY <1>2 DEF ProgramInv, Numbered, BirthdayOnceAYear, InTurn, IssuedOn, Owned, ThisYear
<1>7. IssuedIsCounted'
  <2>1. \A q \in Programs : row'[q].issued = row[q].issued
    BY <1>4
  <2>2. QED
    BY <1>2, <2>1 DEF ProgramInv, IssuedIsCounted
<1>8. Decided'
  <2> SUFFICES ASSUME NEW v \in Workers PROVE WorkInv(v)'
    BY DEF Decided
  <2>1. WorkInv(v) /\ work' = work /\ request' = request
    BY <1>2 DEF ProgramInv, Decided
  <2>2. ASSUME Is(v, "claim"), ClaimInv(v) PROVE ClaimInv(v)'
    <3> DEFINE q == request[v].program
               x == request[v].user
    <3>1. q \in Programs /\ x \in Users
      BY <2>2, Kinds DEF Is, ProgramInv
    <3>2. CASE q = p
      BY <1>4, <2>1, <2>2, <3>2 DEF ClaimInv
    <3>3. CASE q # p
      BY <1>2, <1>4, <2>1, <2>2, <3>1, <3>3 DEF ClaimInv, Within, IssuedOn, Owned
    <3>4. QED
      BY <3>2, <3>3
  <2>3. QED
    BY <2>1, <2>2 DEF WorkInv, TriggerInv, PushInv, Is
<1>9. QED
  BY <1>5, <1>6, <1>7, <1>8 DEF ProgramInv

LEMMA MidnightKeeps == ASSUME ProgramInv, Midnight PROVE ProgramInv'
<1>1. /\ UNCHANGED <<row, request, coupons, updates, faults>>
      /\ day' \in Days /\ process' \in {"up", "down", "down_since"}
      /\ DOMAIN work' = Workers /\ \A v \in Workers \ {"job"} : work'[v] = work[v]
      /\ work'["job"] \in {work["job"], Idle("new")} /\ work["job"].step # "running"
      /\ "job" \in Workers
  BY CouponAssumption, Kinds DEF Midnight, ProgramInv, Shaped, ProgramTypeOK, Days
<1>2. WorkerOK("job") /\ WorkInv("job")
  BY <1>1 DEF ProgramInv, Shaped, Decided
<1>3. WorkerOK("job")' /\ WorkInv("job")' /\ work'["job"].at = Nobody
  <2>1. CASE work'["job"] = work["job"]
    BY <1>1, <1>2, <2>1 DEF WorkerOK, WorkInv
  <2>2. CASE work'["job"] = Idle("new")
    BY <2>2, IdleIsFine
  <2>3. QED
    BY <1>1, <2>1, <2>2
<1>4. Shaped'
  BY <1>1, <1>3 DEF ProgramInv, Shaped, ProgramTypeOK, WorkerOK
<1>5. Numbered' /\ IssuedIsCounted' /\ BirthdayOnceAYear' /\ InTurn'
  BY <1>1, <1>3
  DEF ProgramInv, Numbered, IssuedIsCounted, BirthdayOnceAYear, InTurn, IssuedOn, Owned
<1>6. Decided'
  <2> SUFFICES ASSUME NEW v \in Workers, v # "job" PROVE WorkInv(v)'
    BY <1>3 DEF Decided
  <2>1. WorkInv(v) /\ work'[v] = work[v]
    BY <1>1 DEF ProgramInv, Decided
  <2>2. QED
    BY <1>1, <2>1 DEF WorkInv, TriggerInv, PushInv, ClaimInv, Within, Is, IssuedOn, Owned
<1>7. QED
  BY <1>4, <1>5, <1>6 DEF ProgramInv

LEMMA CrashKeeps == ASSUME ProgramInv, Crash PROVE ProgramInv'
<1>1. /\ UNCHANGED <<row, request, coupons, day, updates>>
      /\ process' = "down" /\ faults' \in 0..MaxFaults
      /\ DOMAIN work' = Workers
      /\ \A w \in Workers : work'[w] = IF work[w].step = "running" \/ (w = "job" /\ work[w].step = "new")
                                       THEN Idle("failed") ELSE work[w]
  BY CouponAssumption DEF Crash, ProgramInv, Shaped, ProgramTypeOK
<1>2. ASSUME NEW w \in Workers PROVE WorkerOK(w)' /\ WorkInv(w)' /\ work'[w].at = Nobody
  <2>1. WorkerOK(w) /\ WorkInv(w)
    BY DEF ProgramInv, Shaped, Decided
  <2>2. CASE work'[w] = Idle("failed")
    BY <2>2, IdleIsFine
  <2>3. CASE work'[w] = work[w] /\ work[w].step # "running"
    BY <2>1, <2>3 DEF WorkerOK, WorkInv
  <2>4. QED
    BY <1>1, <2>2, <2>3
<1>3. Shaped'
  BY <1>1, <1>2 DEF ProgramInv, Shaped, ProgramTypeOK, WorkerOK
<1>4. Numbered' /\ IssuedIsCounted' /\ BirthdayOnceAYear'
  BY <1>1 DEF ProgramInv, Numbered, IssuedIsCounted, BirthdayOnceAYear, IssuedOn, Owned
<1>5. InTurn'
  BY <1>2, Kinds DEF InTurn, ProgramInv
<1>6. QED
  BY <1>2, <1>3, <1>4, <1>5 DEF ProgramInv, Decided

LEMMA SameStateKeeps ==
    ASSUME ProgramInv, UNCHANGED <<row, request, coupons, day, work, updates, faults>>,
           process' \in {"up", "down", "down_since"}
    PROVE  ProgramInv'
<1>1. Shaped'
  BY DEF ProgramInv, Shaped, ProgramTypeOK, WorkerOK
<1>2. Numbered' /\ IssuedIsCounted' /\ BirthdayOnceAYear' /\ InTurn'
  BY DEF ProgramInv, Numbered, IssuedIsCounted, BirthdayOnceAYear, InTurn, IssuedOn, Owned, ThisYear
<1>3. Decided'
  BY DEF ProgramInv, Decided, WorkInv, TriggerInv, PushInv, ClaimInv, Within, Is, IssuedOn, Owned
<1>4. QED
  BY <1>1, <1>2, <1>3 DEF ProgramInv

LEMMA ProgramStep == ProgramInv /\ [ProgramNext]_programVars => ProgramInv'
<1> SUFFICES ASSUME ProgramInv, [ProgramNext]_programVars PROVE ProgramInv'
  OBVIOUS
<1>1. "job" \in Workers /\ \A c \in Calls : c \in Workers
  BY Kinds DEF ProgramInv
<1>2. CASE JobStep
  BY <1>1, <1>2, TriggerLoadsKeeps, TriggerEvaluatesKeeps, TriggerIssuesKeeps, TriggerEndsKeeps
  DEF JobStep
<1>3. CASE \E c \in Calls : CallStep(c)
  BY <1>1, <1>3, ClaimReadsKeeps, ClaimCommitsKeeps, ClaimConflictsKeeps, PushLoadsKeeps,
     TriggerLoadsKeeps, TriggerEvaluatesKeeps, TriggerIssuesKeeps, TriggerEndsKeeps
  DEF CallStep
<1>4. CASE \E w \in Workers : DatabaseFails(w)
  BY <1>4, DatabaseFailsKeeps
<1>5. CASE \E p \in Programs : UpdateProgram(p)
  BY <1>5, UpdateProgramKeeps
<1>6. CASE Midnight
  BY <1>6, MidnightKeeps
<1>7. CASE Crash
  BY <1>7, CrashKeeps
<1>8. CASE Restart
  BY <1>8, SameStateKeeps DEF Restart
<1>9. CASE UNCHANGED programVars
  BY <1>9, SameStateKeeps DEF programVars, ProgramInv, Shaped, ProgramTypeOK
<1>10. QED
  BY <1>2, <1>3, <1>4, <1>5, <1>6, <1>7, <1>8, <1>9 DEF ProgramNext

LEMMA ProgramInductive == ProgramSpec => []ProgramInv
<1>1. QED
  BY ProgramStart, ProgramStep, PTL DEF ProgramSpec

-----------------------------------------------------------------------------
(* The theorems.                                                            *)

\* The rows of programs, coupons and workers keep their types.
THEOREM ProgramTypeCorrect == ProgramSpec => []ProgramTypeOK
<1>1. ProgramInv => ProgramTypeOK
  BY DEF ProgramInv, Shaped
<1>2. QED
  BY <1>1, ProgramInductive, PTL

\* The count of a program is the number of its coupons, whatever issues at a
\* time: the transaction writes both and increments the row in place.
THEOREM ProgramIssuedIsCounted == ProgramSpec => []IssuedIsCounted
<1>1. ProgramInv => IssuedIsCounted
  BY DEF ProgramInv
<1>2. QED
  BY <1>1, ProgramInductive, PTL

\* Only the job gives birthday coupons, and it is over before the next night's.
THEOREM ProgramBirthdayOnceAYear == ProgramSpec => []BirthdayOnceAYear
<1>1. ProgramInv => BirthdayOnceAYear
  BY DEF ProgramInv
<1>2. QED
  BY <1>1, ProgramInductive, PTL

\* A claim commits only if the row it read is still the row, and then what it
\* decided still holds.
THEOREM ProgramClaimsKeepLimits == ProgramSpec => ClaimsKeepLimits
<1> DEFINE Keeps(c) ==
      Is(c, "claim") /\ Running(c) /\ work'[c].step = "done" =>
          LET p == request[c].program
          IN  /\ row[p].active /\ row[p].type = "MANUAL_CLAIM"
              /\ row[p].limit = NoLimit \/ row'[p].issued <= row[p].limit
              /\ IssuedToUser(row[p], p, request[c].user) < PerUserLimit[p]
<1>1. ASSUME ProgramInv, [ProgramNext]_programVars PROVE [\A c \in Calls : Keeps(c)]_programVars
  <2> SUFFICES ASSUME NEW c \in Calls, Is(c, "claim"), Running(c), work'[c].step = "done"
               PROVE  Keeps(c)
    OBVIOUS
  <2> DEFINE p == request[c].program
             u == request[c].user
  <2>1. /\ c \in Workers /\ c # "job" /\ p \in Programs /\ u \in Users
        /\ work[c].step = "running" /\ WorkInv(c) /\ ClaimInv(c) /\ DOMAIN work = Workers
    <3>1. c \in Workers /\ c # "job" /\ p \in Programs /\ u \in Users
      BY <1>1, Kinds DEF ProgramInv
    <3>2. QED
      BY <1>1, <3>1 DEF ProgramInv, Shaped, Decided, WorkInv, Running
  <2>7. work[c].todo = {} /\ work[c].at = <<p, u>>
    BY <2>1 DEF ClaimInv
  <2>2. ClaimCommits(c)
    <3>1. work'[c] # work[c]
      BY <2>1
    <3>2. ~Is(c, "signup") /\ ~Is(c, "push")
      BY <1>1, Kinds DEF ProgramInv
    <3>3. /\ \A d \in Calls : CallStep(d) => d = c
          /\ ~JobStep /\ ~Midnight /\ ~Restart /\ ~UNCHANGED programVars
          /\ \A q \in Programs : ~UpdateProgram(q)
      BY <2>1, <3>1
      DEF CallStep, JobStep, ClaimReads, ClaimCommits, ClaimConflicts, TriggerLoads,
          TriggerEvaluates, TriggerIssues, TriggerEnds, PushLoads, Midnight, Restart,
          UpdateProgram, programVars
    <3>4. ~Crash /\ \A w \in Workers : ~DatabaseFails(w)
      BY <2>1, <3>1 DEF Crash, DatabaseFails, Idle
    <3>5. CallStep(c)
      BY <1>1, <3>3, <3>4 DEF ProgramNext
    <3>6. ~ClaimConflicts(c) /\ ~TriggerEvaluates(c)
      BY <2>1, <2>7 DEF ClaimConflicts, TriggerEvaluates, Idle
    <3>7. QED
      BY <2>1, <3>2, <3>5, <3>6
      DEF CallStep, ClaimReads, TriggerLoads, TriggerIssues, TriggerEnds, PushLoads
  <2>3. Within(row[p], p, u) /\ row[p].active /\ row[p].type = "MANUAL_CLAIM"
    BY <2>1, <2>2 DEF ClaimCommits, Conflicts, ClaimInv
  <2>4. row'[p].issued = row[p].issued + RequiredQuantity[p]
    <3>1. Issue(c, p, u)
      BY <2>2, <2>7 DEF ClaimCommits
    <3>2. row[p] \in ProgramRows
      BY <1>1, <2>1 DEF ProgramInv, Shaped
    <3>3. QED
      BY <1>1, <2>1, <3>1, <3>2 DEF Issue, ProgramInv, Shaped, ProgramRows
  <2>5. IssuedToUser(row[p], p, u) = IssuedOn(p, u, Days)
    BY <2>3 DEF IssuedToUser, CountedDays
  <2>6. QED
    BY <2>3, <2>4, <2>5 DEF Within
<1>2. QED
  BY <1>1, ProgramInductive, PTL DEF ProgramSpec, ClaimsKeepLimits
=============================================================================
