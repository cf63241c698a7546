------------------------ MODULE OrderSettlementProofs ------------------------
(***************************************************************************)
(* Theorems about the money of orders, for any members, orders, requests,  *)
(* amendments and any number of transactions at the same time.             *)
(***************************************************************************)
EXTENDS OrderSettlement, FiniteSetTheorems, WellFoundedInduction, TLAPS

WishAsks == [points : Nat, balance : Nat, coupon : BOOLEAN, discount : Nat]

OrderOperations == {"create", "settle", "rollback", "refund", "amend"}

\* What the record of a transaction holds besides its types.
CallOK(k) ==
    /\ k.at # "idle" => k.account \in Accounts /\ k.op # "none"
    /\ k.op \in OrderOperations => k.key \in Orders /\ k.account = Owner[k.key]
    /\ k.op \in {"topup", "manual"} => k.key \in Requests
    /\ k.op = "create" => k.ask \in WishAsks
    /\ k.op \in {"settle", "rollback", "refund", "topup"} => k.net \in Nat
    /\ k.op = "refund" => k.ask \in [amount : Nat]
    /\ k.op = "amend" => k.ask \in AmendAsks
    /\ k.op = "topup" => k.ask \in [bonus : Nat]
    /\ k.at = "record" => k.op = "refund"

CallsOK == \A c \in Calls : CallOK(call[c])

RedeemedWithinPrice ==
    \A o \in Orders : order[o].redeem <= SubtotalAfterCoupon(order[o])

Typed == TypeOK /\ CallsOK /\ RedeemedWithinPrice

-----------------------------------------------------------------------------
\* What the arithmetic of the model returns.

LEMMA SmallerIs ==
    ASSUME NEW m \in Int, NEW n \in Int
    PROVE  /\ Smaller(m, n) \in Int
           /\ Smaller(m, n) <= m /\ Smaller(m, n) <= n
           /\ m \in Nat /\ n \in Nat => Smaller(m, n) \in Nat
BY DEF Smaller

LEMMA AtLeastZeroIs ==
    ASSUME NEW n \in Int
    PROVE  AtLeastZero(n) \in Nat /\ (n \in Nat => AtLeastZero(n) = n)
BY DEF AtLeastZero

LEMMA DeltaIs ==
    ASSUME NEW S, S \subseteq Entries
    PROVE  /\ Delta(S) \in Int
           /\ S = {} => Delta(S) = 0
           /\ S # {} => \E e \in S : Delta(S) = e.delta
<1>1. CASE S = {}
  BY <1>1 DEF Delta
<1>2. CASE S # {}
  <2>1. (CHOOSE e \in S : TRUE) \in S
    BY <1>2
  <2>2. (CHOOSE e \in S : TRUE).delta \in Int
    BY <2>1 DEF Entries
  <2> QED
    BY <1>2, <2>1, <2>2 DEF Delta
<1> QED
  BY <1>1, <1>2

LEMMA ScaledIs ==
    ASSUME NEW delta \in Int, NEW new \in Int, NEW base \in Nat, base > 0
    PROVE  Scaled(delta, new, base) \in Int
<1>1. delta * new \in Int
  OBVIOUS
<1>2. base \div 2 \in Int
  OBVIOUS
<1>3. \A x \in Int : x \div base \in Int
  OBVIOUS
<1> QED
  BY <1>1, <1>2, <1>3 DEF Scaled

LEMMA ProportionIs ==
    ASSUME NEW part \in Nat, NEW new \in Nat, NEW whole \in Nat
    PROVE  Proportion(part, new, whole) \in Int
<1>1. 2 * part * new \in Int
  OBVIOUS
<1>2. whole # 0 => \A x \in Int : x \div (2 * whole) \in Int
  OBVIOUS
<1> QED
  BY <1>1, <1>2 DEF Proportion

LEMMA EntryIs ==
    ASSUME NEW a \in Accounts, NEW key \in Orders \cup Requests, NEW type \in Types,
           NEW source \in Sources, NEW target \in {"POINTS", "BALANCE"},
           NEW delta \in Int
    PROVE  Entry(a, key, type, source, target, delta) \in Entries
BY DEF Entry, Entries

LEMMA ChangedEntryIs ==
    ASSUME NEW e \in Entries, NEW type \in Types, NEW source \in Sources,
           NEW delta \in Int
    PROVE  LET f == [e EXCEPT !.type = type, !.source = source, !.delta = delta]
           IN  /\ f \in Entries
               /\ f.account = e.account /\ f.key = e.key /\ f.target = e.target
               /\ f.type = type /\ f.source = source /\ f.delta = delta
BY DEF Entries

-----------------------------------------------------------------------------
\* What a transaction enters are entries.

LEMMA UndoneIs ==
    ASSUME TypeOK, NEW o, NEW type, NEW undo \in Types
    PROVE  Undone(o, type, undo) \subseteq Entries
<1>1. ASSUME NEW e \in Find(o, type, "ORDER")
      PROVE  [e EXCEPT !.type = undo, !.source = "FULL_REFUND", !.delta = -e.delta]
               \in Entries
  <2>1. e \in Entries
    BY DEF Find, TypeOK
  <2>2. -e.delta \in Int /\ "FULL_REFUND" \in Sources
    BY <2>1 DEF Entries, Sources
  <2> QED
    BY <2>1, <2>2, ChangedEntryIs
<1> QED
  BY <1>1 DEF Undone

LEMMA EarningsAre ==
    ASSUME Typed, NEW c \in Calls, call[c].op = "settle", call[c].at # "idle"
    PROVE  Earnings(c) \subseteq Entries /\ ReferralBonus(c) \subseteq Entries
<1>1. call[c].account \in Accounts /\ call[c].key \in Orders /\ call[c].net \in Nat
  BY DEF Typed, CallsOK, CallOK, OrderOperations
<1>2. OfTarget(Find(call[c].key, "REDEEM_ON_ORDER", "ORDER"), "BALANCE") \subseteq Entries
  BY DEF OfTarget, Find, Typed, TypeOK
<1>3. PaidByBalance(call[c].key) \in Int
  BY <1>2, DeltaIs DEF PaidByBalance
<1>4. AtLeastZero(call[c].net - PaidByBalance(call[c].key)) \in Int
  BY <1>1, <1>3, AtLeastZeroIs
<1>5. Referrer[call[c].account] # Nobody => Referrer[call[c].account] \in Accounts
  BY <1>1, LedgerAssumption
<1>6. Earnings(c) \subseteq Entries
  BY <1>1, EntryIs DEF Earnings, Types, Sources
<1>7. ReferralBonus(c) \subseteq Entries
  BY <1>1, <1>4, <1>5, EntryIs DEF ReferralBonus, Types, Sources
<1> QED
  BY <1>6, <1>7

LEMMA AdjustmentsAre ==
    ASSUME Typed, NEW c \in Calls, call[c].op = "amend", call[c].at # "idle"
    PROVE  /\ PointsReturned(c) \subseteq Entries
           /\ EarningAdjusted(c) \subseteq Entries
           /\ BonusAdjustment(c) \subseteq Entries
<1>1. /\ call[c].account \in Accounts /\ call[c].key \in Orders
      /\ call[c].ask \in AmendAsks
  BY DEF Typed, CallsOK, CallOK, OrderOperations
<1>2. /\ call[c].ask.id \in Sources /\ call[c].ask.back \in Int
      /\ call[c].ask.base \in Nat /\ call[c].ask.new \in Nat
  BY <1>1 DEF AmendAsks, Sources
<1>3. ASSUME NEW type, NEW adjustment \in Types
      PROVE  Rescaled(c, type, adjustment) \subseteq Entries
  <2>1. SUFFICES ASSUME NEW e \in Find(call[c].key, type, "ORDER"), call[c].ask.base > 0
                 PROVE  [e EXCEPT !.type = adjustment, !.source = call[c].ask.id,
                           !.delta = Scaled(e.delta, call[c].ask.new, call[c].ask.base)
                                       - e.delta] \in Entries
    BY DEF Rescaled
  <2>2. e \in Entries
    BY DEF Find, Typed, TypeOK
  <2>3. Scaled(e.delta, call[c].ask.new, call[c].ask.base) - e.delta \in Int
    <3>1. e.delta \in Int
      BY <2>2 DEF Entries
    <3>2. Scaled(e.delta, call[c].ask.new, call[c].ask.base) \in Int
      <4>1. /\ call[c].ask.new \in Int /\ call[c].ask.base \in Nat
            /\ call[c].ask.base > 0
        BY <1>2, <2>1
      <4> QED
        BY <3>1, <4>1, ScaledIs, Zenon
    <3> QED
      BY <3>1, <3>2
  <2> QED
    BY <1>2, <1>3, <2>2, <2>3, ChangedEntryIs
<1>4. PointsReturned(c) \subseteq Entries
  BY <1>1, <1>2, EntryIs DEF PointsReturned, Types
<1>5. EarningAdjusted(c) \subseteq Entries
  <2>1. "AMEND_EARN_ADJUST" \in Types
    BY DEF Types
  <2> QED
    BY <1>1, <1>2, <1>3, <2>1, EntryIs DEF EarningAdjusted
<1>6. BonusAdjustment(c) \subseteq Entries
  <2>1. "AMEND_REFERRAL_ADJUST" \in Types
    BY DEF Types
  <2> QED
    BY <1>3, <2>1 DEF BonusAdjustment
<1> QED
  BY <1>4, <1>5, <1>6

\* The discounts of a request or of an order row leave at least nothing.
LEMMA SubtotalIs ==
    ASSUME NEW k, k.discount \in Nat
    PROVE  /\ CouponCents(k) \in Nat
           /\ SubtotalAfterCoupon(k) \in Nat
<1>1. CouponCents(k) \in Nat /\ Price \in Nat
  BY SettlementAssumption DEF CouponCents
<1>2. Price - k.discount - CouponCents(k) \in Int
  BY <1>1
<1> QED
  BY <1>1, <1>2, AtLeastZeroIs DEF SubtotalAfterCoupon

LEMMA PaymentsAre ==
    ASSUME Typed, NEW c \in Calls, call[c].op = "create", call[c].at # "idle"
    PROVE  /\ Payments(c) \subseteq Entries
           /\ Redeemed(c) \in Nat /\ Redeemed(c) <= SubtotalAfterCoupon(call[c].ask)
           /\ SubtotalAfterCoupon(call[c].ask) \in Nat
<1>1. /\ call[c].account \in Accounts /\ call[c].key \in Orders
      /\ call[c].ask \in WishAsks
  BY DEF Typed, CallsOK, CallOK, OrderOperations
<1>2. call[c].own.points \in Int
  BY DEF Typed, TypeOK, CallRecords, Rows
<1>3. call[c].ask.points \in Nat /\ call[c].ask.balance \in Nat
  BY <1>1 DEF WishAsks
<1>4. AtLeastZero(call[c].own.points) \in Nat
  BY <1>2, AtLeastZeroIs
<1>5. Smaller(call[c].ask.points, AtLeastZero(call[c].own.points)) \in Nat
  <2>1. \A m, n \in Nat : Smaller(m, n) \in Nat
    BY DEF Smaller
  <2> QED
    BY <1>3, <1>4, <2>1, Zenon
<1>6. /\ Redeemed(c) \in Nat /\ Redeemed(c) <= SubtotalAfterCoupon(call[c].ask)
      /\ SubtotalAfterCoupon(call[c].ask) \in Nat
  <2> DEFINE most == SubtotalAfterCoupon(call[c].ask)
  <2>1. most \in Nat
    BY <1>1, SubtotalIs DEF WishAsks
  <2> HIDE DEF most
  <2>2. \A n \in Nat : Smaller(n, most) \in Nat /\ Smaller(n, most) <= most
    BY <2>1, SmallerIs
  <2>3. Redeemed(c) = Smaller(Smaller(call[c].ask.points, AtLeastZero(call[c].own.points)), most)
    BY DEF Redeemed, most
  <2> QED
    BY <1>5, <2>1, <2>2, <2>3, Zenon DEF most
<1>7. Payments(c) \subseteq Entries
  <2>1. "REDEEM_ON_ORDER" \in Types /\ "ORDER" \in Sources
    BY DEF Types, Sources
  <2>2. \A n \in Nat, target \in {"POINTS", "BALANCE"} :
          Entry(call[c].account, call[c].key, "REDEEM_ON_ORDER", "ORDER", target, -n)
            \in Entries
    BY <1>1, <2>1, EntryIs
  <2> QED
    BY <1>3, <1>6, <2>2 DEF Payments
<1> QED
  BY <1>6, <1>7

LEMMA CreditsAre ==
    ASSUME Typed, NEW c \in Calls, call[c].op = "topup", call[c].at # "idle"
    PROVE  Credits(c) \subseteq Entries /\ TopupBonus(c) \subseteq Entries
<1>1. /\ call[c].account \in Accounts /\ call[c].key \in Requests
      /\ call[c].net \in Nat /\ call[c].ask.bonus \in Nat
  BY DEF Typed, CallsOK, CallOK
<1>2. Referrer[call[c].account] # Nobody => Referrer[call[c].account] \in Accounts
  BY <1>1, LedgerAssumption
<1>3. Credits(c) \subseteq Entries
  <2>1. {"TOPUP_PURCHASED", "ADJUSTMENT_MANUAL"} \subseteq Types /\ "TOPUP" \in Sources
    BY DEF Types, Sources
  <2>2. Entry(call[c].account, call[c].key, "TOPUP_PURCHASED", "TOPUP", "BALANCE",
              call[c].net) \in Entries
    BY <1>1, <2>1, EntryIs
  <2>3. Entry(call[c].account, call[c].key, "ADJUSTMENT_MANUAL", "TOPUP", "POINTS",
              call[c].ask.bonus) \in Entries
    BY <1>1, <2>1, EntryIs
  <2> QED
    BY <2>2, <2>3 DEF Credits
<1>4. TopupBonus(c) \subseteq Entries
  <2>1. "REFERRAL_BONUS" \in Types /\ "TOPUP" \in Sources
    BY DEF Types, Sources
  <2> QED
    BY <1>1, <1>2, <2>1, EntryIs DEF TopupBonus
<1> QED
  BY <1>3, <1>4
-----------------------------------------------------------------------------
\* The types in three parts.

LedgerTyped ==
    account \in [Accounts -> Rows] /\ ledger \subseteq Entries /\ lost \subseteq Accounts

CallsTyped == call \in [Calls -> CallRecords] /\ CallsOK

OrdersTyped ==
    /\ order \in [Orders -> OrderRows]
    /\ coupon \in Orders \cup {Nobody}
    /\ amendments \in [Orders -> AmendmentRows]
    /\ owed \subseteq Tasks
    /\ noticed \subseteq Orders
    /\ deliveries \in [Orders -> Nat]
    /\ RedeemedWithinPrice

LEMMA TypedParts == Typed <=> LedgerTyped /\ CallsTyped /\ OrdersTyped
BY DEF Typed, TypeOK, LedgerTyped, CallsTyped, OrdersTyped

LEMMA PartsAreTyped == LedgerTyped' /\ CallsTyped' /\ OrdersTyped' => Typed'
BY DEF Typed, TypeOK, LedgerTyped, CallsTyped, OrdersTyped

LEMMA CallKept ==
    ASSUME CallsTyped, UNCHANGED call
    PROVE  CallsTyped'
BY DEF CallsTyped, CallsOK, CallOK

LEMMA StartTyped ==
    ASSUME Typed, NEW c \in Calls, NEW op \in Operations, NEW key \in Orders \cup Requests,
           NEW a \in Accounts, NEW net \in Int, NEW ask \in Asks,
           Starts(c, op, key, a, net, ask),
           CallOK([at |-> "read", op |-> op, key |-> key, account |-> a,
                   own |-> account[a], ref |-> 0, net |-> net, ask |-> ask])
    PROVE  CallsTyped'
<1> DEFINE new == [at |-> "read", op |-> op, key |-> key, account |-> a,
                   own |-> account[a], ref |-> 0, net |-> net, ask |-> ask]
<1>1. account[a] \in Rows
  BY DEF Typed, TypeOK
<1>2. new \in CallRecords
  BY <1>1 DEF CallRecords, CallSteps
<1>3. call \in [Calls -> CallRecords] /\ \A d \in Calls : CallOK(call[d])
  BY DEF Typed, TypeOK, CallsOK
<1>4. call' = [call EXCEPT ![c] = new]
  BY DEF Starts
<1>5. \A d \in Calls : CallOK(call'[d])
  <2> HIDE DEF new
  <2> QED
    BY <1>3, <1>4 DEF new
<1> QED
  BY <1>2, <1>3, <1>4, <1>5 DEF CallsTyped, CallsOK, CallOK

LEMMA IdleIsTyped == IdleCall \in CallRecords /\ CallOK(IdleCall)
<1>1. NoAsk \in Asks
  BY DEF Asks
<1>2. EmptyRow \in Rows
  BY DEF EmptyRow, Rows
<1> QED
  BY <1>1, <1>2 DEF IdleCall, CallRecords, CallSteps, Operations, CallOK, OrderOperations

LEMMA EndTyped ==
    ASSUME Typed, NEW c \in Calls, Ends(c)
    PROVE  CallsTyped'
<1>1. call \in [Calls -> CallRecords] /\ \A d \in Calls : CallOK(call[d])
  BY DEF Typed, TypeOK, CallsOK
<1>2. call' \in [Calls -> CallRecords]
  BY <1>1, IdleIsTyped DEF Ends
<1>3. \A d \in Calls : CallOK(call'[d])
  BY <1>1, IdleIsTyped DEF Ends
<1> QED
  BY <1>2, <1>3 DEF CallsTyped, CallsOK, CallOK

LEMMA LockTyped ==
    ASSUME Typed, NEW c \in Calls, NEW refs, refs \subseteq Entries, LocksOwn(c, refs)
    PROVE  /\ LedgerTyped' /\ CallsTyped'
           /\ UNCHANGED <<account, ledger, lost>>
           /\ call[c].at # "idle"
<1>1. /\ call \in [Calls -> CallRecords] /\ \A d \in Calls : CallOK(call[d])
      /\ call[c].at = "read"
  BY DEF Typed, TypeOK, CallsOK, LocksOwn
<1>2. PICK e \in refs : call' = [call EXCEPT ![c].at = "referrer",
                                           ![c].ref = account[e.account].points]
  BY DEF LocksOwn
<1> DEFINE new == [call[c] EXCEPT !.at = "referrer", !.ref = account[e.account].points]
<1>3. account[e.account].points \in Int
  BY DEF Typed, TypeOK, Entries, Rows
<1>4. call' = [call EXCEPT ![c] = new]
  BY <1>2
<1>5. new \in CallRecords
  BY <1>1, <1>3 DEF CallRecords, CallSteps
<1>6. CallOK(new)
  BY <1>1 DEF CallOK, CallRecords
<1>7. call' \in [Calls -> CallRecords] /\ \A d \in Calls : CallOK(call'[d])
  <2> HIDE DEF new
  <2> QED
    BY <1>1, <1>4, <1>5, <1>6
<1>8. UNCHANGED <<account, ledger, lost>>
  BY DEF LocksOwn
<1> QED
  BY <1>1, <1>7, <1>8 DEF CallsTyped, CallsOK, CallOK, LedgerTyped, Typed, TypeOK

LEMMA CommitTyped ==
    ASSUME Typed, NEW c \in Calls, NEW own, own \subseteq Entries,
           NEW refs, refs \subseteq Entries, NEW columns, NEW points \in Int,
           NEW balance \in Int, NEW spend \in Nat,
           Commits(c, own, refs, columns, points, balance, spend)
    PROVE  LedgerTyped'
<1>1. /\ account \in [Accounts -> Rows] /\ ledger \subseteq Entries
      /\ lost \subseteq Accounts /\ call[c] \in CallRecords
      /\ call[c].own \in Rows /\ call[c].ref \in Int
  BY DEF Typed, TypeOK, CallRecords
<1>2. call[c].at # "idle"
  BY DEF Commits, HasLocks
<1>3. call[c].account \in Accounts
  BY <1>2 DEF Typed, CallsOK, CallOK
<1>4. ledger' \subseteq Entries
  BY <1>1 DEF Commits
<1>5. lost' \subseteq Accounts
  BY <1>1, <1>3 DEF Commits, Entries
<1>6. Delta(refs) \in Int
  BY DeltaIs
<1> DEFINE a == call[c].account
           From(column) == IF column \in columns THEN call[c].own[column]
                           ELSE account[a][column]
           row == [points |-> From("points") + points, balance |-> From("balance") + balance,
                   spend |-> IF "spend" \in columns THEN spend ELSE account[a].spend]
           other(b) == [account[b] EXCEPT !.points = call[c].ref + Delta(refs)]
<1>7. row \in Rows
  BY <1>1, <1>3 DEF Rows
<1>8. \A b \in Accounts : other(b) \in Rows
  BY <1>1, <1>6 DEF Rows
<1>9. account' = [b \in Accounts |->
         IF b = a THEN row
         ELSE IF \E e \in refs : e.account = b THEN other(b) ELSE account[b]]
  BY DEF Commits
<1>10. account' \in [Accounts -> Rows]
  <2> HIDE DEF row, other
  <2> QED
    BY <1>1, <1>7, <1>8, <1>9
<1> QED
  BY <1>4, <1>5, <1>10 DEF LedgerTyped
-----------------------------------------------------------------------------
\* Every step of a loyalty transaction is typed.

LEMMA HasLocksIs ==
    ASSUME NEW c \in Calls, NEW refs, HasLocks(c, refs)
    PROVE  call[c].at \in {"read", "referrer"}
BY DEF HasLocks

LEMMA DeltasAre ==
    ASSUME TypeOK, NEW S, S \subseteq Entries, NEW target
    PROVE  Delta(S) \in Int /\ Delta(OfTarget(S, target)) \in Int
<1>1. OfTarget(S, target) \subseteq Entries
  BY DEF OfTarget
<1> QED
  BY <1>1, DeltaIs

LEMMA SettlesTyped ==
    ASSUME Typed, NEW c \in Calls, Settles(c)
    PROVE  LedgerTyped' /\ CallsTyped'
<1>1. CASE LocksOwn(c, ReferralBonus(c))
  <2>1. call[c].op = "settle" /\ call[c].at # "idle"
    BY <1>1 DEF Settles, LocksOwn
  <2> QED
    BY <1>1, <2>1, EarningsAre, LockTyped
<1>2. CASE Commits(c, Earnings(c), ReferralBonus(c), {"points", "spend"},
                   Delta(Earnings(c)), 0, call[c].own.spend + call[c].net) /\ Ends(c)
  <2>1. call[c].op = "settle" /\ call[c].at # "idle"
    BY <1>2 DEF Settles, Commits, HasLocks
  <2>2. Earnings(c) \subseteq Entries /\ ReferralBonus(c) \subseteq Entries
    BY <2>1, EarningsAre
  <2>3. call[c].own.spend \in Nat /\ call[c].net \in Nat
    BY <2>1 DEF Typed, TypeOK, CallsOK, CallOK, CallRecords, Rows
  <2>4. call[c].own.spend + call[c].net \in Nat /\ Delta(Earnings(c)) \in Int /\ 0 \in Int
    BY <2>2, <2>3, DeltaIs
  <2>5. LedgerTyped'
    BY <1>2, <2>2, <2>4, CommitTyped
  <2> QED
    BY <1>2, <2>5, EndTyped
<1> QED
  BY <1>1, <1>2 DEF Settles

LEMMA RollbackIs ==
    ASSUME Typed, NEW c \in Calls
    PROVE  /\ TakenBack(c) \cup Returned(c) \subseteq Entries
           /\ BonusTakenBack(c) \subseteq Entries
           /\ Delta(TakenBack(c)) + Delta(OfTarget(Returned(c), "POINTS")) \in Int
           /\ Delta(OfTarget(Returned(c), "BALANCE")) \in Int
<1>1. {"REFUND_REVERSE_EARN", "REFUND_RETURN_REDEEM", "REFUND_REVERSE_REFERRAL"}
        \subseteq Types
  BY DEF Types
<1>2. /\ TakenBack(c) \subseteq Entries /\ Returned(c) \subseteq Entries
      /\ BonusTakenBack(c) \subseteq Entries
  BY <1>1, UndoneIs DEF TakenBack, Returned, BonusTakenBack, Typed
<1>3. /\ Delta(TakenBack(c)) \in Int
      /\ Delta(OfTarget(Returned(c), "POINTS")) \in Int
      /\ Delta(OfTarget(Returned(c), "BALANCE")) \in Int
  BY <1>2, DeltasAre DEF Typed
<1> QED
  BY <1>2, <1>3

LEMMA RecordIsTyped ==
    ASSUME Typed, NEW c \in Calls, call[c].op = "refund"
    PROVE  LET new == [IdleCall EXCEPT !.at = "record", !.op = "refund",
                         !.key = call[c].key, !.account = call[c].account,
                         !.ask = call[c].ask]
           IN  call[c].at # "idle" => new \in CallRecords /\ CallOK(new)
<1>1. IdleCall \in CallRecords
  BY IdleIsTyped
<1>2. call[c] \in CallRecords /\ CallOK(call[c])
  BY DEF Typed, TypeOK, CallsOK
<1> QED
  BY <1>1, <1>2 DEF IdleCall, CallRecords, CallSteps, Operations, CallOK, OrderOperations

LEMMA RollbackTyped ==
    ASSUME Typed, NEW c \in Calls, Rollback(c)
    PROVE  LedgerTyped' /\ CallsTyped'
<1>1. CASE RollbackLocks(c)
  BY <1>1, RollbackIs, LockTyped DEF RollbackLocks
<1>2. ASSUME RollsBack(c),
             call' = [call EXCEPT ![c] =
               IF call[c].op = "rollback" THEN IdleCall
               ELSE [IdleCall EXCEPT !.at = "record", !.op = "refund",
                       !.key = call[c].key, !.account = call[c].account,
                       !.ask = call[c].ask]]
      PROVE  LedgerTyped' /\ CallsTyped'
  <2>1. call[c].at # "idle" /\ call[c].op \in {"rollback", "refund"}
    BY <1>2 DEF Rollback, RollsBack, Commits, HasLocks
  <2>2. SpendAfterRefund(c) \in Nat
    <3>1. call[c].own.spend \in Nat /\ call[c].net \in Nat
      BY <2>1 DEF Typed, TypeOK, CallsOK, CallOK, CallRecords, Rows
    <3>2. AtLeastZero(call[c].own.spend - call[c].net) \in Nat
      BY <3>1, AtLeastZeroIs
    <3> QED
      BY <3>1, <3>2 DEF SpendAfterRefund
  <2>3. LedgerTyped'
    BY <1>2, <2>2, RollbackIs, CommitTyped DEF RollsBack
  <2>4. CASE call[c].op = "rollback"
    BY <1>2, <2>3, <2>4, EndTyped DEF Ends
  <2>5. CASE call[c].op = "refund"
    <3> DEFINE new == [IdleCall EXCEPT !.at = "record", !.op = "refund",
                         !.key = call[c].key, !.account = call[c].account,
                         !.ask = call[c].ask]
    <3>1. new \in CallRecords /\ CallOK(new)
      BY <2>1, <2>5, RecordIsTyped
    <3>2. call' = [call EXCEPT ![c] = new]
      BY <1>2, <2>5
    <3>3. call \in [Calls -> CallRecords] /\ \A d \in Calls : CallOK(call[d])
      BY DEF Typed, TypeOK, CallsOK
    <3>4. call' \in [Calls -> CallRecords] /\ \A d \in Calls : CallOK(call'[d])
      <4> HIDE DEF new
      <4> QED
        BY <3>1, <3>2, <3>3
    <3> QED
      BY <2>3, <3>4 DEF CallsTyped, CallsOK, CallOK
  <2> QED
    BY <2>1, <2>4, <2>5
<1> QED
  BY <1>1, <1>2 DEF Rollback

LEMMA AmendsTyped ==
    ASSUME Typed, NEW c \in Calls, Amends(c)
    PROVE  LedgerTyped' /\ CallsTyped'
<1>1. CASE AmendmentLocks(c)
  <2>1. call[c].op = "amend" /\ call[c].at # "idle"
    BY <1>1 DEF Amends, AmendmentLocks, LocksOwn
  <2> QED
    BY <1>1, <2>1, AdjustmentsAre, LockTyped DEF AmendmentLocks
<1>2. CASE AppliesAmendment(c) /\ Ends(c)
  <2>1. call[c].op = "amend" /\ call[c].at # "idle"
    BY <1>2 DEF Amends, AppliesAmendment, Commits, HasLocks
  <2>2. /\ PointsReturned(c) \cup EarningAdjusted(c) \subseteq Entries
        /\ EarningAdjusted(c) \subseteq Entries /\ BonusAdjustment(c) \subseteq Entries
    BY <2>1, AdjustmentsAre
  <2>3. call[c].own.spend \in Nat /\ call[c].ask \in AmendAsks
    BY <2>1 DEF Typed, TypeOK, CallsOK, CallOK, CallRecords, Rows
  <2>4. /\ call[c].ask.new \in Nat /\ call[c].ask.base \in Nat
        /\ call[c].ask.back \in Nat
    BY <2>3 DEF AmendAsks
  <2>5. AtLeastZero(call[c].own.spend + call[c].ask.new - call[c].ask.base) \in Nat
    BY <2>3, <2>4, AtLeastZeroIs
  <2>6. Delta(EarningAdjusted(c)) \in Int
    BY <2>2, DeltaIs
  <2>7. call[c].ask.back + Delta(EarningAdjusted(c)) \in Int /\ 0 \in Int
    BY <2>4, <2>6
  <2>8. LedgerTyped'
    BY <1>2, <2>2, <2>5, <2>7, CommitTyped DEF AppliesAmendment
  <2> QED
    BY <1>2, <2>8, EndTyped
<1>3. CASE UNCHANGED <<account, ledger, lost>> /\ Ends(c)
  BY <1>3, EndTyped DEF LedgerTyped, Typed, TypeOK
<1> QED
  BY <1>1, <1>2, <1>3 DEF Amends

LEMMA TopsUpTyped ==
    ASSUME Typed, NEW c \in Calls, TopsUp(c)
    PROVE  LedgerTyped' /\ CallsTyped'
<1>1. CASE LocksOwn(c, TopupBonus(c))
  <2>1. call[c].op = "topup" /\ call[c].at # "idle"
    BY <1>1 DEF TopsUp, LocksOwn
  <2> QED
    BY <1>1, <2>1, CreditsAre, LockTyped
<1>2. CASE Commits(c, Credits(c), TopupBonus(c), {"points", "balance", "spend"},
                   call[c].ask.bonus, call[c].net, call[c].own.spend + call[c].net)
           /\ Ends(c)
  <2>1. call[c].op = "topup" /\ call[c].at # "idle"
    BY <1>2 DEF TopsUp, Commits, HasLocks
  <2>2. call[c].own.spend \in Nat /\ call[c].net \in Nat /\ call[c].ask.bonus \in Nat
    BY <2>1 DEF Typed, TypeOK, CallsOK, CallOK, CallRecords, Rows
  <2>3. /\ call[c].own.spend + call[c].net \in Nat
        /\ call[c].net \in Int /\ call[c].ask.bonus \in Int
    BY <2>2
  <2>4. LedgerTyped'
    BY <1>2, <2>1, <2>3, CreditsAre, CommitTyped
  <2> QED
    BY <1>2, <2>4, EndTyped
<1> QED
  BY <1>1, <1>2 DEF TopsUp

LEMMA AdjustsTyped ==
    ASSUME Typed, NEW c \in Calls, AdjustsManually(c)
    PROVE  LedgerTyped' /\ CallsTyped'
<1> DEFINE new == Entry(call[c].account, call[c].key, "ADJUSTMENT_MANUAL", "MANUAL",
                        "POINTS", call[c].net)
<1>1. call[c].op = "manual" /\ call[c].at # "idle"
  BY DEF AdjustsManually, Commits, HasLocks
<1>2. call[c].account \in Accounts /\ call[c].key \in Requests /\ call[c].net \in Int
  BY <1>1 DEF Typed, TypeOK, CallsOK, CallOK, CallRecords
<1>3. "ADJUSTMENT_MANUAL" \in Types /\ "MANUAL" \in Sources
  BY DEF Types, Sources
<1>4. new \in Entries
  BY <1>2, <1>3, EntryIs
<1>5. {new} \subseteq Entries /\ {} \subseteq Entries /\ 0 \in Int /\ 0 \in Nat
  BY <1>4
<1>6. Commits(c, {new}, {}, {"points"}, call[c].net, 0, 0)
  BY DEF AdjustsManually
<1>7. LedgerTyped'
  <2> HIDE DEF new
  <2> QED
    BY <1>2, <1>5, <1>6, CommitTyped
<1> QED
  BY <1>7, EndTyped DEF AdjustsManually

LEMMA CreatesTyped ==
    ASSUME Typed, NEW c \in Calls, Creates(c)
    PROVE  LedgerTyped' /\ CallsTyped' /\ OrdersTyped'
<1>1. call[c].op = "create" /\ call[c].at # "idle"
  BY DEF Creates, Commits, HasLocks
<1>2. /\ call[c].key \in Orders /\ call[c].ask \in WishAsks
      /\ Payments(c) \subseteq Entries
      /\ Redeemed(c) \in Nat /\ Redeemed(c) <= SubtotalAfterCoupon(call[c].ask)
      /\ SubtotalAfterCoupon(call[c].ask) \in Nat /\ Price \in Nat
  BY <1>1, PaymentsAre, SettlementAssumption DEF Typed, CallsOK, CallOK, OrderOperations
<1>3. /\ call[c].ask.balance \in Nat /\ call[c].ask.coupon \in BOOLEAN
      /\ call[c].ask.discount \in Nat
  BY <1>2 DEF WishAsks
<1>4. LedgerTyped'
  <2>1. -Redeemed(c) \in Int /\ -call[c].ask.balance \in Int /\ {} \subseteq Entries
        /\ 0 \in Nat
    BY <1>2, <1>3
  <2> QED
    BY <1>2, <2>1, CommitTyped DEF Creates
<1>5. CallsTyped'
  BY EndTyped DEF Creates
<1>6. OrdersTyped'
  <2> DEFINE after == SubtotalAfterCoupon(call[c].ask) - Redeemed(c)
             row == [status |-> "paid", subtotal |-> Price, after |-> after,
                     redeem |-> Redeemed(c), coupon |-> call[c].ask.coupon,
                     discount |-> call[c].ask.discount, courier |-> FALSE]
  <2>0. after \in Nat
    BY <1>2
  <2>1. row \in OrderRows /\ row.redeem <= SubtotalAfterCoupon(row)
    <3>1. SubtotalAfterCoupon(row) = SubtotalAfterCoupon(call[c].ask)
      BY DEF SubtotalAfterCoupon, CouponCents
    <3> HIDE DEF after
    <3> QED BY <1>2, <1>3, <2>0, <3>1 DEF OrderRows, Statuses
  <2>2. order' = [order EXCEPT ![call[c].key] = row]
    BY DEF Creates
  <2>3. /\ order \in [Orders -> OrderRows]
        /\ \A o \in Orders : order[o].redeem <= SubtotalAfterCoupon(order[o])
    BY DEF Typed, TypeOK, RedeemedWithinPrice
  <2>4. /\ order' \in [Orders -> OrderRows]
        /\ \A o \in Orders : order'[o].redeem <= SubtotalAfterCoupon(order'[o])
    <3> HIDE DEF row
    <3> QED
      BY <2>1, <2>2, <2>3
  <2>5. Task(call[c].key, "order", "announce") \in Tasks
    BY <1>2 DEF Task, Tasks, Origins
  <2>6. coupon' \in Orders \cup {Nobody} /\ owed' \subseteq Tasks
    BY <1>2, <2>5 DEF Creates, Typed, TypeOK
  <2>7. UNCHANGED <<amendments, noticed, deliveries>>
    BY DEF Creates
  <2> QED
    BY <2>4, <2>6, <2>7 DEF OrdersTyped, Typed, TypeOK, RedeemedWithinPrice, SubtotalAfterCoupon,
          CouponCents
<1> QED
  BY <1>4, <1>5, <1>6

LEMMA LoyaltyCallTyped ==
    ASSUME Typed, NEW c \in Calls, LoyaltyCall(c)
    PROVE  LedgerTyped' /\ CallsTyped'
<1>1. CASE Ends(c) /\ UNCHANGED <<account, ledger, lost>>
  BY <1>1, EndTyped DEF LedgerTyped, Typed, TypeOK
<1>2. ASSUME NEW key \in Requests, RequestStarts(c, key)
      PROVE  LedgerTyped' /\ CallsTyped'
  <2>1. /\ Payload[key].op \in {"topup", "manual"} /\ Payload[key].account \in Accounts
        /\ Payload[key].amount \in Int /\ Payload[key].bonus \in Nat
        /\ Payload[key].op = "topup" => Payload[key].amount > 0
    BY LedgerAssumption
  <2>2. [bonus |-> Payload[key].bonus] \in [bonus : Nat]
    BY <2>1
  <2>3. [bonus |-> Payload[key].bonus] \in Asks
    BY <2>2 DEF Asks
  <2>4. Payload[key].op \in Operations /\ key \in Orders \cup Requests
    BY <2>1 DEF Operations
  <2>5. CallOK([at |-> "read", op |-> Payload[key].op, key |-> key,
                account |-> Payload[key].account, own |-> account[Payload[key].account],
                ref |-> 0, net |-> Payload[key].amount,
                ask |-> [bonus |-> Payload[key].bonus]])
    BY <2>1, <2>2 DEF CallOK, OrderOperations
  <2>6. CallsTyped'
    BY <1>2, <2>1, <2>3, <2>4, <2>5, StartTyped DEF RequestStarts
  <2> QED
    BY <1>2, <2>6 DEF RequestStarts, LedgerTyped, Typed, TypeOK
<1> QED
  BY <1>1, <1>2, SettlesTyped, TopsUpTyped, AdjustsTyped
     DEF LoyaltyCall, DuplicateFails, Abort
-----------------------------------------------------------------------------
\* Every step of an order is typed.

LEMMA OrderStartTyped ==
    ASSUME Typed, NEW c \in Calls, NEW o \in Orders, NEW op \in OrderOperations,
           NEW net \in Nat, NEW ask \in Asks, Starts(c, op, o, Owner[o], net, ask),
           op = "create" => ask \in WishAsks,
           op = "refund" => ask \in [amount : Nat],
           op # "amend"
    PROVE  CallsTyped'
<1>1. Owner[o] \in Accounts /\ net \in Int /\ o \in Orders \cup Requests
  BY SettlementAssumption
<1>2. op \in Operations
  BY DEF Operations, OrderOperations
<1>3. CallOK([at |-> "read", op |-> op, key |-> o, account |-> Owner[o],
              own |-> account[Owner[o]], ref |-> 0, net |-> net, ask |-> ask])
  BY <1>1 DEF CallOK, OrderOperations
<1> QED
  BY <1>1, <1>2, <1>3, StartTyped

LEMMA NoAskIsTyped == NoAsk \in Asks
BY DEF Asks

LEMMA NetIsTyped ==
    ASSUME Typed, NEW o \in Orders
    PROVE  /\ NetOf(o) \in Nat /\ TotalOf(o) \in Nat
           /\ NetAtCreation(o) \in Nat /\ AmendmentBase(o) \in Nat
<1>1. /\ order[o].subtotal \in Nat /\ order[o].redeem \in Nat /\ order[o].discount \in Nat
      /\ order[o].after \in Nat /\ order[o].redeem <= SubtotalAfterCoupon(order[o])
  BY DEF Typed, TypeOK, OrderRows, RedeemedWithinPrice
<1>2. CouponCents(order[o]) \in Nat /\ SubtotalAfterCoupon(order[o]) \in Nat
  BY <1>1, SubtotalIs
<1>3. /\ order[o].subtotal - CouponCents(order[o]) - order[o].redeem \in Int
      /\ order[o].subtotal - order[o].redeem \in Int
      /\ SubtotalAfterCoupon(order[o]) - order[o].redeem \in Nat
  BY <1>1, <1>2
<1> QED
  BY <1>1, <1>3, AtLeastZeroIs DEF NetOf, TotalOf, NetAtCreation, AmendmentBase

LEMMA CreateStartTyped ==
    ASSUME Typed, NEW c \in Calls, NEW o \in Orders, NEW wish \in Wishes[o],
           CreateStarts(c, o, wish)
    PROVE  CallsTyped'
<1>1. wish \in WishAsks
  BY SettlementAssumption DEF WishAsks
<1>2. wish \in Asks /\ "create" \in OrderOperations /\ 0 \in Nat
  BY <1>1 DEF Asks, WishAsks, OrderOperations
<1> QED
  BY <1>1, <1>2, OrderStartTyped DEF CreateStarts

LEMMA HandlersTyped ==
    ASSUME Typed, NEW c \in Calls, NEW task \in owed,
           HandleOrderPaid(c, task) \/ HandleRefunded(c, task)
    PROVE  CallsTyped'
<1>1. task.order \in Orders
  BY DEF Typed, TypeOK, Tasks
<1>2. {"settle", "rollback"} \subseteq OrderOperations
  BY DEF OrderOperations
<1>3. CASE HandleOrderPaid(c, task)
  <2>2. (IF task.from = "order" THEN NetAtCreation(task.order)
         ELSE order[task.order].after) \in Nat
    BY <1>1, NetIsTyped DEF TotalOf
  <2> QED
    BY <1>1, <1>2, <1>3, <2>2, NoAskIsTyped, OrderStartTyped
       DEF HandleOrderPaid, SettleStarts
<1>4. CASE HandleRefunded(c, task)
  BY <1>1, <1>2, <1>4, NoAskIsTyped, NetIsTyped, OrderStartTyped
     DEF HandleRefunded, RollbackStarts
<1> QED
  BY <1>3, <1>4

LEMMA FullRefundStartTyped ==
    ASSUME Typed, NEW c \in Calls, NEW o \in Orders, FullRefundStarts(c, o)
    PROVE  CallsTyped'
<1>1. [amount |-> TotalOf(o)] \in [amount : Nat]
  BY NetIsTyped
<1>2. [amount |-> TotalOf(o)] \in Asks /\ "refund" \in OrderOperations
  BY <1>1 DEF Asks, OrderOperations
<1> QED
  BY <1>1, <1>2, NetIsTyped, OrderStartTyped DEF FullRefundStarts, RollbackStarts

LEMMA RefundedIs ==
    ASSUME Typed, NEW o \in Orders, NEW change \in Changes
    PROVE  Refunded(o, change) \in [cash : Nat, back : Nat]
<1> DEFINE cashLeft == AtLeastZero(TotalOf(o) - amendments[o].cash)
           pointsLeft == AtLeastZero(order[o].redeem - amendments[o].back)
           gross == Smaller(change.gross, cashLeft + pointsLeft)
           left == AtLeastZero(gross - cashLeft)
           back == Smaller(pointsLeft, left)
<1>0. \A m, n \in Nat : Smaller(m, n) \in Nat
  BY DEF Smaller
<1>1. cashLeft \in Nat
  BY NetIsTyped, AtLeastZeroIs DEF Typed, TypeOK, AmendmentRows
<1>2. pointsLeft \in Nat
  BY AtLeastZeroIs DEF Typed, TypeOK, AmendmentRows, OrderRows
<1>3. change.gross \in Nat
  BY SettlementAssumption
<1>4. gross \in Nat
  <2>1. cashLeft + pointsLeft \in Nat
    <3> HIDE DEF cashLeft, pointsLeft
    <3> QED
      BY <1>1, <1>2
  <2> HIDE DEF cashLeft, pointsLeft
  <2> QED
    BY <1>0, <1>3, <2>1
<1>5. left \in Nat /\ AtLeastZero(gross - back) \in Nat /\ back \in Nat
  <2> HIDE DEF cashLeft, pointsLeft, gross
  <2>1. left \in Nat
    BY <1>1, <1>4, AtLeastZeroIs
  <2> HIDE DEF left
  <2>2. back \in Nat
    BY <1>0, <1>2, <2>1
  <2> HIDE DEF back
  <2> QED
    BY <1>4, <2>1, <2>2, AtLeastZeroIs
<1>6. Refunded(o, change) = [cash |-> AtLeastZero(gross - back), back |-> back]
  BY DEF Refunded
<1> QED
  <2> HIDE DEF back, gross
  <2> QED
    BY <1>5, <1>6

LEMMA RepricedIs ==
    ASSUME Typed, NEW o \in Orders, NEW change \in Changes
    PROVE  Repriced(o, change).subtotal \in Nat /\ Repriced(o, change).after \in Nat
<1> DEFINE row == order[o]
           subtotal == row.subtotal - Smaller(change.void, row.subtotal) + change.add
           part == AtLeastZero(row.subtotal - row.after)
           discount == Proportion(part, subtotal, row.subtotal)
<1>1. /\ row \in OrderRows /\ row.subtotal \in Nat /\ row.after \in Nat
      /\ change.void \in Nat /\ change.add \in Nat
  BY SettlementAssumption DEF Typed, TypeOK, OrderRows
<1>2. subtotal \in Nat
  BY <1>1 DEF Smaller
<1>3. part \in Nat
  BY <1>1, AtLeastZeroIs
<1>4. discount \in Int
  <2> HIDE DEF subtotal, part
  <2> QED
    BY <1>1, <1>2, <1>3, ProportionIs
<1>5. AtLeastZero(subtotal - discount) \in Nat
  <2> HIDE DEF subtotal, discount
  <2> QED
    BY <1>2, <1>4, AtLeastZeroIs
<1>6. Repriced(o, change) =
        [row EXCEPT !.subtotal = subtotal, !.after = AtLeastZero(subtotal - discount)]
  BY DEF Repriced
<1> QED
  <2> HIDE DEF subtotal, discount
  <2> QED
    BY <1>1, <1>2, <1>5, <1>6 DEF OrderRows

LEMMA AmendStartTyped ==
    ASSUME Typed, NEW c \in Calls, NEW o \in Orders, NEW id \in AmendmentIds,
           NEW change \in Changes, AmendStarts(c, o, id, change)
    PROVE  CallsTyped'
<1> DEFINE refund == Refunded(o, change)
           base == AmendmentBase(o)
           new == AtLeastZero(base - refund.cash + change.extra)
           ask == [id |-> id, cash |-> refund.cash, back |-> refund.back,
                   base |-> base, new |-> new, items |-> change.void + change.add > 0,
                   subtotal |-> Repriced(o, change).subtotal,
                   after |-> Repriced(o, change).after]
<1>1. refund.cash \in Nat /\ refund.back \in Nat
  BY RefundedIs
<1>2. base \in Nat /\ change.extra \in Nat
  BY NetIsTyped, SettlementAssumption
<1>3. new \in Nat
  <2> HIDE DEF refund, base
  <2> QED
    BY <1>1, <1>2, AtLeastZeroIs
<1>4. ask \in AmendAsks
  <2> HIDE DEF refund, base, new
  <2> QED
    BY <1>1, <1>2, <1>3, RepricedIs DEF AmendAsks
<1> DEFINE record == [at |-> "order", op |-> "amend", key |-> o, account |-> Owner[o],
                      own |-> EmptyRow, ref |-> 0, net |-> 0, ask |-> ask]
<1>5. call' = [call EXCEPT ![c] = record]
  BY DEF AmendStarts
<1> HIDE DEF ask
<1>6. record \in CallRecords /\ CallOK(record)
  <2>1. Owner[o] \in Accounts /\ ask \in Asks
    BY <1>4, SettlementAssumption DEF Asks
  <2>2. EmptyRow \in Rows
    BY DEF EmptyRow, Rows
  <2>3. record \in CallRecords
    BY <2>1, <2>2 DEF CallRecords, CallSteps, Operations
  <2>4. CallOK(record)
    BY <1>4, <2>1 DEF CallOK, OrderOperations
  <2> QED BY <2>3, <2>4
<1> HIDE DEF record
<1>7. call \in [Calls -> CallRecords] /\ \A d \in Calls : CallOK(call[d])
  BY DEF Typed, TypeOK, CallsOK
<1> QED
  BY <1>5, <1>6, <1>7 DEF CallsTyped, CallsOK, CallOK

LEMMA AmendReadTyped ==
    ASSUME Typed, NEW c \in Calls, AmendReads(c)
    PROVE  CallsTyped'
<1> DEFINE record == [call[c] EXCEPT !.at = "read", !.own = account[call[c].account]]
<1>1. /\ call \in [Calls -> CallRecords] /\ \A d \in Calls : CallOK(call[d])
      /\ call[c].at = "order"
  BY DEF Typed, TypeOK, CallsOK, AmendReads
<1>2. account[call[c].account] \in Rows
  BY <1>1 DEF Typed, TypeOK, CallOK
<1>3. call' = [call EXCEPT ![c] = record]
  BY DEF AmendReads
<1>4. record \in CallRecords
  BY <1>1, <1>2 DEF CallRecords, CallSteps
<1>5. CallOK(record)
  BY <1>1 DEF CallOK, CallRecords
<1> HIDE DEF record
<1> QED
  BY <1>1, <1>3, <1>4, <1>5 DEF CallsTyped, CallsOK, CallOK

LEMMA RecordedIs ==
    ASSUME OrdersTyped, NEW o \in Orders, NEW id \in AmendmentIds \cup {"FULL_REFUND"},
           NEW cash \in Nat, NEW back \in Nat
    PROVE  Recorded(o, id, cash, back) \in [Orders -> AmendmentRows]
<1>1. amendments \in [Orders -> AmendmentRows]
  BY DEF OrdersTyped
<1> DEFINE row == [amendments[o] EXCEPT !.ids = @ \cup {id}, !.cash = @ + cash,
                                        !.back = @ + back]
<1>2. row \in AmendmentRows
  <2>1. /\ amendments[o] \in AmendmentRows
        /\ amendments[o].ids \cup {id} \in SUBSET (AmendmentIds \cup {"FULL_REFUND"})
        /\ amendments[o].cash + cash \in Nat /\ amendments[o].back + back \in Nat
    BY <1>1 DEF AmendmentRows
  <2> QED
    BY <2>1 DEF AmendmentRows
<1>3. Recorded(o, id, cash, back) = [amendments EXCEPT ![o] = row]
  BY DEF Recorded
<1> QED
  <2> HIDE DEF row
  <2> QED
    BY <1>1, <1>2, <1>3

\* A row whose discounts and points are kept keeps its points within the price.
LEMMA WithinStays ==
    ASSUME RedeemedWithinPrice,
           \A o \in Orders : /\ order'[o].redeem = order[o].redeem
                             /\ order'[o].coupon = order[o].coupon
                             /\ order'[o].discount = order[o].discount
    PROVE  RedeemedWithinPrice'
BY DEF RedeemedWithinPrice, SubtotalAfterCoupon, CouponCents

LEMMA AmendsOrderTyped ==
    ASSUME Typed, NEW c \in Calls, Amends(c)
    PROVE  OrdersTyped'
<1>1. OrdersTyped
  BY TypedParts
<1>2. CASE UNCHANGED <<order, amendments>>
  BY <1>1, <1>2 DEF OrdersTyped, Amends, RedeemedWithinPrice
<1>3. ASSUME amendments' = Recorded(call[c].key, call[c].ask.id, call[c].ask.cash,
                                    call[c].ask.back),
             order' = IF call[c].ask.items
                      THEN [order EXCEPT ![call[c].key].subtotal = call[c].ask.subtotal,
                                         ![call[c].key].after = call[c].ask.after]
                      ELSE order
      PROVE  OrdersTyped'
  <2>1. call[c].key \in Orders /\ call[c].ask \in AmendAsks
    BY DEF Amends, Typed, CallsOK, CallOK, OrderOperations
  <2>2. /\ call[c].ask.id \in AmendmentIds /\ call[c].ask.cash \in Nat
        /\ call[c].ask.back \in Nat /\ call[c].ask.subtotal \in Nat
        /\ call[c].ask.after \in Nat
    BY <2>1 DEF AmendAsks
  <2>3. amendments' \in [Orders -> AmendmentRows]
    BY <1>1, <1>3, <2>1, <2>2, RecordedIs
  <2>4. /\ order' \in [Orders -> OrderRows]
        /\ \A o \in Orders : /\ order'[o].redeem = order[o].redeem
                              /\ order'[o].coupon = order[o].coupon
                              /\ order'[o].discount = order[o].discount
    BY <1>1, <1>3, <2>1, <2>2 DEF OrdersTyped, OrderRows
  <2>5. RedeemedWithinPrice'
    BY <1>1, <2>4, WithinStays DEF OrdersTyped
  <2> QED
    BY <1>1, <2>3, <2>4, <2>5 DEF OrdersTyped, Amends
<1> QED
  BY <1>2, <1>3 DEF Amends

LEMMA FullRefundRecordTyped ==
    ASSUME Typed, NEW c \in Calls, FullRefundRecords(c)
    PROVE  LedgerTyped' /\ CallsTyped' /\ OrdersTyped'
<1>1. OrdersTyped
  BY TypedParts
<1>2. call[c].key \in Orders /\ call[c].ask.amount \in Nat
  BY DEF FullRefundRecords, Typed, CallsOK, CallOK, OrderOperations
<1>3. CallsTyped' /\ LedgerTyped'
  BY EndTyped DEF FullRefundRecords, LedgerTyped, Typed, TypeOK
<1> DEFINE next == Recorded(call[c].key, "FULL_REFUND", call[c].ask.amount, 0)
<1>4. next \in [Orders -> AmendmentRows]
  BY <1>1, <1>2, RecordedIs
<1>5. [next EXCEPT ![call[c].key].refunded = TRUE] \in [Orders -> AmendmentRows]
  <2> HIDE DEF next
  <2> QED
    BY <1>4 DEF AmendmentRows
<1>6. [order EXCEPT ![call[c].key].status = "refunded"] \in [Orders -> OrderRows]
  BY <1>1 DEF OrdersTyped, OrderRows, Statuses
<1>7. ASSUME order' = order \/ order' = [order EXCEPT ![call[c].key].status = "refunded"]
      PROVE  RedeemedWithinPrice'
  <2>1. \A o \in Orders : /\ order'[o].redeem = order[o].redeem
                          /\ order'[o].coupon = order[o].coupon
                          /\ order'[o].discount = order[o].discount
    BY <1>1, <1>7 DEF OrdersTyped, OrderRows
  <2> QED BY <1>1, <2>1, WithinStays DEF OrdersTyped
<1> QED
  <2> HIDE DEF next
  <2>1. \/ UNCHANGED <<order, amendments>>
        \/ /\ order' = [order EXCEPT ![call[c].key].status = "refunded"]
           /\ amendments' = [next EXCEPT ![call[c].key].refunded = TRUE]
    BY DEF FullRefundRecords, next
  <2> QED
    BY <1>1, <1>3, <1>5, <1>6, <1>7, <2>1
       DEF OrdersTyped, FullRefundRecords

LEMMA OrdersKept ==
    ASSUME Typed, UNCHANGED <<order, coupon, amendments, noticed, deliveries>>,
           owed' \subseteq owed
    PROVE  OrdersTyped'
BY DEF OrdersTyped, Typed, TypeOK, RedeemedWithinPrice

LEMMA LedgerKept ==
    ASSUME Typed, UNCHANGED <<account, ledger, lost>>
    PROVE  LedgerTyped'
BY DEF LedgerTyped, Typed, TypeOK

LEMMA OrderCallTyped ==
    ASSUME Typed, NEW c \in Calls, OrderCall(c)
    PROVE  Typed'
<1>1. CASE Creates(c)
  BY <1>1, CreatesTyped, PartsAreTyped
<1>2. CASE CreateFails(c)
  BY <1>2, EndTyped, OrdersKept, LedgerKept, PartsAreTyped DEF CreateFails
<1>3. ASSUME NEW task \in owed, HandleOrderPaid(c, task) \/ HandleRefunded(c, task)
      PROVE  Typed'
  <2>1. CallsTyped'
    BY <1>3, HandlersTyped
  <2>2. UNCHANGED <<order, coupon, amendments, noticed, deliveries>>
        /\ owed' \subseteq owed /\ UNCHANGED <<account, ledger, lost>>
    BY <1>3 DEF HandleOrderPaid, HandleRefunded
  <2> QED
    BY <2>1, <2>2, OrdersKept, LedgerKept, PartsAreTyped
<1>4. CASE Rollback(c)
  BY <1>4, RollbackTyped, OrdersKept, PartsAreTyped DEF Rollback
<1>5. CASE FullRefundRecords(c)
  BY <1>5, FullRefundRecordTyped, PartsAreTyped
<1>6. CASE Amends(c)
  BY <1>6, AmendsTyped, AmendsOrderTyped, PartsAreTyped
<1>7. ASSUME NEW o \in Orders, NEW wish \in Wishes[o], CreateStarts(c, o, wish)
      PROVE  Typed'
  BY <1>7, CreateStartTyped, OrdersKept, LedgerKept, PartsAreTyped DEF CreateStarts
<1>8. ASSUME NEW o \in Orders, FullRefundStarts(c, o)
      PROVE  Typed'
  BY <1>8, FullRefundStartTyped, OrdersKept, LedgerKept, PartsAreTyped DEF FullRefundStarts
<1>9. ASSUME NEW o \in Orders, NEW id \in AmendmentIds, NEW change \in Changes,
             AmendStarts(c, o, id, change)
      PROVE  Typed'
  BY <1>9, AmendStartTyped, OrdersKept, LedgerKept, PartsAreTyped DEF AmendStarts
<1>10. CASE AmendReads(c)
  BY <1>10, AmendReadTyped, OrdersKept, LedgerKept, PartsAreTyped DEF AmendReads
<1> QED
  BY <1>1, <1>2, <1>3, <1>4, <1>5, <1>6, <1>7, <1>8, <1>9, <1>10 DEF OrderCall

LEMMA TransitionsAreStatuses == \A s \in Statuses : Transitions[s] \subseteq Statuses
BY DEF Transitions, Statuses

LEMMA ListenersAre ==
    ASSUME NEW o \in Orders, NEW from \in Origins
    PROVE  Listeners(o, from) \subseteq Tasks
BY DEF Listeners, Tasks, Task

LEMMA OrderEventTyped ==
    ASSUME Typed, NEW o \in Orders,
           \/ Announce(o) \/ RecordOrderPaidEvent(o) \/ FullRefundIsNoted(o)
           \/ \E next \in Statuses : UpdateStatus(o, next)
    PROVE  Typed'
<1>1. OrdersTyped
  BY TypedParts
<1>2. CASE Announce(o)
  <2>1. Listeners(o, "order") \subseteq Tasks
    BY ListenersAre DEF Origins
  <2>2. OrdersTyped'
    BY <1>1, <1>2, <2>1 DEF OrdersTyped, Announce, RedeemedWithinPrice
  <2> QED
    BY <1>2, <2>2, CallKept, LedgerKept, TypedParts, PartsAreTyped DEF Announce, ledgerVars
<1>3. CASE RecordOrderPaidEvent(o)
  <2>1. Listeners(o, "notice") \subseteq Tasks
    BY ListenersAre DEF Origins
  <2>2. OrdersTyped'
    BY <1>1, <1>3, <2>1 DEF OrdersTyped, RecordOrderPaidEvent, RedeemedWithinPrice
  <2> QED
    BY <1>3, <2>2, CallKept, LedgerKept, TypedParts, PartsAreTyped DEF RecordOrderPaidEvent, ledgerVars
<1>4. CASE FullRefundIsNoted(o)
  <2>1. amendments' \in [Orders -> AmendmentRows]
    BY <1>1, <1>4, RecordedIs DEF FullRefundIsNoted
  <2>2. OrdersTyped'
    BY <1>1, <1>4, <2>1 DEF OrdersTyped, FullRefundIsNoted, RedeemedWithinPrice
  <2> QED
    BY <1>4, <2>2, CallKept, LedgerKept, TypedParts, PartsAreTyped DEF FullRefundIsNoted, ledgerVars
<1>5. ASSUME NEW next \in Statuses, UpdateStatus(o, next)
      PROVE  Typed'
  <2>1. /\ order' \in [Orders -> OrderRows]
        /\ \A p \in Orders : /\ order'[p].redeem = order[p].redeem
                              /\ order'[p].coupon = order[p].coupon
                              /\ order'[p].discount = order[p].discount
    BY <1>1, <1>5 DEF OrdersTyped, UpdateStatus, OrderRows
  <2>2. Task(o, "status", "rollback") \in Tasks
    BY DEF Task, Tasks, Origins
  <2>3. OrdersTyped'
    BY <1>1, <1>5, <2>1, <2>2, WithinStays DEF OrdersTyped, UpdateStatus
  <2> QED
    BY <1>5, <2>3, CallKept, LedgerKept, TypedParts, PartsAreTyped DEF UpdateStatus, ledgerVars
<1> QED
  BY <1>2, <1>3, <1>4, <1>5

LEMMA DispatchTyped ==
    ASSUME Typed, NEW task \in owed,
           DispatchReads(task) \/ DispatchAsks(task) \/ DispatchRecords(task)
    PROVE  Typed'
<1>1. OrdersTyped /\ task \in Tasks /\ task.order \in Orders
  BY TypedParts DEF Typed, TypeOK, Tasks
<1>2. [task EXCEPT !.step = "ask"] \in Tasks /\ [task EXCEPT !.step = "record"] \in Tasks
  BY <1>1 DEF Tasks
<1>3. owed' \subseteq Tasks
  BY <1>1, <1>2 DEF DispatchReads, DispatchAsks, DispatchRecords, OrdersTyped
<1>4. /\ order' \in [Orders -> OrderRows]
      /\ \A p \in Orders : /\ order'[p].redeem = order[p].redeem
                            /\ order'[p].coupon = order[p].coupon
                            /\ order'[p].discount = order[p].discount
  <2>1. CASE UNCHANGED order
    BY <1>1, <2>1 DEF OrdersTyped
  <2>2. CASE order' = [order EXCEPT ![task.order].courier = TRUE]
    BY <1>1, <2>2 DEF OrdersTyped, OrderRows
  <2> QED
    BY <2>1, <2>2 DEF DispatchReads, DispatchAsks, DispatchRecords
<1>5. deliveries' \in [Orders -> Nat]
  BY <1>1 DEF DispatchReads, DispatchAsks, DispatchRecords, OrdersTyped
<1>6. OrdersTyped'
  BY <1>1, <1>3, <1>4, <1>5, WithinStays
     DEF DispatchReads, DispatchAsks, DispatchRecords, OrdersTyped
<1> QED
  BY <1>6, CallKept, LedgerKept, TypedParts, PartsAreTyped
     DEF DispatchReads, DispatchAsks, DispatchRecords, ledgerVars

LEMMA CrashTyped ==
    ASSUME Typed, Crash
    PROVE  Typed'
<1>1. CallsTyped'
  <2>1. \A c \in Calls : call'[c] = IdleCall
    BY DEF Crash
  <2>2. call' \in [Calls -> CallRecords]
    BY IdleIsTyped DEF Crash
  <2> QED
    BY <2>1, <2>2, IdleIsTyped DEF CallsTyped, CallsOK, CallOK
<1>2. owed' \subseteq owed
  BY DEF Crash
<1> QED
  BY <1>1, <1>2, OrdersKept, LedgerKept, PartsAreTyped DEF Crash

LEMMA TypedInductive == Typed /\ [Next]_vars => Typed'
<1> SUFFICES ASSUME Typed, [Next]_vars PROVE Typed'
  OBVIOUS
<1>1. ASSUME NEW c \in Calls, LoyaltyCall(c) PROVE Typed'
  BY <1>1, LoyaltyCallTyped, OrdersKept, PartsAreTyped DEF LoyaltyCall
<1>2. CASE UNCHANGED vars
  BY <1>2, CallKept, OrdersKept, LedgerKept, TypedParts, PartsAreTyped DEF vars, ledgerVars
<1> QED
  BY <1>1, <1>2, OrderCallTyped, OrderEventTyped, DispatchTyped, CrashTyped DEF Next

LEMMA TypedInitially == Init => Typed
<1> SUFFICES ASSUME Init PROVE Typed
  OBVIOUS
<1>1. LedgerTyped
  BY DEF Init, LedgerInit, LedgerTyped, EmptyRow, Rows
<1>2. CallsTyped
  BY IdleIsTyped DEF Init, LedgerInit, CallsTyped, CallsOK
<1>3. RedeemedWithinPrice
  <2>1. \A o \in Orders : order[o].redeem = 0 /\ order[o].discount = 0
    BY DEF Init, AbsentOrder
  <2>2. \A o \in Orders : SubtotalAfterCoupon(order[o]) \in Nat
    BY <2>1, SubtotalIs
  <2> QED BY <2>1, <2>2 DEF RedeemedWithinPrice
<1>4. OrdersTyped
  BY <1>3, SettlementAssumption DEF Init, OrdersTyped, AbsentOrder, NoAmendment, OrderRows,
     AmendmentRows, Statuses
<1> QED
  BY <1>1, <1>2, <1>4, TypedParts

(* Every variable keeps its type, whatever transactions run at the same    *)
(* time; the lifetime spend never goes below zero.                         *)
THEOREM SettlementTypeCorrect == Spec => []TypeOK
<1>1. Init => Typed
  BY TypedInitially
<1>2. Typed /\ [Next]_vars => Typed'
  BY TypedInductive
<1>3. Typed => TypeOK
  BY DEF Typed
<1> QED
  BY <1>1, <1>2, <1>3, PTL DEF Spec
-----------------------------------------------------------------------------
\* What a step enters in the ledger.

Ordinary(new, key) ==
    \A e \in new : /\ e.key = key /\ e.source # "FULL_REFUND"
                   /\ e.type \notin {"REDEEM_ON_ORDER", "REFUND_RETURN_REDEEM"}

EntersPayment(c) == Creates(c) /\ ledger' = ledger \cup Payments(c)

EntersRollback(c) ==
    /\ Rollback(c) /\ RollsBack(c)
    /\ ledger' = ledger \cup TakenBack(c) \cup Returned(c) \cup BonusTakenBack(c)

EntersOther(c) ==
    /\ call[c].op \in {"settle", "amend", "topup", "manual"} /\ call[c].at # "idle"
    /\ \E new \in SUBSET Entries : ledger' = ledger \cup new /\ Ordinary(new, call[c].key)

LEMMA EarningsAreOrdinary ==
    ASSUME NEW c \in Calls
    PROVE  Ordinary(Earnings(c) \cup ReferralBonus(c), call[c].key)
BY DEF Ordinary, Earnings, ReferralBonus, Entry

LEMMA RescaledAreOrdinary ==
    ASSUME Typed, NEW c \in Calls, call[c].op = "amend", NEW type,
           NEW adjustment \in {"AMEND_EARN_ADJUST", "AMEND_REFERRAL_ADJUST"}
    PROVE  Ordinary(Rescaled(c, type, adjustment), call[c].key)
<1>1. call[c].ask.id # "FULL_REFUND"
  BY LedgerAssumption DEF Typed, CallsOK, CallOK, AmendAsks
<1>2. SUFFICES ASSUME NEW e \in Find(call[c].key, type, "ORDER"), NEW delta \in Int
               PROVE  LET f == [e EXCEPT !.type = adjustment, !.source = call[c].ask.id,
                                         !.delta = delta]
                      IN  f.key = call[c].key /\ f.source # "FULL_REFUND" /\ f.type = adjustment
  <2>1. \A e \in Find(call[c].key, type, "ORDER") :
          call[c].ask.base > 0 =>
            Scaled(e.delta, call[c].ask.new, call[c].ask.base) - e.delta \in Int
    <3>1. /\ call[c].ask.base \in Nat /\ call[c].ask.new \in Int
      BY DEF Typed, CallsOK, CallOK, AmendAsks
    <3> SUFFICES ASSUME NEW e \in Find(call[c].key, type, "ORDER"), call[c].ask.base > 0
                 PROVE  Scaled(e.delta, call[c].ask.new, call[c].ask.base) - e.delta \in Int
      OBVIOUS
    <3>2. e.delta \in Int
      BY DEF Find, Typed, TypeOK, Entries
    <3>3. Scaled(e.delta, call[c].ask.new, call[c].ask.base) \in Int
      <4>1. call[c].ask.base > 0
        OBVIOUS
      <4> QED
        BY <3>1, <3>2, <4>1, ScaledIs, Zenon
    <3> QED
      BY <3>2, <3>3
  <2> QED
    BY <1>2, <2>1 DEF Ordinary, Rescaled
<1>3. e \in Entries /\ e.key = call[c].key
  BY DEF Find, Typed, TypeOK
<1> QED
  BY <1>1, <1>3 DEF Entries

LEMMA AdjustmentsAreOrdinary ==
    ASSUME Typed, NEW c \in Calls, call[c].op = "amend"
    PROVE  Ordinary(PointsReturned(c) \cup EarningAdjusted(c) \cup BonusAdjustment(c),
                    call[c].key)
<1>1. call[c].ask.id # "FULL_REFUND"
  BY LedgerAssumption DEF Typed, CallsOK, CallOK, AmendAsks
<1>2. Ordinary(PointsReturned(c), call[c].key)
  BY <1>1 DEF Ordinary, PointsReturned, Entry
<1>3. Ordinary(EarningAdjusted(c), call[c].key)
  BY <1>1, RescaledAreOrdinary DEF Ordinary, EarningAdjusted, Entry
<1>4. Ordinary(BonusAdjustment(c), call[c].key)
  BY RescaledAreOrdinary DEF Ordinary, BonusAdjustment
<1> QED
  BY <1>2, <1>3, <1>4 DEF Ordinary

LEMMA CreditsAreOrdinary ==
    ASSUME NEW c \in Calls
    PROVE  Ordinary(Credits(c) \cup TopupBonus(c), call[c].key)
BY DEF Ordinary, Credits, TopupBonus, Entry

LEMMA LoyaltyEnters ==
    ASSUME Typed, NEW c \in Calls, LoyaltyCall(c)
    PROVE  UNCHANGED ledger \/ EntersOther(c)
<1>1. CASE Settles(c)
  <2>1. CASE LocksOwn(c, ReferralBonus(c))
    BY <2>1 DEF LocksOwn
  <2>2. CASE Commits(c, Earnings(c), ReferralBonus(c), {"points", "spend"},
                     Delta(Earnings(c)), 0, call[c].own.spend + call[c].net)
    <3>1. ledger' = ledger \cup (Earnings(c) \cup ReferralBonus(c))
      BY <2>2 DEF Commits
    <3>2. call[c].op = "settle" /\ call[c].at # "idle"
      BY <1>1, <2>2 DEF Settles, Commits, HasLocks
    <3>3. Earnings(c) \cup ReferralBonus(c) \in SUBSET Entries
      BY <3>2, EarningsAre
    <3> QED
      BY <3>1, <3>2, <3>3, EarningsAreOrdinary DEF EntersOther
  <2> QED
    BY <1>1, <2>1, <2>2 DEF Settles
<1>2. CASE TopsUp(c)
  <2>1. CASE LocksOwn(c, TopupBonus(c))
    BY <2>1 DEF LocksOwn
  <2>2. CASE Commits(c, Credits(c), TopupBonus(c), {"points", "balance", "spend"},
                     call[c].ask.bonus, call[c].net, call[c].own.spend + call[c].net)
    <3>1. ledger' = ledger \cup (Credits(c) \cup TopupBonus(c))
      BY <2>2 DEF Commits
    <3>2. call[c].op = "topup" /\ call[c].at # "idle"
      BY <1>2, <2>2 DEF TopsUp, Commits, HasLocks
    <3>3. Credits(c) \cup TopupBonus(c) \in SUBSET Entries
      BY <3>2, CreditsAre
    <3> QED
      BY <3>1, <3>2, <3>3, CreditsAreOrdinary DEF EntersOther
  <2> QED
    BY <1>2, <2>1, <2>2 DEF TopsUp
<1>3. CASE AdjustsManually(c)
  <2> DEFINE new == Entry(call[c].account, call[c].key, "ADJUSTMENT_MANUAL", "MANUAL",
                          "POINTS", call[c].net)
  <2>1. call[c].op = "manual" /\ call[c].at # "idle"
    BY <1>3 DEF AdjustsManually, Commits, HasLocks
  <2>2. call[c].account \in Accounts /\ call[c].key \in Requests /\ call[c].net \in Int
    BY <2>1 DEF Typed, TypeOK, CallsOK, CallOK, CallRecords
  <2>3. new \in Entries
    BY <2>2, EntryIs DEF Types, Sources
  <2>4. ledger' = ledger \cup {new}
    BY <1>3 DEF AdjustsManually, Commits
  <2>5. Ordinary({new}, call[c].key)
    BY DEF Ordinary, Entry
  <2> QED
    <3> HIDE DEF new
    <3> QED
      BY <2>1, <2>3, <2>4, <2>5 DEF EntersOther
<1> QED
  BY <1>1, <1>2, <1>3 DEF LoyaltyCall, DuplicateFails, Abort, RequestStarts

LEMMA OrderCallEnters ==
    ASSUME Typed, NEW c \in Calls, OrderCall(c)
    PROVE  \/ UNCHANGED ledger
           \/ EntersPayment(c) \/ EntersRollback(c) \/ EntersOther(c)
<1>1. CASE Creates(c)
  BY <1>1 DEF EntersPayment, Creates, Commits
<1>2. CASE Rollback(c)
  <2>1. CASE RollbackLocks(c)
    BY <2>1 DEF RollbackLocks, LocksOwn
  <2>2. CASE RollsBack(c)
    <3>1. ledger' = ledger \cup TakenBack(c) \cup Returned(c) \cup BonusTakenBack(c)
      BY <2>2 DEF RollsBack, Commits
    <3> QED
      BY <1>2, <2>2, <3>1 DEF EntersRollback
  <2> QED
    BY <1>2, <2>1, <2>2 DEF Rollback
<1>3. CASE Amends(c)
  <2>1. CASE AppliesAmendment(c)
    <3>1. ledger' = ledger \cup (PointsReturned(c) \cup EarningAdjusted(c)
                                   \cup BonusAdjustment(c))
      BY <2>1 DEF AppliesAmendment, Commits
    <3>2. call[c].op = "amend" /\ call[c].at # "idle"
      BY <1>3, <2>1 DEF Amends, AppliesAmendment, Commits, HasLocks
    <3>3. PointsReturned(c) \cup EarningAdjusted(c) \cup BonusAdjustment(c)
            \in SUBSET Entries
      BY <3>2, AdjustmentsAre
    <3> QED
      BY <3>1, <3>2, <3>3, AdjustmentsAreOrdinary DEF EntersOther
  <2> QED
    BY <1>3, <2>1 DEF Amends, AmendmentLocks, LocksOwn
<1> QED
  BY <1>1, <1>2, <1>3
     DEF OrderCall, CreateFails, HandleOrderPaid, HandleRefunded, FullRefundRecords,
         CreateStarts, FullRefundStarts, AmendStarts, AmendReads

LEMMA StepEnters ==
    ASSUME Typed, [Next]_vars
    PROVE  \/ UNCHANGED ledger
           \/ \E c \in Calls : EntersPayment(c) \/ EntersRollback(c) \/ EntersOther(c)
BY LoyaltyEnters, OrderCallEnters
   DEF Next, Announce, RecordOrderPaidEvent, FullRefundIsNoted, UpdateStatus,
       DispatchReads, DispatchAsks, DispatchRecords, Crash, vars, ledgerVars
-----------------------------------------------------------------------------
(* What is entered, promised or in progress for an order is so once the    *)
(* order exists.                                                           *)
Placed ==
    /\ \A e \in ledger : e.key \in Orders => Exists(e.key)
    /\ \A t \in owed : Exists(t.order)
    /\ \A c \in Calls : call[c].op \in OrderOperations \ {"create"} => Exists(call[c].key)

LEMMA RefundsAreOperations ==
    {"settle", "rollback", "refund", "amend"} \subseteq OrderOperations \ {"create"}
BY DEF OrderOperations

\* What a step does to the row of an order it does not create.
RowKept(o) ==
    /\ order'[o].redeem = order[o].redeem /\ order'[o].coupon = order[o].coupon
    /\ order'[o].discount = order[o].discount
    /\ order[o].status # "absent" => order'[o].status # "absent"
    /\ order[o].status = "refunded" => order'[o].status = "refunded"

LEMMA RowIsKept ==
    ASSUME Typed, [Next]_vars, NEW o \in Orders,
           ~ \E c \in Calls : Creates(c) /\ call[c].key = o
    PROVE  RowKept(o)
<1>0. order \in [Orders -> OrderRows]
  BY DEF Typed, TypeOK
<1>1. CASE UNCHANGED order
  BY <1>1 DEF RowKept
<1>2. ASSUME NEW c \in Calls, Creates(c) PROVE RowKept(o)
  <2>1. call[c].key # o
    BY <1>2
  <2> QED
    BY <1>0, <1>2, <2>1 DEF RowKept, Creates
<1>3. ASSUME NEW c \in Calls, FullRefundRecords(c) PROVE RowKept(o)
  BY <1>0, <1>3 DEF RowKept, FullRefundRecords, OrderRows
<1>4. ASSUME NEW c \in Calls, Amends(c) PROVE RowKept(o)
  BY <1>0, <1>4 DEF RowKept, Amends, OrderRows
<1>5. ASSUME NEW p \in Orders, NEW next \in Statuses, UpdateStatus(p, next) PROVE RowKept(o)
  BY <1>0, <1>5 DEF RowKept, UpdateStatus, Transitions, OrderRows, Statuses
<1>6. ASSUME NEW task \in owed, DispatchRecords(task) PROVE RowKept(o)
  BY <1>0, <1>6 DEF RowKept, DispatchRecords, OrderRows
<1>7. ASSUME NEW c \in Calls, OrderCall(c), ~Creates(c), ~FullRefundRecords(c), ~Amends(c)
      PROVE  UNCHANGED order
  BY <1>7
     DEF OrderCall, CreateFails, HandleOrderPaid, HandleRefunded, Rollback, CreateStarts,
         FullRefundStarts, AmendStarts, AmendReads
<1>8. ASSUME NEW c \in Calls, LoyaltyCall(c) PROVE UNCHANGED order
  BY <1>8 DEF LoyaltyCall
<1> QED
  BY <1>1, <1>2, <1>3, <1>4, <1>5, <1>6, <1>7, <1>8
     DEF Next, Announce, RecordOrderPaidEvent, FullRefundIsNoted, DispatchReads, DispatchAsks,
         Crash, vars

LEMMA CreatedExists ==
    ASSUME Typed, NEW c \in Calls, Creates(c), NEW o, o = call[c].key
    PROVE  o \in Orders /\ Exists(o)' /\ ~Exists(o)
<1>1. o \in Orders
  BY DEF Creates, Typed, CallsOK, CallOK, OrderOperations
<1> QED
  BY <1>1 DEF Creates, CanCreate, Exists, Typed, TypeOK

LEMMA OrdersStay ==
    ASSUME Typed, [Next]_vars, NEW o \in Orders, Exists(o)
    PROVE  Exists(o)'
<1>1. ASSUME NEW c \in Calls, Creates(c), call[c].key = o PROVE FALSE
  BY <1>1, CreatedExists
<1>2. RowKept(o)
  BY <1>1, RowIsKept
<1> QED
  BY <1>2 DEF RowKept, Exists

\* The record of a call keeps its operation and its key until it ends.
CallGoesOn(c) ==
    call'[c].op = "none" \/ (call'[c].op = call[c].op /\ call'[c].key = call[c].key)

CallBegins(c) == call'[c].op \in {"create", "topup", "manual"} \/ Exists(call'[c].key)

LEMMA EndGoesOn ==
    ASSUME Typed, NEW c \in Calls, Ends(c), NEW d \in Calls
    PROVE  CallGoesOn(d)
BY DEF CallGoesOn, Ends, IdleCall, Typed, TypeOK

LEMMA LockGoesOn ==
    ASSUME Typed, NEW c \in Calls, NEW refs, LocksOwn(c, refs), NEW d \in Calls
    PROVE  CallGoesOn(d)
BY DEF CallGoesOn, LocksOwn, Typed, TypeOK, CallRecords

LEMMA StartBegins ==
    ASSUME Typed, NEW c \in Calls, NEW op, NEW key, NEW a, NEW net, NEW ask,
           Starts(c, op, key, a, net, ask), NEW d \in Calls,
           op \in {"create", "topup", "manual"} \/ Exists(key)
    PROVE  CallGoesOn(d) \/ CallBegins(d)
BY DEF CallGoesOn, CallBegins, Starts, Typed, TypeOK

LEMMA CallsGoOn ==
    ASSUME Typed, Placed, [Next]_vars, NEW d \in Calls
    PROVE  CallGoesOn(d) \/ CallBegins(d)
<1>1. CASE UNCHANGED call
  BY <1>1 DEF CallGoesOn
<1>2. ASSUME NEW c \in Calls, LoyaltyCall(c) PROVE CallGoesOn(d) \/ CallBegins(d)
  <2>1. ASSUME NEW key \in Requests, RequestStarts(c, key)
        PROVE  CallGoesOn(d) \/ CallBegins(d)
    <3>1. Payload[key].op \in {"topup", "manual"}
      BY LedgerAssumption
    <3> QED
      BY <2>1, <3>1, StartBegins DEF RequestStarts
  <2> QED
    BY <1>2, <2>1, EndGoesOn, LockGoesOn
       DEF LoyaltyCall, Settles, TopsUp, AdjustsManually, DuplicateFails, Abort
<1>3. ASSUME NEW c \in Calls, OrderCall(c) PROVE CallGoesOn(d) \/ CallBegins(d)
  <2>1. ASSUME NEW task \in owed, HandleOrderPaid(c, task) \/ HandleRefunded(c, task)
        PROVE  CallGoesOn(d) \/ CallBegins(d)
    <3>1. Exists(task.order)
      BY DEF Placed
    <3> QED
      BY <2>1, <3>1, StartBegins
         DEF HandleOrderPaid, HandleRefunded, SettleStarts, RollbackStarts
  <2>2. CASE Rollback(c)
    <3>1. CASE RollbackLocks(c)
      BY <3>1, LockGoesOn DEF RollbackLocks
    <3>2. CASE call' = [call EXCEPT ![c] =
                 IF call[c].op = "rollback" THEN IdleCall
                 ELSE [IdleCall EXCEPT !.at = "record", !.op = "refund",
                         !.key = call[c].key, !.account = call[c].account,
                         !.ask = call[c].ask]]
      BY <2>2, <3>2 DEF Rollback, CallGoesOn, IdleCall, Typed, TypeOK
    <3> QED
      BY <2>2, <3>1, <3>2 DEF Rollback
  <2>3. ASSUME NEW o \in Orders, NEW wish \in Wishes[o], CreateStarts(c, o, wish)
        PROVE  CallGoesOn(d) \/ CallBegins(d)
    BY <2>3, StartBegins DEF CreateStarts
  <2>4. ASSUME NEW o \in Orders, FullRefundStarts(c, o)
        PROVE  CallGoesOn(d) \/ CallBegins(d)
    <3>1. Exists(o)
      BY <2>4 DEF FullRefundStarts, Exists
    <3> QED
      BY <2>4, <3>1, StartBegins DEF FullRefundStarts, RollbackStarts
  <2>5. ASSUME NEW o \in Orders, NEW id \in AmendmentIds, NEW change \in Changes,
               AmendStarts(c, o, id, change)
        PROVE  CallGoesOn(d) \/ CallBegins(d)
    <3>1. Exists(o)
      BY <2>5 DEF AmendStarts, Exists
    <3> QED
      BY <2>5, <3>1 DEF AmendStarts, CallGoesOn, CallBegins, Exists, IdleCall, Typed, TypeOK
  <2>6. CASE Amends(c)
    BY <2>6, EndGoesOn, LockGoesOn DEF Amends, AmendmentLocks
  <2>7. CASE AmendReads(c)
    BY <2>7 DEF AmendReads, CallGoesOn, Typed, TypeOK, CallRecords
  <2> QED
    BY <1>3, <2>1, <2>2, <2>3, <2>4, <2>5, <2>6, <2>7, EndGoesOn
       DEF OrderCall, Creates, CreateFails, FullRefundRecords
<1>4. CASE Crash
  BY <1>4 DEF Crash, CallGoesOn, IdleCall
<1> QED
  BY <1>1, <1>2, <1>3, <1>4
     DEF Next, Announce, RecordOrderPaidEvent, FullRefundIsNoted, UpdateStatus,
         DispatchReads, DispatchAsks, DispatchRecords, vars, ledgerVars

LEMMA TasksOfOrders ==
    ASSUME Typed, Placed, [Next]_vars, NEW t \in owed'
    PROVE  Exists(t.order) \/ \E c \in Calls : Creates(c) /\ t.order = call[c].key
<1>1. \A u \in owed : Exists(u.order) /\ u \in Tasks
  BY DEF Placed, Typed, TypeOK
<1>2. CASE owed' \subseteq owed
  BY <1>1, <1>2
<1>3. ASSUME NEW o \in Orders, Announce(o) \/ RecordOrderPaidEvent(o) PROVE Exists(t.order)
  <2>1. Exists(o)
    BY <1>1, <1>3 DEF Announce, RecordOrderPaidEvent, Task
  <2>2. \A from : \A u \in Listeners(o, from) : u.order = o
    BY DEF Listeners, Task
  <2> QED
    BY <1>1, <1>3, <2>1, <2>2 DEF Announce, RecordOrderPaidEvent
<1>4. ASSUME NEW o \in Orders, NEW next \in Statuses, UpdateStatus(o, next)
      PROVE  Exists(t.order)
  <2>1. Exists(o)
    BY <1>4 DEF UpdateStatus, Transitions, Exists
  <2> QED
    BY <1>1, <1>4, <2>1 DEF UpdateStatus, Task
<1>5. ASSUME NEW task \in owed, DispatchReads(task) \/ DispatchAsks(task)
      PROVE  Exists(t.order)
  <2>1. [task EXCEPT !.step = "ask"].order = task.order
        /\ [task EXCEPT !.step = "record"].order = task.order
    BY <1>1 DEF Tasks
  <2> QED
    BY <1>1, <1>5, <2>1 DEF DispatchReads, DispatchAsks
<1>6. ASSUME NEW c \in Calls, Creates(c)
      PROVE  Exists(t.order) \/ t.order = call[c].key
  BY <1>1, <1>6 DEF Creates, Task
<1>7. ASSUME NEW c \in Calls, OrderCall(c), ~Creates(c) PROVE owed' \subseteq owed
  BY <1>7 DEF OrderCall, CreateFails, HandleOrderPaid, HandleRefunded, Rollback,
              FullRefundRecords, Amends, CreateStarts, FullRefundStarts, AmendStarts, AmendReads
<1>8. ASSUME NEW c \in Calls, LoyaltyCall(c) PROVE owed' \subseteq owed
  BY <1>8 DEF LoyaltyCall
<1>9. ASSUME NEW o \in Orders, FullRefundIsNoted(o) PROVE owed' \subseteq owed
  BY <1>9 DEF FullRefundIsNoted
<1>10. ASSUME NEW task \in owed, DispatchRecords(task) PROVE owed' \subseteq owed
  BY <1>10 DEF DispatchRecords
<1>11. CASE Crash \/ UNCHANGED vars
  BY <1>11, <1>2 DEF Crash, vars
<1> QED
  BY <1>2, <1>3, <1>4, <1>5, <1>6, <1>7, <1>8, <1>9, <1>10, <1>11 DEF Next

LEMMA EntriesOfOrders ==
    ASSUME Typed, Placed, [Next]_vars, NEW e \in ledger', e.key \in Orders
    PROVE  Exists(e.key) \/ \E c \in Calls : Creates(c) /\ e.key = call[c].key
<1>1. \A f \in ledger : f.key \in Orders => Exists(f.key)
  BY DEF Placed
<1>2. ASSUME NEW c \in Calls, EntersPayment(c)
      PROVE  Exists(e.key) \/ e.key = call[c].key
  BY <1>1, <1>2 DEF EntersPayment, Payments, Entry
<1>3. ASSUME NEW c \in Calls, EntersRollback(c) PROVE Exists(e.key)
  <2>1. \A type, undo : \A f \in Undone(call[c].key, type, undo) : f.key = call[c].key
    <3>1. \A type : \A f \in Find(call[c].key, type, "ORDER") :
            f \in Entries /\ f.key = call[c].key
      BY DEF Find, Typed, TypeOK
    <3> QED
      BY <3>1 DEF Undone, Entries
  <2>2. Exists(call[c].key)
    BY <1>3, RefundsAreOperations DEF EntersRollback, Rollback, Placed
  <2> QED
    BY <1>1, <1>3, <2>1, <2>2 DEF EntersRollback, TakenBack, Returned, BonusTakenBack
<1>4. ASSUME NEW c \in Calls, EntersOther(c) PROVE Exists(e.key)
  <2>1. CASE call[c].op \in {"topup", "manual"}
    <3>1. call[c].key \notin Orders
      BY <2>1, LedgerAssumption DEF Typed, CallsOK, CallOK
    <3> QED
      BY <1>1, <1>4, <3>1 DEF EntersOther, Ordinary
  <2>2. CASE call[c].op \in {"settle", "amend"}
    <3>1. Exists(call[c].key)
      BY <2>2, RefundsAreOperations DEF Placed
    <3> QED
      BY <1>1, <1>4, <3>1 DEF EntersOther, Ordinary
  <2> QED
    BY <1>4, <2>1, <2>2 DEF EntersOther
<1> QED
  BY <1>1, <1>2, <1>3, <1>4, StepEnters DEF EntersPayment

LEMMA PlacedInductive == Typed /\ Placed /\ [Next]_vars => Placed'
<1> SUFFICES ASSUME Typed, Placed, [Next]_vars PROVE Placed'
  OBVIOUS
<1>1. Typed'
  BY TypedInductive
<1>2. ASSUME NEW e \in ledger', e.key \in Orders PROVE Exists(e.key)'
  BY <1>2, EntriesOfOrders, OrdersStay, CreatedExists
<1>3. ASSUME NEW t \in owed' PROVE Exists(t.order)'
  <2>1. t.order \in Orders
    BY <1>1, <1>3 DEF Typed, TypeOK, Tasks
  <2> QED
    BY <1>3, <2>1, TasksOfOrders, OrdersStay, CreatedExists
<1>4. ASSUME NEW c \in Calls, call'[c].op \in OrderOperations \ {"create"}
      PROVE  Exists(call[c].key)'
  <2>1. call'[c].key \in Orders
    BY <1>1, <1>4 DEF Typed, CallsOK, CallOK
  <2>2. Exists(call'[c].key)
    BY <1>4, CallsGoOn DEF CallGoesOn, CallBegins, Placed, OrderOperations
  <2>3. \A o \in Orders : Exists(o) => Exists(o)'
    BY OrdersStay
  <2> QED
    BY <2>1, <2>2, <2>3 DEF Exists
<1> QED
  BY <1>2, <1>3, <1>4 DEF Placed
-----------------------------------------------------------------------------
\* What an order takes is entered when it is created, and only then.

Redemptions(o) == Find(o, "REDEEM_ON_ORDER", "ORDER")

LEMMA UndoneFields ==
    ASSUME Typed, NEW o, NEW type, NEW undo, NEW u \in Undone(o, type, undo)
    PROVE  \E e \in Find(o, type, "ORDER") :
             /\ u.key = e.key /\ u.account = e.account /\ u.target = e.target
             /\ u.delta = -e.delta /\ u.type = undo /\ u.source = "FULL_REFUND"
<1>1. PICK e \in Find(o, type, "ORDER") :
        u = [e EXCEPT !.type = undo, !.source = "FULL_REFUND", !.delta = -e.delta]
  BY DEF Undone
<1>2. e \in Entries
  BY DEF Find, Typed, TypeOK
<1> QED
  BY <1>1, <1>2 DEF Entries

LEMMA RollbackFields ==
    ASSUME Typed, NEW c \in Calls, EntersRollback(c), NEW u \in ledger', u \notin ledger
    PROVE  u.source = "FULL_REFUND" /\ u.key = call[c].key
<1>1. \A type, undo : \A f \in Undone(call[c].key, type, undo) :
        f.source = "FULL_REFUND" /\ f.key = call[c].key
  BY UndoneFields DEF Find
<1> QED
  BY <1>1 DEF EntersRollback, TakenBack, Returned, BonusTakenBack

LEMMA RedemptionsKept ==
    ASSUME Typed, [Next]_vars, NEW o,
           ~ \E c \in Calls : Creates(c) /\ call[c].key = o
    PROVE  Redemptions(o)' = Redemptions(o)
<1>1. CASE UNCHANGED ledger
  BY <1>1 DEF Redemptions, Find
<1>2. ASSUME NEW c \in Calls, EntersPayment(c) PROVE Redemptions(o)' = Redemptions(o)
  BY <1>2 DEF EntersPayment, Payments, Entry, Redemptions, Find
<1>3. ASSUME NEW c \in Calls, EntersRollback(c) PROVE Redemptions(o)' = Redemptions(o)
  <2>1. ledger \subseteq ledger'
    BY <1>3 DEF EntersRollback
  <2> QED
    BY <1>3, <2>1, RollbackFields DEF Redemptions, Find
<1>4. ASSUME NEW c \in Calls, EntersOther(c) PROVE Redemptions(o)' = Redemptions(o)
  BY <1>4 DEF EntersOther, Ordinary, Redemptions, Find
<1> QED
  BY <1>1, <1>2, <1>3, <1>4, StepEnters

LEMMA RedemptionsOfCreated ==
    ASSUME Typed, Placed, NEW c \in Calls, Creates(c), NEW o, o = call[c].key
    PROVE  Redemptions(o)' = Payments(c)
<1>1. o \in Orders /\ \A e \in ledger : e.key # o
  BY CreatedExists DEF Placed
<1>2. ledger' = ledger \cup Payments(c)
  BY DEF Creates, Commits
<1>3. \A e \in Payments(c) : e.key = o /\ e.type = "REDEEM_ON_ORDER" /\ e.source = "ORDER"
  BY DEF Payments, Entry
<1> QED
  BY <1>1, <1>2, <1>3 DEF Redemptions, Find

PointsTaken ==
    \A o \in Orders :
      OfTarget(Redemptions(o), "POINTS") =
        IF order[o].redeem = 0 THEN {}
        ELSE {Entry(Owner[o], o, "REDEEM_ON_ORDER", "ORDER", "POINTS", -order[o].redeem)}

CouponTaken ==
    \A o \in Orders : (order[o].coupon <=> coupon = o) /\ (order[o].coupon => Exists(o))

LEMMA PointsTakenInductive ==
    Typed /\ Placed /\ PointsTaken /\ [Next]_vars => PointsTaken'
<1> SUFFICES ASSUME Typed, Placed, PointsTaken, [Next]_vars, NEW o \in Orders
             PROVE  OfTarget(Redemptions(o)', "POINTS") =
                      IF order'[o].redeem = 0 THEN {}
                      ELSE {Entry(Owner[o], o, "REDEEM_ON_ORDER", "ORDER", "POINTS",
                                  -order'[o].redeem)}
  BY DEF PointsTaken, OfTarget
<1>1. CASE \E c \in Calls : Creates(c) /\ call[c].key = o
  <2>1. PICK c \in Calls : Creates(c) /\ call[c].key = o
    BY <1>1
  <2>2. Redemptions(o)' = Payments(c)
    BY <2>1, RedemptionsOfCreated
  <2>3. order'[o].redeem = Redeemed(c)
    BY <2>1 DEF Creates, Typed, TypeOK
  <2>4. call[c].account = Owner[o]
    BY <2>1 DEF Creates, Typed, CallsOK, CallOK, OrderOperations
  <2>5. OfTarget(Payments(c), "POINTS") =
          IF Redeemed(c) = 0 THEN {}
          ELSE {Entry(Owner[o], o, "REDEEM_ON_ORDER", "ORDER", "POINTS", -Redeemed(c))}
    BY <2>1, <2>4 DEF OfTarget, Payments, Entry
  <2> QED
    BY <2>2, <2>3, <2>5
<1>2. CASE ~ \E c \in Calls : Creates(c) /\ call[c].key = o
  <2>1. Redemptions(o)' = Redemptions(o) /\ order'[o].redeem = order[o].redeem
    BY <1>2, RedemptionsKept, RowIsKept DEF RowKept
  <2> QED
    BY <2>1 DEF PointsTaken
<1> QED
  BY <1>1, <1>2

LEMMA CouponTakenInductive ==
    Typed /\ CouponTaken /\ [Next]_vars => CouponTaken'
<1> SUFFICES ASSUME Typed, CouponTaken, [Next]_vars, NEW o \in Orders
             PROVE  /\ order'[o].coupon <=> coupon' = o
                    /\ order'[o].coupon => order'[o].status # "absent"
  BY DEF CouponTaken, Exists
<1>0. Nobody \notin Orders
  BY LedgerAssumption
<1>1. CASE \E c \in Calls : Creates(c)
  <2>1. PICK c \in Calls : Creates(c)
    BY <1>1
  <2> DEFINE k == call[c]
  <2>2. k.key \in Orders /\ k.ask.coupon \in BOOLEAN
    BY <2>1 DEF Creates, Typed, CallsOK, CallOK, OrderOperations, WishAsks
  <2>3. /\ k.ask.coupon => coupon = Nobody
        /\ ~Exists(k.key)
        /\ coupon' = IF k.ask.coupon THEN k.key ELSE coupon
    BY <2>1 DEF Creates, CanCreate
  <2>4. CASE k.key = o
    <3>1. order'[o].coupon = k.ask.coupon /\ order'[o].status = "paid"
      BY <2>1, <2>4 DEF Creates, Typed, TypeOK
    <3>2. coupon # o
      <4>1. ASSUME coupon = o PROVE FALSE
        <5>1. Exists(o) /\ ~Exists(o)
          BY <2>3, <2>4, <4>1 DEF CouponTaken
        <5> QED
          BY <5>1
      <4> QED
        BY <4>1
    <3> QED
      BY <2>3, <2>4, <3>1, <3>2
  <2>5. CASE k.key # o
    <3>1. order'[o] = order[o]
      BY <2>1, <2>5 DEF Creates, Typed, TypeOK
    <3> QED
      BY <1>0, <2>3, <2>5, <3>1 DEF CouponTaken, Exists
  <2> QED
    BY <2>4, <2>5
<1>2. CASE ~ \E c \in Calls : Creates(c)
  <2>1. /\ order'[o].coupon = order[o].coupon
        /\ order[o].status # "absent" => order'[o].status # "absent"
    BY <1>2, RowIsKept DEF RowKept
  <2>2. coupon' = coupon
    <3>1. ASSUME NEW p \in Orders, Announce(p) PROVE coupon' = coupon
      BY <1>0, <3>1 DEF Announce, CouponTaken
    <3>2. ASSUME NEW c \in Calls, OrderCall(c) PROVE coupon' = coupon
      BY <1>2, <3>2
         DEF OrderCall, CreateFails, HandleOrderPaid, HandleRefunded, Rollback,
             FullRefundRecords, Amends, CreateStarts, FullRefundStarts, AmendStarts, AmendReads
    <3> QED
      BY <3>1, <3>2
         DEF Next, LoyaltyCall, RecordOrderPaidEvent, FullRefundIsNoted, UpdateStatus,
             DispatchReads, DispatchAsks, DispatchRecords, Crash, vars
  <2> QED
    BY <2>1, <2>2 DEF CouponTaken, Exists
<1> QED
  BY <1>1, <1>2

LEMMA TakenInitially == Init => Placed /\ PointsTaken /\ CouponTaken
<1> SUFFICES ASSUME Init PROVE Placed /\ PointsTaken /\ CouponTaken
  OBVIOUS
<1>1. ledger = {} /\ owed = {} /\ \A c \in Calls : call[c].op = "none"
  BY DEF Init, LedgerInit, IdleCall
<1>2. \A o \in Orders : order[o].redeem = 0 /\ order[o].coupon = FALSE
  BY DEF Init, AbsentOrder
<1>3. Placed
  BY <1>1 DEF Placed, OrderOperations
<1>4. PointsTaken
  BY <1>1, <1>2 DEF PointsTaken, Redemptions, OfTarget, Find
<1>5. CouponTaken
  BY <1>2, LedgerAssumption DEF CouponTaken, Init
<1> QED
  BY <1>3, <1>4, <1>5

(* An order commits together with the points, the balance and the coupon   *)
(* it takes, whatever other orders of the member are placed at the same    *)
(* time.                                                                   *)
THEOREM SettlementOrderTakesWhatItUses == Spec => []OrderTakesWhatItUses
<1> DEFINE Inv == Typed /\ Placed /\ PointsTaken /\ CouponTaken
<1>1. Init => Inv
  BY TypedInitially, TakenInitially
<1>2. Inv /\ [Next]_vars => Inv'
  BY TypedInductive, PlacedInductive, PointsTakenInductive, CouponTakenInductive
<1>3. Inv => OrderTakesWhatItUses
  BY DEF Placed, PointsTaken, CouponTaken, Redemptions, OrderTakesWhatItUses
<1> QED
  BY <1>1, <1>2, <1>3, PTL DEF Spec
-----------------------------------------------------------------------------
\* A refund on record has returned what was paid.

AllReturned(o) == Undone(o, "REDEEM_ON_ORDER", "REFUND_RETURN_REDEEM") = {}

\* Everything the order took has its entry of return.
Answered(o) ==
    \A e \in Redemptions(o) :
      \E u \in Find(o, "REFUND_RETURN_REDEEM", "FULL_REFUND") : u.target = e.target

LEMMA AllReturnedIs ==
    ASSUME NEW o
    PROVE  AllReturned(o) <=> Answered(o)
<1>1. ASSUME Answered(o) PROVE AllReturned(o)
  BY <1>1 DEF AllReturned, Answered, Undone, Redemptions
<1>2. ASSUME AllReturned(o), NEW e \in Redemptions(o),
             \A u \in Find(o, "REFUND_RETURN_REDEEM", "FULL_REFUND") : u.target # e.target
      PROVE  FALSE
  <2>1. [e EXCEPT !.type = "REFUND_RETURN_REDEEM", !.source = "FULL_REFUND",
                  !.delta = -e.delta] \in Undone(o, "REDEEM_ON_ORDER", "REFUND_RETURN_REDEEM")
    BY <1>2 DEF Undone, Redemptions
  <2> QED
    BY <1>2, <2>1 DEF AllReturned
<1> QED
  BY <1>1, <1>2 DEF Answered

LEMMA AnsweredStays ==
    ASSUME Typed, [Next]_vars, NEW o \in Orders, Exists(o), Answered(o)
    PROVE  Answered(o)'
<1>1. ASSUME NEW c \in Calls, Creates(c), call[c].key = o PROVE FALSE
  BY <1>1, CreatedExists
<1>2. Redemptions(o)' = Redemptions(o)
  BY <1>1, RedemptionsKept
<1>3. ledger \subseteq ledger'
  BY StepEnters DEF EntersPayment, EntersRollback, EntersOther
<1> QED
  BY <1>2, <1>3 DEF Answered, Find

LEMMA RollbackAnswers ==
    ASSUME Typed, [Next]_vars, NEW c \in Calls, EntersRollback(c), NEW o \in Orders,
           o = call[c].key, Exists(o)
    PROVE  Answered(o)'
<1>1. ASSUME NEW d \in Calls, Creates(d), call[d].key = o PROVE FALSE
  BY <1>1, CreatedExists
<1>2. Redemptions(o)' = Redemptions(o)
  BY <1>1, RedemptionsKept
<1>3. ledger \cup Undone(o, "REDEEM_ON_ORDER", "REFUND_RETURN_REDEEM") \subseteq ledger'
  BY DEF EntersRollback, Returned
<1>4. SUFFICES ASSUME NEW e \in Redemptions(o)
               PROVE  \E u \in Find(o, "REFUND_RETURN_REDEEM", "FULL_REFUND")' :
                        u.target = e.target
  BY <1>2 DEF Answered
<1>5. CASE \A u \in Find(o, "REFUND_RETURN_REDEEM", "FULL_REFUND") : u.target # e.target
  <2> DEFINE u == [e EXCEPT !.type = "REFUND_RETURN_REDEEM", !.source = "FULL_REFUND",
                            !.delta = -e.delta]
  <2>1. u \in ledger'
    BY <1>3, <1>5 DEF Undone, Redemptions
  <2>2. e \in Entries /\ e.key = o
    BY DEF Redemptions, Find, Typed, TypeOK
  <2>3. /\ u.key = o /\ u.type = "REFUND_RETURN_REDEEM" /\ u.source = "FULL_REFUND"
        /\ u.target = e.target
    BY <2>2 DEF Entries
  <2> QED
    <3> HIDE DEF u
    <3> QED
      BY <2>1, <2>3 DEF Find
<1>6. CASE \E u \in Find(o, "REFUND_RETURN_REDEEM", "FULL_REFUND") : u.target = e.target
  BY <1>3, <1>6 DEF Find
<1> QED
  BY <1>5, <1>6

\* A call that has committed its rollback, and the orders that are refunded.
Returning ==
    /\ \A c \in Calls : call[c].at = "record" => Answered(call[c].key)
    /\ \A o \in Orders :
         amendments[o].refunded => order[o].status = "refunded" /\ Answered(o)

LEMMA RecordsAfterRollback ==
    ASSUME Typed, [Next]_vars, NEW d \in Calls, call'[d].at = "record"
    PROVE  /\ call'[d].key = call[d].key /\ call[d].op = "refund"
           /\ call[d].at = "record" \/ EntersRollback(d)
<1>0. /\ call \in [Calls -> CallRecords] /\ CallOK(call[d])
      /\ call[d].at = "record" => call[d].op = "refund"
  BY DEF Typed, TypeOK, CallsOK, CallOK
<1>1. CASE call'[d] = call[d]
  BY <1>0, <1>1
<1>2. ASSUME NEW c \in Calls, Ends(c) PROVE call'[d] = call[d]
  BY <1>0, <1>2 DEF Ends, IdleCall
<1>3. ASSUME NEW c \in Calls, NEW refs, LocksOwn(c, refs) PROVE call'[d] = call[d]
  BY <1>0, <1>3 DEF LocksOwn, CallRecords
<1>4. ASSUME NEW c \in Calls, NEW op, NEW key, NEW a, NEW net, NEW ask,
             Starts(c, op, key, a, net, ask)
      PROVE  call'[d] = call[d]
  BY <1>0, <1>4 DEF Starts
<1>5. ASSUME NEW c \in Calls, Rollback(c), call'[d] # call[d]
      PROVE  call'[d].key = call[d].key /\ call[d].op = "refund" /\ EntersRollback(d)
  <2>1. /\ RollsBack(c)
        /\ call' = [call EXCEPT ![c] =
             IF call[c].op = "rollback" THEN IdleCall
             ELSE [IdleCall EXCEPT !.at = "record", !.op = "refund",
                     !.key = call[c].key, !.account = call[c].account,
                     !.ask = call[c].ask]]
    BY <1>3, <1>5 DEF Rollback, RollbackLocks
  <2>2. c = d /\ call[d].op = "refund" /\ call'[d].key = call[d].key
    BY <1>0, <1>5, <2>1 DEF Rollback, IdleCall
  <2>3. EntersRollback(d)
    BY <1>5, <2>1, <2>2 DEF EntersRollback, RollsBack, Commits
  <2> QED
    BY <2>2, <2>3
<1>6. ASSUME NEW c \in Calls, LoyaltyCall(c) PROVE call'[d] = call[d]
  BY <1>2, <1>3, <1>4, <1>6
     DEF LoyaltyCall, Settles, TopsUp, AdjustsManually, DuplicateFails, Abort, RequestStarts
<1>9. ASSUME NEW c \in Calls, NEW o, NEW id, NEW change, AmendStarts(c, o, id, change)
      PROVE  call'[d] = call[d]
  BY <1>0, <1>9 DEF AmendStarts, IdleCall
<1>10. ASSUME NEW c \in Calls, AmendReads(c) PROVE call'[d] = call[d]
  BY <1>0, <1>10 DEF AmendReads, CallRecords
<1>7. ASSUME NEW c \in Calls, OrderCall(c), ~Rollback(c) PROVE call'[d] = call[d]
  BY <1>2, <1>3, <1>4, <1>7, <1>9, <1>10
     DEF OrderCall, Creates, CreateFails, HandleOrderPaid, SettleStarts, HandleRefunded,
         RollbackStarts, FullRefundRecords, Amends, AmendmentLocks, CreateStarts,
         FullRefundStarts
<1>8. CASE Crash
  BY <1>0, <1>8 DEF Crash, IdleCall
<1> QED
  BY <1>1, <1>5, <1>6, <1>7, <1>8
     DEF Next, Announce, RecordOrderPaidEvent, FullRefundIsNoted, UpdateStatus,
         DispatchReads, DispatchAsks, DispatchRecords, vars, ledgerVars

LEMMA RecordedKeepsRefunded ==
    ASSUME Typed, NEW p, NEW id, NEW cash, NEW back, NEW o \in Orders
    PROVE  Recorded(p, id, cash, back)[o].refunded = amendments[o].refunded
<1>1. amendments \in [Orders -> AmendmentRows]
  BY DEF Typed, TypeOK
<1> QED
  BY <1>1 DEF Recorded, AmendmentRows

LEMMA RefundedByRecord ==
    ASSUME Typed, [Next]_vars, NEW o \in Orders, amendments'[o].refunded
    PROVE  \/ amendments[o].refunded
           \/ \E c \in Calls : /\ call[c].at = "record" /\ call[c].key = o
                              /\ order'[o].status = "refunded"
<1>0. amendments \in [Orders -> AmendmentRows] /\ order \in [Orders -> OrderRows]
  BY DEF Typed, TypeOK
<1>1. ASSUME NEW c \in Calls, FullRefundRecords(c), ~amendments[o].refunded
      PROVE  call[c].at = "record" /\ call[c].key = o /\ order'[o].status = "refunded"
  <2> DEFINE next == Recorded(call[c].key, "FULL_REFUND", call[c].ask.amount, 0)
  <2>1. /\ order' = [order EXCEPT ![call[c].key].status = "refunded"]
        /\ amendments' = [next EXCEPT ![call[c].key].refunded = TRUE]
    BY <1>1 DEF FullRefundRecords
  <2>2. next \in [Orders -> AmendmentRows] /\ next[o].refunded = amendments[o].refunded
    <3>1. call[c].key \in Orders /\ call[c].ask.amount \in Nat
      BY <1>1 DEF FullRefundRecords, Typed, CallsOK, CallOK, OrderOperations
    <3>2. OrdersTyped /\ "FULL_REFUND" \in AmendmentIds \cup {"FULL_REFUND"} /\ 0 \in Nat
      BY TypedParts
    <3>3. next \in [Orders -> AmendmentRows]
      BY <3>1, <3>2, RecordedIs
    <3> QED
      BY <3>3, RecordedKeepsRefunded
  <2>3. call[c].key = o
    <3> HIDE DEF next
    <3> QED
      BY <1>1, <2>1, <2>2
  <2>4. order'[o].status = "refunded"
    BY <1>0, <2>1, <2>3 DEF OrderRows
  <2> QED
    BY <1>1, <2>3, <2>4 DEF FullRefundRecords
<1>2. ASSUME NEW p \in Orders, FullRefundIsNoted(p) PROVE amendments[o].refunded
  BY <1>2, RecordedKeepsRefunded DEF FullRefundIsNoted
<1>3. ASSUME NEW c \in Calls, Amends(c) PROVE amendments[o].refunded
  BY <1>3, RecordedKeepsRefunded DEF Amends
<1>4. CASE UNCHANGED amendments
  BY <1>4
<1>5. ASSUME NEW c \in Calls, OrderCall(c), ~FullRefundRecords(c), ~Amends(c)
      PROVE  UNCHANGED amendments
  BY <1>5 DEF OrderCall, Creates, CreateFails, HandleOrderPaid, HandleRefunded, Rollback,
              CreateStarts, FullRefundStarts, AmendStarts, AmendReads
<1>6. ASSUME NEW c \in Calls, LoyaltyCall(c) PROVE UNCHANGED amendments
  BY <1>6 DEF LoyaltyCall
<1>7. CASE UNCHANGED vars \/ Crash
  BY <1>7 DEF vars, Crash
<1>8. ASSUME NEW p \in Orders,
             Announce(p) \/ RecordOrderPaidEvent(p) \/ \E next \in Statuses : UpdateStatus(p, next)
      PROVE  UNCHANGED amendments
  BY <1>8 DEF Announce, RecordOrderPaidEvent, UpdateStatus
<1>9. ASSUME NEW task \in owed,
             DispatchReads(task) \/ DispatchAsks(task) \/ DispatchRecords(task)
      PROVE  UNCHANGED amendments
  BY <1>9 DEF DispatchReads, DispatchAsks, DispatchRecords
<1> QED
  BY <1>1, <1>2, <1>3, <1>4, <1>5, <1>6, <1>7, <1>8, <1>9 DEF Next

LEMMA ReturningInductive ==
    Typed /\ Placed /\ Returning /\ [Next]_vars => Returning'
<1> SUFFICES ASSUME Typed, Placed, Returning, [Next]_vars PROVE Returning'
  OBVIOUS
<1>1. ASSUME NEW d \in Calls, call'[d].at = "record", NEW o, o = call'[d].key
      PROVE  Answered(o)'
  <2>1. /\ o = call[d].key /\ call[d].op = "refund"
        /\ call[d].at = "record" \/ EntersRollback(d)
    BY <1>1, RecordsAfterRollback
  <2>2. o \in Orders /\ Exists(o)
    BY <2>1, RefundsAreOperations DEF Placed, Typed, CallsOK, CallOK
  <2> QED
    BY <2>1, <2>2, AnsweredStays, RollbackAnswers DEF Returning
<1>2. ASSUME NEW o \in Orders, amendments'[o].refunded
      PROVE  order'[o].status = "refunded" /\ Answered(o)'
  <2>1. Answered(o) /\ Exists(o)
    <3>1. CASE amendments[o].refunded
      BY <3>1 DEF Returning, Exists
    <3>2. ASSUME NEW c \in Calls, call[c].at = "record", call[c].key = o
          PROVE  Answered(o) /\ Exists(o)
      <4>1. call[c].op = "refund"
        BY <3>2 DEF Typed, CallsOK, CallOK
      <4> QED
        BY <3>2, <4>1, RefundsAreOperations DEF Returning, Placed
    <3> QED
      BY <1>2, <3>1, <3>2, RefundedByRecord
  <2>2. order'[o].status = "refunded"
    <3>1. CASE amendments[o].refunded
      <4>1. ASSUME NEW c \in Calls, Creates(c), call[c].key = o PROVE FALSE
        BY <2>1, <4>1, CreatedExists
      <4>2. RowKept(o)
        BY <4>1, RowIsKept
      <4> QED
        BY <3>1, <4>2 DEF Returning, RowKept
    <3> QED
      BY <1>2, <3>1, RefundedByRecord
  <2> QED
    BY <2>1, <2>2, AnsweredStays
<1>3. \A d \in Calls : call'[d].at = "record" => Answered(call[d].key)'
  <2>1. SUFFICES ASSUME NEW d \in Calls, call'[d].at = "record"
                 PROVE  Answered(call[d].key)'
    OBVIOUS
  <2>2. \A o : o = call'[d].key => Answered(o)'
    BY <1>1, <2>1
  <2> QED
    BY <2>2 DEF Answered, Redemptions, Find
<1> QED
  BY <1>2, <1>3 DEF Returning

(* Once a full refund is on record, every point and all balance the order  *)
(* was paid with has been returned: the rollback commits first.            *)
THEOREM SettlementRefundReturnsPayment == Spec => []RefundReturnsPayment
<1> DEFINE Inv == Typed /\ Placed /\ Returning
<1>1. Init => Inv
  <2>1. Init => Returning
    BY DEF Init, LedgerInit, IdleCall, NoAmendment, Returning
  <2> QED
    BY <2>1, TypedInitially, TakenInitially
<1>2. Inv /\ [Next]_vars => Inv'
  BY TypedInductive, PlacedInductive, ReturningInductive
<1>3. Inv => RefundReturnsPayment
  BY AllReturnedIs DEF Returning, RefundReturnsPayment, AllReturned
<1> QED
  BY <1>1, <1>2, <1>3, PTL DEF Spec
-----------------------------------------------------------------------------
\* A refund undoes entries of the order, each as it was made.

Undoes(u, e) ==
    /\ e.key = u.key /\ e.source = "ORDER"
    /\ e.account = u.account /\ e.target = u.target
    /\ e.delta = -u.delta
    /\ <<e.type, u.type>> \in
         {<<"EARN_ON_PURCHASE", "REFUND_REVERSE_EARN">>,
          <<"REDEEM_ON_ORDER", "REFUND_RETURN_REDEEM">>,
          <<"REFERRAL_BONUS", "REFUND_REVERSE_REFERRAL">>}

LEMMA UndoneUndoes ==
    ASSUME Typed, NEW o, NEW type, NEW undo, NEW u \in Undone(o, type, undo),
           <<type, undo>> \in
             {<<"EARN_ON_PURCHASE", "REFUND_REVERSE_EARN">>,
              <<"REDEEM_ON_ORDER", "REFUND_RETURN_REDEEM">>,
              <<"REFERRAL_BONUS", "REFUND_REVERSE_REFERRAL">>}
    PROVE  \E e \in ledger : Undoes(u, e)
<1>1. PICK e \in Find(o, type, "ORDER") :
        /\ u.key = e.key /\ u.account = e.account /\ u.target = e.target
        /\ u.delta = -e.delta /\ u.type = undo /\ u.source = "FULL_REFUND"
  BY UndoneFields
<1>2. e \in ledger /\ e.type = type /\ e.source = "ORDER" /\ e.delta \in Int
  BY DEF Find, Typed, TypeOK, Entries
<1>3. e.delta = -u.delta
  BY <1>1, <1>2
<1> QED
  BY <1>1, <1>2, <1>3 DEF Undoes

LEMMA UndoingInductive ==
    Typed /\ RefundsUndoEntries /\ [Next]_vars => RefundsUndoEntries'
<1> SUFFICES ASSUME Typed, RefundsUndoEntries, [Next]_vars, NEW u \in ledger',
                    u.source = "FULL_REFUND"
             PROVE  \E e \in ledger' : Undoes(u, e)
  BY DEF RefundsUndoEntries, Undoes
<1>1. ledger \subseteq ledger'
  BY StepEnters DEF EntersPayment, EntersRollback, EntersOther
<1>2. CASE u \in ledger
  <2>1. \E e \in ledger : Undoes(u, e)
    BY <1>2 DEF RefundsUndoEntries, Undoes
  <2> QED
    BY <1>1, <2>1
<1>3. CASE u \notin ledger
  <2>1. ASSUME NEW c \in Calls, EntersPayment(c) PROVE FALSE
    BY <1>3, <2>1 DEF EntersPayment, Payments, Entry
  <2>2. ASSUME NEW c \in Calls, EntersOther(c) PROVE FALSE
    BY <1>3, <2>2 DEF EntersOther, Ordinary
  <2>3. ASSUME NEW c \in Calls, EntersRollback(c) PROVE \E e \in ledger : Undoes(u, e)
    BY <1>3, <2>3, UndoneUndoes DEF EntersRollback, TakenBack, Returned, BonusTakenBack
  <2> QED
    BY <1>1, <1>3, <2>1, <2>2, <2>3, StepEnters
<1> QED
  BY <1>2, <1>3

(* A refund takes back and returns exactly what the ledger says the order  *)
(* earned and took, to the account and in the unit it came from.           *)
THEOREM SettlementRefundsUndoEntries == Spec => []RefundsUndoEntries
<1>1. Init => Typed /\ RefundsUndoEntries
  BY TypedInitially DEF Init, LedgerInit, RefundsUndoEntries
<1>2. Typed /\ RefundsUndoEntries /\ [Next]_vars => (Typed /\ RefundsUndoEntries)'
  BY TypedInductive, UndoingInductive
<1> QED
  BY <1>1, <1>2, PTL DEF Spec

-----------------------------------------------------------------------------
\* Store balance is never handed out twice.

RedemptionsTake == \A e \in ledger : e.type = "REDEEM_ON_ORDER" => e.delta <= 0

ReadsAreFunded == \A c \in Calls : call[c].own.balance >= 0

Funded == BalanceIsNeverNegative /\ RedemptionsTake /\ ReadsAreFunded

LEMMA CommitFunded ==
    ASSUME Typed, BalanceIsNeverNegative, NEW c \in Calls, NEW own, NEW refs, NEW columns,
           NEW points, NEW balance \in Int, NEW spend,
           Commits(c, own, refs, columns, points, balance, spend),
           IF "balance" \in columns THEN call[c].own.balance + balance >= 0
           ELSE account[call[c].account].balance + balance >= 0
    PROVE  BalanceIsNeverNegative'
<1>1. /\ account \in [Accounts -> Rows] /\ call[c] \in CallRecords
  BY DEF Typed, TypeOK
<1>2. SUFFICES ASSUME NEW b \in Accounts PROVE account'[b].balance >= 0
  BY DEF BalanceIsNeverNegative
<1>3. account[b] \in Rows /\ account[b].balance >= 0
  BY <1>1 DEF BalanceIsNeverNegative
<1>4. CASE b = call[c].account
  <2>1. account'[b].balance = (IF "balance" \in columns THEN call[c].own["balance"]
                               ELSE account[b]["balance"]) + balance
    BY <1>4 DEF Commits
  <2> QED
    BY <1>4, <2>1
<1>5. CASE b # call[c].account
  <2>1. account'[b].balance = account[b].balance
    BY <1>3, <1>5 DEF Commits, Rows
  <2> QED
    BY <1>3, <2>1
<1> QED
  BY <1>4, <1>5

LEMMA ReturnsAreFunded ==
    ASSUME Typed, RedemptionsTake, NEW c \in Calls
    PROVE  Delta(OfTarget(Returned(c), "BALANCE")) >= 0
<1> DEFINE returned == OfTarget(Returned(c), "BALANCE")
<1>1. \A u \in Returned(c) : u.delta \in Int /\ u.delta >= 0
  <2> SUFFICES ASSUME NEW u \in Returned(c) PROVE u.delta \in Int /\ u.delta >= 0
    OBVIOUS
  <2>1. PICK e \in Find(call[c].key, "REDEEM_ON_ORDER", "ORDER") : u.delta = -e.delta
    BY UndoneFields DEF Returned
  <2>2. e.delta \in Int /\ e.delta <= 0
    BY DEF Find, RedemptionsTake, Typed, TypeOK, Entries
  <2> QED
    BY <2>1, <2>2
<1>2. returned \subseteq Entries /\ returned \subseteq Returned(c)
  BY RollbackIs DEF OfTarget
<1> HIDE DEF returned
<1>3. returned # {} => \E e \in returned : Delta(returned) = e.delta
  BY <1>2, DeltaIs
<1>4. returned = {} => Delta(returned) = 0
  BY <1>2, DeltaIs
<1>5. Delta(returned) >= 0
  BY <1>1, <1>2, <1>3, <1>4
<1> QED
  BY <1>5 DEF returned

LEMMA LoyaltyCallFunded ==
    ASSUME Typed, Funded, NEW c \in Calls, LoyaltyCall(c)
    PROVE  BalanceIsNeverNegative'
<1>0. /\ call[c].own.balance \in Int /\ call[c].own.balance >= 0
      /\ \A a \in Accounts : account[a].balance \in Int /\ account[a].balance >= 0
  BY DEF Funded, ReadsAreFunded, BalanceIsNeverNegative, Typed, TypeOK, CallRecords, Rows
<1>1. call[c].at # "idle" => call[c].account \in Accounts
  BY DEF Typed, CallsOK, CallOK
<1>2. CASE Settles(c)
  <2>1. CASE LocksOwn(c, ReferralBonus(c))
    BY <1>0, <2>1 DEF LocksOwn, BalanceIsNeverNegative
  <2>2. CASE Commits(c, Earnings(c), ReferralBonus(c), {"points", "spend"},
                     Delta(Earnings(c)), 0, call[c].own.spend + call[c].net)
    <3>1. account[call[c].account].balance + 0 >= 0
      BY <1>0, <1>1, <2>2 DEF Commits, HasLocks
    <3>2. "balance" \notin {"points", "spend"} /\ 0 \in Int
      OBVIOUS
    <3> QED
      BY <2>2, <3>1, <3>2, CommitFunded DEF Funded
  <2> QED
    BY <1>2, <2>1, <2>2 DEF Settles
<1>3. CASE TopsUp(c)
  <2>1. CASE LocksOwn(c, TopupBonus(c))
    BY <1>0, <2>1 DEF LocksOwn, BalanceIsNeverNegative
  <2>2. CASE Commits(c, Credits(c), TopupBonus(c), {"points", "balance", "spend"},
                     call[c].ask.bonus, call[c].net, call[c].own.spend + call[c].net)
    <3>1. call[c].net \in Nat
      BY <1>3 DEF TopsUp, Typed, CallsOK, CallOK
    <3>2. call[c].own.balance + call[c].net >= 0 /\ call[c].net \in Int
      BY <1>0, <3>1
    <3>3. "balance" \in {"points", "balance", "spend"}
      OBVIOUS
    <3> QED
      BY <2>2, <3>2, <3>3, CommitFunded DEF Funded
  <2> QED
    BY <1>3, <2>1, <2>2 DEF TopsUp
<1>4. CASE AdjustsManually(c)
  <2> DEFINE own == {Entry(call[c].account, call[c].key, "ADJUSTMENT_MANUAL", "MANUAL",
                           "POINTS", call[c].net)}
  <2>1. Commits(c, own, {}, {"points"}, call[c].net, 0, 0)
    BY <1>4 DEF AdjustsManually
  <2>2. account[call[c].account].balance + 0 >= 0
    BY <1>0, <1>1, <2>1 DEF Commits, HasLocks
  <2>3. "balance" \notin {"points"} /\ 0 \in Int
    OBVIOUS
  <2> HIDE DEF own
  <2> QED
    BY <2>1, <2>2, <2>3, CommitFunded DEF Funded
<1> QED
  BY <1>0, <1>2, <1>3, <1>4
     DEF LoyaltyCall, DuplicateFails, Abort, RequestStarts, BalanceIsNeverNegative

LEMMA OrderCallFunded ==
    ASSUME Typed, Funded, NEW c \in Calls, OrderCall(c)
    PROVE  BalanceIsNeverNegative'
<1>0. /\ call[c].own.balance \in Int /\ call[c].own.balance >= 0
      /\ \A a \in Accounts : account[a].balance \in Int /\ account[a].balance >= 0
  BY DEF Funded, ReadsAreFunded, BalanceIsNeverNegative, Typed, TypeOK, CallRecords, Rows
<1>1. call[c].at # "idle" => call[c].account \in Accounts
  BY DEF Typed, CallsOK, CallOK
<1>2. CASE Creates(c)
  <2> DEFINE columns == IF Redeemed(c) > 0 THEN {"points"} ELSE {}
  <2>1. Commits(c, Payments(c), {}, columns, -Redeemed(c), -call[c].ask.balance, 0)
    BY <1>2 DEF Creates
  <2>2. call[c].account \in Accounts /\ call[c].ask \in WishAsks
    BY <1>1, <1>2 DEF Creates, Commits, HasLocks, Typed, CallsOK, CallOK
  <2>3. call[c].ask.balance \in Nat /\ call[c].ask.balance <= account[call[c].account].balance
    BY <1>2, <2>2 DEF Creates, CanCreate, WishAsks
  <2>4. /\ account[call[c].account].balance + (-call[c].ask.balance) >= 0
        /\ -call[c].ask.balance \in Int
    BY <1>0, <2>2, <2>3
  <2>5. "balance" \notin columns
    OBVIOUS
  <2> HIDE DEF columns
  <2> QED
    BY <2>1, <2>4, <2>5, CommitFunded DEF Funded
<1>3. CASE Rollback(c)
  <2>1. CASE RollbackLocks(c)
    BY <1>0, <2>1 DEF RollbackLocks, LocksOwn, BalanceIsNeverNegative
  <2>2. CASE RollsBack(c)
    <3> DEFINE returned == Delta(OfTarget(Returned(c), "BALANCE"))
    <3>1. returned \in Int /\ returned >= 0
      BY RollbackIs, ReturnsAreFunded DEF Funded
    <3>2. call[c].own.balance + returned >= 0
      <4> HIDE DEF returned
      <4> QED
        BY <1>0, <3>1
    <3>3. "balance" \in {"points", "balance", "spend"}
      OBVIOUS
    <3>4. Commits(c, TakenBack(c) \cup Returned(c), BonusTakenBack(c),
                  {"points", "balance", "spend"},
                  Delta(TakenBack(c)) + Delta(OfTarget(Returned(c), "POINTS")),
                  returned, SpendAfterRefund(c))
      BY <2>2 DEF RollsBack
    <3> QED
      <4> HIDE DEF returned
      <4> QED
        BY <3>1, <3>2, <3>3, <3>4, CommitFunded DEF Funded
  <2> QED
    BY <1>3, <2>1, <2>2 DEF Rollback
<1>4. CASE Amends(c)
  <2>1. CASE AppliesAmendment(c)
    <3> DEFINE points == call[c].ask.back + Delta(EarningAdjusted(c))
               spend == AtLeastZero(call[c].own.spend + call[c].ask.new - call[c].ask.base)
    <3>1. Commits(c, PointsReturned(c) \cup EarningAdjusted(c), BonusAdjustment(c),
                  {"points", "spend"}, points, 0, spend)
      BY <2>1 DEF AppliesAmendment
    <3>2. account[call[c].account].balance + 0 >= 0
      BY <1>0, <1>1, <3>1 DEF Commits, HasLocks
    <3>3. "balance" \notin {"points", "spend"} /\ 0 \in Int
      OBVIOUS
    <3> HIDE DEF points, spend
    <3> QED
      BY <3>1, <3>2, <3>3, CommitFunded DEF Funded
  <2> QED
    BY <1>0, <1>4, <2>1 DEF Amends, AmendmentLocks, LocksOwn, BalanceIsNeverNegative
<1>5. CASE UNCHANGED account
  BY <1>0, <1>5 DEF BalanceIsNeverNegative
<1> QED
  BY <1>2, <1>3, <1>4, <1>5
     DEF OrderCall, CreateFails, HandleOrderPaid, HandleRefunded, FullRefundRecords,
         CreateStarts, FullRefundStarts, AmendStarts, AmendReads

LEMMA RedemptionsTakeInductive ==
    Typed /\ RedemptionsTake /\ [Next]_vars => RedemptionsTake'
<1> SUFFICES ASSUME Typed, RedemptionsTake, [Next]_vars PROVE RedemptionsTake'
  OBVIOUS
<1>1. ASSUME NEW c \in Calls, EntersPayment(c) PROVE RedemptionsTake'
  <2>1. call[c].op = "create" /\ call[c].at # "idle"
    BY <1>1 DEF EntersPayment, Creates, Commits, HasLocks
  <2>2. Redeemed(c) \in Nat /\ call[c].ask.balance \in Nat
    BY <2>1, PaymentsAre DEF Typed, CallsOK, CallOK, WishAsks
  <2>3. \A e \in Payments(c) : e.delta = -Redeemed(c) \/ e.delta = -call[c].ask.balance
    BY DEF Payments, Entry
  <2>4. \A e \in Payments(c) : e.delta <= 0
    BY <2>2, <2>3
  <2> QED
    BY <1>1, <2>4 DEF EntersPayment, RedemptionsTake
<1>2. ASSUME NEW c \in Calls, EntersRollback(c) PROVE RedemptionsTake'
  <2>1. \A type : \A undo \in {"REFUND_REVERSE_EARN", "REFUND_RETURN_REDEEM",
                               "REFUND_REVERSE_REFERRAL"} :
          \A u \in Undone(call[c].key, type, undo) : u.type # "REDEEM_ON_ORDER"
    BY UndoneFields
  <2> QED
    BY <1>2, <2>1
       DEF EntersRollback, TakenBack, Returned, BonusTakenBack, RedemptionsTake
<1>3. ASSUME NEW c \in Calls, EntersOther(c) PROVE RedemptionsTake'
  BY <1>3 DEF EntersOther, Ordinary, RedemptionsTake
<1>4. CASE UNCHANGED ledger
  BY <1>4 DEF RedemptionsTake
<1> QED
  BY <1>1, <1>2, <1>3, <1>4, StepEnters

LEMMA ReadsInductive ==
    Typed /\ Funded /\ [Next]_vars => ReadsAreFunded'
<1> SUFFICES ASSUME Typed, Funded, [Next]_vars, NEW d \in Calls
             PROVE  call'[d].own.balance >= 0
  BY DEF ReadsAreFunded
<1>0. /\ call \in [Calls -> CallRecords] /\ call[d].own.balance >= 0
      /\ IdleCall.own.balance >= 0
      /\ \A a \in Accounts : account[a].balance >= 0
  BY DEF Funded, ReadsAreFunded, BalanceIsNeverNegative, Typed, TypeOK, IdleCall, EmptyRow
<1>1. CASE call'[d].own = call[d].own
  BY <1>0, <1>1
<1>2. ASSUME NEW c \in Calls, Ends(c) PROVE call'[d].own.balance >= 0
  BY <1>0, <1>2 DEF Ends
<1>3. ASSUME NEW c \in Calls, NEW refs, LocksOwn(c, refs) PROVE call'[d].own = call[d].own
  BY <1>0, <1>3 DEF LocksOwn, CallRecords
<1>4. ASSUME NEW c \in Calls, NEW op, NEW key, NEW a \in Accounts, NEW net, NEW ask,
             Starts(c, op, key, a, net, ask)
      PROVE  call'[d].own.balance >= 0
  BY <1>0, <1>4 DEF Starts
<1>5. ASSUME NEW c \in Calls, LoyaltyCall(c) PROVE call'[d].own.balance >= 0
  <2>1. ASSUME NEW key \in Requests, RequestStarts(c, key) PROVE call'[d].own.balance >= 0
    <3>1. Payload[key].account \in Accounts
      BY LedgerAssumption
    <3> QED
      BY <1>4, <2>1, <3>1 DEF RequestStarts
  <2> QED
    BY <1>1, <1>2, <1>3, <1>5, <2>1
       DEF LoyaltyCall, Settles, TopsUp, AdjustsManually, DuplicateFails, Abort
<1>6. ASSUME NEW c \in Calls, OrderCall(c) PROVE call'[d].own.balance >= 0
  <2>0. \A o \in Orders : Owner[o] \in Accounts
    BY SettlementAssumption
  <2>1. CASE Rollback(c)
    <3>1. CASE RollbackLocks(c)
      BY <1>1, <1>3, <3>1 DEF RollbackLocks
    <3>2. CASE call' = [call EXCEPT ![c] =
                 IF call[c].op = "rollback" THEN IdleCall
                 ELSE [IdleCall EXCEPT !.at = "record", !.op = "refund",
                         !.key = call[c].key, !.account = call[c].account,
                         !.ask = call[c].ask]]
      BY <1>0, <3>2 DEF IdleCall
    <3> QED
      BY <2>1, <3>1, <3>2 DEF Rollback
  <2>2. ASSUME NEW task \in owed, HandleOrderPaid(c, task) \/ HandleRefunded(c, task)
        PROVE  call'[d].own.balance >= 0
    <3>1. task.order \in Orders
      BY DEF Typed, TypeOK, Tasks
    <3> QED
      BY <1>4, <2>0, <2>2, <3>1
         DEF HandleOrderPaid, HandleRefunded, SettleStarts, RollbackStarts
  <2>3. ASSUME NEW o \in Orders, NEW op, NEW net, NEW ask, Starts(c, op, o, Owner[o], net, ask)
        PROVE  call'[d].own.balance >= 0
    BY <1>4, <2>0, <2>3
  <2>4. ASSUME NEW o \in Orders, NEW id, NEW change, AmendStarts(c, o, id, change)
        PROVE  call'[d].own.balance >= 0
    BY <1>0, <2>4 DEF AmendStarts, IdleCall, EmptyRow
  <2>5. CASE AmendReads(c)
    <3>1. call[c].account \in Accounts
      BY <2>5 DEF AmendReads, Typed, CallsOK, CallOK
    <3> QED BY <1>0, <2>5, <3>1 DEF AmendReads
  <2> QED
    BY <1>1, <1>2, <1>3, <1>6, <2>1, <2>2, <2>3, <2>4, <2>5
       DEF OrderCall, Creates, CreateFails, FullRefundRecords, Amends, AmendmentLocks,
           CreateStarts, FullRefundStarts, RollbackStarts
<1>7. CASE Crash
  BY <1>0, <1>7 DEF Crash
<1> QED
  BY <1>1, <1>5, <1>6, <1>7
     DEF Next, Announce, RecordOrderPaidEvent, FullRefundIsNoted, UpdateStatus,
         DispatchReads, DispatchAsks, DispatchRecords, vars, ledgerVars

LEMMA FundedInductive == Typed /\ Funded /\ [Next]_vars => Funded'
<1> SUFFICES ASSUME Typed, Funded, [Next]_vars PROVE Funded'
  OBVIOUS
<1>1. BalanceIsNeverNegative'
  <2>1. CASE UNCHANGED account
    BY <2>1 DEF Funded, BalanceIsNeverNegative
  <2> QED
    BY <2>1, LoyaltyCallFunded, OrderCallFunded
       DEF Next, Announce, RecordOrderPaidEvent, FullRefundIsNoted, UpdateStatus,
           DispatchReads, DispatchAsks, DispatchRecords, Crash, vars, ledgerVars
<1>2. RedemptionsTake' /\ ReadsAreFunded'
  BY RedemptionsTakeInductive, ReadsInductive DEF Funded
<1> QED
  BY <1>1, <1>2 DEF Funded

(* Orders and refunds of a member that overlap never take more store       *)
(* balance than the member's row holds.                                    *)
THEOREM SettlementBalanceIsNeverNegative == Spec => []BalanceIsNeverNegative
<1>1. Init => Typed /\ Funded
  <2>1. Init => Funded
    BY DEF Init, LedgerInit, EmptyRow, IdleCall, Funded, BalanceIsNeverNegative,
           RedemptionsTake, ReadsAreFunded
  <2> QED
    BY <2>1, TypedInitially
<1>2. Typed /\ Funded /\ [Next]_vars => (Typed /\ Funded)'
  BY TypedInductive, FundedInductive
<1>3. Funded => BalanceIsNeverNegative
  BY DEF Funded
<1> QED
  BY <1>1, <1>2, <1>3, PTL DEF Spec

-----------------------------------------------------------------------------
\* One courier, unless a notification announces the order again.

Couriering == {"announce", "dispatch", "ask", "record"}

\* The tasks that still lead to a courier for o.
Asking(o) == {t \in owed : t.order = o /\ t.step \in {"announce", "dispatch", "ask"}}

OneAsks ==
    \A o \in Orders :
      /\ deliveries[o] > 0 => Exists(o)
      /\ o \notin noticed =>
           /\ deliveries[o] <= 1
           /\ \A t, u \in Asking(o) : t = u
           /\ Asking(o) # {} => deliveries[o] = 0
           /\ \A t \in owed : t.order = o /\ t.step \in Couriering => t.from = "order"

\* A step that gives o no new task on the way to a courier.
LEMMA NothingNewAsks ==
    ASSUME OneAsks, [Next]_vars, Typed, UNCHANGED deliveries, noticed \subseteq noticed',
           \A t \in owed' \ owed : t.step \notin Couriering
    PROVE  OneAsks'
<1>1. SUFFICES ASSUME NEW o \in Orders
               PROVE  /\ deliveries'[o] > 0 => Exists(o)'
                      /\ o \notin noticed' =>
                           /\ deliveries'[o] <= 1
                           /\ \A t, u \in Asking(o)' : t = u
                           /\ Asking(o)' # {} => deliveries'[o] = 0
                           /\ \A t \in owed' : t.order = o /\ t.step \in Couriering
                                               => t.from = "order"
  BY DEF OneAsks
<1>2. Asking(o)' \subseteq Asking(o)
  BY DEF Asking, Couriering
<1>3. deliveries[o] > 0 => Exists(o)'
  BY OrdersStay DEF OneAsks
<1> QED
  BY <1>2, <1>3 DEF OneAsks

LEMMA CreateAsks ==
    ASSUME OneAsks, Placed, [Next]_vars, Typed, NEW c \in Calls, Creates(c)
    PROVE  OneAsks'
<1> DEFINE new == Task(call[c].key, "order", "announce")
<1>1. PICK k \in Orders : k = call[c].key /\ ~Exists(k) /\ Exists(k)'
  BY CreatedExists
<1>2. owed' = owed \cup {new} /\ UNCHANGED <<noticed, deliveries>>
  BY DEF Creates
<1>3. new.order = k /\ new.step = "announce" /\ new.from = "order"
  BY <1>1 DEF Task
<1> HIDE DEF new
<1>4. \A t \in owed : t.order # k
  BY <1>1 DEF Placed
<1>5. deliveries[k] = 0
  BY <1>1 DEF OneAsks, Typed, TypeOK
<1>6. ASSUME NEW o \in Orders
      PROVE  /\ deliveries'[o] > 0 => Exists(o)'
             /\ o \notin noticed' =>
                  /\ deliveries'[o] <= 1
                  /\ \A t, u \in Asking(o)' : t = u
                  /\ Asking(o)' # {} => deliveries'[o] = 0
                  /\ \A t \in owed' : t.order = o /\ t.step \in Couriering
                                      => t.from = "order"
  <2>1. CASE o = k
    <3>1. Asking(o)' = {new}
      BY <1>2, <1>3, <1>4, <2>1 DEF Asking
    <3> QED
      BY <1>1, <1>2, <1>3, <1>4, <1>5, <2>1, <3>1
  <2>2. CASE o # k
    <3>1. Asking(o)' = Asking(o)
      BY <1>2, <1>3, <2>2 DEF Asking
    <3> QED
      BY <1>2, <1>3, <2>2, <3>1, OrdersStay DEF OneAsks
  <2> QED
    BY <2>1, <2>2
<1> QED
  BY <1>6 DEF OneAsks

LEMMA AnnounceAsks ==
    ASSUME OneAsks, [Next]_vars, Typed, NEW k \in Orders, Announce(k)
    PROVE  OneAsks'
<1> DEFINE old == Task(k, "order", "announce")
           dispatch == Task(k, "order", "dispatch")
           settle == Task(k, "order", "settle")
<1>1. /\ old.order = k /\ old.step = "announce" /\ old \in owed
      /\ dispatch.order = k /\ dispatch.step = "dispatch" /\ dispatch.from = "order"
      /\ settle.order = k /\ settle.step = "settle"
  BY DEF Task, Announce
<1>2. /\ owed' \subseteq (owed \ {old}) \cup {dispatch, settle}
      /\ UNCHANGED <<noticed, deliveries>>
  BY DEF Announce, Listeners
<1> HIDE DEF old, dispatch, settle
<1>3. ASSUME NEW o \in Orders
      PROVE  /\ deliveries'[o] > 0 => Exists(o)'
             /\ o \notin noticed' =>
                  /\ deliveries'[o] <= 1
                  /\ \A t, u \in Asking(o)' : t = u
                  /\ Asking(o)' # {} => deliveries'[o] = 0
                  /\ \A t \in owed' : t.order = o /\ t.step \in Couriering
                                      => t.from = "order"
  <2>1. CASE o = k /\ o \notin noticed
    <3>1. old \in Asking(o)
      BY <1>1, <2>1 DEF Asking
    <3>2. deliveries[o] = 0 /\ Asking(o) = {old}
      BY <2>1, <3>1 DEF OneAsks
    <3>3. Asking(o)' \subseteq {dispatch}
      BY <1>1, <1>2, <2>1, <3>2 DEF Asking
    <3>4. \A t \in owed' : t.order = o /\ t.step \in Couriering => t.from = "order"
      BY <1>1, <1>2, <2>1 DEF OneAsks, Couriering
    <3> QED
      BY <1>2, <2>1, <3>2, <3>3, <3>4
  <2>2. CASE o # k
    <3>1. Asking(o)' \subseteq Asking(o)
      BY <1>1, <1>2, <2>2 DEF Asking
    <3> QED
      BY <1>1, <1>2, <2>2, <3>1, OrdersStay DEF OneAsks
  <2>3. CASE o \in noticed
    BY <1>2, <2>3, OrdersStay DEF OneAsks
  <2> QED
    BY <2>1, <2>2, <2>3
<1> QED
  BY <1>3 DEF OneAsks

LEMMA NoticeAsks ==
    ASSUME OneAsks, [Next]_vars, Typed, NEW k \in Orders, RecordOrderPaidEvent(k)
    PROVE  OneAsks'
<1>1. /\ owed \subseteq owed' /\ \A t \in owed' : t \notin owed => t.order = k
      /\ noticed' = noticed \cup {k} /\ UNCHANGED deliveries
  BY DEF RecordOrderPaidEvent, Listeners, Task
<1>2. ASSUME NEW o \in Orders
      PROVE  /\ deliveries'[o] > 0 => Exists(o)'
             /\ o \notin noticed' =>
                  /\ deliveries'[o] <= 1
                  /\ \A t, u \in Asking(o)' : t = u
                  /\ Asking(o)' # {} => deliveries'[o] = 0
                  /\ \A t \in owed' : t.order = o /\ t.step \in Couriering
                                      => t.from = "order"
  <2>1. CASE o = k
    BY <1>1, <2>1, OrdersStay DEF OneAsks
  <2>2. CASE o # k
    <3>1. Asking(o)' = Asking(o)
      BY <1>1, <2>2 DEF Asking
    <3> QED
      BY <1>1, <2>2, <3>1, OrdersStay DEF OneAsks
  <2> QED
    BY <2>1, <2>2
<1> QED
  BY <1>2 DEF OneAsks

LEMMA DispatchAsksOnce ==
    ASSUME OneAsks, Placed, [Next]_vars, Typed, NEW task \in owed,
           DispatchReads(task) \/ DispatchAsks(task)
    PROVE  OneAsks'
<1> DEFINE ask == [task EXCEPT !.step = "ask"]
           record == [task EXCEPT !.step = "record"]
           k == task.order
<1>1. /\ ask.order = k /\ ask.step = "ask" /\ ask.from = task.from
      /\ record.order = k /\ record.step = "record" /\ record.from = task.from
      /\ k \in Orders
  BY DEF Typed, TypeOK, Tasks
<1>2. /\ task.step \in {"dispatch", "ask"} /\ UNCHANGED noticed
      /\ \/ owed' \subseteq (owed \ {task}) \cup {ask} /\ UNCHANGED deliveries
         \/ /\ owed' = (owed \ {task}) \cup {record}
            /\ deliveries' = [deliveries EXCEPT ![k] = @ + 1]
  BY DEF DispatchReads, DispatchAsks
<1>3. deliveries \in [Orders -> Nat]
  BY DEF Typed, TypeOK
<1> HIDE DEF ask, record
<1>4. ASSUME NEW o \in Orders
      PROVE  /\ deliveries'[o] > 0 => Exists(o)'
             /\ o \notin noticed' =>
                  /\ deliveries'[o] <= 1
                  /\ \A t, u \in Asking(o)' : t = u
                  /\ Asking(o)' # {} => deliveries'[o] = 0
                  /\ \A t \in owed' : t.order = o /\ t.step \in Couriering
                                      => t.from = "order"
  <2>0. Exists(o) => Exists(o)'
    BY OrdersStay
  <2>1. CASE o = k
    <3>1. Exists(o)'
      BY <2>0, <2>1 DEF Placed
    <3>2. ASSUME o \notin noticed
          PROVE  /\ deliveries'[o] <= 1
                 /\ \A t, u \in Asking(o)' : t = u
                 /\ Asking(o)' # {} => deliveries'[o] = 0
      <4>1. task \in Asking(o)
        BY <1>2, <2>1 DEF Asking
      <4>2. deliveries[o] = 0 /\ Asking(o) = {task}
        BY <3>2, <4>1 DEF OneAsks
      <4>3. CASE owed' \subseteq (owed \ {task}) \cup {ask} /\ UNCHANGED deliveries
        <5>1. Asking(o)' \subseteq {ask}
          BY <4>2, <4>3 DEF Asking
        <5> QED
          BY <4>2, <4>3, <5>1
      <4>4. CASE /\ owed' = (owed \ {task}) \cup {record}
                 /\ deliveries' = [deliveries EXCEPT ![k] = @ + 1]
        <5>1. Asking(o)' = {}
          BY <1>1, <4>2, <4>4 DEF Asking
        <5>2. deliveries'[o] = 1
          BY <1>3, <2>1, <4>2, <4>4
        <5> QED
          BY <5>1, <5>2
      <4> QED
        BY <1>2, <4>3, <4>4
    <3>3. ASSUME o \notin noticed, NEW t \in owed', t.order = o, t.step \in Couriering
          PROVE  t.from = "order"
      <4>1. task.from = "order"
        BY <1>2, <2>1, <3>3 DEF OneAsks, Couriering
      <4> QED
        BY <1>1, <1>2, <3>3, <4>1 DEF OneAsks
    <3> QED
      BY <1>2, <3>1, <3>2, <3>3
  <2>2. CASE o # k
    <3>1. Asking(o)' \subseteq Asking(o)
      BY <1>1, <1>2, <2>2 DEF Asking
    <3>2. deliveries'[o] = deliveries[o]
      BY <1>2, <1>3, <2>2
    <3>3. \A t \in owed' : t.order = o => t \in owed
      BY <1>1, <1>2, <2>2
    <3> QED
      BY <1>2, <2>0, <3>1, <3>2, <3>3 DEF OneAsks
  <2> QED
    BY <2>1, <2>2
<1> QED
  BY <1>4 DEF OneAsks

LEMMA OneAsksInductive ==
    Typed /\ Placed /\ OneAsks /\ [Next]_vars => OneAsks'
<1> SUFFICES ASSUME Typed, Placed, OneAsks, [Next]_vars PROVE OneAsks'
  OBVIOUS
<1>1. ASSUME NEW c \in Calls, OrderCall(c), ~Creates(c) PROVE OneAsks'
  <2>1. owed' \subseteq owed /\ UNCHANGED <<noticed, deliveries>>
    BY <1>1 DEF OrderCall, CreateFails, HandleOrderPaid, HandleRefunded, Rollback,
                FullRefundRecords, Amends, CreateStarts, FullRefundStarts, AmendStarts, AmendReads
  <2> QED
    BY <2>1, NothingNewAsks
<1>2. ASSUME NEW c \in Calls, LoyaltyCall(c) PROVE OneAsks'
  BY <1>2, NothingNewAsks DEF LoyaltyCall
<1>3. ASSUME NEW o \in Orders, NEW next \in Statuses, UpdateStatus(o, next) PROVE OneAsks'
  <2>1. Task(o, "status", "rollback").step \notin Couriering
    BY DEF Task, Couriering
  <2> QED
    BY <1>3, <2>1, NothingNewAsks DEF UpdateStatus
<1>4. ASSUME NEW o \in Orders, FullRefundIsNoted(o) PROVE OneAsks'
  BY <1>4, NothingNewAsks DEF FullRefundIsNoted
<1>5. ASSUME NEW task \in owed, DispatchRecords(task) PROVE OneAsks'
  BY <1>5, NothingNewAsks DEF DispatchRecords
<1>6. CASE Crash
  BY <1>6, NothingNewAsks DEF Crash
<1>7. CASE UNCHANGED vars
  BY <1>7, NothingNewAsks DEF vars
<1> QED
  BY <1>1, <1>2, <1>3, <1>4, <1>5, <1>6, <1>7, CreateAsks, AnnounceAsks, NoticeAsks,
     DispatchAsksOnce DEF Next

(* However creation is retried, an order that no notification announces    *)
(* again asks Uber Direct for one courier.                                 *)
THEOREM SettlementOneCourier == Spec => []OneCourier
<1> DEFINE Inv == Typed /\ Placed /\ OneAsks
<1>1. Init => Inv
  <2>1. Init => OneAsks
    BY DEF Init, OneAsks, Asking
  <2> QED
    BY <2>1, TypedInitially, TakenInitially
<1>2. Inv /\ [Next]_vars => Inv'
  BY TypedInductive, PlacedInductive, OneAsksInductive
<1>3. Inv => OneCourier
  BY DEF OneAsks, OneCourier
<1> QED
  BY <1>1, <1>2, <1>3, PTL DEF Spec

-----------------------------------------------------------------------------
\* The sum of the entries of a set, by the set's smallest counterexample: a sum
\* is what is chosen first and the sum of the rest.

Chosen(s) == CHOOSE x \in s : TRUE
Rest(s) == s \ {Chosen(s)}

IsSum(g, S) ==
    g = [s \in SUBSET S |-> IF s = {} THEN 0 ELSE Chosen(s).delta + g[Rest(s)]]

LEMMA SumIsChosen == \A S : Sum(S) = (CHOOSE g : IsSum(g, S))[S]
  BY DEF Sum, MapThenSumSet, MapThenFoldSet, IsSum, Chosen, Rest

\* Every non-empty set of subsets of a finite set has a smallest member
LEMMA Smallest ==
    ASSUME NEW S, IsFiniteSet(S), NEW B, B \subseteq SUBSET S, B # {}
    PROVE  \E s \in B : \A t \in B : t \subseteq s => t = s
<1>1. IsWellFoundedOn(StrictSubsetOrdering(S), SUBSET S)
  BY FS_StrictSubsetOrderingWellFounded, FS_FiniteSubsetsOfFinite
<1>2. PICK s \in B : \A t \in B : ~(<<t, s>> \in StrictSubsetOrdering(S))
  BY <1>1, WFMin
<1>3. ASSUME NEW t \in B, t \subseteq s, t # s PROVE FALSE
  <2>1. <<t, s>> \in StrictSubsetOrdering(S)
    BY <1>3 DEF StrictSubsetOrdering
  <2> QED BY <2>1, <1>2
<1> QED BY <1>3

LEMMA RestSmaller ==
    ASSUME NEW s, s # {}
    PROVE  Chosen(s) \in s /\ Rest(s) \subseteq s /\ Rest(s) # s
  BY DEF Chosen, Rest

LEMMA SumStep ==
    ASSUME NEW S, NEW g, IsSum(g, S)
    PROVE  /\ g[{}] = 0
           /\ \A s \in SUBSET S : s # {} => g[s] = Chosen(s).delta + g[Rest(s)]
<1>1. {} \in SUBSET S
  OBVIOUS
<1>2. \A s \in SUBSET S : g[s] = IF s = {} THEN 0 ELSE Chosen(s).delta + g[Rest(s)]
  BY DEF IsSum
<1> QED BY <1>1, <1>2

LEMMA SumIsUnique ==
    ASSUME NEW S, IsFiniteSet(S), NEW T \in SUBSET S,
           NEW g, IsSum(g, S), NEW h, IsSum(h, T)
    PROVE  \A s \in SUBSET T : g[s] = h[s]
<1> DEFINE B == {s \in SUBSET T : g[s] # h[s]}
<1> SUFFICES ASSUME B # {} PROVE FALSE
  OBVIOUS
<1>1. IsFiniteSet(T)
  BY FS_Subset
<1>2. PICK s \in B : \A t \in B : t \subseteq s => t = s
  <2>1. B \subseteq SUBSET T
    OBVIOUS
  <2> HIDE DEF B
  <2> QED BY <1>1, <2>1, Smallest
<1>3. s # {}
  BY SumStep
<1>4. Rest(s) \notin B /\ Rest(s) \in SUBSET T
  BY <1>2, <1>3, RestSmaller
<1>5. g[s] = Chosen(s).delta + g[Rest(s)] /\ h[s] = Chosen(s).delta + h[Rest(s)]
  BY <1>3, SumStep
<1> QED BY <1>4, <1>5

LEMMA SumExists ==
    ASSUME NEW S, IsFiniteSet(S)
    PROVE  \E g : IsSum(g, S)
<1> DEFINE B == {s \in SUBSET S : ~\E g : IsSum(g, s)}
<1> SUFFICES ASSUME B # {} PROVE FALSE
  OBVIOUS
<1>1. PICK s \in B : \A t \in B : t \subseteq s => t = s
  <2>1. B \subseteq SUBSET S
    OBVIOUS
  <2> HIDE DEF B
  <2> QED BY <2>1, Smallest
<1> DEFINE G(t) == CHOOSE g : IsSum(g, t)
           h == [t \in SUBSET s |->
                  IF t = {} THEN 0 ELSE Chosen(t).delta + G(Rest(t))[Rest(t)]]
<1>2. ASSUME NEW t \in SUBSET s, t # s PROVE IsSum(G(t), t)
  <2>1. \E g : IsSum(g, t)
    BY <1>1, <1>2
  <2> QED BY <2>1
<1>3. ASSUME NEW t \in SUBSET s, t # {} PROVE h[Rest(t)] = G(Rest(t))[Rest(t)]
  <2> DEFINE u == Rest(t)
  <2>1. u \in SUBSET s /\ u # s
    BY <1>3, RestSmaller
  <2>2. IsSum(G(u), u)
    BY <2>1, <1>2
  <2>3. CASE u = {}
    BY <2>1, <2>2, <2>3, SumStep
  <2>4. CASE u # {}
    <3>1. Rest(u) \in SUBSET u /\ Rest(u) \in SUBSET s /\ Rest(u) # s
      BY <2>1, <2>4, RestSmaller
    <3>2. IsSum(G(Rest(u)), Rest(u))
      BY <3>1, <1>2
    <3>3. IsFiniteSet(u)
      BY <2>1, FS_Subset
    <3>4. G(u)[Rest(u)] = G(Rest(u))[Rest(u)]
      <4> HIDE DEF G
      <4> QED BY <2>2, <3>1, <3>2, <3>3, SumIsUnique
    <3>5. u \in SUBSET u
      OBVIOUS
    <3>6. G(u)[u] = Chosen(u).delta + G(u)[Rest(u)]
      <4> HIDE DEF G, u
      <4> QED BY <2>2, <2>4, <3>5, SumStep
    <3>7. h[u] = Chosen(u).delta + G(Rest(u))[Rest(u)]
      BY <2>1, <2>4
    <3> QED BY <3>4, <3>6, <3>7
  <2> QED BY <2>3, <2>4
<1>4. IsSum(h, s)
  <2>1. \A t \in SUBSET s : t # {} => Chosen(t).delta + G(Rest(t))[Rest(t)] = Chosen(t).delta + h[Rest(t)]
    <3> HIDE DEF h, G
    <3> QED BY <1>3
  <2>2. h = [t \in SUBSET s |-> IF t = {} THEN 0 ELSE Chosen(t).delta + h[Rest(t)]]
    <3> HIDE DEF G
    <3> QED BY <2>1
  <2> HIDE DEF h
  <2> QED BY <2>2 DEF IsSum
<1> QED BY <1>4

LEMMA SumStepped ==
    ASSUME NEW S, IsFiniteSet(S), S # {}
    PROVE  Sum(S) = Chosen(S).delta + Sum(Rest(S))
<1> DEFINE G(t) == CHOOSE g : IsSum(g, t)
<1>1. Rest(S) \in SUBSET S /\ Rest(S) \in SUBSET Rest(S) /\ S \in SUBSET S /\ IsFiniteSet(Rest(S))
  BY RestSmaller, FS_Subset
<1>2. IsSum(G(S), S) /\ IsSum(G(Rest(S)), Rest(S))
  BY <1>1, SumExists
<1> HIDE DEF G
<1>3. G(S)[Rest(S)] = G(Rest(S))[Rest(S)]
  BY <1>1, <1>2, SumIsUnique
<1>4. G(S)[S] = Chosen(S).delta + G(S)[Rest(S)]
  BY <1>1, <1>2, SumStep
<1>5. Sum(S) = G(S)[S] /\ Sum(Rest(S)) = G(Rest(S))[Rest(S)]
  BY SumIsChosen DEF G
<1> QED BY <1>3, <1>4, <1>5

LEMMA SumEmpty == Sum({}) = 0
<1> DEFINE G(t) == CHOOSE g : IsSum(g, t)
<1>1. IsSum(G({}), {})
  BY SumExists, FS_EmptySet
<1> HIDE DEF G
<1>2. G({})[{}] = 0
  BY <1>1, SumStep
<1> QED BY <1>2, SumIsChosen DEF G

LEMMA SumIsInt ==
    ASSUME NEW S, IsFiniteSet(S), \A e \in S : e.delta \in Int
    PROVE  Sum(S) \in Int
<1> DEFINE B == {s \in SUBSET S : Sum(s) \notin Int}
<1> SUFFICES ASSUME B # {} PROVE FALSE
  OBVIOUS
<1>1. PICK s \in B : \A t \in B : t \subseteq s => t = s
  <2>1. B \subseteq SUBSET S
    OBVIOUS
  <2> HIDE DEF B
  <2> QED BY <2>1, Smallest
<1>2. s # {} /\ IsFiniteSet(s)
  <2>1. Sum(s) \notin Int /\ s \in SUBSET S
    OBVIOUS
  <2>2. IsFiniteSet(s)
    BY <2>1, FS_Subset
  <2>3. s # {}
    BY <2>1, SumEmpty, 0 \in Int
  <2> QED BY <2>2, <2>3
<1>3. Sum(Rest(s)) \in Int /\ Chosen(s).delta \in Int
  BY <1>1, <1>2, RestSmaller
<1>4. Sum(s) = Chosen(s).delta + Sum(Rest(s))
  BY <1>2, SumStepped
<1> QED BY <1>3, <1>4

LEMMA SumWithout ==
    ASSUME NEW S, IsFiniteSet(S), \A e \in S : e.delta \in Int, NEW x \in S
    PROVE  Sum(S) = x.delta + Sum(S \ {x})
<1> DEFINE B == {s \in SUBSET S : \E y \in s : Sum(s) # y.delta + Sum(s \ {y})}
<1> SUFFICES ASSUME B # {} PROVE FALSE
  OBVIOUS
<1>1. PICK s \in B : \A t \in B : t \subseteq s => t = s
  <2>1. B \subseteq SUBSET S
    OBVIOUS
  <2> HIDE DEF B
  <2> QED BY <2>1, Smallest
<1>2. PICK y \in s : Sum(s) # y.delta + Sum(s \ {y})
  OBVIOUS
<1> DEFINE c == Chosen(s)
<1>3. IsFiniteSet(s) /\ c \in s /\ Rest(s) = s \ {c}
  BY FS_Subset, RestSmaller DEF Rest
<1>4. Sum(s) = c.delta + Sum(s \ {c})
  BY <1>3, SumStepped
<1>5. y # c
  BY <1>2, <1>4
<1>6. Sum(s \ {c}) = y.delta + Sum((s \ {c}) \ {y})
  BY <1>1, <1>3, <1>5
<1>7. Sum(s \ {y}) = c.delta + Sum((s \ {y}) \ {c})
  <2>1. s \ {y} \notin B /\ s \ {y} \in SUBSET S /\ c \in s \ {y}
    BY <1>1, <1>3, <1>5
  <2> QED BY <2>1
<1>8. (s \ {y}) \ {c} = (s \ {c}) \ {y}
  OBVIOUS
<1>9. Sum((s \ {c}) \ {y}) \in Int /\ y.delta \in Int /\ c.delta \in Int
  BY <1>3, FS_Subset, SumIsInt
<1>10. Sum(s \ {y}) = c.delta + Sum((s \ {c}) \ {y})
  BY <1>7, <1>8
<1>11. Sum(s) = y.delta + Sum(s \ {y})
  <2> HIDE DEF B, c
  <2> QED BY <1>4, <1>6, <1>9, <1>10
<1> QED BY <1>2, <1>11

LEMMA SumWith ==
    ASSUME NEW S, IsFiniteSet(S), \A e \in S : e.delta \in Int,
           NEW x, x \notin S, x.delta \in Int
    PROVE  Sum(S \cup {x}) = Sum(S) + x.delta
<1>1. IsFiniteSet(S \cup {x}) /\ (S \cup {x}) \ {x} = S
  BY FS_AddElement
<1>2. Sum(S) \in Int
  BY SumIsInt
<1> HIDE DEF Sum
<1> QED BY <1>1, <1>2, SumWithout
AtMostOne(S) == \A x, y \in S : x = y

LEMMA SumWithAtMostOne ==
    ASSUME NEW S, IsFiniteSet(S), \A e \in S : e.delta \in Int,
           NEW P, AtMostOne(P), \A e \in P : e \notin S /\ e.delta \in Int
    PROVE  IsFiniteSet(S \cup P) /\ Sum(S \cup P) = Sum(S) + Delta(P)
<1>1. CASE P = {}
  <2>1. Sum(S) \in Int
    BY SumIsInt
  <2>2. S \cup P = S
    BY <1>1
  <2>3. Delta(P) = 0
    BY <1>1 DEF Delta
  <2> HIDE DEF Sum
  <2> QED BY <2>1, <2>2, <2>3
<1>2. CASE P # {}
  <2>1. PICK x \in P : TRUE
    BY <1>2
  <2>2. P = {x}
    BY <2>1 DEF AtMostOne
  <2>3. Delta(P) = x.delta
    BY <2>2 DEF Delta
  <2>4. x \notin S /\ x.delta \in Int
    BY <2>1
  <2>5. Sum(S \cup {x}) = Sum(S) + x.delta /\ IsFiniteSet(S \cup {x})
    BY <2>4, SumWith, FS_AddElement
  <2> HIDE DEF Sum
  <2> QED BY <2>2, <2>3, <2>5
<1> QED BY <1>1, <1>2

-----------------------------------------------------------------------------
\* What a transaction that commits enters.

\* The unique index on the order or request, the type, the source and the target.
SameSlot(e, f) ==
    e.key = f.key /\ e.type = f.type /\ e.source = f.source /\ e.target = f.target

Unique == \A e, f \in ledger : SameSlot(e, f) => e = f

\* What an entry of its type says.
Proper(e) ==
    /\ e.type \in {"REDEEM_ON_ORDER", "EARN_ON_PURCHASE"} =>
          e.key \in Orders /\ e.account = Owner[e.key] /\ e.source = "ORDER"
    /\ e.type = "EARN_ON_PURCHASE" => e.target = "POINTS" /\ e.delta > 0
    /\ e.type = "REFERRAL_BONUS" /\ e.source = "ORDER" =>
          e.key \in Orders /\ e.target = "POINTS" /\ e.account = Referrer[Owner[e.key]]
    /\ e.type = "REFUND_REVERSE_EARN" => e.source = "FULL_REFUND"
    /\ e.type = "TOPUP_PURCHASED" => e.delta >= 0

\* An amendment is made once, by the one transaction that has its number.
AmendedOnce ==
    /\ \A e \in ledger : e.source \in AmendmentIds =>
          \E p \in Orders : e.source \in amendments[p].ids
    /\ \A c \in Calls : call[c].op = "amend" =>
          \A p \in Orders : call[c].ask.id \notin amendments[p].ids
    /\ \A c, d \in Calls : call[c].op = "amend" /\ call[d].op = "amend"
          /\ call[c].ask.id = call[d].ask.id => c = d

Kept == IsFiniteSet(ledger) /\ Unique /\ (\A e \in ledger : Proper(e)) /\ AmendedOnce

(* own is P, Q (points) and B (balance) of the member, refs the referrer's.  *)
(* All of it is new, and each of the four is at most one entry.             *)
Booked(c, P, Q, B, refs) ==
    /\ \A e \in P \cup Q \cup B \cup refs :
          /\ e \in Entries /\ Proper(e)
          /\ \A f \in ledger : ~SameSlot(e, f)
          /\ \A f \in P \cup Q \cup B \cup refs : SameSlot(e, f) => e = f
    /\ AtMostOne(P) /\ AtMostOne(Q) /\ AtMostOne(B) /\ AtMostOne(refs)
    /\ P \cap Q = {}
    /\ \A e \in P \cup Q \cup B : e.account = call[c].account
    /\ \A e \in P \cup Q \cup refs : e.target = "POINTS"
    /\ \A e \in B : e.target = "BALANCE"
    /\ \A e \in refs : e.account # call[c].account

LEMMA AtMostOneIsFinite ==
    ASSUME NEW P, AtMostOne(P)
    PROVE  IsFiniteSet(P)
<1>1. CASE P = {}
  BY <1>1, FS_EmptySet
<1>2. CASE P # {}
  <2>1. PICK x \in P : P = {x}
    BY <1>2 DEF AtMostOne
  <2> QED BY <2>1, FS_Singleton
<1> QED BY <1>1, <1>2

LEMMA BookedStays ==
    ASSUME Kept, NEW c \in Calls, NEW P, NEW Q, NEW B, NEW refs, Booked(c, P, Q, B, refs),
           ledger' = ledger \cup (P \cup Q \cup B) \cup refs
    PROVE  IsFiniteSet(ledger') /\ Unique' /\ \A e \in ledger' : Proper(e)
<1>1. IsFiniteSet(ledger')
  <2>1. IsFiniteSet(P) /\ IsFiniteSet(Q) /\ IsFiniteSet(B) /\ IsFiniteSet(refs)
    BY AtMostOneIsFinite DEF Booked
  <2>2. IsFiniteSet(P \cup Q \cup B)
    BY <2>1, FS_Union
  <2> QED BY <2>1, <2>2, FS_Union DEF Kept
<1>2. Unique'
  <2> SUFFICES ASSUME NEW e \in ledger', NEW f \in ledger', SameSlot(e, f) PROVE e = f
    BY DEF Unique, SameSlot
  <2>1. SameSlot(f, e)
    BY DEF SameSlot
  <2> HIDE DEF SameSlot
  <2> QED BY <2>1 DEF Booked, Kept, Unique
<1>3. \A e \in ledger' : Proper(e)
  BY DEF Booked, Kept
<1> QED BY <1>1, <1>2, <1>3

Of(a, target) == OfTarget({e \in ledger : e.account = a}, target)

LEMMA OfIs ==
    ASSUME Typed, IsFiniteSet(ledger), NEW a, NEW target
    PROVE  /\ IsFiniteSet(Of(a, target)) /\ \A e \in Of(a, target) : e.delta \in Int
           /\ Sum(Of(a, target)) \in Int
<1>1. Of(a, target) \subseteq ledger
  BY DEF Of, OfTarget
<1>2. IsFiniteSet(Of(a, target))
  BY <1>1, FS_Subset
<1>3. \A e \in Of(a, target) : e.delta \in Int
  BY <1>1 DEF Typed, TypeOK, Entries
<1> QED BY <1>2, <1>3, SumIsInt

\* What is committed is added to the sums as it is to the rows.
LEMMA CommitExplains ==
    ASSUME Typed, Kept, LedgerExplainsRows, NEW c \in Calls,
           NEW P, NEW Q, NEW B, NEW refs, Booked(c, P, Q, B, refs),
           NEW columns, NEW spend, NEW points, NEW balance,
           points = Delta(P) + Delta(Q), balance = Delta(B),
           Commits(c, P \cup Q \cup B, refs, columns, points, balance, spend)
    PROVE  LedgerExplainsRows'
<1>0. PICK a \in Accounts : a = call[c].account /\ account \in [Accounts -> Rows]
  <2>1. call[c].at # "idle"
    BY DEF Commits, HasLocks
  <2> QED BY <2>1 DEF Typed, CallsOK, CallOK, TypeOK
<1>1. ledger' = ledger \cup (P \cup Q \cup B) \cup refs
  BY DEF Commits
<1>2. \A e \in P \cup Q \cup B \cup refs : e \notin ledger /\ e.delta \in Int
  BY DEF Booked, SameSlot, Entries
<1>3. IsFiniteSet(ledger)
  BY DEF Kept
<1>4. /\ Of(a, "POINTS")' = (Of(a, "POINTS") \cup P) \cup Q
      /\ Of(a, "BALANCE")' = Of(a, "BALANCE") \cup B
  BY <1>0, <1>1 DEF Of, OfTarget, Booked
<1>5. \A b \in Accounts : b # a =>
          /\ Of(b, "BALANCE")' = Of(b, "BALANCE")
          /\ (\E e \in refs : e.account = b) => Of(b, "POINTS")' = Of(b, "POINTS") \cup refs
          /\ ~(\E e \in refs : e.account = b) => Of(b, "POINTS")' = Of(b, "POINTS")
  <2> SUFFICES ASSUME NEW b \in Accounts, b # a
               PROVE  /\ Of(b, "BALANCE")' = Of(b, "BALANCE")
                      /\ (\E e \in refs : e.account = b) =>
                            Of(b, "POINTS")' = Of(b, "POINTS") \cup refs
                      /\ ~(\E e \in refs : e.account = b) => Of(b, "POINTS")' = Of(b, "POINTS")
    OBVIOUS
  <2>1. \A e \in P \cup Q \cup B : e.account # b
    BY <1>0 DEF Booked
  <2>2. \A e \in refs : e.target = "POINTS"
    BY DEF Booked
  <2>3. (\E e \in refs : e.account = b) => \A e \in refs : e.account = b
    BY DEF Booked, AtMostOne
  <2> QED BY <1>1, <2>1, <2>2, <2>3 DEF Of, OfTarget
<1>6. Sum(Of(a, "POINTS")') = Sum(Of(a, "POINTS")) + Delta(P) + Delta(Q)
  <2>1. /\ IsFiniteSet(Of(a, "POINTS") \cup P)
        /\ Sum(Of(a, "POINTS") \cup P) = Sum(Of(a, "POINTS")) + Delta(P)
    <3>1. \A e \in P : e \notin Of(a, "POINTS") /\ e.delta \in Int
      BY <1>2 DEF Of, OfTarget
    <3> QED BY <1>3, <3>1, OfIs, SumWithAtMostOne DEF Booked
  <2>2. Sum((Of(a, "POINTS") \cup P) \cup Q) = Sum(Of(a, "POINTS") \cup P) + Delta(Q)
    <3>1. \A e \in Q : e \notin Of(a, "POINTS") \cup P /\ e.delta \in Int
      BY <1>2 DEF Of, OfTarget, Booked
    <3>2. \A e \in Of(a, "POINTS") \cup P : e.delta \in Int
      BY <1>2, <1>3, OfIs
    <3> QED BY <2>1, <3>1, <3>2, SumWithAtMostOne DEF Booked
  <2> HIDE DEF Sum
  <2> QED BY <1>4, <2>1, <2>2
<1>7. Sum(Of(a, "BALANCE")') = Sum(Of(a, "BALANCE")) + Delta(B)
  <2>1. \A e \in B : e \notin Of(a, "BALANCE") /\ e.delta \in Int
    BY <1>2 DEF Of, OfTarget
  <2> QED BY <1>3, <1>4, <2>1, OfIs, SumWithAtMostOne DEF Booked
<1>8. ASSUME NEW b \in Accounts, b # a, \E e \in refs : e.account = b
      PROVE  Sum(Of(b, "POINTS")') = Sum(Of(b, "POINTS")) + Delta(refs)
  <2>1. \A e \in refs : e \notin Of(b, "POINTS") /\ e.delta \in Int
    BY <1>2 DEF Of, OfTarget
  <2> QED BY <1>3, <1>5, <1>8, <2>1, OfIs, SumWithAtMostOne DEF Booked
<1>9. \A b \in Accounts \ lost :
          account[b].points = Sum(Of(b, "POINTS")) /\ account[b].balance = Sum(Of(b, "BALANCE"))
  BY DEF LedgerExplainsRows, Of, Total
<1>10. \A b : Sum(Of(b, "POINTS")) \in Int /\ Sum(Of(b, "BALANCE")) \in Int
  BY <1>3, OfIs
<1>11. Delta(P) \in Int /\ Delta(Q) \in Int /\ Delta(B) \in Int /\ Delta(refs) \in Int
  <2>1. P \subseteq Entries /\ Q \subseteq Entries /\ B \subseteq Entries /\ refs \subseteq Entries
    BY DEF Booked
  <2> QED BY <2>1, DeltaIs
<1>12. ASSUME NEW b \in Accounts, b \notin lost'
       PROVE  /\ account'[b].points = Sum(Of(b, "POINTS")')
              /\ account'[b].balance = Sum(Of(b, "BALANCE")')
  <2>1. b \notin lost
    BY <1>12 DEF Commits
  <2>2. account[b].points = Sum(Of(b, "POINTS")) /\ account[b].balance = Sum(Of(b, "BALANCE"))
    BY <1>9, <2>1
  <2>3. CASE b = a
    <3>1. \A column \in columns : call[c].own[column] = account[a][column]
      BY <1>0, <1>12, <2>3 DEF Commits
    <3>2. /\ account'[a].points = account[a].points + points
          /\ account'[a].balance = account[a].balance + balance
      BY <1>0, <3>1 DEF Commits
    <3>3. Sum(Of(a, "POINTS")) \in Int /\ Sum(Of(a, "BALANCE")) \in Int
      BY <1>10
    <3>4. account'[a].points = Sum(Of(a, "POINTS")')
      <4> HIDE DEF Sum
      <4> QED BY <1>6, <1>11, <2>2, <2>3, <3>2, <3>3
    <3>5. account'[a].balance = Sum(Of(a, "BALANCE")')
      <4> HIDE DEF Sum
      <4> QED BY <1>7, <1>11, <2>2, <2>3, <3>2, <3>3
    <3> QED BY <2>3, <3>4, <3>5
  <2>4. CASE b # a /\ \E e \in refs : e.account = b
    <3>1. call[c].ref = account[b].points
      BY <1>0, <1>12, <2>4 DEF Commits
    <3>2. account'[b] = [account[b] EXCEPT !.points = call[c].ref + Delta(refs)]
      BY <1>0, <2>4 DEF Commits
    <3>3. account[b] \in Rows
      BY <1>0
    <3>4. /\ account'[b].points = account[b].points + Delta(refs)
          /\ account'[b].balance = account[b].balance
      BY <3>1, <3>2, <3>3 DEF Rows
    <3> HIDE DEF Sum
    <3> QED BY <1>5, <1>8, <2>2, <2>4, <3>4
  <2>5. CASE b # a /\ ~\E e \in refs : e.account = b
    <3>1. account'[b] = account[b]
      BY <1>0, <2>5 DEF Commits
    <3> QED BY <1>5, <2>2, <2>5, <3>1
  <2> QED BY <2>3, <2>4, <2>5
<1>13. \A b : /\ Total({e \in ledger' : e.account = b}, "POINTS") = Sum(Of(b, "POINTS")')
              /\ Total({e \in ledger' : e.account = b}, "BALANCE") = Sum(Of(b, "BALANCE")')
  BY DEF Total, Of
<1> HIDE DEF Sum
<1> QED BY <1>12, <1>13 DEF LedgerExplainsRows, Total, OfTarget

LEMMA EntryFields ==
    ASSUME NEW a, NEW key, NEW type, NEW source, NEW target, NEW delta
    PROVE  LET e == Entry(a, key, type, source, target, delta)
           IN  /\ e.account = a /\ e.key = key /\ e.type = type /\ e.source = source
               /\ e.target = target /\ e.delta = delta
BY DEF Entry

LEMMA SettlementIsBooked ==
    ASSUME Typed, Kept, NEW c \in Calls, call[c].op = "settle", call[c].at # "idle"
    PROVE  Booked(c, Earnings(c), {}, {}, ReferralBonus(c))
<1> DEFINE k == call[c]
           amount == AtLeastZero(k.net - PaidByBalance(k.key))
           earning == Entry(k.account, k.key, "EARN_ON_PURCHASE", "ORDER", "POINTS", k.net)
           bonus == Entry(Referrer[k.account], k.key, "REFERRAL_BONUS", "ORDER", "POINTS", amount)
<1>1. k.account \in Accounts /\ k.key \in Orders /\ k.account = Owner[k.key]
  BY DEF Typed, CallsOK, CallOK, OrderOperations
<1>2. Earnings(c) \subseteq Entries /\ ReferralBonus(c) \subseteq Entries
  BY EarningsAre
<1>3. /\ Earnings(c) \subseteq {earning} /\ ReferralBonus(c) \subseteq {bonus}
      /\ Earnings(c) # {} => k.net > 0 /\ Find(k.key, "EARN_ON_PURCHASE", "ORDER") = {}
      /\ ReferralBonus(c) # {} => Find(k.key, "REFERRAL_BONUS", "ORDER") = {}
  BY DEF Earnings, ReferralBonus
<1>4. /\ earning.account = k.account /\ earning.key = k.key /\ earning.type = "EARN_ON_PURCHASE"
      /\ earning.source = "ORDER" /\ earning.target = "POINTS" /\ earning.delta = k.net
      /\ bonus.account = Referrer[k.account] /\ bonus.key = k.key
      /\ bonus.type = "REFERRAL_BONUS"
      /\ bonus.source = "ORDER" /\ bonus.target = "POINTS" /\ bonus.delta = amount
  BY EntryFields
<1>5. Referrer[k.account] # k.account
  BY <1>1, LedgerAssumption
<1> HIDE DEF earning, bonus, amount
<1>6. Earnings(c) # {} => Proper(earning) /\ \A f \in ledger : ~SameSlot(earning, f)
  BY <1>1, <1>3, <1>4 DEF Proper, SameSlot, Find
<1>7. ReferralBonus(c) # {} => Proper(bonus) /\ \A f \in ledger : ~SameSlot(bonus, f)
  BY <1>1, <1>3, <1>4 DEF Proper, SameSlot, Find
<1>8. ~SameSlot(earning, bonus) /\ ~SameSlot(bonus, earning)
  BY <1>4 DEF SameSlot
<1> QED BY <1>2, <1>3, <1>4, <1>5, <1>6, <1>7, <1>8 DEF Booked, AtMostOne

LEMMA CreditsAreBooked ==
    ASSUME Typed, NEW c \in Calls, call[c].op = "topup", call[c].at # "idle",
           ~Used(call[c].key)
    PROVE  /\ Booked(c, OfTarget(Credits(c), "POINTS"), {}, OfTarget(Credits(c), "BALANCE"),
                     TopupBonus(c))
           /\ Credits(c) = OfTarget(Credits(c), "POINTS") \cup {} \cup OfTarget(Credits(c), "BALANCE")
           /\ Delta(OfTarget(Credits(c), "POINTS")) = call[c].ask.bonus
           /\ Delta(OfTarget(Credits(c), "BALANCE")) = call[c].net
           /\ \A e \in OfTarget(Credits(c), "BALANCE") : e.type = "TOPUP_PURCHASED"
           /\ \A e \in OfTarget(Credits(c), "POINTS") \cup TopupBonus(c) :
                 e.type \in {"ADJUSTMENT_MANUAL", "REFERRAL_BONUS"}
<1> DEFINE k == call[c]
           bought == Entry(k.account, k.key, "TOPUP_PURCHASED", "TOPUP", "BALANCE", k.net)
           extra == Entry(k.account, k.key, "ADJUSTMENT_MANUAL", "TOPUP", "POINTS", k.ask.bonus)
           bonus == Entry(Referrer[k.account], k.key, "REFERRAL_BONUS", "TOPUP", "POINTS", k.net)
<1>1. k.account \in Accounts /\ k.key \in Requests /\ k.net \in Nat /\ k.ask.bonus \in Nat
  BY DEF Typed, CallsOK, CallOK
<1>2. Credits(c) \subseteq Entries /\ TopupBonus(c) \subseteq Entries
  BY CreditsAre
<1>3. Credits(c) = {bought} \cup (IF k.ask.bonus > 0 THEN {extra} ELSE {})
      /\ TopupBonus(c) \subseteq {bonus}
  BY DEF Credits, TopupBonus
<1>4. /\ bought.account = k.account /\ bought.key = k.key /\ bought.type = "TOPUP_PURCHASED"
      /\ bought.source = "TOPUP" /\ bought.target = "BALANCE" /\ bought.delta = k.net
      /\ extra.account = k.account /\ extra.key = k.key /\ extra.type = "ADJUSTMENT_MANUAL"
      /\ extra.source = "TOPUP" /\ extra.target = "POINTS" /\ extra.delta = k.ask.bonus
      /\ bonus.account = Referrer[k.account] /\ bonus.key = k.key
      /\ bonus.type = "REFERRAL_BONUS" /\ bonus.source = "TOPUP" /\ bonus.target = "POINTS"
  BY EntryFields
<1>5. Referrer[k.account] # k.account
  BY <1>1, LedgerAssumption
<1> HIDE DEF bought, extra, bonus
<1>6. Proper(bought) /\ Proper(extra) /\ Proper(bonus)
  BY <1>1, <1>4 DEF Proper
<1>7. \A f \in ledger : ~SameSlot(bought, f) /\ ~SameSlot(extra, f) /\ ~SameSlot(bonus, f)
  BY <1>4 DEF Used, SameSlot
<1>8. /\ ~SameSlot(bought, extra) /\ ~SameSlot(extra, bought) /\ ~SameSlot(bought, bonus)
      /\ ~SameSlot(bonus, bought) /\ ~SameSlot(extra, bonus) /\ ~SameSlot(bonus, extra)
  BY <1>4 DEF SameSlot
<1>9. /\ OfTarget(Credits(c), "BALANCE") = {bought}
      /\ OfTarget(Credits(c), "POINTS") = IF k.ask.bonus > 0 THEN {extra} ELSE {}
  BY <1>3, <1>4 DEF OfTarget
<1>10. Delta(OfTarget(Credits(c), "BALANCE")) = k.net
  BY <1>4, <1>9 DEF Delta
<1>11. Delta(OfTarget(Credits(c), "POINTS")) = k.ask.bonus
  BY <1>1, <1>4, <1>9 DEF Delta
<1>12. Booked(c, OfTarget(Credits(c), "POINTS"), {}, OfTarget(Credits(c), "BALANCE"), TopupBonus(c))
  <2>1. OfTarget(Credits(c), "POINTS") \subseteq {extra}
    BY <1>9
  <2>2. OfTarget(Credits(c), "POINTS") \subseteq Entries /\ OfTarget(Credits(c), "BALANCE") \subseteq Entries
    BY <1>2 DEF OfTarget
  <2> QED BY <1>2, <1>3, <1>4, <1>5, <1>6, <1>7, <1>8, <1>9, <2>1, <2>2 DEF Booked, AtMostOne
<1> QED BY <1>3, <1>4, <1>9, <1>10, <1>11, <1>12

LEMMA AdjustmentIsBooked ==
    ASSUME Typed, NEW c \in Calls, call[c].op = "manual", call[c].at # "idle",
           ~Used(call[c].key), NEW e,
           e = Entry(call[c].account, call[c].key, "ADJUSTMENT_MANUAL", "MANUAL", "POINTS", call[c].net)
    PROVE  Booked(c, {e}, {}, {}, {}) /\ Delta({e}) = call[c].net /\ e.type = "ADJUSTMENT_MANUAL"
<1>1. call[c].account \in Accounts /\ call[c].key \in Requests /\ call[c].net \in Int
  BY DEF Typed, CallsOK, CallOK, TypeOK, CallRecords
<1>2. /\ e.account = call[c].account /\ e.key = call[c].key /\ e.type = "ADJUSTMENT_MANUAL"
      /\ e.source = "MANUAL" /\ e.target = "POINTS" /\ e.delta = call[c].net
  BY EntryFields
<1>3. e \in Entries
  BY <1>1, EntryIs DEF Types, Sources
<1>4. Proper(e) /\ \A f \in ledger : ~SameSlot(e, f)
  BY <1>2 DEF Proper, Used, SameSlot
<1> QED BY <1>2, <1>3, <1>4 DEF Booked, AtMostOne, Delta

LEMMA PaymentIsBooked ==
    ASSUME Typed, Placed, NEW c \in Calls, Creates(c), call[c].at # "idle"
    PROVE  /\ Booked(c, OfTarget(Payments(c), "POINTS"), {}, OfTarget(Payments(c), "BALANCE"), {})
           /\ Payments(c) = OfTarget(Payments(c), "POINTS") \cup {} \cup OfTarget(Payments(c), "BALANCE")
           /\ Delta(OfTarget(Payments(c), "POINTS")) = -Redeemed(c)
           /\ Delta(OfTarget(Payments(c), "BALANCE")) = -call[c].ask.balance
           /\ \A e \in Payments(c) : e.type = "REDEEM_ON_ORDER"
<1> DEFINE k == call[c]
           points == Entry(k.account, k.key, "REDEEM_ON_ORDER", "ORDER", "POINTS", -Redeemed(c))
           balance == Entry(k.account, k.key, "REDEEM_ON_ORDER", "ORDER", "BALANCE", -k.ask.balance)
<1>1. k.account \in Accounts /\ k.key \in Orders /\ k.account = Owner[k.key] /\ k.op = "create"
      /\ k.ask \in WishAsks
  BY DEF Typed, CallsOK, CallOK, OrderOperations, Creates
<1>2. Payments(c) \subseteq Entries /\ Redeemed(c) \in Nat /\ k.ask.balance \in Nat
  BY <1>1, PaymentsAre DEF WishAsks
<1>3. Payments(c) = (IF Redeemed(c) = 0 THEN {} ELSE {points})
                      \cup (IF k.ask.balance = 0 THEN {} ELSE {balance})
  BY DEF Payments
<1>4. /\ points.account = k.account /\ points.key = k.key /\ points.type = "REDEEM_ON_ORDER"
      /\ points.source = "ORDER" /\ points.target = "POINTS" /\ points.delta = -Redeemed(c)
      /\ balance.account = k.account /\ balance.key = k.key /\ balance.type = "REDEEM_ON_ORDER"
      /\ balance.source = "ORDER" /\ balance.target = "BALANCE"
      /\ balance.delta = -k.ask.balance
  BY EntryFields
<1> HIDE DEF points, balance
<1>5. Proper(points) /\ Proper(balance)
  BY <1>1, <1>4 DEF Proper
<1>6. \A f \in ledger : ~SameSlot(points, f) /\ ~SameSlot(balance, f)
  <2>1. \A f \in ledger : f.key # k.key
    BY CreatedExists DEF Placed
  <2> QED BY <1>4, <2>1 DEF SameSlot
<1>7. ~SameSlot(points, balance) /\ ~SameSlot(balance, points)
  BY <1>4 DEF SameSlot
<1>8. /\ OfTarget(Payments(c), "POINTS") = IF Redeemed(c) = 0 THEN {} ELSE {points}
      /\ OfTarget(Payments(c), "BALANCE") = IF k.ask.balance = 0 THEN {} ELSE {balance}
  BY <1>3, <1>4 DEF OfTarget
<1>9. Delta(OfTarget(Payments(c), "POINTS")) = -Redeemed(c)
  BY <1>2, <1>4, <1>8 DEF Delta
<1>10. Delta(OfTarget(Payments(c), "BALANCE")) = -k.ask.balance
  BY <1>2, <1>4, <1>8 DEF Delta
<1>11. Booked(c, OfTarget(Payments(c), "POINTS"), {}, OfTarget(Payments(c), "BALANCE"), {})
  <2>1. OfTarget(Payments(c), "POINTS") \subseteq {points} /\ OfTarget(Payments(c), "BALANCE") \subseteq {balance}
    BY <1>8
  <2>2. OfTarget(Payments(c), "POINTS") \subseteq Entries /\ OfTarget(Payments(c), "BALANCE") \subseteq Entries
    BY <1>2 DEF OfTarget
  <2> QED BY <1>4, <1>5, <1>6, <1>7, <2>1, <2>2 DEF Booked, AtMostOne
<1> QED BY <1>3, <1>4, <1>8, <1>9, <1>10, <1>11

LEMMA UndoneIsNew ==
    ASSUME Typed, Kept, NEW o, NEW type, NEW undo \in Types, NEW n \in Undone(o, type, undo)
    PROVE  /\ n \in Entries /\ n.key = o /\ n.type = undo /\ n.source = "FULL_REFUND"
           /\ \A f \in ledger : ~SameSlot(n, f)
           /\ \A m \in Undone(o, type, undo) : n.target = m.target => n = m
           /\ \E e \in Find(o, type, "ORDER") : n.account = e.account /\ n.target = e.target
                                               /\ n.delta = -e.delta
<1> DEFINE un(e) == [e EXCEPT !.type = undo, !.source = "FULL_REFUND", !.delta = -e.delta]
<1>1. ASSUME NEW m \in Undone(o, type, undo)
      PROVE  \E e \in Find(o, type, "ORDER") :
                 /\ m = un(e) /\ m.target = e.target /\ m.key = o /\ m.account = e.account
                 /\ m.type = undo /\ m.source = "FULL_REFUND" /\ m.delta = -e.delta
                 /\ \A u \in Find(o, undo, "FULL_REFUND") : u.target # e.target
  <2>1. PICK e \in Find(o, type, "ORDER") :
            m = un(e) /\ \A u \in Find(o, undo, "FULL_REFUND") : u.target # e.target
    BY <1>1 DEF Undone
  <2>2. e \in Entries /\ e.key = o
    BY DEF Find, Typed, TypeOK
  <2>3. un(e).target = e.target /\ un(e).key = e.key /\ un(e).type = undo
        /\ un(e).source = "FULL_REFUND" /\ un(e).account = e.account /\ un(e).delta = -e.delta
    BY <2>2 DEF Entries
  <2> HIDE DEF un
  <2> QED BY <2>1, <2>2, <2>3
<1>2. PICK e \in Find(o, type, "ORDER") :
                 /\ n = un(e) /\ n.target = e.target /\ n.key = o /\ n.account = e.account
                 /\ n.type = undo /\ n.source = "FULL_REFUND" /\ n.delta = -e.delta
                 /\ \A u \in Find(o, undo, "FULL_REFUND") : u.target # e.target
  BY <1>1
<1> HIDE DEF un
<1>3. \A f \in ledger : ~SameSlot(n, f)
  BY <1>2 DEF SameSlot, Find
<1>4. ASSUME NEW m \in Undone(o, type, undo), n.target = m.target PROVE n = m
  <2>1. PICK d \in Find(o, type, "ORDER") : m = un(d) /\ m.target = d.target
    BY <1>1
  <2>2. SameSlot(e, d) /\ e \in ledger /\ d \in ledger
    BY <1>2, <1>4, <2>1 DEF SameSlot, Find
  <2>3. e = d
    BY <2>2 DEF Kept, Unique
  <2> QED BY <1>2, <2>1, <2>3
<1>5. n \in Entries
  BY UndoneIs DEF Typed
<1> QED BY <1>2, <1>3, <1>4, <1>5

LEMMA RefundIsBooked ==
    ASSUME Typed, Kept, NEW c \in Calls, call[c].op \in {"rollback", "refund"},
           call[c].at # "idle"
    PROVE  /\ Booked(c, TakenBack(c), OfTarget(Returned(c), "POINTS"),
                     OfTarget(Returned(c), "BALANCE"), BonusTakenBack(c))
           /\ TakenBack(c) \cup Returned(c) =
                 TakenBack(c) \cup OfTarget(Returned(c), "POINTS") \cup OfTarget(Returned(c), "BALANCE")
           /\ \A e \in TakenBack(c) : e.type = "REFUND_REVERSE_EARN"
           /\ \A e \in Returned(c) \cup BonusTakenBack(c) :
                 e.type \in {"REFUND_RETURN_REDEEM", "REFUND_REVERSE_REFERRAL"}
<1> DEFINE o == call[c].key
           a == call[c].account
<1>1. o \in Orders /\ a = Owner[o] /\ a \in Accounts
  BY DEF Typed, CallsOK, CallOK, OrderOperations
<1>2. {"REFUND_REVERSE_EARN", "REFUND_RETURN_REDEEM", "REFUND_REVERSE_REFERRAL"} \subseteq Types
  BY DEF Types
<1>3. \A e \in ledger : Proper(e)
  BY DEF Kept
<1>4. ASSUME NEW n \in TakenBack(c)
      PROVE  /\ n \in Entries /\ n.key = o /\ n.type = "REFUND_REVERSE_EARN"
             /\ n.source = "FULL_REFUND" /\ n.account = a /\ n.target = "POINTS"
             /\ \A f \in ledger : ~SameSlot(n, f)
             /\ \A m \in TakenBack(c) : n.target = m.target => n = m
             /\ Proper(n)
  <2>1. PICK e \in Find(o, "EARN_ON_PURCHASE", "ORDER") :
            n.account = e.account /\ n.target = e.target /\ n.delta = -e.delta
    BY <1>2, UndoneIsNew DEF TakenBack
  <2>2. e.account = a /\ e.target = "POINTS"
    BY <1>1, <1>3, <2>1 DEF Find, Proper
  <2>3. /\ n \in Entries /\ n.key = o /\ n.type = "REFUND_REVERSE_EARN"
        /\ n.source = "FULL_REFUND" /\ \A f \in ledger : ~SameSlot(n, f)
        /\ \A m \in TakenBack(c) : n.target = m.target => n = m
    BY <1>2, UndoneIsNew DEF TakenBack
  <2>4. Proper(n)
    BY <2>3 DEF Proper
  <2> QED BY <2>1, <2>2, <2>3, <2>4
<1>5. ASSUME NEW n \in Returned(c)
      PROVE  /\ n \in Entries /\ n.key = o /\ n.type = "REFUND_RETURN_REDEEM"
             /\ n.source = "FULL_REFUND" /\ n.account = a /\ n.target \in {"POINTS", "BALANCE"}
             /\ \A f \in ledger : ~SameSlot(n, f)
             /\ \A m \in Returned(c) : n.target = m.target => n = m
             /\ Proper(n)
  <2>1. PICK e \in Find(o, "REDEEM_ON_ORDER", "ORDER") :
            n.account = e.account /\ n.target = e.target /\ n.delta = -e.delta
    BY <1>2, UndoneIsNew DEF Returned
  <2>2. e.account = a
    BY <1>1, <1>3, <2>1 DEF Find, Proper
  <2>3. /\ n \in Entries /\ n.key = o /\ n.type = "REFUND_RETURN_REDEEM"
        /\ n.source = "FULL_REFUND" /\ \A f \in ledger : ~SameSlot(n, f)
        /\ \A m \in Returned(c) : n.target = m.target => n = m
    BY <1>2, UndoneIsNew DEF Returned
  <2>4. Proper(n) /\ n.target \in {"POINTS", "BALANCE"}
    BY <2>3 DEF Proper, Entries
  <2> QED BY <2>1, <2>2, <2>3, <2>4
<1>6. ASSUME NEW n \in BonusTakenBack(c)
      PROVE  /\ n \in Entries /\ n.key = o /\ n.type = "REFUND_REVERSE_REFERRAL"
             /\ n.source = "FULL_REFUND" /\ n.account # a /\ n.target = "POINTS"
             /\ \A f \in ledger : ~SameSlot(n, f)
             /\ \A m \in BonusTakenBack(c) : n.target = m.target => n = m
             /\ Proper(n)
  <2>1. PICK e \in Find(o, "REFERRAL_BONUS", "ORDER") :
            n.account = e.account /\ n.target = e.target /\ n.delta = -e.delta
    BY <1>2, UndoneIsNew DEF BonusTakenBack
  <2>2. e.account = Referrer[a] /\ e.target = "POINTS"
    BY <1>1, <1>3, <2>1 DEF Find, Proper
  <2>3. /\ n \in Entries /\ n.key = o /\ n.type = "REFUND_REVERSE_REFERRAL"
        /\ n.source = "FULL_REFUND" /\ \A f \in ledger : ~SameSlot(n, f)
        /\ \A m \in BonusTakenBack(c) : n.target = m.target => n = m
    BY <1>2, UndoneIsNew DEF BonusTakenBack
  <2>4. Proper(n)
    BY <2>3 DEF Proper
  <2>5. Referrer[a] # a
    BY <1>1, LedgerAssumption
  <2> QED BY <2>1, <2>2, <2>3, <2>4, <2>5
<1>7. /\ OfTarget(Returned(c), "POINTS") \subseteq Returned(c)
      /\ OfTarget(Returned(c), "BALANCE") \subseteq Returned(c)
      /\ \A e \in OfTarget(Returned(c), "POINTS") : e.target = "POINTS"
      /\ \A e \in OfTarget(Returned(c), "BALANCE") : e.target = "BALANCE"
  BY DEF OfTarget
<1>8. Returned(c) = OfTarget(Returned(c), "POINTS") \cup OfTarget(Returned(c), "BALANCE")
  BY <1>5 DEF OfTarget
<1>9. \A e, f \in TakenBack(c) \cup Returned(c) \cup BonusTakenBack(c) : SameSlot(e, f) => e = f
  BY <1>4, <1>5, <1>6 DEF SameSlot
<1>10. Booked(c, TakenBack(c), OfTarget(Returned(c), "POINTS"),
                     OfTarget(Returned(c), "BALANCE"), BonusTakenBack(c))
  <2> DEFINE N == TakenBack(c) \cup OfTarget(Returned(c), "POINTS") \cup
                    OfTarget(Returned(c), "BALANCE") \cup BonusTakenBack(c)
  <2>1. \A e \in N : e \in Entries /\ Proper(e) /\ \A f \in ledger : ~SameSlot(e, f)
    BY <1>4, <1>5, <1>6, <1>7
  <2>2. \A e, f \in N : SameSlot(e, f) => e = f
    BY <1>7, <1>9
  <2>3. /\ AtMostOne(TakenBack(c)) /\ AtMostOne(BonusTakenBack(c))
        /\ AtMostOne(OfTarget(Returned(c), "POINTS"))
        /\ AtMostOne(OfTarget(Returned(c), "BALANCE"))
    BY <1>4, <1>5, <1>6, <1>7 DEF AtMostOne
  <2>4. TakenBack(c) \cap OfTarget(Returned(c), "POINTS") = {}
    BY <1>4, <1>5, <1>7
  <2>5. /\ \A e \in TakenBack(c) \cup OfTarget(Returned(c), "POINTS") \cup
                    OfTarget(Returned(c), "BALANCE") : e.account = a
        /\ \A e \in TakenBack(c) \cup OfTarget(Returned(c), "POINTS") \cup BonusTakenBack(c) :
              e.target = "POINTS"
        /\ \A e \in OfTarget(Returned(c), "BALANCE") : e.target = "BALANCE"
        /\ \A e \in BonusTakenBack(c) : e.account # a
    BY <1>4, <1>5, <1>6, <1>7
  <2> QED BY <2>1, <2>2, <2>3, <2>4, <2>5 DEF Booked
<1> QED BY <1>4, <1>5, <1>6, <1>8, <1>10

LEMMA RescaledIsNew ==
    ASSUME Typed, Kept, NEW c \in Calls, call[c].op = "amend", call[c].at # "idle",
           NEW type, NEW adjustment, NEW n \in Rescaled(c, type, adjustment)
    PROVE  /\ n.key = call[c].key /\ n.type = adjustment /\ n.source = call[c].ask.id
           /\ \A m \in Rescaled(c, type, adjustment) : n.target = m.target => n = m
           /\ \E e \in Find(call[c].key, type, "ORDER") :
                 n.account = e.account /\ n.target = e.target
<1> DEFINE ask == call[c].ask
           new(e) == [e EXCEPT !.type = adjustment, !.source = ask.id,
                               !.delta = Scaled(e.delta, ask.new, ask.base) - e.delta]
<1>1. ASSUME NEW m \in Rescaled(c, type, adjustment)
      PROVE  \E e \in Find(call[c].key, type, "ORDER") :
                 /\ m = new(e) /\ m.target = e.target /\ m.key = call[c].key
                 /\ m.account = e.account /\ m.type = adjustment /\ m.source = ask.id
  <2>1. PICK e \in Find(call[c].key, type, "ORDER") : m = new(e)
    BY <1>1 DEF Rescaled
  <2>2. e \in Entries /\ e.key = call[c].key
    BY DEF Find, Typed, TypeOK
  <2>3. new(e).target = e.target /\ new(e).key = e.key /\ new(e).type = adjustment
        /\ new(e).source = ask.id /\ new(e).account = e.account
    BY <2>2 DEF Entries
  <2> HIDE DEF new
  <2> QED BY <2>1, <2>2, <2>3
<1>2. PICK e \in Find(call[c].key, type, "ORDER") :
                 /\ n = new(e) /\ n.target = e.target /\ n.key = call[c].key
                 /\ n.account = e.account /\ n.type = adjustment /\ n.source = ask.id
  BY <1>1
<1> HIDE DEF new
<1>3. ASSUME NEW m \in Rescaled(c, type, adjustment), n.target = m.target PROVE n = m
  <2>1. PICK d \in Find(call[c].key, type, "ORDER") : m = new(d) /\ m.target = d.target
    BY <1>1
  <2>2. SameSlot(e, d) /\ e \in ledger /\ d \in ledger
    BY <1>2, <1>3, <2>1 DEF SameSlot, Find
  <2>3. e = d
    BY <2>2 DEF Kept, Unique
  <2> QED BY <1>2, <2>1, <2>3
<1> QED BY <1>2, <1>3

LEMMA AmendmentIsBooked ==
    ASSUME Typed, Kept, NEW c \in Calls, call[c].op = "amend", call[c].at # "idle"
    PROVE  /\ Booked(c, PointsReturned(c), EarningAdjusted(c), {}, BonusAdjustment(c))
           /\ Delta(PointsReturned(c)) = call[c].ask.back
<1> DEFINE k == call[c]
           o == call[c].key
           a == call[c].account
           back == Entry(a, o, "AMEND_RETURN_REDEEM", k.ask.id, "POINTS", k.ask.back)
           none == Entry(a, o, "AMEND_EARN_ADJUST", k.ask.id, "POINTS", 0)
<1>1. o \in Orders /\ a = Owner[o] /\ a \in Accounts /\ k.ask \in AmendAsks
  BY DEF Typed, CallsOK, CallOK, OrderOperations
<1>2. k.ask.id \in AmendmentIds /\ k.ask.back \in Nat
  BY <1>1 DEF AmendAsks
<1>3. PointsReturned(c) \subseteq Entries /\ EarningAdjusted(c) \subseteq Entries
      /\ BonusAdjustment(c) \subseteq Entries
  BY AdjustmentsAre
<1>4. \A f \in ledger : f.source # k.ask.id
  BY <1>2 DEF Kept, AmendedOnce
<1>5. k.ask.id \notin {"ORDER", "FULL_REFUND", "TOPUP", "MANUAL"}
  BY <1>2, LedgerAssumption
<1>6. /\ back.account = a /\ back.key = o /\ back.type = "AMEND_RETURN_REDEEM"
      /\ back.source = k.ask.id /\ back.target = "POINTS" /\ back.delta = k.ask.back
      /\ none.account = a /\ none.key = o /\ none.type = "AMEND_EARN_ADJUST"
      /\ none.source = k.ask.id /\ none.target = "POINTS"
  BY EntryFields
<1>7. PointsReturned(c) = IF k.ask.back = 0 THEN {} ELSE {back}
  BY DEF PointsReturned
<1>8. EarningAdjusted(c) = Rescaled(c, "EARN_ON_PURCHASE", "AMEND_EARN_ADJUST")
      \/ EarningAdjusted(c) = {none}
  BY DEF EarningAdjusted
<1> HIDE DEF back, none
<1>9. \A e \in ledger : Proper(e)
  BY DEF Kept
<1>10. ASSUME NEW n \in EarningAdjusted(c)
       PROVE  /\ n.key = o /\ n.type = "AMEND_EARN_ADJUST" /\ n.source = k.ask.id
              /\ n.account = a /\ n.target = "POINTS" /\ \A m \in EarningAdjusted(c) : n = m
  <2>1. ASSUME NEW m \in Rescaled(c, "EARN_ON_PURCHASE", "AMEND_EARN_ADJUST")
        PROVE  m.target = "POINTS" /\ m.account = a
    <3>1. PICK e \in Find(o, "EARN_ON_PURCHASE", "ORDER") : m.account = e.account /\ m.target = e.target
      BY <2>1, RescaledIsNew
    <3> QED BY <1>1, <1>9, <3>1 DEF Find, Proper
  <2>2. CASE EarningAdjusted(c) = Rescaled(c, "EARN_ON_PURCHASE", "AMEND_EARN_ADJUST")
    BY <2>1, <2>2, RescaledIsNew
  <2>3. CASE EarningAdjusted(c) = {none}
    BY <1>6, <2>3
  <2> QED BY <1>8, <2>2, <2>3
<1>11. ASSUME NEW n \in BonusAdjustment(c)
       PROVE  /\ n.key = o /\ n.type = "AMEND_REFERRAL_ADJUST" /\ n.source = k.ask.id
              /\ n.account # a /\ n.target = "POINTS" /\ \A m \in BonusAdjustment(c) : n = m
  <2>1. BonusAdjustment(c) \subseteq Rescaled(c, "REFERRAL_BONUS", "AMEND_REFERRAL_ADJUST")
    BY DEF BonusAdjustment
  <2>2. Referrer[a] # a
    BY <1>1, LedgerAssumption
  <2>3. ASSUME NEW m \in BonusAdjustment(c) PROVE m.target = "POINTS" /\ m.account = Referrer[a]
    <3>1. PICK e \in Find(o, "REFERRAL_BONUS", "ORDER") : m.account = e.account /\ m.target = e.target
      BY <2>1, RescaledIsNew
    <3> QED BY <1>1, <1>9, <3>1 DEF Find, Proper
  <2> QED BY <2>1, <2>2, <2>3, RescaledIsNew
<1>12. ASSUME NEW n \in PointsReturned(c)
       PROVE  /\ n.key = o /\ n.type = "AMEND_RETURN_REDEEM" /\ n.source = k.ask.id
              /\ n.account = a /\ n.target = "POINTS" /\ \A m \in PointsReturned(c) : n = m
  BY <1>6, <1>7
<1>13. Delta(PointsReturned(c)) = k.ask.back
  BY <1>6, <1>7 DEF Delta
<1>14. Booked(c, PointsReturned(c), EarningAdjusted(c), {}, BonusAdjustment(c))
  <2>1. \A e \in PointsReturned(c) \cup EarningAdjusted(c) \cup {} \cup BonusAdjustment(c) :
            /\ e \in Entries /\ Proper(e) /\ \A f \in ledger : ~SameSlot(e, f)
            /\ \A f \in PointsReturned(c) \cup EarningAdjusted(c) \cup {} \cup BonusAdjustment(c) :
                  SameSlot(e, f) => e = f
    BY <1>3, <1>4, <1>10, <1>11, <1>12 DEF Proper, SameSlot
  <2>2. /\ AtMostOne(PointsReturned(c)) /\ AtMostOne(EarningAdjusted(c))
        /\ AtMostOne({}) /\ AtMostOne(BonusAdjustment(c))
    BY <1>10, <1>11, <1>12 DEF AtMostOne
  <2>3. PointsReturned(c) \cap EarningAdjusted(c) = {}
    BY <1>10, <1>12
  <2> QED BY <1>10, <1>11, <1>12, <2>1, <2>2, <2>3 DEF Booked
<1> QED BY <1>13, <1>14

-----------------------------------------------------------------------------
\* The steps that write rows and ledger, and what they enter.

CommitsSettlement(c) ==
    /\ call[c].op = "settle"
    /\ Commits(c, Earnings(c), ReferralBonus(c), {"points", "spend"},
               Delta(Earnings(c)), 0, call[c].own.spend + call[c].net)
    /\ Ends(c) /\ UNCHANGED <<order, amendments, owed, noticed>>

CommitsTopup(c) ==
    /\ call[c].op = "topup" /\ ~Used(call[c].key)
    /\ Commits(c, Credits(c), TopupBonus(c), {"points", "balance", "spend"},
               call[c].ask.bonus, call[c].net, call[c].own.spend + call[c].net)
    /\ Ends(c) /\ UNCHANGED <<order, amendments, owed, noticed>>

CommitsAdjustment(c) ==
    /\ AdjustsManually(c) /\ UNCHANGED <<order, amendments, owed, noticed>>

CommitsRefund(c) == Rollback(c) /\ RollsBack(c)

CommitsAmendment(c) ==
    /\ Amends(c) /\ AppliesAmendment(c)
    /\ amendments' = Recorded(call[c].key, call[c].ask.id, call[c].ask.cash, call[c].ask.back)

WritesNothing == UNCHANGED <<account, ledger, lost>>

LEMMA StepCommits ==
    ASSUME [Next]_vars
    PROVE  \/ WritesNothing
           \/ \E c \in Calls : \/ CommitsSettlement(c) \/ CommitsTopup(c)
                               \/ CommitsAdjustment(c) \/ CommitsRefund(c)
                               \/ CommitsAmendment(c) \/ Creates(c)
<1>1. ASSUME NEW c \in Calls, LoyaltyCall(c)
      PROVE  WritesNothing \/ CommitsSettlement(c) \/ CommitsTopup(c) \/ CommitsAdjustment(c)
  BY <1>1 DEF LoyaltyCall, Settles, TopsUp, LocksOwn, DuplicateFails, Abort, RequestStarts,
              WritesNothing, CommitsSettlement, CommitsTopup, CommitsAdjustment
<1>2. ASSUME NEW c \in Calls, Rollback(c) PROVE WritesNothing \/ CommitsRefund(c)
  BY <1>2 DEF Rollback, RollbackLocks, LocksOwn, WritesNothing, CommitsRefund
<1>3. ASSUME NEW c \in Calls, Amends(c) PROVE WritesNothing \/ CommitsAmendment(c)
  BY <1>3 DEF Amends, AmendmentLocks, LocksOwn, WritesNothing, CommitsAmendment
<1>4. ASSUME NEW c \in Calls, OrderCall(c), ~Creates(c), ~Rollback(c), ~Amends(c)
      PROVE  WritesNothing
  BY <1>4 DEF OrderCall, CreateFails, HandleOrderPaid, HandleRefunded, FullRefundRecords,
              CreateStarts, FullRefundStarts, AmendStarts, AmendReads, WritesNothing
<1> QED
  BY <1>1, <1>2, <1>3, <1>4
     DEF Next, Announce, RecordOrderPaidEvent, FullRefundIsNoted, UpdateStatus,
         DispatchReads, DispatchAsks, DispatchRecords, Crash, vars, ledgerVars, WritesNothing

\* What one of these steps leaves behind, for the sums and for the ledger.
Explained == IsFiniteSet(ledger') /\ Unique' /\ (\A e \in ledger' : Proper(e)) /\ LedgerExplainsRows'

LEMMA CommitKeeps ==
    ASSUME Typed, Kept, LedgerExplainsRows, NEW c \in Calls,
           NEW P, NEW Q, NEW B, NEW refs, Booked(c, P, Q, B, refs),
           NEW columns, NEW spend, NEW points, NEW balance,
           points = Delta(P) + Delta(Q), balance = Delta(B),
           NEW own, own = P \cup Q \cup B,
           Commits(c, own, refs, columns, points, balance, spend)
    PROVE  Explained
<1>1. ledger' = ledger \cup (P \cup Q \cup B) \cup refs
  BY DEF Commits
<1>2. LedgerExplainsRows'
  BY CommitExplains
<1> QED BY <1>1, <1>2, BookedStays DEF Explained

LEMMA NothingIsNothing == Delta({}) = 0
BY DEF Delta

LEMMA LoyaltyKeeps ==
    ASSUME Typed, Kept, LedgerExplainsRows, NEW c \in Calls,
           CommitsSettlement(c) \/ CommitsTopup(c) \/ CommitsAdjustment(c)
    PROVE  Explained
<1>1. CASE CommitsSettlement(c)
  <2>1. call[c].op = "settle" /\ call[c].at # "idle"
    BY <1>1, HasLocksIs DEF CommitsSettlement, Commits
  <2>2. Booked(c, Earnings(c), {}, {}, ReferralBonus(c))
    BY <2>1, SettlementIsBooked
  <2>3. Delta(Earnings(c)) \in Int
    BY <2>1, EarningsAre, DeltaIs
  <2>4. /\ Delta(Earnings(c)) = Delta(Earnings(c)) + Delta({}) /\ 0 = Delta({})
        /\ Earnings(c) = Earnings(c) \cup {} \cup {}
    <3> HIDE DEF Earnings
    <3> QED BY <2>3, NothingIsNothing
  <2>5. Commits(c, Earnings(c), ReferralBonus(c), {"points", "spend"},
               Delta(Earnings(c)), 0, call[c].own.spend + call[c].net)
    BY <1>1 DEF CommitsSettlement
  <2> QED BY <2>2, <2>4, <2>5, CommitKeeps
<1>2. CASE CommitsTopup(c)
  <2>1. call[c].op = "topup" /\ call[c].at # "idle" /\ ~Used(call[c].key)
    BY <1>2, HasLocksIs DEF CommitsTopup, Commits
  <2>2. /\ Booked(c, OfTarget(Credits(c), "POINTS"), {}, OfTarget(Credits(c), "BALANCE"), TopupBonus(c))
        /\ Credits(c) = OfTarget(Credits(c), "POINTS") \cup {} \cup OfTarget(Credits(c), "BALANCE")
        /\ Delta(OfTarget(Credits(c), "POINTS")) = call[c].ask.bonus
        /\ Delta(OfTarget(Credits(c), "BALANCE")) = call[c].net
    BY <2>1, CreditsAreBooked
  <2>3. call[c].ask.bonus \in Nat
    BY <2>1 DEF Typed, CallsOK, CallOK
  <2>4. call[c].ask.bonus = Delta(OfTarget(Credits(c), "POINTS")) + Delta({})
    <3> HIDE DEF OfTarget, Credits
    <3> QED BY <2>2, <2>3, NothingIsNothing
  <2>5. Commits(c, Credits(c), TopupBonus(c), {"points", "balance", "spend"},
               call[c].ask.bonus, call[c].net, call[c].own.spend + call[c].net)
    BY <1>2 DEF CommitsTopup
  <2> QED BY <2>2, <2>4, <2>5, CommitKeeps
<1>3. CASE CommitsAdjustment(c)
  <2>1. call[c].op = "manual" /\ call[c].at # "idle" /\ ~Used(call[c].key)
    BY <1>3, HasLocksIs DEF CommitsAdjustment, AdjustsManually, Commits
  <2>2. PICK e : e = Entry(call[c].account, call[c].key, "ADJUSTMENT_MANUAL", "MANUAL",
                           "POINTS", call[c].net)
    OBVIOUS
  <2>3. Booked(c, {e}, {}, {}, {}) /\ Delta({e}) = call[c].net
    BY <2>1, <2>2, AdjustmentIsBooked
  <2>4. call[c].net \in Int
    BY DEF Typed, TypeOK, CallRecords
  <2>5. call[c].net = Delta({e}) + Delta({}) /\ 0 = Delta({}) /\ {e} = {e} \cup {} \cup {}
    BY <2>3, <2>4, NothingIsNothing
  <2>6. Commits(c, {e}, {}, {"points"}, call[c].net, 0, 0)
    BY <1>3, <2>2 DEF CommitsAdjustment, AdjustsManually
  <2> QED BY <2>3, <2>5, <2>6, CommitKeeps
<1> QED BY <1>1, <1>2, <1>3

LEMMA OrderCallKeeps ==
    ASSUME Typed, Placed, Kept, LedgerExplainsRows, NEW c \in Calls,
           CommitsRefund(c) \/ CommitsAmendment(c) \/ Creates(c)
    PROVE  Explained
<1>1. CASE CommitsRefund(c)
  <2>1. call[c].op \in {"rollback", "refund"} /\ call[c].at # "idle"
    BY <1>1, HasLocksIs DEF CommitsRefund, Rollback, RollsBack, Commits
  <2>2. /\ Booked(c, TakenBack(c), OfTarget(Returned(c), "POINTS"),
                  OfTarget(Returned(c), "BALANCE"), BonusTakenBack(c))
        /\ TakenBack(c) \cup Returned(c) =
              TakenBack(c) \cup OfTarget(Returned(c), "POINTS") \cup OfTarget(Returned(c), "BALANCE")
    BY <2>1, RefundIsBooked
  <2>3. Commits(c, TakenBack(c) \cup Returned(c), BonusTakenBack(c),
            {"points", "balance", "spend"},
            Delta(TakenBack(c)) + Delta(OfTarget(Returned(c), "POINTS")),
            Delta(OfTarget(Returned(c), "BALANCE")), SpendAfterRefund(c))
    BY <1>1 DEF CommitsRefund, RollsBack
  <2> QED BY <2>2, <2>3, CommitKeeps
<1>2. CASE CommitsAmendment(c)
  <2>1. call[c].op = "amend" /\ call[c].at # "idle"
    BY <1>2, HasLocksIs DEF CommitsAmendment, Amends, AppliesAmendment, Commits
  <2>2. /\ Booked(c, PointsReturned(c), EarningAdjusted(c), {}, BonusAdjustment(c))
        /\ Delta(PointsReturned(c)) = call[c].ask.back
    BY <2>1, AmendmentIsBooked
  <2>3. Commits(c, PointsReturned(c) \cup EarningAdjusted(c), BonusAdjustment(c),
                {"points", "spend"}, call[c].ask.back + Delta(EarningAdjusted(c)), 0,
                AtLeastZero(call[c].own.spend + call[c].ask.new - call[c].ask.base))
    BY <1>2 DEF CommitsAmendment, AppliesAmendment
  <2>4. /\ 0 = Delta({})
        /\ PointsReturned(c) \cup EarningAdjusted(c) = PointsReturned(c) \cup EarningAdjusted(c) \cup {}
        /\ call[c].ask.back + Delta(EarningAdjusted(c))
             = Delta(PointsReturned(c)) + Delta(EarningAdjusted(c))
    BY <2>2, NothingIsNothing
  <2> QED BY <2>2, <2>3, <2>4, CommitKeeps
<1>3. CASE Creates(c)
  <2>1. call[c].at # "idle"
    BY <1>3, HasLocksIs DEF Creates, Commits
  <2>2. /\ Booked(c, OfTarget(Payments(c), "POINTS"), {}, OfTarget(Payments(c), "BALANCE"), {})
        /\ Payments(c) = OfTarget(Payments(c), "POINTS") \cup {} \cup OfTarget(Payments(c), "BALANCE")
        /\ Delta(OfTarget(Payments(c), "POINTS")) = -Redeemed(c)
        /\ Delta(OfTarget(Payments(c), "BALANCE")) = -call[c].ask.balance
    BY <1>3, <2>1, PaymentIsBooked
  <2>3. Redeemed(c) \in Nat
    BY <1>3, <2>1, PaymentsAre DEF Creates, Typed, CallsOK, CallOK
  <2>4. -Redeemed(c) = Delta(OfTarget(Payments(c), "POINTS")) + Delta({})
    <3> HIDE DEF OfTarget, Payments, Redeemed
    <3> QED BY <2>2, <2>3, NothingIsNothing
  <2>5. Commits(c, Payments(c), {}, IF Redeemed(c) > 0 THEN {"points"} ELSE {},
                -Redeemed(c), -call[c].ask.balance, 0)
    BY <1>3 DEF Creates
  <2>6. -call[c].ask.balance = Delta(OfTarget(Payments(c), "BALANCE"))
    BY <2>2
  <2> QED BY <2>2, <2>4, <2>5, <2>6, CommitKeeps
<1> QED BY <1>1, <1>2, <1>3

-----------------------------------------------------------------------------
\* An amendment is applied by one call.

CallBefore(d) ==
    /\ call'[d].op = call[d].op /\ call'[d].key = call[d].key /\ call'[d].ask = call[d].ask
    /\ call'[d].at # "record" => call'[d].net = call[d].net /\ call[d].at # "record"

\* Where the transaction a call is in comes from.
LEMMA CallLineage ==
    ASSUME Typed, [Next]_vars, NEW d \in Calls, call'[d].op # "none"
    PROVE  \/ CallBefore(d)
           \/ \E task \in owed : HandleOrderPaid(d, task) \/ HandleRefunded(d, task)
           \/ \E o \in Orders :
                 \/ \E wish \in Wishes[o] : CreateStarts(d, o, wish)
                 \/ FullRefundStarts(d, o)
                 \/ \E id \in AmendmentIds, change \in Changes : AmendStarts(d, o, id, change)
           \/ \E key \in Requests : RequestStarts(d, key)
<1>0. call \in [Calls -> CallRecords] /\ (call[d].at = "record" => call[d].op = "refund")
  BY DEF Typed, TypeOK, CallsOK, CallOK
<1>1. CASE call'[d] = call[d]
  BY <1>1 DEF CallBefore
<1>2. ASSUME NEW c \in Calls, Ends(c) PROVE CallBefore(d)
  BY <1>0, <1>2 DEF Ends, IdleCall, CallBefore
<1>3. ASSUME NEW c \in Calls, NEW refs, LocksOwn(c, refs) PROVE CallBefore(d)
  BY <1>0, <1>3 DEF LocksOwn, CallRecords, CallBefore
<1>4. ASSUME NEW c \in Calls, NEW op, NEW key, NEW a, NEW net, NEW ask,
             Starts(c, op, key, a, net, ask), c # d
      PROVE  CallBefore(d)
  BY <1>0, <1>4 DEF Starts, CallBefore
<1>5. ASSUME NEW c \in Calls, Rollback(c) PROVE CallBefore(d)
  <2>1. CASE RollbackLocks(c)
    BY <1>3, <2>1 DEF RollbackLocks
  <2>2. CASE call' = [call EXCEPT ![c] =
               IF call[c].op = "rollback" THEN IdleCall
               ELSE [IdleCall EXCEPT !.at = "record", !.op = "refund",
                       !.key = call[c].key, !.account = call[c].account,
                       !.ask = call[c].ask]]
    BY <1>0, <1>5, <2>2 DEF IdleCall, CallBefore, Rollback
  <2> QED BY <1>5, <2>1, <2>2 DEF Rollback
<1>11. ASSUME NEW c \in Calls, AmendReads(c) PROVE CallBefore(d)
  BY <1>0, <1>11 DEF AmendReads, CallRecords, CallBefore
<1>6. ASSUME NEW c \in Calls, LoyaltyCall(c)
      PROVE  CallBefore(d) \/ \E key \in Requests : RequestStarts(d, key)
  <2>1. ASSUME NEW key \in Requests, RequestStarts(c, key), c # d PROVE CallBefore(d)
    BY <1>4, <2>1 DEF RequestStarts
  <2>2. CASE Settles(c) \/ TopsUp(c) \/ AdjustsManually(c) \/ DuplicateFails(c) \/ Abort(c)
    BY <1>2, <1>3, <2>2 DEF Settles, TopsUp, AdjustsManually, DuplicateFails, Abort
  <2> HIDE DEF CallBefore
  <2> QED BY <1>6, <2>1, <2>2 DEF LoyaltyCall
<1>7. ASSUME NEW c \in Calls, OrderCall(c), c # d PROVE CallBefore(d)
  <2>1. ASSUME NEW task \in owed, HandleOrderPaid(c, task) \/ HandleRefunded(c, task)
        PROVE  CallBefore(d)
    BY <1>4, <1>7, <2>1 DEF HandleOrderPaid, SettleStarts, HandleRefunded, RollbackStarts
  <2>2. ASSUME NEW o \in Orders, NEW wish \in Wishes[o], CreateStarts(c, o, wish)
        PROVE  CallBefore(d)
    BY <1>4, <1>7, <2>2 DEF CreateStarts
  <2>3. ASSUME NEW o \in Orders, FullRefundStarts(c, o) PROVE CallBefore(d)
    BY <1>4, <1>7, <2>3 DEF FullRefundStarts, RollbackStarts
  <2>4. ASSUME NEW o \in Orders, NEW id \in AmendmentIds, NEW change \in Changes,
               AmendStarts(c, o, id, change)
        PROVE  CallBefore(d)
    BY <1>7, <2>4 DEF AmendStarts, CallBefore
  <2>6. CASE AmendReads(c)
    BY <1>11, <2>6
  <2>5. CASE Creates(c) \/ CreateFails(c) \/ FullRefundRecords(c) \/ Amends(c)
    BY <1>2, <1>3, <2>5 DEF Creates, CreateFails, FullRefundRecords, Amends, AmendmentLocks
  <2> HIDE DEF CallBefore
  <2> QED BY <1>5, <1>7, <2>1, <2>2, <2>3, <2>4, <2>5, <2>6 DEF OrderCall
<1>8. ASSUME OrderCall(d), ~Rollback(d)
      PROVE  \/ CallBefore(d)
             \/ \E task \in owed : HandleOrderPaid(d, task) \/ HandleRefunded(d, task)
             \/ \E o \in Orders :
                   \/ \E wish \in Wishes[o] : CreateStarts(d, o, wish)
                   \/ FullRefundStarts(d, o)
                   \/ \E id \in AmendmentIds, change \in Changes : AmendStarts(d, o, id, change)
  <2>1. CASE Creates(d) \/ CreateFails(d) \/ FullRefundRecords(d) \/ Amends(d)
    BY <1>2, <1>3, <2>1 DEF Creates, CreateFails, FullRefundRecords, Amends, AmendmentLocks
  <2>2. CASE AmendReads(d)
    BY <1>11, <2>2
  <2> HIDE DEF CallBefore
  <2> QED BY <1>8, <2>1, <2>2 DEF OrderCall
<1>9. CASE Crash
  BY <1>9 DEF Crash, IdleCall
<1> HIDE DEF CallBefore
<1> QED
  BY <1>1, <1>5, <1>6, <1>7, <1>8, <1>9
     DEF Next, Announce, RecordOrderPaidEvent, FullRefundIsNoted, UpdateStatus,
         DispatchReads, DispatchAsks, DispatchRecords, vars, ledgerVars

LEMMA AmendingCalls ==
    ASSUME Typed, [Next]_vars, NEW d \in Calls, call'[d].op = "amend"
    PROVE  \/ call[d].op = "amend" /\ call'[d].ask = call[d].ask
           \/ \E o \in Orders, id \in AmendmentIds, change \in Changes :
                 AmendStarts(d, o, id, change)
<1>1. ASSUME NEW key, NEW op, NEW a, NEW net, NEW ask, Starts(d, op, key, a, net, ask)
      PROVE  op = "amend"
  BY <1>1 DEF Starts, Typed, TypeOK
<1>2. ASSUME NEW key \in Requests, RequestStarts(d, key) PROVE FALSE
  <2>1. Payload[key].op \in {"topup", "manual"}
    BY LedgerAssumption
  <2> QED BY <1>1, <1>2, <2>1 DEF RequestStarts
<1>3. ASSUME NEW task \in owed, HandleOrderPaid(d, task) \/ HandleRefunded(d, task) PROVE FALSE
  BY <1>1, <1>3 DEF HandleOrderPaid, SettleStarts, HandleRefunded, RollbackStarts
<1>4. ASSUME NEW o \in Orders, NEW wish, CreateStarts(d, o, wish) PROVE FALSE
  BY <1>1, <1>4 DEF CreateStarts
<1>5. ASSUME NEW o \in Orders, FullRefundStarts(d, o) PROVE FALSE
  BY <1>1, <1>5 DEF FullRefundStarts, RollbackStarts
<1> QED BY <1>2, <1>3, <1>4, <1>5, CallLineage DEF CallBefore

LEMMA RecordedIds ==
    ASSUME Typed, NEW p \in Orders, NEW id, NEW cash, NEW back, NEW o \in Orders
    PROVE  /\ o = p => Recorded(p, id, cash, back)[o].ids = amendments[o].ids \cup {id}
           /\ o # p => Recorded(p, id, cash, back)[o].ids = amendments[o].ids
<1>1. amendments \in [Orders -> AmendmentRows]
  BY DEF Typed, TypeOK
<1> QED
  BY <1>1 DEF Recorded, AmendmentRows

RecordsAmendment(c) == Amends(c) /\ Ends(c)

LEMMA IdsGrow ==
    ASSUME Typed, [Next]_vars, NEW o \in Orders
    PROVE  /\ amendments[o].ids \subseteq amendments'[o].ids
           /\ \/ amendments'[o].ids \subseteq amendments[o].ids \cup {"FULL_REFUND"}
              \/ \E c \in Calls : /\ RecordsAmendment(c) /\ call[c].key = o
                    /\ amendments'[o].ids = amendments[o].ids \cup {call[c].ask.id}
<1>0. amendments \in [Orders -> AmendmentRows]
  BY DEF Typed, TypeOK
<1>1. ASSUME NEW c \in Calls, FullRefundRecords(c), ~UNCHANGED amendments
      PROVE  amendments'[o].ids = amendments[o].ids
               \/ amendments'[o].ids = amendments[o].ids \cup {"FULL_REFUND"}
  <2> DEFINE next == Recorded(call[c].key, "FULL_REFUND", call[c].ask.amount, 0)
  <2>1. amendments' = [next EXCEPT ![call[c].key].refunded = TRUE]
    BY <1>1 DEF FullRefundRecords
  <2>2. call[c].key \in Orders /\ call[c].ask.amount \in Nat
    BY <1>1 DEF FullRefundRecords, Typed, CallsOK, CallOK, OrderOperations
  <2>3. next \in [Orders -> AmendmentRows]
    BY <2>2, TypedParts, RecordedIs
  <2>4. next[o].ids = amendments[o].ids \/ next[o].ids = amendments[o].ids \cup {"FULL_REFUND"}
    BY <2>2, RecordedIds
  <2>5. amendments'[o].ids = next[o].ids
    <3> HIDE DEF next
    <3> QED BY <2>1, <2>3 DEF AmendmentRows
  <2> QED BY <2>4, <2>5
<1>2. ASSUME NEW p \in Orders, FullRefundIsNoted(p)
      PROVE  amendments'[o].ids = amendments[o].ids
               \/ amendments'[o].ids = amendments[o].ids \cup {"FULL_REFUND"}
  BY <1>2, RecordedIds DEF FullRefundIsNoted
<1>3. ASSUME NEW c \in Calls, Amends(c), ~UNCHANGED amendments
      PROVE  \/ amendments'[o].ids = amendments[o].ids
             \/ /\ RecordsAmendment(c) /\ call[c].key = o
                /\ amendments'[o].ids = amendments[o].ids \cup {call[c].ask.id}
  <2>1. /\ Ends(c)
        /\ amendments' = Recorded(call[c].key, call[c].ask.id, call[c].ask.cash, call[c].ask.back)
    BY <1>3 DEF Amends
  <2>2. call[c].key \in Orders
    BY <1>3 DEF Amends, Typed, CallsOK, CallOK, OrderOperations
  <2> QED BY <1>3, <2>1, <2>2, RecordedIds DEF RecordsAmendment
<1>4. ASSUME NEW c \in Calls, OrderCall(c), ~FullRefundRecords(c), ~Amends(c)
      PROVE  UNCHANGED amendments
  BY <1>4
     DEF OrderCall, Creates, CreateFails, HandleOrderPaid, HandleRefunded, Rollback,
         CreateStarts, FullRefundStarts, AmendStarts, AmendReads
<1>5. ASSUME NEW c \in Calls, LoyaltyCall(c) PROVE UNCHANGED amendments
  BY <1>5 DEF LoyaltyCall
<1> QED
  BY <1>1, <1>2, <1>3, <1>4, <1>5
     DEF Next, Announce, RecordOrderPaidEvent, UpdateStatus, DispatchReads, DispatchAsks,
         DispatchRecords, Crash, vars

LEMMA EnteredSources ==
    ASSUME Typed, Placed, Kept, [Next]_vars, NEW e \in ledger', e.source \in AmendmentIds
    PROVE  e \in ledger \/ \E c \in Calls : CommitsAmendment(c) /\ e.source = call[c].ask.id
<1>1. {"ORDER", "FULL_REFUND", "TOPUP", "MANUAL"} \cap AmendmentIds = {}
  BY LedgerAssumption
<1>2. ASSUME NEW c \in Calls, CommitsSettlement(c) PROVE e \in ledger
  BY <1>1, <1>2 DEF CommitsSettlement, Commits, Earnings, ReferralBonus, Entry
<1>3. ASSUME NEW c \in Calls, CommitsTopup(c) PROVE e \in ledger
  BY <1>1, <1>3 DEF CommitsTopup, Commits, Credits, TopupBonus, Entry
<1>4. ASSUME NEW c \in Calls, CommitsAdjustment(c) PROVE e \in ledger
  BY <1>1, <1>4 DEF CommitsAdjustment, AdjustsManually, Commits, Entry
<1>5. ASSUME NEW c \in Calls, Creates(c) PROVE e \in ledger
  BY <1>1, <1>5 DEF Creates, Commits, Payments, Entry
<1>6. ASSUME NEW c \in Calls, CommitsRefund(c) PROVE e \in ledger
  <2>1. \A type, undo : \A f \in Undone(call[c].key, type, undo) : f.source = "FULL_REFUND"
    BY UndoneFields
  <2> QED
    BY <1>1, <1>6, <2>1
       DEF CommitsRefund, RollsBack, Commits, TakenBack, Returned, BonusTakenBack
<1>7. ASSUME NEW c \in Calls, CommitsAmendment(c) PROVE e \in ledger \/ e.source = call[c].ask.id
  <2>1. call[c].op = "amend" /\ call[c].at # "idle"
    BY <1>7, HasLocksIs DEF CommitsAmendment, Amends, AppliesAmendment, Commits
  <2>2. \A type, adjustment : \A n \in Rescaled(c, type, adjustment) : n.source = call[c].ask.id
    BY <2>1, RescaledIsNew
  <2>3. \A n \in PointsReturned(c) \cup EarningAdjusted(c) \cup BonusAdjustment(c) :
           n.source = call[c].ask.id
    BY <2>2 DEF PointsReturned, EarningAdjusted, BonusAdjustment, Entry
  <2>4. ledger' = ledger \cup (PointsReturned(c) \cup EarningAdjusted(c)) \cup BonusAdjustment(c)
    BY <1>7 DEF CommitsAmendment, AppliesAmendment, Commits
  <2> QED BY <2>3, <2>4
<1> QED BY <1>2, <1>3, <1>4, <1>5, <1>6, <1>7, StepCommits DEF WritesNothing

LEMMA AmendedOnceInductive ==
    Typed /\ Placed /\ Kept /\ [Next]_vars => AmendedOnce'
<1> SUFFICES ASSUME Typed, Placed, Kept, [Next]_vars PROVE AmendedOnce'
  OBVIOUS
<1>0. AmendedOnce /\ "FULL_REFUND" \notin AmendmentIds
  BY LedgerAssumption DEF Kept
<1>1. ASSUME NEW e \in ledger', e.source \in AmendmentIds
      PROVE  \E p \in Orders : e.source \in amendments'[p].ids
  <2>1. CASE e \in ledger
    <3>1. PICK p \in Orders : e.source \in amendments[p].ids
      BY <1>0, <1>1, <2>1 DEF AmendedOnce
    <3> QED BY <3>1, IdsGrow
  <2>2. ASSUME NEW c \in Calls, CommitsAmendment(c), e.source = call[c].ask.id
        PROVE  \E p \in Orders : e.source \in amendments'[p].ids
    <3>1. call[c].key \in Orders
      BY <2>2 DEF CommitsAmendment, Amends, Typed, CallsOK, CallOK, OrderOperations
    <3>2. amendments'[call[c].key].ids = amendments[call[c].key].ids \cup {call[c].ask.id}
      BY <2>2, <3>1, RecordedIds DEF CommitsAmendment
    <3> QED BY <2>2, <3>1, <3>2
  <2> QED BY <1>1, <2>1, <2>2, EnteredSources
<1>2. ASSUME NEW d \in Calls, call'[d].op = "amend"
      PROVE  /\ call'[d].ask.id \in AmendmentIds
             /\ \A p \in Orders : call'[d].ask.id \notin amendments[p].ids
             /\ \A f \in Calls : f # d /\ call[f].op = "amend" => call[f].ask.id # call'[d].ask.id
             /\ ~RecordsAmendment(d)
  <2>0. ~RecordsAmendment(d)
    BY <1>2 DEF RecordsAmendment, Ends, IdleCall, Typed, TypeOK
  <2>1. CASE call[d].op = "amend" /\ call'[d].ask = call[d].ask
    <3>1. call[d].ask.id \in AmendmentIds
      BY <2>1 DEF Typed, CallsOK, CallOK, AmendAsks
    <3> QED BY <1>0, <2>0, <2>1, <3>1 DEF AmendedOnce
  <2>2. ASSUME NEW o \in Orders, NEW id \in AmendmentIds, NEW change \in Changes,
               AmendStarts(d, o, id, change)
        PROVE  /\ call'[d].ask.id \in AmendmentIds
               /\ \A p \in Orders : call'[d].ask.id \notin amendments[p].ids
               /\ \A f \in Calls : f # d /\ call[f].op = "amend" => call[f].ask.id # call'[d].ask.id
    <3>1. call'[d].ask.id = id
      BY <2>2 DEF AmendStarts, Starts, Typed, TypeOK
    <3> QED BY <2>2, <3>1 DEF AmendStarts
  <2> QED BY <1>2, <2>0, <2>1, <2>2, AmendingCalls
<1>3. ASSUME NEW d \in Calls, call'[d].op = "amend"
      PROVE  \A p \in Orders : call'[d].ask.id \notin amendments'[p].ids
  <2> SUFFICES ASSUME NEW p \in Orders, call'[d].ask.id \in amendments'[p].ids PROVE FALSE
    OBVIOUS
  <2>1. call'[d].ask.id \notin amendments[p].ids /\ call'[d].ask.id # "FULL_REFUND"
    BY <1>0, <1>2, <1>3
  <2>2. PICK c \in Calls : RecordsAmendment(c) /\ call'[d].ask.id = call[c].ask.id
    BY <2>1, IdsGrow
  <2>3. call[c].op = "amend" /\ c # d
    BY <1>2, <1>3, <2>2 DEF RecordsAmendment, Amends
  <2> QED BY <1>2, <1>3, <2>2, <2>3
<1>4. ASSUME NEW c \in Calls, NEW d \in Calls, call'[c].op = "amend", call'[d].op = "amend",
             call'[c].ask.id = call'[d].ask.id, c # d
      PROVE  FALSE
  <2>1. call[c].op = "amend" /\ call'[c].ask = call[c].ask => FALSE
    BY <1>2, <1>4
  <2>2. call[d].op = "amend" /\ call'[d].ask = call[d].ask => FALSE
    BY <1>2, <1>4
  <2>3. PICK o \in Orders, id \in AmendmentIds, change \in Changes : AmendStarts(c, o, id, change)
    BY <1>4, <2>1, AmendingCalls
  <2>4. PICK p \in Orders, n \in AmendmentIds, chg \in Changes : AmendStarts(d, p, n, chg)
    BY <1>4, <2>2, AmendingCalls
  <2>5. call'[d] = call[d] /\ call[d].at = "idle"
    BY <1>4, <2>3, <2>4 DEF AmendStarts, Typed, TypeOK
  <2>6. call'[d].at = "order"
    BY <2>4 DEF AmendStarts, IdleCall, Typed, TypeOK
  <2> QED BY <2>5, <2>6
<1> QED BY <1>1, <1>3, <1>4 DEF AmendedOnce

LEMMA KeptInductive ==
    ASSUME Typed, Placed, Kept, LedgerExplainsRows, [Next]_vars
    PROVE  Kept' /\ LedgerExplainsRows'
<1>1. CASE WritesNothing
  <2>1. Unique' /\ (\A e \in ledger' : Proper(e)) /\ IsFiniteSet(ledger')
    BY <1>1 DEF WritesNothing, Kept, Unique
  <2>2. LedgerExplainsRows'
    BY <1>1 DEF WritesNothing, LedgerExplainsRows
  <2> QED BY <2>1, <2>2, AmendedOnceInductive DEF Kept
<1>2. ASSUME Explained PROVE Kept' /\ LedgerExplainsRows'
  BY <1>2, AmendedOnceInductive DEF Kept, Explained
<1> QED BY <1>1, <1>2, StepCommits, LoyaltyKeeps, OrderCallKeeps

LEMMA KeptInitially == Init => Kept /\ LedgerExplainsRows
<1> SUFFICES ASSUME Init PROVE Kept /\ LedgerExplainsRows
  OBVIOUS
<1>1. ledger = {} /\ account = [a \in Accounts |-> EmptyRow] /\ \A c \in Calls : call[c].op = "none"
  BY DEF Init, LedgerInit, IdleCall
<1>2. Kept
  BY <1>1, FS_EmptySet DEF Kept, Unique, AmendedOnce
<1>3. LedgerExplainsRows
  <2>1. \A a, target : OfTarget({e \in ledger : e.account = a}, target) = {}
    BY <1>1 DEF OfTarget
  <2> HIDE DEF Sum
  <2> QED BY <1>1, <2>1, SumEmpty DEF LedgerExplainsRows, Total, EmptyRow
<1> QED BY <1>2, <1>3

(* The points and the balance of a member are the sum of what the ledger    *)
(* says was earned, used, returned, adjusted and topped up, as long as no    *)
(* commit of loyalty.service.ts overwrote one it had not read.               *)
THEOREM SettlementLedgerExplainsRows == Spec => []LedgerExplainsRows
<1> DEFINE Inv == Typed /\ Placed /\ Kept /\ LedgerExplainsRows
<1>1. Init => Inv
  BY TypedInitially, TakenInitially, KeptInitially
<1>2. Inv /\ [Next]_vars => Inv'
  BY TypedInductive, PlacedInductive, KeptInductive
<1>3. Inv => LedgerExplainsRows
  OBVIOUS
<1> QED
  BY <1>1, <1>2, <1>3, PTL DEF Spec

LEMMA SettleCallLineage ==
    ASSUME Typed, [Next]_vars, NEW d \in Calls, call'[d].op = "settle"
    PROVE  \/ call[d].op = "settle" /\ call'[d].key = call[d].key /\ call'[d].net = call[d].net
           \/ \E task \in owed : HandleOrderPaid(d, task)
<1>1. call[d].at = "record" => call[d].op = "refund"
  BY DEF Typed, CallsOK, CallOK
<1>2. CASE CallBefore(d)
  <2>1. call'[d].at # "record"
    BY <1>2, RecordsAfterRollback DEF CallBefore
  <2> QED BY <1>2, <2>1 DEF CallBefore
<1>3. ASSUME NEW key, NEW op, NEW a, NEW net, NEW ask, Starts(d, op, key, a, net, ask)
      PROVE  op = "settle"
  BY <1>3 DEF Starts, Typed, TypeOK
<1>4. ASSUME NEW key \in Requests, RequestStarts(d, key) PROVE FALSE
  <2>1. Payload[key].op # "settle"
    BY LedgerAssumption
  <2> QED BY <1>3, <1>4, <2>1 DEF RequestStarts
<1> HIDE DEF CallBefore
<1>5. ASSUME NEW task \in owed, HandleRefunded(d, task) PROVE FALSE
  BY <1>3, <1>5 DEF HandleRefunded, RollbackStarts
<1>6. ASSUME NEW o \in Orders, NEW wish, CreateStarts(d, o, wish) PROVE FALSE
  BY <1>3, <1>6 DEF CreateStarts
<1>7. ASSUME NEW o \in Orders, FullRefundStarts(d, o) PROVE FALSE
  BY <1>3, <1>7 DEF FullRefundStarts, RollbackStarts
<1>8. ASSUME NEW o \in Orders, NEW id, NEW change, AmendStarts(d, o, id, change) PROVE FALSE
  BY <1>8 DEF AmendStarts, IdleCall, Typed, TypeOK
<1> QED BY <1>2, <1>4, <1>5, <1>6, <1>7, <1>8, CallLineage

LEMMA RefundCallLineage ==
    ASSUME Typed, [Next]_vars, NEW d \in Calls, call'[d].op \in {"rollback", "refund"},
           call'[d].at # "record"
    PROVE  \/ /\ call[d].op \in {"rollback", "refund"} /\ call[d].at # "record"
              /\ call'[d].key = call[d].key /\ call'[d].net = call[d].net
           \/ \E task \in owed : HandleRefunded(d, task)
           \/ \E o \in Orders : FullRefundStarts(d, o)
<1>3. ASSUME NEW key, NEW op, NEW a, NEW net, NEW ask, Starts(d, op, key, a, net, ask)
      PROVE  op \in {"rollback", "refund"}
  BY <1>3 DEF Starts, Typed, TypeOK
<1>4. ASSUME NEW key \in Requests, RequestStarts(d, key) PROVE FALSE
  <2>1. Payload[key].op \in {"topup", "manual"}
    BY LedgerAssumption
  <2> QED BY <1>3, <1>4, <2>1 DEF RequestStarts
<1>5. ASSUME NEW task \in owed, HandleOrderPaid(d, task) PROVE FALSE
  BY <1>3, <1>5 DEF HandleOrderPaid, SettleStarts
<1>6. ASSUME NEW o \in Orders, NEW wish, CreateStarts(d, o, wish) PROVE FALSE
  BY <1>3, <1>6 DEF CreateStarts
<1>8. ASSUME NEW o \in Orders, NEW id, NEW change, AmendStarts(d, o, id, change) PROVE FALSE
  BY <1>8 DEF AmendStarts, IdleCall, Typed, TypeOK
<1> QED BY <1>4, <1>5, <1>6, <1>8, CallLineage DEF CallBefore

-----------------------------------------------------------------------------
\* An order that no notification announces is settled once, for what was paid.

Amended(o) == ~(amendments[o].ids \subseteq {"FULL_REFUND"})

Settling(o) == {t \in owed : t.order = o /\ t.step \in {"announce", "settle"}}

SettleCalls(o) == {c \in Calls : call[c].op = "settle" /\ call[c].key = o}

Earned(o) == Find(o, "EARN_ON_PURCHASE", "ORDER")

OneSettles(o) ==
    /\ \A t, u \in Settling(o) : t = u /\ t.from = "order"
    /\ \A c, d \in SettleCalls(o) : c = d /\ call[c].net = NetAtCreation(o)
    /\ SettleCalls(o) # {} => Settling(o) = {}
    /\ Earned(o) # {} => Settling(o) = {} /\ SettleCalls(o) = {}
    /\ \A e \in Earned(o) : e.delta = NetAtCreation(o)

SettledOnce == \A o \in Orders \ noticed : OneSettles(o)

LEMMA TaskIs ==
    ASSUME NEW o, NEW from, NEW step
    PROVE  /\ Task(o, from, step).order = o /\ Task(o, from, step).from = from
           /\ Task(o, from, step).step = step
BY DEF Task

LEMMA SettlingTasks ==
    ASSUME Typed, [Next]_vars, NEW t \in owed', t.step \in {"announce", "settle"}
    PROVE  \/ t \in owed
           \/ \E c \in Calls : Creates(c) /\ t = Task(call[c].key, "order", "announce")
           \/ Announce(t.order) \/ RecordOrderPaidEvent(t.order)
<1>1. ASSUME NEW o \in Orders, Announce(o) PROVE t \in owed \/ t.order = o
  <2>1. \A u \in Listeners(o, "order") : u.order = o
    BY TaskIs DEF Listeners
  <2> QED BY <1>1, <2>1 DEF Announce
<1>2. ASSUME NEW o \in Orders, RecordOrderPaidEvent(o) PROVE t \in owed \/ t.order = o
  <2>1. \A u \in Listeners(o, "notice") : u.order = o
    BY TaskIs DEF Listeners
  <2> QED BY <1>2, <2>1 DEF RecordOrderPaidEvent
<1>3. ASSUME NEW o \in Orders, NEW next, UpdateStatus(o, next) PROVE t \in owed
  BY <1>3, TaskIs DEF UpdateStatus
<1>4. ASSUME NEW task \in owed, DispatchReads(task) \/ DispatchAsks(task) PROVE t \in owed
  <2>1. [task EXCEPT !.step = "ask"].step = "ask" /\ [task EXCEPT !.step = "record"].step = "record"
    BY DEF Typed, TypeOK, Tasks
  <2> QED BY <1>4, <2>1 DEF DispatchReads, DispatchAsks
<1>5. ASSUME NEW c \in Calls, OrderCall(c), ~Creates(c) PROVE owed' \subseteq owed
  BY <1>5 DEF OrderCall, CreateFails, HandleOrderPaid, HandleRefunded, Rollback,
              FullRefundRecords, Amends, CreateStarts, FullRefundStarts, AmendStarts, AmendReads
<1>6. ASSUME NEW c \in Calls, Creates(c)
      PROVE  t \in owed \/ t = Task(call[c].key, "order", "announce")
  BY <1>6 DEF Creates
<1> QED
  BY <1>1, <1>2, <1>3, <1>4, <1>5, <1>6
     DEF Next, LoyaltyCall, FullRefundIsNoted, DispatchRecords, Crash, vars

LEMMA EarnedEntries ==
    ASSUME Typed, Kept, [Next]_vars, NEW e \in ledger', e \notin ledger, e.type = "EARN_ON_PURCHASE"
    PROVE  \E c \in Calls : CommitsSettlement(c) /\ e \in Earnings(c)
<1>1. ASSUME NEW c \in Calls, CommitsSettlement(c) PROVE e \in Earnings(c)
  BY <1>1 DEF CommitsSettlement, Commits, ReferralBonus, Entry
<1>2. ASSUME NEW c \in Calls, CommitsTopup(c) PROVE FALSE
  BY <1>2 DEF CommitsTopup, Commits, Credits, TopupBonus, Entry
<1>3. ASSUME NEW c \in Calls, CommitsAdjustment(c) PROVE FALSE
  BY <1>3 DEF CommitsAdjustment, AdjustsManually, Commits, Entry
<1>4. ASSUME NEW c \in Calls, Creates(c) PROVE FALSE
  BY <1>4 DEF Creates, Commits, Payments, Entry
<1>5. ASSUME NEW c \in Calls, CommitsRefund(c) PROVE FALSE
  <2>1. \A type, undo : \A f \in Undone(call[c].key, type, undo) : f.type = undo
    BY UndoneFields
  <2> QED
    BY <1>5, <2>1
       DEF CommitsRefund, RollsBack, Commits, TakenBack, Returned, BonusTakenBack
<1>6. ASSUME NEW c \in Calls, CommitsAmendment(c) PROVE FALSE
  <2>1. call[c].op = "amend" /\ call[c].at # "idle"
    BY <1>6, HasLocksIs DEF CommitsAmendment, Amends, AppliesAmendment, Commits
  <2>2. ASSUME NEW type, NEW adjustment, NEW f \in Rescaled(c, type, adjustment)
        PROVE  f.type = adjustment
    BY <2>1, RescaledIsNew
  <2>3. e \in PointsReturned(c) \cup EarningAdjusted(c) \cup BonusAdjustment(c)
    BY <1>6 DEF CommitsAmendment, AppliesAmendment, Commits
  <2> QED BY <2>2, <2>3 DEF PointsReturned, EarningAdjusted, BonusAdjustment, Entry
<1> QED BY <1>1, <1>2, <1>3, <1>4, <1>5, <1>6, StepCommits DEF WritesNothing

\* The discounts and the points of an order stay what they were when it was placed.
LEMMA NetStays ==
    ASSUME NEW o, RowKept(o)
    PROVE  /\ NetAtCreation(o)' = NetAtCreation(o)
           /\ order'[o].subtotal = order[o].subtotal => NetOf(o)' = NetOf(o)
BY DEF RowKept, NetAtCreation, NetOf, SubtotalAfterCoupon, CouponCents

LEMMA SettlesNoMore ==
    ASSUME NEW o, OneSettles(o), Settling(o)' \subseteq Settling(o),
           SettleCalls(o)' \subseteq SettleCalls(o), Earned(o)' \subseteq Earned(o),
           NetAtCreation(o)' = NetAtCreation(o),
           \A c \in SettleCalls(o)' : call'[c].net = call[c].net
    PROVE  OneSettles(o)'
BY DEF OneSettles

LEMMA CreationSettles ==
    ASSUME Typed, Placed, Kept, [Next]_vars, NEW o \in Orders, o \notin noticed',
           NEW c \in Calls, Creates(c), call[c].key = o
    PROVE  OneSettles(o)'
<1>0. ~Exists(o)
  BY CreatedExists
<1>1. \A t \in Settling(o)' : t = Task(o, "order", "announce")
  <2> SUFFICES ASSUME NEW t \in owed', t.order = o, t.step \in {"announce", "settle"}
               PROVE  t = Task(o, "order", "announce")
    BY DEF Settling
  <2>1. t \notin owed
    BY <1>0 DEF Placed
  <2>2. ~Announce(o)
    BY <1>0, TaskIs DEF Placed, Announce
  <2>3. ~RecordOrderPaidEvent(o)
    BY DEF RecordOrderPaidEvent
  <2>4. PICK d \in Calls : Creates(d) /\ t = Task(call[d].key, "order", "announce")
    BY <2>1, <2>2, <2>3, SettlingTasks
  <2>5. call[d].key = o
    BY <2>4, TaskIs
  <2> QED BY <2>4, <2>5
<1>2. SettleCalls(o)' = {}
  <2> SUFFICES ASSUME NEW d \in Calls, call'[d].op = "settle", call'[d].key = o PROVE FALSE
    BY DEF SettleCalls
  <2>1. ~(call[d].op = "settle" /\ call[d].key = o)
    BY <1>0, RefundsAreOperations DEF Placed
  <2>2. ASSUME NEW task \in owed, HandleOrderPaid(d, task) PROVE FALSE
    <3>1. call'[d].key = task.order
      BY <2>2 DEF HandleOrderPaid, SettleStarts, Starts, Typed, TypeOK
    <3> QED BY <1>0, <3>1 DEF Placed
  <2> QED BY <2>1, <2>2, SettleCallLineage
<1>3. Earned(o)' = {}
  <2> SUFFICES ASSUME NEW e \in ledger', e.key = o, e.type = "EARN_ON_PURCHASE" PROVE FALSE
    BY DEF Earned, Find
  <2>1. e \notin ledger
    BY <1>0 DEF Placed
  <2>2. PICK d \in Calls : CommitsSettlement(d) /\ e \in Earnings(d)
    BY <2>1, EarnedEntries
  <2>3. call[d].key = o /\ call[d].op = "settle"
    BY <2>2 DEF Earnings, Entry, CommitsSettlement
  <2> QED BY <1>0, <2>3, RefundsAreOperations DEF Placed
<1> QED BY <1>1, <1>2, <1>3, TaskIs DEF OneSettles

LEMMA AnnouncementSettles ==
    ASSUME Typed, NEW o \in Orders, OneSettles(o), Announce(o)
    PROVE  OneSettles(o)'
<1>1. Task(o, "order", "announce") \in Settling(o)
  BY TaskIs DEF Announce, Settling
<1>2. SettleCalls(o) = {} /\ Earned(o) = {} /\ Settling(o) = {Task(o, "order", "announce")}
  BY <1>1 DEF OneSettles
<1>3. \A t \in Settling(o)' : t = Task(o, "order", "settle")
  <2> SUFFICES ASSUME NEW t \in owed', t.order = o, t.step \in {"announce", "settle"}
               PROVE  t = Task(o, "order", "settle")
    BY DEF Settling
  <2>1. t \in owed => t = Task(o, "order", "announce")
    BY <1>2 DEF Settling
  <2>2. t \in Listeners(o, "order")
    BY <2>1 DEF Announce
  <2> QED BY <2>2, TaskIs DEF Listeners
<1>4. SettleCalls(o)' = {} /\ Earned(o)' = {}
  BY <1>2 DEF Announce, ledgerVars, SettleCalls, Earned, Find
<1> QED BY <1>3, <1>4, TaskIs DEF OneSettles

LEMMA PaymentSettles ==
    ASSUME Typed, NEW o \in Orders, OneSettles(o), NEW c \in Calls, NEW task \in owed,
           HandleOrderPaid(c, task), task.order = o
    PROVE  OneSettles(o)'
<1>1. task \in Settling(o) /\ task.from = "order"
  BY DEF HandleOrderPaid, Settling, OneSettles
<1>2. SettleCalls(o) = {} /\ Earned(o) = {} /\ Settling(o) = {task}
  BY <1>1 DEF OneSettles
<1>3. Settling(o)' = {}
  BY <1>2 DEF Settling, HandleOrderPaid
<1>4. Earned(o)' = {}
  BY <1>2 DEF HandleOrderPaid, Earned, Find
<1>5. \A d \in SettleCalls(o)' : d = c /\ call'[d].net = NetAtCreation(o)
  <2>1. SettleStarts(c, o, Owner[o], NetAtCreation(o))
    BY <1>1 DEF HandleOrderPaid
  <2>2. \A d \in Calls \ {c} : call'[d] = call[d]
    BY <2>1 DEF SettleStarts, Starts
  <2>3. call'[c].net = NetAtCreation(o)
    BY <2>1 DEF SettleStarts, Starts, Typed, TypeOK
  <2> QED BY <1>2, <2>2, <2>3 DEF SettleCalls
<1>6. NetAtCreation(o)' = NetAtCreation(o)
  BY DEF NetAtCreation, SubtotalAfterCoupon, CouponCents, HandleOrderPaid
<1> QED BY <1>3, <1>4, <1>5, <1>6 DEF OneSettles

LEMMA SettlementSettles ==
    ASSUME Typed, NEW o \in Orders, OneSettles(o), NEW c \in Calls, CommitsSettlement(c),
           call[c].key = o
    PROVE  OneSettles(o)'
<1>1. c \in SettleCalls(o)
  BY DEF SettleCalls, CommitsSettlement
<1>2. /\ Settling(o) = {} /\ Earned(o) = {} /\ call[c].net = NetAtCreation(o)
      /\ SettleCalls(o) = {c}
  BY <1>1 DEF OneSettles
<1>3. Settling(o)' = {} /\ NetAtCreation(o)' = NetAtCreation(o)
  BY <1>2 DEF Settling, NetAtCreation, SubtotalAfterCoupon, CouponCents, CommitsSettlement
<1>4. SettleCalls(o)' = {}
  <2>1. call'[c].op = "none" /\ \A d \in Calls \ {c} : call'[d] = call[d]
    BY DEF CommitsSettlement, Ends, IdleCall, Typed, TypeOK
  <2> QED BY <1>2, <2>1 DEF SettleCalls
<1>5. \A e \in Earned(o)' : e.delta = NetAtCreation(o)
  <2>1. ledger' = ledger \cup Earnings(c) \cup ReferralBonus(c)
    BY DEF CommitsSettlement, Commits
  <2>2. \A e \in ReferralBonus(c) : e.type = "REFERRAL_BONUS"
    BY DEF ReferralBonus, Entry
  <2>3. \A e \in Earnings(c) : e.delta = call[c].net
    BY DEF Earnings, Entry
  <2> QED BY <1>2, <2>1, <2>2, <2>3 DEF Earned, Find
<1> QED BY <1>3, <1>4, <1>5 DEF OneSettles

LEMMA NoticedGrows ==
    ASSUME [Next]_vars
    PROVE  noticed \subseteq noticed'
<1>1. ASSUME NEW c \in Calls, OrderCall(c) PROVE noticed' = noticed
  BY <1>1 DEF OrderCall, Creates, CreateFails, HandleOrderPaid, HandleRefunded, Rollback,
              CreateStarts, FullRefundStarts, FullRefundRecords, Amends, AmendStarts, AmendReads
<1>2. ASSUME NEW c \in Calls, LoyaltyCall(c) PROVE noticed' = noticed
  BY <1>2 DEF LoyaltyCall
<1>3. ASSUME NEW o \in Orders,
             \/ Announce(o) \/ RecordOrderPaidEvent(o) \/ FullRefundIsNoted(o)
             \/ \E next \in Statuses : UpdateStatus(o, next)
      PROVE  noticed \subseteq noticed'
  BY <1>3 DEF Announce, RecordOrderPaidEvent, FullRefundIsNoted, UpdateStatus
<1>4. ASSUME NEW task \in owed, DispatchReads(task) \/ DispatchAsks(task) \/ DispatchRecords(task)
      PROVE  noticed' = noticed
  BY <1>4 DEF DispatchReads, DispatchAsks, DispatchRecords
<1> QED BY <1>1, <1>2, <1>3, <1>4 DEF Next, Crash, vars

LEMMA SettledOnceInductive ==
    ASSUME Typed, Placed, Kept, SettledOnce, [Next]_vars
    PROVE  SettledOnce'
<1>0. SUFFICES ASSUME NEW o \in Orders, o \notin noticed' PROVE OneSettles(o)'
  BY DEF SettledOnce
<1>1. noticed \subseteq noticed'
  BY NoticedGrows
<1>2. OneSettles(o)
  BY <1>0, <1>1 DEF SettledOnce
<1>3. CASE \E c \in Calls : Creates(c) /\ call[c].key = o
  BY <1>0, <1>3, CreationSettles
<1>4. CASE Announce(o)
  BY <1>2, <1>4, AnnouncementSettles
<1>5. CASE \E c \in Calls, task \in owed : HandleOrderPaid(c, task) /\ task.order = o
  BY <1>2, <1>5, PaymentSettles
<1>6. CASE \E c \in Calls : CommitsSettlement(c) /\ call[c].key = o
  BY <1>2, <1>6, SettlementSettles
<1>7. CASE /\ ~ \E c \in Calls : Creates(c) /\ call[c].key = o
           /\ ~Announce(o)
           /\ ~ \E c \in Calls, task \in owed : HandleOrderPaid(c, task) /\ task.order = o
           /\ ~ \E c \in Calls : CommitsSettlement(c) /\ call[c].key = o
  <2>1. Settling(o)' \subseteq Settling(o)
    <3> SUFFICES ASSUME NEW t \in owed', t.order = o, t.step \in {"announce", "settle"}
                 PROVE  t \in owed
      BY DEF Settling
    <3>1. ~RecordOrderPaidEvent(o)
      BY <1>0 DEF RecordOrderPaidEvent
    <3> QED BY <1>7, <3>1, SettlingTasks, TaskIs
  <2>2. ASSUME NEW d \in Calls, call'[d].op = "settle", call'[d].key = o
        PROVE  call[d].op = "settle" /\ call[d].key = o /\ call'[d].net = call[d].net
    <3>1. ASSUME NEW task \in owed, HandleOrderPaid(d, task) PROVE FALSE
      <4>1. call'[d].key = task.order
        BY <3>1 DEF HandleOrderPaid, SettleStarts, Starts, Typed, TypeOK
      <4> QED BY <1>7, <2>2, <3>1, <4>1
    <3> QED BY <2>2, <3>1, SettleCallLineage
  <2>3. Earned(o)' \subseteq Earned(o)
    <3> SUFFICES ASSUME NEW e \in ledger', e.key = o, e.type = "EARN_ON_PURCHASE", e \notin ledger
                 PROVE  FALSE
      BY DEF Earned, Find
    <3>1. PICK d \in Calls : CommitsSettlement(d) /\ e \in Earnings(d)
      BY EarnedEntries
    <3>2. call[d].key = o
      BY <3>1 DEF Earnings, Entry
    <3> QED BY <1>7, <3>1, <3>2
  <2>4. NetAtCreation(o)' = NetAtCreation(o)
    BY <1>7, RowIsKept, NetStays
  <2>5. /\ SettleCalls(o)' \subseteq SettleCalls(o)
        /\ \A c \in SettleCalls(o)' : call'[c].net = call[c].net
    BY <2>2 DEF SettleCalls
  <2> QED BY <1>2, <2>1, <2>3, <2>4, <2>5, SettlesNoMore
<1> QED BY <1>3, <1>4, <1>5, <1>6, <1>7

-----------------------------------------------------------------------------
\* As long as an order is not amended, its refund takes what its items came to
\* after the coupon and the points.

RefundsOf(o) ==
    {c \in Calls : call[c].op \in {"rollback", "refund"} /\ call[c].at # "record"
                     /\ call[c].key = o}

RefundsTakeNet ==
    \A o \in Orders : ~Amended(o) /\ Exists(o) =>
      /\ order[o].subtotal = Price
      /\ \A c \in RefundsOf(o) : call[c].net = NetOf(o)

LEMMA AmendmentShows ==
    ASSUME Typed, NEW c \in Calls, Amends(c), NEW o \in Orders, call[c].key = o,
           amendments' = Recorded(o, call[c].ask.id, call[c].ask.cash, call[c].ask.back)
    PROVE  Amended(o)'
<1>1. call[c].ask.id \in AmendmentIds
  BY DEF Amends, Typed, CallsOK, CallOK, AmendAsks
<1>2. call[c].ask.id # "FULL_REFUND"
  BY <1>1, LedgerAssumption
<1>3. call[c].ask.id \in amendments'[o].ids
  BY RecordedIds
<1> QED BY <1>2, <1>3 DEF Amended

LEMMA SubtotalStays ==
    ASSUME Typed, [Next]_vars, NEW o \in Orders, ~Amended(o)',
           ~ \E c \in Calls : Creates(c) /\ call[c].key = o
    PROVE  order'[o].subtotal = order[o].subtotal
<1>0. order \in [Orders -> OrderRows]
  BY DEF Typed, TypeOK
<1>1. CASE UNCHANGED order
  BY <1>1
<1>2. ASSUME NEW c \in Calls, Creates(c) PROVE order'[o].subtotal = order[o].subtotal
  <2>1. call[c].key # o
    BY <1>2
  <2> QED BY <1>0, <1>2, <2>1 DEF Creates
<1>3. ASSUME NEW c \in Calls, FullRefundRecords(c) PROVE order'[o].subtotal = order[o].subtotal
  BY <1>0, <1>3 DEF FullRefundRecords, OrderRows
<1>4. ASSUME NEW c \in Calls, Amends(c), ~UNCHANGED order
      PROVE  order'[o].subtotal = order[o].subtotal
  <2>1. /\ amendments' = Recorded(call[c].key, call[c].ask.id, call[c].ask.cash, call[c].ask.back)
        /\ order' = [order EXCEPT ![call[c].key].subtotal = call[c].ask.subtotal,
                                  ![call[c].key].after = call[c].ask.after]
    BY <1>4 DEF Amends
  <2>2. call[c].key # o
    BY <1>4, <2>1, AmendmentShows
  <2> QED BY <1>0, <2>1, <2>2
<1>5. ASSUME NEW p \in Orders, NEW next \in Statuses, UpdateStatus(p, next)
      PROVE  order'[o].subtotal = order[o].subtotal
  BY <1>0, <1>5 DEF UpdateStatus, OrderRows
<1>6. ASSUME NEW task \in owed, DispatchRecords(task) PROVE order'[o].subtotal = order[o].subtotal
  BY <1>0, <1>6 DEF DispatchRecords, OrderRows
<1>7. ASSUME NEW c \in Calls, OrderCall(c), ~Creates(c), ~FullRefundRecords(c), ~Amends(c)
      PROVE  UNCHANGED order
  BY <1>7
     DEF OrderCall, CreateFails, HandleOrderPaid, HandleRefunded, Rollback, CreateStarts,
         FullRefundStarts, AmendStarts, AmendReads
<1>8. ASSUME NEW c \in Calls, LoyaltyCall(c) PROVE UNCHANGED order
  BY <1>8 DEF LoyaltyCall
<1> QED
  BY <1>1, <1>2, <1>3, <1>4, <1>5, <1>6, <1>7, <1>8
     DEF Next, Announce, RecordOrderPaidEvent, FullRefundIsNoted, DispatchReads, DispatchAsks,
         Crash, vars

\* An order comes into being only when it is created.
LEMMA AbsentStays ==
    ASSUME Typed, Placed, [Next]_vars, NEW o \in Orders, ~Exists(o),
           ~ \E c \in Calls : Creates(c) /\ call[c].key = o
    PROVE  ~Exists(o)'
<1>0. order \in [Orders -> OrderRows] /\ order[o].status = "absent"
  BY DEF Typed, TypeOK, Exists
<1>1. CASE UNCHANGED order
  BY <1>0, <1>1 DEF Exists
<1>2. ASSUME NEW c \in Calls, Creates(c) PROVE order'[o].status = "absent"
  <2>1. call[c].key # o
    BY <1>2
  <2> QED BY <1>0, <1>2, <2>1 DEF Creates
<1>3. ASSUME NEW c \in Calls, FullRefundRecords(c) PROVE order'[o].status = "absent"
  <2>1. call[c].key # o
    BY <1>3, RefundsAreOperations DEF FullRefundRecords, Placed, Typed, CallsOK, CallOK
  <2> QED BY <1>0, <1>3, <2>1 DEF FullRefundRecords
<1>4. ASSUME NEW c \in Calls, Amends(c) PROVE order'[o].status = "absent"
  BY <1>0, <1>4 DEF Amends, OrderRows
<1>5. ASSUME NEW p \in Orders, NEW next \in Statuses, UpdateStatus(p, next)
      PROVE  order'[o].status = "absent"
  BY <1>0, <1>5 DEF UpdateStatus, Transitions
<1>6. ASSUME NEW task \in owed, DispatchRecords(task) PROVE order'[o].status = "absent"
  BY <1>0, <1>6 DEF DispatchRecords, OrderRows
<1>7. ASSUME NEW c \in Calls, OrderCall(c), ~Creates(c), ~FullRefundRecords(c), ~Amends(c)
      PROVE  UNCHANGED order
  BY <1>7
     DEF OrderCall, CreateFails, HandleOrderPaid, HandleRefunded, Rollback, CreateStarts,
         FullRefundStarts, AmendStarts, AmendReads
<1>8. ASSUME NEW c \in Calls, LoyaltyCall(c) PROVE UNCHANGED order
  BY <1>8 DEF LoyaltyCall
<1> QED
  BY <1>1, <1>2, <1>3, <1>4, <1>5, <1>6, <1>7, <1>8
     DEF Next, Announce, RecordOrderPaidEvent, FullRefundIsNoted, DispatchReads, DispatchAsks,
         Crash, vars, Exists

\* A refund takes off no less than was earned on, and exactly that without
\* a discount it does not know of.
LEMMA NetOfPaid ==
    ASSUME Typed, NEW o \in Orders, order[o].subtotal = Price
    PROVE  /\ NetAtCreation(o) \in Nat /\ NetOf(o) \in Nat
           /\ NetAtCreation(o) <= NetOf(o)
           /\ order[o].discount = 0 => NetOf(o) = NetAtCreation(o)
<1> DEFINE off == CouponCents(order[o])
           redeem == order[o].redeem
           discount == order[o].discount
<1>1. redeem \in Nat /\ discount \in Nat
  BY DEF Typed, TypeOK, OrderRows
<1>2. off \in Nat /\ Price \in Nat
  BY <1>1, SubtotalIs, SettlementAssumption
<1>3. /\ SubtotalAfterCoupon(order[o]) = AtLeastZero(Price - discount - off)
      /\ NetOf(o) = AtLeastZero(Price - off - redeem)
      /\ NetAtCreation(o) = AtLeastZero(Price - discount - off) - redeem
  BY DEF SubtotalAfterCoupon, NetOf, NetAtCreation
<1>4. redeem <= AtLeastZero(Price - discount - off)
  BY <1>3 DEF Typed, RedeemedWithinPrice
<1> HIDE DEF off, redeem, discount
<1>5. /\ AtLeastZero(Price - discount - off) - redeem <= AtLeastZero(Price - off - redeem)
      /\ discount = 0 => AtLeastZero(Price - off - redeem)
                          = AtLeastZero(Price - discount - off) - redeem
  BY <1>1, <1>2, <1>4 DEF AtLeastZero
<1>6. NetAtCreation(o) \in Nat /\ NetOf(o) \in Nat
  BY NetIsTyped
<1> QED BY <1>3, <1>5, <1>6 DEF discount

LEMMA RefundsTakeNetInductive ==
    ASSUME Typed, Placed, RefundsTakeNet, [Next]_vars
    PROVE  RefundsTakeNet'
<1>1. SUFFICES ASSUME NEW o \in Orders, ~Amended(o)', Exists(o)'
               PROVE  /\ order'[o].subtotal = Price
                      /\ \A c \in RefundsOf(o)' : call'[c].net = NetOf(o)'
  BY DEF RefundsTakeNet
<1>2. ~Amended(o)
  BY <1>1, IdsGrow DEF Amended
<1>3. ASSUME NEW d \in RefundsOf(o)'
      PROVE  /\ Exists(o)
             /\ \/ d \in RefundsOf(o) /\ call'[d].net = call[d].net
                \/ call'[d].net = NetOf(o) /\ UNCHANGED order
  <2>1. /\ d \in Calls /\ call'[d].op \in {"rollback", "refund"} /\ call'[d].at # "record"
        /\ call'[d].key = o
    BY DEF RefundsOf
  <2>2. CASE /\ call[d].op \in {"rollback", "refund"} /\ call[d].at # "record"
             /\ call'[d].key = call[d].key /\ call'[d].net = call[d].net
    <3>1. Exists(o)
      BY <2>1, <2>2, RefundsAreOperations DEF Placed
    <3> QED BY <2>1, <2>2, <3>1 DEF RefundsOf
  <2>3. ASSUME NEW task \in owed, HandleRefunded(d, task)
        PROVE  Exists(o) /\ call'[d].net = NetOf(o) /\ UNCHANGED order
    <3>1. task.order = o /\ call'[d].net = NetOf(task.order)
      BY <2>1, <2>3 DEF HandleRefunded, RollbackStarts, Starts, Typed, TypeOK
    <3> QED BY <2>3, <3>1 DEF Placed, HandleRefunded
  <2>4. ASSUME NEW p \in Orders, FullRefundStarts(d, p)
        PROVE  Exists(o) /\ call'[d].net = NetOf(o) /\ UNCHANGED order
    <3>1. p = o /\ call'[d].net = NetOf(p)
      BY <2>1, <2>4 DEF FullRefundStarts, RollbackStarts, Starts, Typed, TypeOK
    <3> QED BY <2>4, <3>1 DEF FullRefundStarts, Exists
  <2> QED BY <2>1, <2>2, <2>3, <2>4, RefundCallLineage
<1>4. CASE \E c \in Calls : Creates(c) /\ call[c].key = o
  <2>1. ~Exists(o)
    BY <1>4, CreatedExists
  <2>2. order'[o].subtotal = Price
    BY <1>4 DEF Creates, Typed, TypeOK
  <2> QED BY <1>3, <2>1, <2>2
<1>5. CASE ~ \E c \in Calls : Creates(c) /\ call[c].key = o
  <2>1. RowKept(o) /\ Exists(o)
    BY <1>1, <1>5, RowIsKept, AbsentStays
  <2>2. order[o].subtotal = Price /\ \A c \in RefundsOf(o) : call[c].net = NetOf(o)
    BY <1>2, <2>1 DEF RefundsTakeNet
  <2>3. order'[o].subtotal = order[o].subtotal
    BY <1>1, <1>5, SubtotalStays
  <2>4. NetOf(o)' = NetOf(o)
    BY <2>1, <2>3, NetStays
  <2> QED BY <1>3, <2>2, <2>3, <2>4
<1> QED BY <1>4, <1>5

-----------------------------------------------------------------------------
\* The lifetime spend is a sum that never falls below zero.

SpendTypes == {"TOPUP_PURCHASED", "EARN_ON_PURCHASE", "REFUND_REVERSE_EARN"}

Spent(a) == {e \in ledger : e.account = a /\ e.type \in SpendTypes}

TakesBack(e) == e.type = "REFUND_REVERSE_EARN"

\* Everything that is taken back was earned, and taken back once.
Covered(S) ==
    /\ \A e \in S : e.delta \in Int /\ (~TakesBack(e) => e.delta >= 0)
    /\ \A e \in S : TakesBack(e) =>
          \E f \in S : ~TakesBack(f) /\ f.delta = -e.delta /\ f.key = e.key /\ f.target = e.target
    /\ \A e, f \in S : TakesBack(e) /\ TakesBack(f) /\ e.key = f.key /\ e.target = f.target => e = f

LEMMA CoveredWithout ==
    ASSUME NEW S, Covered(S), NEW e \in S,
           NEW f \in S, IF TakesBack(e) THEN /\ ~TakesBack(f) /\ f.delta = -e.delta
                                            /\ f.key = e.key /\ f.target = e.target
                        ELSE \A x \in S : ~TakesBack(x)
    PROVE  Covered(S \ {e, f})
<1>1. CASE TakesBack(e)
  <2>1. ASSUME NEW x \in S \ {e, f}, TakesBack(x)
        PROVE  \E y \in S \ {e, f} : ~TakesBack(y) /\ y.delta = -x.delta /\ y.key = x.key
                                       /\ y.target = x.target
    <3>1. PICK y \in S : ~TakesBack(y) /\ y.delta = -x.delta /\ y.key = x.key /\ y.target = x.target
      BY <2>1 DEF Covered
    <3>2. y # f
      BY <1>1, <2>1, <3>1 DEF Covered
    <3> QED BY <1>1, <3>1, <3>2
  <2> QED BY <2>1 DEF Covered
<1>2. CASE ~TakesBack(e)
  BY <1>2 DEF Covered
<1> QED BY <1>1, <1>2

LEMMA CoveredIsNotNegative ==
    ASSUME NEW S, IsFiniteSet(S), Covered(S)
    PROVE  Sum(S) >= 0
<1> DEFINE B == {s \in SUBSET S : Covered(s) /\ ~(Sum(s) >= 0)}
<1> HIDE DEF Sum
<1>1. SUFFICES ASSUME B # {} PROVE FALSE
  OBVIOUS
<1>2. PICK s \in B : \A t \in B : t \subseteq s => t = s
  <2>1. B \subseteq SUBSET S
    OBVIOUS
  <2> HIDE DEF B
  <2> QED BY <1>1, <2>1, Smallest
<1>3. /\ s \subseteq S /\ IsFiniteSet(s) /\ Covered(s) /\ ~(Sum(s) >= 0)
      /\ \A e \in s : e.delta \in Int
  BY <1>2, FS_Subset DEF Covered
<1>4. s # {}
  BY <1>3, SumEmpty
<1>5. ASSUME NEW t, t \subseteq s, t # s, Covered(t)
      PROVE  Sum(t) \in Int /\ Sum(t) >= 0 /\ IsFiniteSet(t)
  <2>1. t \notin B
    BY <1>2, <1>5
  <2>2. IsFiniteSet(t) /\ t \subseteq S
    BY <1>3, <1>5, FS_Subset
  <2>3. Sum(t) \in Int
    BY <1>5, <2>2, SumIsInt DEF Covered
  <2> QED BY <1>5, <2>1, <2>2, <2>3
<1>6. CASE \E e \in s : TakesBack(e)
  <2>1. PICK e \in s : TakesBack(e)
    BY <1>6
  <2>2. PICK f \in s : ~TakesBack(f) /\ f.delta = -e.delta /\ f.key = e.key /\ f.target = e.target
    BY <1>3, <2>1 DEF Covered
  <2>3. Covered(s \ {e, f}) /\ e # f
    BY <1>3, <2>1, <2>2, CoveredWithout
  <2>4. Sum(s \ {e, f}) \in Int /\ Sum(s \ {e, f}) >= 0
    BY <1>5, <2>3
  <2>5. Sum(s) = e.delta + Sum(s \ {e})
    BY <1>3, SumWithout
  <2>6. Sum(s \ {e}) = f.delta + Sum(s \ {e, f})
    <3>1. /\ IsFiniteSet(s \ {e}) /\ f \in s \ {e} /\ (s \ {e}) \ {f} = s \ {e, f}
          /\ \A x \in s \ {e} : x.delta \in Int
      BY <1>3, <2>3, FS_Subset
    <3>2. Sum(s \ {e}) = f.delta + Sum((s \ {e}) \ {f})
      BY <3>1, SumWithout
    <3> QED BY <3>1, <3>2
  <2>7. e.delta \in Int /\ f.delta = -e.delta
    BY <1>3, <2>2
  <2>8. Sum(s) >= 0
    BY <2>4, <2>5, <2>6, <2>7
  <2> QED BY <1>3, <2>8
<1>7. CASE ~ \E e \in s : TakesBack(e)
  <2>1. PICK e \in s : TRUE
    BY <1>4
  <2>2. Covered(s \ {e, e}) /\ s \ {e, e} = s \ {e}
    BY <1>3, <1>7, CoveredWithout
  <2>3. Sum(s \ {e}) \in Int /\ Sum(s \ {e}) >= 0
    BY <1>5, <2>2
  <2>4. Sum(s) = e.delta + Sum(s \ {e})
    BY <1>3, SumWithout
  <2>5. e.delta \in Int /\ e.delta >= 0
    BY <1>3, <1>7 DEF Covered
  <2>6. Sum(s) >= 0
    BY <2>3, <2>4, <2>5
  <2> QED BY <1>3, <2>6
<1> QED BY <1>6, <1>7

LEMMA SpentIsNotNegative ==
    ASSUME NEW L, L \subseteq Entries, IsFiniteSet(L), \A e \in L : Proper(e),
           \A e, f \in L : SameSlot(e, f) => e = f,
           \A u \in L : u.source = "FULL_REFUND" => \E e \in L : Undoes(u, e),
           NEW a
    PROVE  Sum({e \in L : e.account = a /\ e.type \in SpendTypes}) >= 0
<1> DEFINE S == {e \in L : e.account = a /\ e.type \in SpendTypes}
<1>1. S \subseteq L /\ IsFiniteSet(S)
  BY FS_Subset
<1>2. ASSUME NEW e \in S
      PROVE  e.delta \in Int /\ (~TakesBack(e) => e.delta >= 0)
  BY <1>1 DEF SpendTypes, TakesBack, Proper, Entries
<1>3. ASSUME NEW e \in S, TakesBack(e)
      PROVE  \E f \in S : ~TakesBack(f) /\ f.delta = -e.delta /\ f.key = e.key
                            /\ f.target = e.target
  <2>1. e \in L /\ e.source = "FULL_REFUND" /\ e.type = "REFUND_REVERSE_EARN" /\ e.account = a
    BY <1>1, <1>3 DEF Proper, TakesBack
  <2>2. PICK f \in L : Undoes(e, f)
    BY <2>1
  <2>3. e.delta \in Int /\ f.delta \in Int /\ f.delta = -e.delta
    BY <2>1, <2>2 DEF Undoes, Entries
  <2> QED BY <2>1, <2>2, <2>3 DEF Undoes, SpendTypes, TakesBack
<1>4. ASSUME NEW e \in S, NEW f \in S, TakesBack(e), TakesBack(f),
             e.key = f.key, e.target = f.target
      PROVE  e = f
  BY <1>1, <1>4 DEF TakesBack, Proper, SameSlot
<1>5. Covered(S)
  <2> HIDE DEF S
  <2> QED BY <1>2, <1>3, <1>4 DEF Covered
<1> QED BY <1>1, <1>5, CoveredIsNotNegative

-----------------------------------------------------------------------------
\* A commit adds to the spend what it adds to the entries.

Plain(a) == \A o \in Orders : Owner[o] = a => o \notin noticed /\ ~Amended(o)

\* What is entered of the types the spend is made of is one entry of the member.
LEMMA SpentGrows ==
    ASSUME Typed, Kept, NEW c \in Calls, NEW P, NEW Q, NEW B, NEW refs, Booked(c, P, Q, B, refs),
           ledger' = ledger \cup (P \cup Q \cup B) \cup refs,
           NEW N, N \subseteq P \cup B, AtMostOne(N), \A e \in N : e.type \in SpendTypes,
           \A e \in (P \cup Q \cup B \cup refs) \ N : e.type \notin SpendTypes,
           NEW a
    PROVE  /\ a = call[c].account => /\ Spent(a)' = Spent(a) \cup N
                                     /\ Sum(Spent(a)') = Sum(Spent(a)) + Delta(N)
           /\ a # call[c].account => Spent(a)' = Spent(a)
<1>1. \A e \in N : e \notin ledger /\ e.account = call[c].account /\ e.delta \in Int
  BY DEF Booked, SameSlot, Entries
<1>2. a = call[c].account => Spent(a)' = Spent(a) \cup N
  BY <1>1 DEF Spent
<1>3. a # call[c].account => Spent(a)' = Spent(a)
  BY <1>1 DEF Spent
<1>4. /\ IsFiniteSet(Spent(a)) /\ \A e \in Spent(a) : e.delta \in Int
      /\ \A e \in N : e \notin Spent(a)
  BY <1>1, FS_Subset DEF Spent, Kept, Typed, TypeOK, Entries
<1>5. Sum(Spent(a) \cup N) = Sum(Spent(a)) + Delta(N)
  BY <1>1, <1>4, SumWithAtMostOne
<1> QED BY <1>2, <1>3, <1>5

\* The row of the member after a commit that has read the last write.
LEMMA CommitSpends ==
    ASSUME Typed, NEW c \in Calls, NEW own, NEW refs, NEW columns, NEW points, NEW balance,
           NEW spend, Commits(c, own, refs, columns, points, balance, spend),
           NEW a \in Accounts, a \notin lost'
    PROVE  /\ a \notin lost
           /\ a # call[c].account \/ "spend" \notin columns => account'[a].spend = account[a].spend
           /\ a = call[c].account /\ "spend" \in columns =>
                 account'[a].spend = spend /\ call[c].own.spend = account[a].spend
<1>1. account \in [Accounts -> Rows]
  BY DEF Typed, TypeOK
<1>2. a \notin lost
  BY DEF Commits
<1>3. CASE a = call[c].account
  <2>1. account'[a].spend = IF "spend" \in columns THEN spend ELSE account[a].spend
    BY <1>3 DEF Commits
  <2>2. "spend" \in columns => call[c].own.spend = account[a].spend
    BY <1>3 DEF Commits
  <2> QED BY <1>2, <1>3, <2>1, <2>2
<1>4. CASE a # call[c].account
  <2>1. account'[a].spend = account[a].spend
    BY <1>1, <1>4 DEF Commits, Rows
  <2> QED BY <1>2, <1>4, <2>1
<1> QED BY <1>3, <1>4

\* No refund of the member's took off a discount it does not know of.
Exact(a) ==
    \A o \in Orders :
      Owner[o] = a /\ Find(o, "REFUND_REVERSE_EARN", "FULL_REFUND") # {}
      => order[o].discount = 0

SpendIs(a) ==
    /\ account[a].spend <= Sum(Spent(a))
    /\ Exact(a) => account[a].spend = Sum(Spent(a))

LEMMA ExactBefore ==
    ASSUME Typed, Placed, [Next]_vars, NEW a, Exact(a)'
    PROVE  Exact(a)
<1>1. SUFFICES ASSUME NEW o \in Orders, Owner[o] = a,
                      NEW e \in Find(o, "REFUND_REVERSE_EARN", "FULL_REFUND")
               PROVE  order[o].discount = 0
  BY DEF Exact
<1>2. ledger \subseteq ledger'
  BY StepEnters DEF EntersPayment, EntersRollback, EntersOther
<1>3. Exists(o)
  BY DEF Placed, Find
<1>4. RowKept(o)
  BY <1>3, RowIsKept, CreatedExists
<1>5. e \in Find(o, "REFUND_REVERSE_EARN", "FULL_REFUND")'
  BY <1>2 DEF Find
<1> QED BY <1>1, <1>4, <1>5 DEF Exact, RowKept

LEMMA PlainBefore ==
    ASSUME Typed, [Next]_vars, NEW a, Plain(a)'
    PROVE  Plain(a)
BY NoticedGrows, IdsGrow DEF Plain, Amended

LEMMA SpendAndSum ==
    ASSUME Typed, Kept, NEW a \in Accounts
    PROVE  account[a].spend \in Nat /\ Sum(Spent(a)) \in Int
<1>1. IsFiniteSet(Spent(a)) /\ \A e \in Spent(a) : e.delta \in Int
  BY FS_Subset DEF Spent, Kept, Typed, TypeOK, Entries
<1>2. account[a].spend \in Nat
  BY DEF Typed, TypeOK, Rows
<1> QED BY <1>1, <1>2, SumIsInt

LEMMA SettlementSpends ==
    ASSUME Typed, Kept, SettledOnce, NEW c \in Calls, CommitsSettlement(c),
           NEW a \in Accounts, a \notin lost', Plain(a), SpendIs(a),
           Exact(a)' => Exact(a)
    PROVE  SpendIs(a)'
<1>1. /\ call[c].op = "settle" /\ call[c].at # "idle"
      /\ Commits(c, Earnings(c), ReferralBonus(c), {"points", "spend"},
                 Delta(Earnings(c)), 0, call[c].own.spend + call[c].net)
  BY HasLocksIs DEF CommitsSettlement, Commits
<1>2. Booked(c, Earnings(c), {}, {}, ReferralBonus(c))
  BY <1>1, SettlementIsBooked
<1>3. /\ a = call[c].account =>
            Spent(a)' = Spent(a) \cup Earnings(c)
            /\ Sum(Spent(a)') = Sum(Spent(a)) + Delta(Earnings(c))
      /\ a # call[c].account => Spent(a)' = Spent(a)
  <2>1. ledger' = ledger \cup (Earnings(c) \cup {} \cup {}) \cup ReferralBonus(c)
    BY <1>1 DEF Commits
  <2>2. Earnings(c) \subseteq Earnings(c) \cup {} /\ AtMostOne(Earnings(c))
    BY <1>2 DEF Booked
  <2>3. \A e \in Earnings(c) : e.type \in SpendTypes
    BY DEF Earnings, Entry, SpendTypes
  <2>4. \A e \in (Earnings(c) \cup {} \cup {} \cup ReferralBonus(c)) \ Earnings(c) :
           e.type \notin SpendTypes
    BY DEF ReferralBonus, Entry, SpendTypes
  <2> QED BY <1>2, <2>1, <2>2, <2>3, <2>4, SpentGrows
<1>4. /\ a # call[c].account => account'[a].spend = account[a].spend
      /\ a = call[c].account =>
            account'[a].spend = call[c].own.spend + call[c].net
            /\ call[c].own.spend = account[a].spend
  <2>1. "spend" \in {"points", "spend"}
    OBVIOUS
  <2> QED BY <1>1, <2>1, CommitSpends
<1>5. a = call[c].account => Delta(Earnings(c)) = call[c].net
  <2> SUFFICES ASSUME a = call[c].account PROVE Delta(Earnings(c)) = call[c].net
    OBVIOUS
  <2>1. call[c].key \in Orders /\ Owner[call[c].key] = a /\ call[c].net \in Nat
    BY <1>1 DEF Typed, CallsOK, CallOK, OrderOperations
  <2>2. OneSettles(call[c].key) /\ c \in SettleCalls(call[c].key)
    BY <1>1, <2>1 DEF SettledOnce, Plain, SettleCalls
  <2>3. Find(call[c].key, "EARN_ON_PURCHASE", "ORDER") = {}
    BY <2>2 DEF OneSettles, Earned
  <2>4. Earnings(c) = IF call[c].net > 0
                      THEN {Entry(call[c].account, call[c].key, "EARN_ON_PURCHASE", "ORDER",
                                  "POINTS", call[c].net)}
                      ELSE {}
    BY <2>3 DEF Earnings
  <2>5. CASE call[c].net > 0
    BY <2>4, <2>5, EntryFields DEF Delta
  <2>6. CASE ~(call[c].net > 0)
    BY <2>1, <2>4, <2>6 DEF Delta
  <2> QED BY <2>5, <2>6
<1>6. Sum(Spent(a)) \in Int /\ account[a].spend \in Nat /\ call[c].net \in Nat
  BY <1>1, SpendAndSum DEF Typed, CallsOK, CallOK
<1> HIDE DEF Sum
<1>7. CASE a = call[c].account
  <2>1. /\ account'[a].spend = account[a].spend + call[c].net
        /\ Sum(Spent(a)') = Sum(Spent(a)) + call[c].net
    BY <1>3, <1>4, <1>5, <1>7
  <2> QED BY <1>6, <2>1 DEF SpendIs
<1>8. CASE a # call[c].account
  BY <1>3, <1>4, <1>8 DEF SpendIs
<1> QED BY <1>7, <1>8

LEMMA TopupSpends ==
    ASSUME Typed, Kept, NEW c \in Calls, CommitsTopup(c),
           NEW a \in Accounts, a \notin lost', SpendIs(a),
           Exact(a)' => Exact(a)
    PROVE  SpendIs(a)'
<1> DEFINE P == OfTarget(Credits(c), "POINTS")
           B == OfTarget(Credits(c), "BALANCE")
<1>1. /\ call[c].op = "topup" /\ call[c].at # "idle" /\ ~Used(call[c].key)
      /\ Commits(c, Credits(c), TopupBonus(c), {"points", "balance", "spend"},
                 call[c].ask.bonus, call[c].net, call[c].own.spend + call[c].net)
  BY HasLocksIs DEF CommitsTopup, Commits
<1>2. /\ Booked(c, P, {}, B, TopupBonus(c)) /\ Credits(c) = P \cup {} \cup B
      /\ Delta(B) = call[c].net /\ \A e \in B : e.type = "TOPUP_PURCHASED"
      /\ \A e \in P \cup TopupBonus(c) : e.type \in {"ADJUSTMENT_MANUAL", "REFERRAL_BONUS"}
  BY <1>1, CreditsAreBooked
<1> HIDE DEF P, B
<1>3. /\ a = call[c].account => Sum(Spent(a)') = Sum(Spent(a)) + Delta(B)
      /\ a # call[c].account => Spent(a)' = Spent(a)
  <2>1. ledger' = ledger \cup (P \cup {} \cup B) \cup TopupBonus(c)
    BY <1>1, <1>2 DEF Commits
  <2>2. B \subseteq P \cup B /\ AtMostOne(B) /\ \A e \in B : e.type \in SpendTypes
    BY <1>2 DEF Booked, SpendTypes
  <2>3. \A e \in (P \cup {} \cup B \cup TopupBonus(c)) \ B : e.type \notin SpendTypes
    BY <1>2 DEF SpendTypes
  <2> QED BY <1>2, <2>1, <2>2, <2>3, SpentGrows
<1>4. /\ a # call[c].account => account'[a].spend = account[a].spend
      /\ a = call[c].account =>
            account'[a].spend = call[c].own.spend + call[c].net
            /\ call[c].own.spend = account[a].spend
  <2>1. "spend" \in {"points", "balance", "spend"}
    OBVIOUS
  <2> QED BY <1>1, <2>1, CommitSpends
<1>5. Sum(Spent(a)) \in Int /\ account[a].spend \in Nat /\ call[c].net \in Nat
  BY <1>1, SpendAndSum DEF Typed, CallsOK, CallOK
<1> HIDE DEF Sum
<1>6. CASE a = call[c].account
  <2>1. /\ account'[a].spend = account[a].spend + call[c].net
        /\ Sum(Spent(a)') = Sum(Spent(a)) + call[c].net
    BY <1>2, <1>3, <1>4, <1>6
  <2> QED BY <1>5, <2>1 DEF SpendIs
<1>7. CASE a # call[c].account
  BY <1>3, <1>4, <1>7 DEF SpendIs
<1> QED BY <1>6, <1>7

\* A commit that leaves the spend alone enters nothing it is made of.
LEMMA SpendLeftAlone ==
    ASSUME Typed, NEW c \in Calls, NEW own, NEW refs, NEW columns, NEW points, NEW balance,
           NEW spend, Commits(c, own, refs, columns, points, balance, spend),
           NEW a \in Accounts, a \notin lost', SpendIs(a),
           "spend" \notin columns \/ a # call[c].account,
           \A e \in own \cup refs : e.type \notin SpendTypes,
           Exact(a)' => Exact(a)
    PROVE  SpendIs(a)'
<1>1. account'[a].spend = account[a].spend
  BY CommitSpends
<1>2. Spent(a)' = Spent(a)
  BY DEF Commits, Spent
<1> HIDE DEF Sum
<1> QED BY <1>1, <1>2 DEF SpendIs

LEMMA OthersSpend ==
    ASSUME Typed, Placed, Kept, NEW c \in Calls,
           CommitsAdjustment(c) \/ Creates(c) \/ CommitsAmendment(c),
           NEW a \in Accounts, a \notin lost', Plain(a)', SpendIs(a),
           Exact(a)' => Exact(a)
    PROVE  SpendIs(a)'
<1>1. CASE CommitsAdjustment(c)
  <2> DEFINE own == {Entry(call[c].account, call[c].key, "ADJUSTMENT_MANUAL", "MANUAL",
                           "POINTS", call[c].net)}
  <2>1. Commits(c, own, {}, {"points"}, call[c].net, 0, 0)
    BY <1>1 DEF CommitsAdjustment, AdjustsManually
  <2>2. \A e \in own \cup {} : e.type \notin SpendTypes
    BY EntryFields DEF SpendTypes
  <2>3. "spend" \notin {"points"}
    OBVIOUS
  <2> HIDE DEF own
  <2> QED BY <2>1, <2>2, <2>3, SpendLeftAlone
<1>2. CASE Creates(c)
  <2> DEFINE columns == IF Redeemed(c) > 0 THEN {"points"} ELSE {}
  <2>1. Commits(c, Payments(c), {}, columns, -Redeemed(c), -call[c].ask.balance, 0)
    BY <1>2 DEF Creates
  <2>2. \A e \in Payments(c) \cup {} : e.type \notin SpendTypes
    BY DEF Payments, Entry, SpendTypes
  <2>3. "spend" \notin columns
    OBVIOUS
  <2> HIDE DEF columns
  <2> QED BY <2>1, <2>2, <2>3, SpendLeftAlone
<1>3. CASE CommitsAmendment(c)
  <2>1. call[c].op = "amend" /\ call[c].at # "idle"
    BY <1>3, HasLocksIs DEF CommitsAmendment, Amends, AppliesAmendment, Commits
  <2>2. a # call[c].account
    <3>1. PICK o \in Orders : o = call[c].key /\ call[c].account = Owner[o]
      BY <2>1 DEF Typed, CallsOK, CallOK, OrderOperations
    <3>2. Amended(o)'
      BY <1>3, <3>1, AmendmentShows DEF CommitsAmendment
    <3> QED BY <3>1, <3>2 DEF Plain
  <2>3. \A e \in PointsReturned(c) \cup EarningAdjusted(c) \cup BonusAdjustment(c) :
           e.type \notin SpendTypes
    <3>1. \A type, adjustment : \A n \in Rescaled(c, type, adjustment) : n.type = adjustment
      BY <2>1, RescaledIsNew
    <3> QED
      BY <3>1 DEF PointsReturned, EarningAdjusted, BonusAdjustment, Entry, SpendTypes
  <2>4. Commits(c, PointsReturned(c) \cup EarningAdjusted(c), BonusAdjustment(c),
                {"points", "spend"}, call[c].ask.back + Delta(EarningAdjusted(c)), 0,
                AtLeastZero(call[c].own.spend + call[c].ask.new - call[c].ask.base))
    BY <1>3 DEF CommitsAmendment, AppliesAmendment
  <2> QED BY <2>2, <2>3, <2>4, SpendLeftAlone
<1> QED BY <1>1, <1>2, <1>3

LEMMA RefundSpends ==
    ASSUME Typed, Typed', Placed, Kept, Kept', RefundsUndoEntries', SettledOnce, RefundsTakeNet,
           NEW c \in Calls, CommitsRefund(c),
           NEW a \in Accounts, a \notin lost', Plain(a), SpendIs(a),
           Exact(a)' => Exact(a)
    PROVE  SpendIs(a)'
<1> DEFINE Q == OfTarget(Returned(c), "POINTS")
           B == OfTarget(Returned(c), "BALANCE")
<1>1. /\ call[c].op \in {"rollback", "refund"} /\ call[c].at \notin {"idle", "record"}
      /\ Commits(c, TakenBack(c) \cup Returned(c), BonusTakenBack(c),
                 {"points", "balance", "spend"},
                 Delta(TakenBack(c)) + Delta(Q), Delta(B), SpendAfterRefund(c))
  BY HasLocksIs DEF CommitsRefund, Rollback, RollsBack, Commits
<1>2. /\ Booked(c, TakenBack(c), Q, B, BonusTakenBack(c))
      /\ TakenBack(c) \cup Returned(c) = TakenBack(c) \cup Q \cup B
      /\ \A e \in TakenBack(c) : e.type = "REFUND_REVERSE_EARN"
      /\ \A e \in Returned(c) \cup BonusTakenBack(c) :
            e.type \in {"REFUND_RETURN_REDEEM", "REFUND_REVERSE_REFERRAL"}
  BY <1>1, RefundIsBooked
<1>3. /\ a = call[c].account => Sum(Spent(a)') = Sum(Spent(a)) + Delta(TakenBack(c))
      /\ a # call[c].account => Spent(a)' = Spent(a)
  <2>0. Q \subseteq Returned(c) /\ B \subseteq Returned(c)
    BY DEF OfTarget
  <2> HIDE DEF Q, B
  <2>1. ledger' = ledger \cup (TakenBack(c) \cup Q \cup B) \cup BonusTakenBack(c)
    BY <1>1, <1>2 DEF Commits
  <2>2. TakenBack(c) \subseteq TakenBack(c) \cup B /\ AtMostOne(TakenBack(c))
        /\ \A e \in TakenBack(c) : e.type \in SpendTypes
    BY <1>2 DEF Booked, SpendTypes
  <2>3. \A e \in (TakenBack(c) \cup Q \cup B \cup BonusTakenBack(c)) \ TakenBack(c) :
           e.type \notin SpendTypes
    BY <1>2, <2>0 DEF SpendTypes
  <2> QED BY <1>2, <2>1, <2>2, <2>3, SpentGrows
<1>4. /\ a # call[c].account => account'[a].spend = account[a].spend
      /\ a = call[c].account =>
            account'[a].spend = SpendAfterRefund(c) /\ call[c].own.spend = account[a].spend
  <2>1. "spend" \in {"points", "balance", "spend"}
    OBVIOUS
  <2> HIDE DEF Q, B
  <2> QED BY <1>1, <2>1, CommitSpends
<1>5. CASE a # call[c].account
  <2> HIDE DEF Sum
  <2> QED BY <1>3, <1>4, <1>5 DEF SpendIs
<1>6. CASE a = call[c].account /\ TakenBack(c) = {}
  <2>1. Delta(TakenBack(c)) = 0 /\ SpendAfterRefund(c) = call[c].own.spend
    BY <1>6 DEF Delta, SpendAfterRefund
  <2>2. Sum(Spent(a)) \in Int
    BY SpendAndSum
  <2> HIDE DEF Sum
  <2>3. account'[a].spend = account[a].spend /\ Sum(Spent(a)') = Sum(Spent(a))
    BY <1>3, <1>4, <1>6, <2>1, <2>2
  <2> QED BY <2>3 DEF SpendIs
<1>7. CASE a = call[c].account /\ TakenBack(c) # {}
  <2>1. PICK o \in Orders : o = call[c].key /\ Owner[o] = a
    BY <1>1, <1>7 DEF Typed, CallsOK, CallOK, OrderOperations
  <2>2. o \notin noticed /\ ~Amended(o)
    BY <2>1 DEF Plain
  <2>3. Exists(o)
    BY <1>1, <2>1, RefundsAreOperations DEF Placed
  <2>4. call[c].net = NetOf(o) /\ order[o].subtotal = Price
    BY <1>1, <2>1, <2>2, <2>3 DEF RefundsTakeNet, RefundsOf
  <2>5. \A f \in Earned(o) : f.delta = NetAtCreation(o)
    BY <2>2 DEF SettledOnce, OneSettles
  <2>6. PICK n \in TakenBack(c) : Delta(TakenBack(c)) = n.delta
    <3>1. TakenBack(c) \subseteq Entries
      BY <1>2 DEF Booked
    <3> QED BY <1>7, <3>1, DeltaIs
  <2>13. PICK earning \in Find(o, "EARN_ON_PURCHASE", "ORDER") : n.delta = -earning.delta
    BY <2>1, <2>6, UndoneFields DEF TakenBack
  <2>14. Delta(TakenBack(c)) = -NetAtCreation(o)
    BY <2>5, <2>6, <2>13 DEF Earned
  <2>7. SpendAfterRefund(c) = AtLeastZero(call[c].own.spend - call[c].net)
    BY <1>7 DEF SpendAfterRefund
  <2>8. Sum(Spent(a)') >= 0
    <3>1. /\ ledger' \subseteq Entries /\ IsFiniteSet(ledger') /\ \A e \in ledger' : Proper(e)
          /\ \A e, f \in ledger' : SameSlot(e, f) => e = f
      BY DEF Kept, Unique, SameSlot, Typed, TypeOK
    <3>2. \A u \in ledger' : u.source = "FULL_REFUND" => \E e \in ledger' : Undoes(u, e)
      BY DEF RefundsUndoEntries, Undoes
    <3>3. Spent(a)' = {e \in ledger' : e.account = a /\ e.type \in SpendTypes}
      BY DEF Spent
    <3> QED BY <3>1, <3>2, <3>3, SpentIsNotNegative
  <2>9. Sum(Spent(a)) \in Int /\ account[a].spend \in Nat
    BY SpendAndSum
  <2>10. /\ NetAtCreation(o) \in Nat /\ call[c].net \in Nat /\ NetAtCreation(o) <= call[c].net
         /\ order[o].discount = 0 => call[c].net = NetAtCreation(o)
    BY <2>4, NetOfPaid
  <2>11. Sum(Spent(a)') = Sum(Spent(a)) - NetAtCreation(o)
    <3> HIDE DEF Sum
    <3> QED BY <1>3, <1>7, <2>9, <2>10, <2>14
  <2>12. account'[a].spend = AtLeastZero(account[a].spend - call[c].net)
    BY <1>4, <1>7, <2>7
  <2>15. account'[a].spend <= Sum(Spent(a)')
    <3>1. account[a].spend <= Sum(Spent(a))
      BY DEF SpendIs
    <3> HIDE DEF Sum
    <3> QED BY <2>8, <2>9, <2>10, <2>11, <2>12, <3>1 DEF AtLeastZero
  <2>16. ASSUME Exact(a)' PROVE account'[a].spend = Sum(Spent(a)')
    <3>1. account[a].spend = Sum(Spent(a))
      BY <2>16 DEF SpendIs
    <3>2. order'[o].discount = 0
      <4>1. n \in ledger'
        BY <1>1 DEF Commits
      <4>2. n.key = o /\ n.type = "REFUND_REVERSE_EARN" /\ n.source = "FULL_REFUND"
        BY <2>1, <2>6, UndoneFields DEF TakenBack, Find
      <4> QED BY <2>1, <2>16, <4>1, <4>2 DEF Exact, Find
    <3>3. order[o].discount = 0
      BY <3>2 DEF CommitsRefund, Rollback
    <3>4. call[c].net = NetAtCreation(o)
      BY <2>10, <3>3
    <3> HIDE DEF Sum
    <3> QED BY <2>8, <2>9, <2>10, <2>11, <2>12, <3>1, <3>4 DEF AtLeastZero
  <2> HIDE DEF Sum
  <2> QED BY <2>15, <2>16 DEF SpendIs
<1> QED BY <1>5, <1>6, <1>7

SpendKept == \A a \in Accounts \ lost : Plain(a) => SpendIs(a)

LEMMA SpendKeptIs == SpendKept <=> SpendIsEarned
<1>1. \A a : Plain(a) <=> \A o \in Orders : Owner[o] = a =>
                               o \notin noticed /\ amendments[o].ids \subseteq {"FULL_REFUND"}
  BY DEF Plain, Amended
<1>2. \A a \in Accounts : SpendIs(a) <=>
        LET earned == Sum({e \in ledger : e.account = a /\ e.type \in
                            {"TOPUP_PURCHASED", "EARN_ON_PURCHASE", "REFUND_REVERSE_EARN"}})
        IN  /\ account[a].spend <= earned
            /\ (\A o \in Orders :
                  /\ Owner[o] = a
                  /\ Find(o, "REFUND_REVERSE_EARN", "FULL_REFUND") # {}
                  => order[o].discount = 0)
               => account[a].spend = earned
  <2> HIDE DEF Sum
  <2> QED BY DEF SpendIs, Exact, Spent, SpendTypes
<1> HIDE DEF Sum
<1> QED BY <1>1, <1>2 DEF SpendKept, SpendIsEarned

SpendInv ==
    /\ Typed /\ Placed /\ Kept /\ LedgerExplainsRows /\ RefundsUndoEntries
    /\ SettledOnce /\ RefundsTakeNet /\ SpendKept

LEMMA SpendInductive == SpendInv /\ [Next]_vars => SpendInv'
<1> SUFFICES ASSUME SpendInv, [Next]_vars PROVE SpendInv'
  OBVIOUS
<1>1. Typed /\ Placed /\ Kept /\ LedgerExplainsRows /\ RefundsUndoEntries /\ SettledOnce
      /\ RefundsTakeNet /\ SpendKept
  BY DEF SpendInv
<1>2. /\ Typed' /\ Placed' /\ Kept' /\ LedgerExplainsRows' /\ RefundsUndoEntries'
      /\ SettledOnce' /\ RefundsTakeNet'
  BY <1>1, TypedInductive, PlacedInductive, KeptInductive, UndoingInductive,
     SettledOnceInductive, RefundsTakeNetInductive
<1>3. ASSUME NEW a \in Accounts, a \notin lost', Plain(a)' PROVE SpendIs(a)'
  <2>1. Plain(a)
    BY <1>1, <1>3, PlainBefore
  <2>4. Exact(a)' => Exact(a)
    BY <1>1, ExactBefore
  <2>2. CASE WritesNothing
    <3>1. SpendIs(a)
      BY <1>1, <1>3, <2>1, <2>2 DEF SpendKept, WritesNothing
    <3>2. Spent(a)' = Spent(a) /\ account' = account
      BY <2>2 DEF Spent, WritesNothing
    <3> HIDE DEF Sum
    <3> QED BY <2>4, <3>1, <3>2 DEF SpendIs
  <2>3. ASSUME NEW c \in Calls,
               \/ CommitsSettlement(c) \/ CommitsTopup(c) \/ CommitsAdjustment(c)
               \/ CommitsRefund(c) \/ CommitsAmendment(c) \/ Creates(c)
        PROVE  SpendIs(a)'
    <3>1. a \notin lost
      BY <1>3, <2>3 DEF CommitsSettlement, CommitsTopup, CommitsAdjustment, AdjustsManually,
            CommitsRefund, RollsBack, CommitsAmendment, AppliesAmendment, Creates, Commits
    <3>2. SpendIs(a)
      BY <1>1, <1>3, <2>1, <3>1 DEF SpendKept
    <3> QED
      BY <1>1, <1>2, <1>3, <2>1, <2>3, <2>4, <3>2, SettlementSpends, TopupSpends, OthersSpend,
         RefundSpends
  <2> QED BY <2>2, <2>3, StepCommits
<1> QED BY <1>2, <1>3 DEF SpendInv, SpendKept

LEMMA SpendInitially == Init => SpendInv
<1> SUFFICES ASSUME Init PROVE SpendInv
  OBVIOUS
<1>1. Typed /\ Placed /\ Kept /\ LedgerExplainsRows
  BY TypedInitially, TakenInitially, KeptInitially
<1>2. /\ ledger = {} /\ owed = {} /\ account = [a \in Accounts |-> EmptyRow]
      /\ \A c \in Calls : call[c].op = "none"
      /\ \A o \in Orders : order[o].status = "absent"
  BY DEF Init, LedgerInit, IdleCall, AbsentOrder
<1>3. RefundsUndoEntries /\ SettledOnce /\ RefundsTakeNet
  BY <1>2 DEF RefundsUndoEntries, SettledOnce, OneSettles, Settling, SettleCalls, Earned, Find,
              RefundsTakeNet, Exists
<1>4. SpendKept
  <2>1. \A a : Spent(a) = {}
    BY <1>2 DEF Spent
  <2> HIDE DEF Sum
  <2>2. \A a \in Accounts : account[a].spend = 0 /\ Sum(Spent(a)) = 0
    BY <1>2, <2>1, SumEmpty DEF EmptyRow
  <2> QED BY <2>2 DEF SpendKept, SpendIs
<1> QED BY <1>1, <1>3, <1>4 DEF SpendInv

(* The lifetime spend that decides a member's tier is never more than what  *)
(* was topped up and what was earned on and not taken back, and exactly that *)
(* until a refund also takes off a discount of the counter or of a promotion *)
(* that settling never added: settling adds to the spend each time, and a    *)
(* refund that took too much is cut off at zero.                             *)
THEOREM SettlementSpendIsEarned == Spec => []SpendIsEarned
<1>1. SpendInv => SpendIsEarned
  BY SpendKeptIs DEF SpendInv
<1> QED
  BY <1>1, SpendInitially, SpendInductive, PTL DEF Spec
=============================================================================
