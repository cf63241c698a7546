---------------------------- MODULE LoyaltyLedger ----------------------------
(***************************************************************************)
(* The points, the store balance and the lifetime spend of the members     *)
(* (apps/api/src/loyalty): one account row each, and a ledger that says     *)
(* why.  Every operation is one READ COMMITTED transaction that reads the  *)
(* row, then waits for its lock, and writes what it computed from the row  *)
(* as it was read.  An operation that also concerns the referrer holds the *)
(* member's row while it does the same with the referrer's.                *)
(*                                                                         *)
(* A call is one transaction.  Its read is one step, its commit another,   *)
(* and taking the member's lock and reading the referrer a step between    *)
(* them.  One unit of money is one point; amounts are small numbers.       *)
(***************************************************************************)
EXTENDS Integers, FiniteSets, FiniteSetsExt

CONSTANTS
    Accounts,
    Nobody,
    Referrer,      \* whose link a member followed, or Nobody
    Orders,
    Requests,      \* idempotency keys of top-ups and manual adjustments
    Payload,       \* of each request its operation, member and amounts
    AmendmentIds,
    Calls,         \* transactions in progress at the same time
    Faults

ASSUME LedgerAssumption ==
    /\ Nobody \notin Accounts \cup Orders
    /\ Referrer \in [Accounts -> Accounts \cup {Nobody}]
    /\ \A a \in Accounts : Referrer[a] # a
    /\ Orders \cap Requests = {}
    /\ {"ORDER", "FULL_REFUND", "TOPUP", "MANUAL"} \cap AmendmentIds = {}
    /\ Payload \in [Requests -> [op : {"topup", "manual"}, account : Accounts,
                                 amount : Int, bonus : Nat]]
    /\ \A r \in Requests : Payload[r].op = "topup" => Payload[r].amount > 0
    /\ Faults \subseteq {"crash", "abort"}

VARIABLES
    account,  \* the rows of LoyaltyAccount
    ledger,   \* the rows of LoyaltyLedger
    call,     \* the transaction each call is in
    lost      \* accounts a commit wrote without having read the last write

ledgerVars == <<account, ledger, call, lost>>

Rows == [points : Int, balance : Int, spend : Nat]

EmptyRow == [points |-> 0, balance |-> 0, spend |-> 0]

Types == {"REDEEM_ON_ORDER", "EARN_ON_PURCHASE", "REFERRAL_BONUS",
          "REFUND_REVERSE_EARN", "REFUND_RETURN_REDEEM",
          "REFUND_REVERSE_REFERRAL", "TOPUP_PURCHASED", "ADJUSTMENT_MANUAL",
          "AMEND_RETURN_REDEEM", "AMEND_EARN_ADJUST", "AMEND_REFERRAL_ADJUST"}

Sources == {"ORDER", "FULL_REFUND", "TOPUP", "MANUAL"} \cup AmendmentIds

Entries == [account : Accounts, key : Orders \cup Requests, type : Types,
            source : Sources, target : {"POINTS", "BALANCE"}, delta : Int]

Entry(a, key, type, source, target, delta) ==
    [account |-> a, key |-> key, type |-> type, source |-> source,
     target |-> target, delta |-> delta]

Operations == {"none", "create", "settle", "rollback", "refund", "amend",
               "topup", "manual"}

(* at: "order" has read the order it amends and not yet the member's row,  *)
(* "read" waits for that row, "referrer" holds it and waits for the        *)
(* referrer's, "record" has committed the rollback of a refund.            *)
CallSteps == {"idle", "order", "read", "referrer", "record"}

NoAsk == [bonus |-> 0]

IdleCall == [at |-> "idle", op |-> "none", key |-> Nobody, account |-> Nobody,
             own |-> EmptyRow, ref |-> 0, net |-> 0, ask |-> NoAsk]

LedgerInit ==
    /\ account = [a \in Accounts |-> EmptyRow]
    /\ ledger = {}
    /\ call = [c \in Calls |-> IdleCall]
    /\ lost = {}

-----------------------------------------------------------------------------

Find(key, type, source) ==
    {e \in ledger : e.key = key /\ e.type = type /\ e.source = source}

Sum(entries) == MapThenSumSet(LAMBDA e : e.delta, entries)

\* What the one entry brings, if there is one.
Delta(entries) ==
    IF entries = {} THEN 0 ELSE (CHOOSE e \in entries : TRUE).delta

OfTarget(entries, target) == {e \in entries : e.target = target}

Total(entries, target) == Sum(OfTarget(entries, target))

(* The transaction reads the member's row, and waits for its lock.  A call *)
(* that finds nobody before it reads and commits in two adjacent steps.    *)
Starts(c, op, key, a, net, ask) ==
    /\ call[c].at = "idle"
    /\ call' = [call EXCEPT ![c] =
         [at |-> "read", op |-> op, key |-> key, account |-> a,
          own |-> account[a], ref |-> 0, net |-> net, ask |-> ask]]

\* Another transaction holds the row of a.
Locked(a, c) ==
    \E d \in Calls \ {c} : call[d].at = "referrer" /\ call[d].account = a

(* Every entry of an order lies on its member's account or the referrer's, *)
(* and is written under the member's lock: what the transaction looks up   *)
(* in the ledger after it has the lock stays true until it commits.        *)
LocksOwn(c, refs) ==
    /\ call[c].at = "read"
    /\ ~Locked(call[c].account, c)
    /\ \E e \in refs :
         call' = [call EXCEPT ![c].at = "referrer",
                              ![c].ref = account[e.account].points]
    /\ UNCHANGED <<account, ledger, lost>>

HasLocks(c, refs) ==
    IF refs = {}
    THEN call[c].at = "read" /\ ~Locked(call[c].account, c)
    ELSE /\ call[c].at = "referrer"
         /\ \A e \in refs : ~Locked(e.account, c)

(* The columns of the member's row that the update sets are computed from  *)
(* the row as it was read; the others keep what they hold.                 *)
Commits(c, own, refs, columns, points, balance, spend) ==
    LET a == call[c].account
        From(column) == IF column \in columns THEN call[c].own[column]
                        ELSE account[a][column]
    IN  /\ HasLocks(c, refs)
        /\ ledger' = ledger \cup own \cup refs
        /\ account' = [b \in Accounts |->
             IF b = a
             THEN [points  |-> From("points") + points,
                   balance |-> From("balance") + balance,
                   spend   |-> IF "spend" \in columns THEN spend
                               ELSE account[a].spend]
             ELSE IF \E e \in refs : e.account = b
             THEN [account[b] EXCEPT !.points = call[c].ref + Delta(refs)]
             ELSE account[b]]
        /\ lost' = lost
             \cup {b \in {a} : \E column \in columns :
                                 call[c].own[column] # account[a][column]}
             \cup {e.account : e \in {e \in refs :
                                 call[c].ref # account[e.account].points}}

Ends(c) == call' = [call EXCEPT ![c] = IdleCall]

(* A statement of the transaction fails, or the database ends it to break  *)
(* a deadlock: nothing it did remains.                                     *)
Abort(c) ==
    /\ "abort" \in Faults
    /\ call[c].at # "idle"
    /\ Ends(c)
    /\ UNCHANGED <<account, ledger, lost>>

Smaller(m, n) == IF m <= n THEN m ELSE n

AtLeastZero(n) == IF n > 0 THEN n ELSE 0

-----------------------------------------------------------------------------
(* settleOnPaid: earns once for an order, but adds to the spend each time. *)
(* What the order redeems was entered when it was created.                 *)

SettleStarts(c, o, a, net) == Starts(c, "settle", o, a, net, NoAsk)

PaidByBalance(o) ==
    -Delta(OfTarget(Find(o, "REDEEM_ON_ORDER", "ORDER"), "BALANCE"))

Earnings(c) ==
    LET k == call[c]
    IN  IF k.net > 0 /\ Find(k.key, "EARN_ON_PURCHASE", "ORDER") = {}
        THEN {Entry(k.account, k.key, "EARN_ON_PURCHASE", "ORDER", "POINTS", k.net)}
        ELSE {}

ReferralBonus(c) ==
    LET k == call[c]
        amount == AtLeastZero(k.net - PaidByBalance(k.key))
    IN  IF /\ amount > 0
           /\ Referrer[k.account] # Nobody
           /\ Find(k.key, "REFERRAL_BONUS", "ORDER") = {}
        THEN {Entry(Referrer[k.account], k.key, "REFERRAL_BONUS", "ORDER",
                    "POINTS", amount)}
        ELSE {}

Settles(c) ==
    /\ call[c].op = "settle"
    /\ \/ LocksOwn(c, ReferralBonus(c))
       \/ /\ Commits(c, Earnings(c), ReferralBonus(c), {"points", "spend"},
                     Delta(Earnings(c)), 0, call[c].own.spend + call[c].net)
          /\ Ends(c)

-----------------------------------------------------------------------------
(* rollbackOnRefund: the earning and the referral bonus are taken back and *)
(* what was redeemed is returned, each once.                               *)

RollbackStarts(c, op, o, a, net, ask) == Starts(c, op, o, a, net, ask)

\* Mutant: what was undone before is undone again.
UndoneAgain(o, type, undo) ==
    {[e EXCEPT !.type = undo, !.source = "FULL_REFUND", !.delta = -e.delta] :
        e \in Find(o, type, "ORDER")}

\* Mutant: store balance is returned as points.
UndoneInPoints(o, type, undo) ==
    {[e EXCEPT !.type = undo, !.source = "FULL_REFUND", !.delta = -e.delta,
               !.target = "POINTS"] :
        e \in {e \in Find(o, type, "ORDER") : Find(o, undo, "FULL_REFUND") = {}}}

Undone(o, type, undo) ==
    {[e EXCEPT !.type = undo, !.source = "FULL_REFUND", !.delta = -e.delta] :
        e \in {e \in Find(o, type, "ORDER") :
                \A u \in Find(o, undo, "FULL_REFUND") : u.target # e.target}}

TakenBack(c) == Undone(call[c].key, "EARN_ON_PURCHASE", "REFUND_REVERSE_EARN")

Returned(c) == Undone(call[c].key, "REDEEM_ON_ORDER", "REFUND_RETURN_REDEEM")

BonusTakenBack(c) ==
    Undone(call[c].key, "REFERRAL_BONUS", "REFUND_REVERSE_REFERRAL")

RollbackLocks(c) == LocksOwn(c, BonusTakenBack(c))

\* Mutant: the spend falls whether or not it ever rose.
SpendFallsAnyway(c) == AtLeastZero(call[c].own.spend - call[c].net)

SpendAfterRefund(c) ==
    IF TakenBack(c) = {} THEN call[c].own.spend
    ELSE AtLeastZero(call[c].own.spend - call[c].net)

RollsBack(c) ==
    Commits(c, TakenBack(c) \cup Returned(c), BonusTakenBack(c),
            {"points", "balance", "spend"},
            Delta(TakenBack(c)) + Delta(OfTarget(Returned(c), "POINTS")),
            Delta(OfTarget(Returned(c), "BALANCE")), SpendAfterRefund(c))

-----------------------------------------------------------------------------
(* applyAmendmentAdjustments: the share of the points redeemed that is     *)
(* returned, and the original earning and bonus scaled to the new amount.  *)

Scaled(delta, new, base) == (delta * new + (base \div 2)) \div base

Rescaled(c, type, adjustment) ==
    LET ask == call[c].ask
    IN  {[e EXCEPT !.type = adjustment, !.source = ask.id,
                   !.delta = Scaled(e.delta, ask.new, ask.base) - e.delta] :
          e \in {e \in Find(call[c].key, type, "ORDER") : ask.base > 0}}

PointsReturned(c) ==
    LET k == call[c]
    IN  IF k.ask.back = 0 THEN {}
        ELSE {Entry(k.account, k.key, "AMEND_RETURN_REDEEM", k.ask.id, "POINTS",
                    k.ask.back)}

(* The earning's adjustment is entered even when it is nothing: it marks   *)
(* the amendment as applied.                                               *)
EarningAdjusted(c) ==
    LET k == call[c]
        earned == Rescaled(c, "EARN_ON_PURCHASE", "AMEND_EARN_ADJUST")
    IN  IF earned # {} THEN earned
        ELSE {Entry(k.account, k.key, "AMEND_EARN_ADJUST", k.ask.id, "POINTS", 0)}

BonusAdjustment(c) ==
    {e \in Rescaled(c, "REFERRAL_BONUS", "AMEND_REFERRAL_ADJUST") : e.delta # 0}

AmendmentLocks(c) == LocksOwn(c, BonusAdjustment(c))

AppliesAmendment(c) ==
    LET k == call[c]
    IN  Commits(c, PointsReturned(c) \cup EarningAdjusted(c), BonusAdjustment(c),
                {"points", "spend"}, k.ask.back + Delta(EarningAdjusted(c)), 0,
                AtLeastZero(k.own.spend + k.ask.new - k.ask.base))

-----------------------------------------------------------------------------
(* applyTopup and adjustPointsManual: a request that finds its key used    *)
(* answers from the entry; one that finds it at the insert fails.          *)

Used(key) == \E e \in ledger : e.key = key

\* Another transaction has inserted the key and not committed yet.
Inserted(key, c) ==
    \E d \in Calls \ {c} : call[d].at = "referrer" /\ call[d].key = key

\* A key that comes again comes with what it came with before.
RequestStarts(c, key) ==
    /\ ~Used(key)
    /\ Starts(c, Payload[key].op, key, Payload[key].account, Payload[key].amount,
              [bonus |-> Payload[key].bonus])
    /\ UNCHANGED <<account, ledger, lost>>

Credits(c) ==
    LET k == call[c]
        OwnEntry(type, target, delta) ==
            {Entry(k.account, k.key, type, "TOPUP", target, delta)}
    IN  OwnEntry("TOPUP_PURCHASED", "BALANCE", k.net)
        \cup (IF k.ask.bonus > 0
              THEN OwnEntry("ADJUSTMENT_MANUAL", "POINTS", k.ask.bonus) ELSE {})

TopupBonus(c) ==
    LET k == call[c]
    IN  IF Referrer[k.account] # Nobody
        THEN {Entry(Referrer[k.account], k.key, "REFERRAL_BONUS", "TOPUP",
                    "POINTS", k.net)}
        ELSE {}

TopsUp(c) ==
    /\ call[c].op = "topup"
    /\ ~Used(call[c].key) /\ ~Inserted(call[c].key, c)
    /\ \/ LocksOwn(c, TopupBonus(c))
       \/ /\ Commits(c, Credits(c), TopupBonus(c), {"points", "balance", "spend"},
                     call[c].ask.bonus, call[c].net,
                     call[c].own.spend + call[c].net)
          /\ Ends(c)

AdjustsManually(c) ==
    LET k == call[c]
    IN  /\ k.op = "manual"
        /\ ~Used(k.key) /\ ~Inserted(k.key, c)
        /\ Commits(c, {Entry(k.account, k.key, "ADJUSTMENT_MANUAL", "MANUAL",
                             "POINTS", k.net)}, {}, {"points"}, k.net, 0, 0)
        /\ Ends(c)

DuplicateFails(c) ==
    /\ call[c].op \in {"topup", "manual"}
    /\ Used(call[c].key)
    /\ Ends(c)
    /\ UNCHANGED <<account, ledger, lost>>

-----------------------------------------------------------------------------
(* A row is the sum of its entries, unless a commit wrote it without       *)
(* having read the last write.                                             *)
LedgerExplainsRows ==
    \A a \in Accounts \ lost :
      LET entries == {e \in ledger : e.account = a}
      IN  /\ account[a].points = Total(entries, "POINTS")
          /\ account[a].balance = Total(entries, "BALANCE")

(* An unlocked read may hand out points twice, but never store balance     *)
(* that the row does not hold.                                             *)
BalanceIsNeverNegative == \A a \in Accounts : account[a].balance >= 0

(* A refund undoes what the ledger says happened, and only that.           *)
RefundsUndoEntries ==
    \A u \in ledger :
      u.source = "FULL_REFUND" =>
        \E e \in ledger :
          /\ e.key = u.key /\ e.source = "ORDER"
          /\ e.account = u.account /\ e.target = u.target
          /\ e.delta = -u.delta
          /\ <<e.type, u.type>> \in
               {<<"EARN_ON_PURCHASE", "REFUND_REVERSE_EARN">>,
                <<"REDEEM_ON_ORDER", "REFUND_RETURN_REDEEM">>,
                <<"REFERRAL_BONUS", "REFUND_REVERSE_REFERRAL">>}
=============================================================================
