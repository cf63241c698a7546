--------------------------- MODULE OrderSettlement ---------------------------
(***************************************************************************)
(* An order's money after it is placed: its creation with the coupon and   *)
(* the points it uses (orders.service.ts, createInternal), what its        *)
(* payment sets off (loyalty and the Uber Direct courier), its status,     *)
(* amendments and refunds.  The loyalty transactions are those of          *)
(* LoyaltyLedger; the other statements of a call that meet another call    *)
(* are steps of their own, with no lock on the order row.                  *)
(*                                                                         *)
(* An order stands for the key its creation is retried with.  Its items    *)
(* cost Price; fees and tax are left out.                                  *)
(***************************************************************************)
EXTENDS LoyaltyLedger

CONSTANTS
    Owner,      \* the member who places the order
    InStore,    \* orders placed at the counter; the others are web orders
    Couriered,  \* orders an Uber Direct courier delivers
    Price,
    CouponWorth,\* what the coupon takes off
    Wishes,     \* of each order the points, balance and coupon it may ask for,
                \* and what the counter and the promotions take off
    Changes,    \* what staff asks of an amendment
    Announced,  \* orders an ORDER_PAID notification comes in for
    MovedTo     \* bound: the statuses staff moves orders to

Statuses == {"absent", "paid", "making", "ready", "completed", "refunded"}

ASSUME SettlementAssumption ==
    /\ Owner \in [Orders -> Accounts]
    /\ InStore \subseteq Orders
    /\ Couriered \subseteq Orders \ InStore
    /\ Price \in Nat \ {0}
    /\ CouponWorth \in Nat
    /\ Wishes \in [Orders -> SUBSET [points : Nat, balance : Nat,
                                     coupon : BOOLEAN, discount : Nat]]
    /\ Announced \subseteq Orders
    /\ MovedTo \subseteq Statuses
    /\ Changes \subseteq [gross : Nat, extra : Nat, void : Nat, add : Nat]

Transitions == [absent |-> {}, paid |-> {"making", "refunded"},
                making |-> {"ready", "refunded"}, ready |-> {"completed"},
                completed |-> {"refunded"}, refunded |-> {}]

OrderRows == [status : Statuses,
              subtotal : Nat,
              after : Nat,         \* subtotalAfterDiscountCents
              redeem : Nat,        \* loyaltyRedeemCents
              coupon : BOOLEAN,    \* couponId is the coupon's
              discount : Nat,      \* posDiscount and automaticPromotion
              courier : BOOLEAN]   \* externalDeliveryId is set

AbsentOrder == [status |-> "absent", subtotal |-> 0, after |-> 0, redeem |-> 0,
                coupon |-> FALSE, discount |-> 0, courier |-> FALSE]

\* refunded: the FULL_REFUND row is CONFIRMED.
AmendmentRows == [ids : SUBSET (AmendmentIds \cup {"FULL_REFUND"}),
                  cash : Nat, back : Nat, refunded : BOOLEAN]

NoAmendment == [ids |-> {}, cash |-> 0, back |-> 0, refunded |-> FALSE]

VARIABLES
    order,
    coupon,      \* the order the one coupon is used by, or Nobody
    amendments,  \* OrderAmendment rows of an order, and their sums
    owed,        \* promises not awaited and events on the bus, in memory
    noticed,     \* orders an ORDER_PAID notification was recorded for
    deliveries   \* couriers Uber Direct was asked for

vars == <<ledgerVars, order, coupon, amendments, owed, noticed, deliveries>>

Origins == {"order", "notice", "status"}

Tasks == [order : Orders, from : Origins,
          step : {"announce", "settle", "rollback", "dispatch", "ask", "record"}]

Task(o, from, step) == [order |-> o, from |-> from, step |-> step]

Init ==
    /\ LedgerInit
    /\ order = [o \in Orders |-> AbsentOrder]
    /\ coupon = Nobody
    /\ amendments = [o \in Orders |-> NoAmendment]
    /\ owed = {}
    /\ noticed = {}
    /\ deliveries = [o \in Orders |-> 0]

Exists(o) == order[o].status # "absent"

\* totalCents: the delivery fee and the tax are left out.
TotalOf(o) == order[o].after

-----------------------------------------------------------------------------
(* createInternal.  A call that finds the order returns it.  The coupon is *)
(* looked at when the transaction begins and again when it is taken.       *)

CreateStarts(c, o, wish) ==
    /\ ~Exists(o)
    /\ wish.coupon => coupon = Nobody
    /\ Starts(c, "create", o, Owner[o], 0, wish)
    /\ UNCHANGED <<account, ledger, lost, order, coupon, amendments, owed,
                   noticed, deliveries>>

\* The discounts of a request or of an order row.
CouponCents(k) == IF k.coupon THEN CouponWorth ELSE 0

SubtotalAfterCoupon(k) == AtLeastZero(Price - k.discount - CouponCents(k))

\* reserveRedeemForOrder: no more than the row held when it was read.
Redeemed(c) ==
    Smaller(Smaller(call[c].ask.points, AtLeastZero(call[c].own.points)),
            SubtotalAfterCoupon(call[c].ask))

Payments(c) ==
    LET k == call[c]
        Payment(target, amount) ==
            IF amount = 0 THEN {}
            ELSE {Entry(k.account, k.key, "REDEEM_ON_ORDER", "ORDER", target, -amount)}
    IN  Payment("POINTS", Redeemed(c)) \cup Payment("BALANCE", k.ask.balance)

(* The balance is read again under the lock.  Points and balance are two   *)
(* entries with the same key: the second one violates the unique index.    *)
\* Mutant: the coupon is not looked at again.
CanCreateOnce(c) ==
    LET k == call[c]
    IN  /\ ~Exists(k.key)
        /\ k.ask.balance <= account[k.account].balance
        /\ k.ask.balance = 0 \/ Redeemed(c) = 0

CanCreate(c) ==
    LET k == call[c]
    IN  /\ ~Exists(k.key)
        /\ k.ask.balance <= account[k.account].balance
        /\ k.ask.balance = 0 \/ Redeemed(c) = 0
        /\ k.ask.coupon => coupon = Nobody

Creates(c) ==
    LET k == call[c]
    IN  /\ k.op = "create"
        /\ CanCreate(c)
        /\ Commits(c, Payments(c), {},
                   IF Redeemed(c) > 0 THEN {"points"} ELSE {},
                   -Redeemed(c), -k.ask.balance, 0)
        /\ Ends(c)
        /\ order' = [order EXCEPT ![k.key] =
             [status |-> "paid", subtotal |-> Price,
              after |-> SubtotalAfterCoupon(k.ask) - Redeemed(c),
              redeem |-> Redeemed(c), coupon |-> k.ask.coupon,
              discount |-> k.ask.discount, courier |-> FALSE]]
        /\ coupon' = IF k.ask.coupon THEN k.key ELSE coupon
        /\ owed' = owed \cup {Task(k.key, "order", "announce")}
        /\ UNCHANGED <<amendments, noticed, deliveries>>

\* Mutant: the order that is returned is announced again.
CreateFailsAloud(c) ==
    /\ call[c].op = "create"
    /\ HasLocks(c, {})
    /\ ~CanCreate(c)
    /\ Ends(c)
    /\ owed' = IF Exists(call[c].key)
               THEN owed \cup {Task(call[c].key, "order", "announce")} ELSE owed
    /\ UNCHANGED <<account, ledger, lost, order, coupon, amendments, noticed,
                   deliveries>>

\* The order exists meanwhile and is returned, or the request is refused.
CreateFails(c) ==
    /\ call[c].op = "create"
    /\ HasLocks(c, {})
    /\ ~CanCreate(c)
    /\ Ends(c)
    /\ UNCHANGED <<account, ledger, lost, order, coupon, amendments, owed,
                   noticed, deliveries>>

-----------------------------------------------------------------------------
(* handleOrderPaidSideEffects, and the notification that says the same.    *)

Listeners(o, from) ==
    {Task(o, from, "settle")}
      \cup (IF o \in Couriered THEN {Task(o, from, "dispatch")} ELSE {})

Announce(o) ==
    /\ Task(o, "order", "announce") \in owed
    /\ coupon' = IF order[o].coupon /\ coupon = Nobody THEN o ELSE coupon
    /\ owed' = (owed \ {Task(o, "order", "announce")}) \cup Listeners(o, "order")
    /\ UNCHANGED <<ledgerVars, order, amendments, noticed, deliveries>>

RecordOrderPaidEvent(o) ==
    /\ o \in Announced
    /\ Exists(o)
    /\ o \notin noticed
    /\ noticed' = noticed \cup {o}
    /\ owed' = owed \cup Listeners(o, "notice")
    /\ UNCHANGED <<ledgerVars, order, coupon, amendments, deliveries>>

\* What the order came to when it was placed, after all its discounts.
NetAtCreation(o) == SubtotalAfterCoupon(order[o]) - order[o].redeem

\* The event carries the amounts of the new order, the notification none.
HandleOrderPaid(c, task) ==
    /\ task \in owed
    /\ task.step = "settle"
    /\ SettleStarts(c, task.order, Owner[task.order],
                    IF task.from = "order" THEN NetAtCreation(task.order)
                    ELSE order[task.order].after)
    /\ owed' = owed \ {task}
    /\ UNCHANGED <<account, ledger, lost, order, coupon, amendments, noticed,
                   deliveries>>

(* FulfillmentProcessor.onPaid: looks for a delivery, asks for one, writes *)
(* its identifier.                                                         *)
DispatchReads(task) ==
    /\ task \in owed
    /\ task.step = "dispatch"
    /\ owed' = (owed \ {task})
         \cup (IF order[task.order].courier THEN {} ELSE {[task EXCEPT !.step = "ask"]})
    /\ UNCHANGED <<ledgerVars, order, coupon, amendments, noticed, deliveries>>

DispatchAsks(task) ==
    /\ task \in owed
    /\ task.step = "ask"
    /\ \/ /\ deliveries' = [deliveries EXCEPT ![task.order] = @ + 1]
          /\ owed' = (owed \ {task}) \cup {[task EXCEPT !.step = "record"]}
       \/ /\ "abort" \in Faults
          /\ owed' = owed \ {task}
          /\ UNCHANGED deliveries
    /\ UNCHANGED <<ledgerVars, order, coupon, amendments, noticed>>

DispatchRecords(task) ==
    /\ task \in owed
    /\ task.step = "record"
    /\ order' = [order EXCEPT ![task.order].courier = TRUE]
    /\ owed' = owed \ {task}
    /\ UNCHANGED <<ledgerVars, coupon, amendments, noticed, deliveries>>

-----------------------------------------------------------------------------
(* updateStatusByInternalId: the write is guarded by the status read.  A   *)
(* refund starts the rollback and does not wait for it.                    *)
UpdateStatus(o, next) ==
    /\ next \in Transitions[order[o].status] \cap MovedTo
    /\ order' = [order EXCEPT ![o].status = next]
    /\ owed' = IF next = "refunded"
               THEN owed \cup {Task(o, "status", "rollback")} ELSE owed
    /\ UNCHANGED <<ledgerVars, coupon, amendments, noticed, deliveries>>

\* rollbackOnRefund knows of the coupon and the points, not of the discounts
\* of the counter and of the promotions.
NetOf(o) ==
    AtLeastZero(order[o].subtotal - CouponCents(order[o]) - order[o].redeem)

HandleRefunded(c, task) ==
    /\ task \in owed
    /\ task.step = "rollback"
    /\ RollbackStarts(c, "rollback", task.order, Owner[task.order],
                      NetOf(task.order), NoAsk)
    /\ owed' = owed \ {task}
    /\ UNCHANGED <<account, ledger, lost, order, coupon, amendments, noticed,
                   deliveries>>

(* createFullRefund of an in-store order: the checks and the rollback come *)
(* first, and the refund is recorded in a second transaction that checks   *)
(* again.                                                                  *)
FullRefundStarts(c, o) ==
    /\ o \in InStore
    /\ order[o].status \notin {"absent", "refunded"}
    /\ TotalOf(o) > 0
    /\ RollbackStarts(c, "refund", o, Owner[o], NetOf(o), [amount |-> TotalOf(o)])
    /\ UNCHANGED <<account, ledger, lost, order, coupon, amendments, owed,
                   noticed, deliveries>>

\* Mutant: a refund records itself first.
RollbackUnawaited(c) ==
    LET k == call[c]
    IN  /\ k.op \in {"rollback", "refund"}
        /\ \/ RollbackLocks(c)
           \/ k.op = "rollback" /\ RollsBack(c) /\ Ends(c)
           \/ /\ k.op = "refund" /\ k.at = "read"
              /\ call' = [call EXCEPT ![c].at = "record"]
              /\ UNCHANGED <<account, ledger, lost>>
        /\ UNCHANGED <<order, coupon, amendments, owed, noticed, deliveries>>

\* A refund goes on to its second transaction.
Rollback(c) ==
    LET k == call[c]
    IN  /\ k.op \in {"rollback", "refund"}
        /\ \/ RollbackLocks(c)
           \/ /\ RollsBack(c)
              /\ call' = [call EXCEPT ![c] =
                   IF k.op = "rollback" THEN IdleCall
                   ELSE [IdleCall EXCEPT !.at = "record", !.op = "refund",
                           !.key = k.key, !.account = k.account, !.ask = k.ask]]
        /\ UNCHANGED <<order, coupon, amendments, owed, noticed, deliveries>>

Recorded(o, id, cash, back) ==
    LET row == amendments[o]
    IN  [amendments EXCEPT ![o] =
           [row EXCEPT !.ids = @ \cup {id}, !.cash = @ + cash, !.back = @ + back]]

FullRefundRecords(c) ==
    LET o == call[c].key
    IN  /\ call[c].at = "record"
        /\ IF order[o].status # "refunded" /\ TotalOf(o) = call[c].ask.amount
           THEN /\ order' = [order EXCEPT ![o].status = "refunded"]
                /\ amendments' = [Recorded(o, "FULL_REFUND", call[c].ask.amount, 0)
                                    EXCEPT ![o].refunded = TRUE]
           ELSE UNCHANGED <<order, amendments>>
        /\ Ends(c)
        /\ UNCHANGED <<account, ledger, lost, coupon, owed, noticed, deliveries>>

\* Of a web order only the wish is recorded.
FullRefundIsNoted(o) ==
    /\ o \notin InStore
    /\ order[o].status \notin {"absent", "refunded"}
    /\ TotalOf(o) > 0
    /\ amendments' = Recorded(o, "FULL_REFUND", 0, 0)
    /\ UNCHANGED <<ledgerVars, order, coupon, owed, noticed, deliveries>>

-----------------------------------------------------------------------------
(* createAmendment, one transaction: what it reads of the order and of its *)
(* amendments is not locked, and decides everything it writes.  Cash goes  *)
(* back first, then the points the order had redeemed.                     *)

\* Rounded half up, as Math.round does.
Proportion(part, new, whole) ==
    IF whole = 0 THEN 0 ELSE (2 * part * new + whole) \div (2 * whole)

Refunded(o, change) ==
    LET cashLeft == AtLeastZero(TotalOf(o) - amendments[o].cash)
        pointsLeft == AtLeastZero(order[o].redeem - amendments[o].back)
        gross == Smaller(change.gross, cashLeft + pointsLeft)
        back == Smaller(pointsLeft, AtLeastZero(gross - cashLeft))
    IN  [cash |-> AtLeastZero(gross - back), back |-> back]

Repriced(o, change) ==
    LET row == order[o]
        subtotal == row.subtotal - Smaller(change.void, row.subtotal) + change.add
        discount == Proportion(AtLeastZero(row.subtotal - row.after),
                               subtotal, row.subtotal)
    IN  [row EXCEPT !.subtotal = subtotal, !.after = AtLeastZero(subtotal - discount)]

\* An amendment knows of the points only.
AmendmentBase(o) == AtLeastZero(order[o].subtotal - order[o].redeem)

AmendStarts(c, o, id, change) ==
    LET refund == Refunded(o, change)
        base == AmendmentBase(o)
    IN  /\ order[o].status \in {"paid", "making", "ready", "completed"}
        /\ \A p \in Orders : id \notin amendments[p].ids
        /\ \A d \in Calls : call[d].op = "amend" => call[d].ask.id # id
        /\ call[c].at = "idle"
        /\ call' = [call EXCEPT ![c] =
             [at |-> "order", op |-> "amend", key |-> o, account |-> Owner[o],
              own |-> EmptyRow, ref |-> 0, net |-> 0,
              ask |-> [id |-> id, cash |-> refund.cash, back |-> refund.back,
                       base |-> base,
                       new |-> AtLeastZero(base - refund.cash + change.extra),
                       items |-> change.void + change.add > 0,
                       subtotal |-> Repriced(o, change).subtotal,
                       after |-> Repriced(o, change).after]]]
        /\ UNCHANGED <<account, ledger, lost, order, coupon, amendments, owed,
                       noticed, deliveries>>

\* Without points to return or a new amount the account is left alone.
TouchesLoyalty(c) ==
    LET ask == call[c].ask IN ask.back > 0 \/ ask.base # ask.new

AmendReads(c) ==
    /\ call[c].at = "order"
    /\ TouchesLoyalty(c)
    /\ call' = [call EXCEPT ![c].at = "read",
                            ![c].own = account[call[c].account]]
    /\ UNCHANGED <<account, ledger, lost, order, coupon, amendments, owed,
                   noticed, deliveries>>

Amends(c) ==
    LET k == call[c]
        ask == k.ask
    IN  /\ k.op = "amend"
        /\ \/ /\ TouchesLoyalty(c)
              /\ AmendmentLocks(c)
              /\ UNCHANGED <<order, amendments>>
           \/ /\ IF TouchesLoyalty(c) THEN AppliesAmendment(c)
                 ELSE UNCHANGED <<account, ledger, lost>>
              /\ Ends(c)
              /\ amendments' = Recorded(k.key, ask.id, ask.cash, ask.back)
              /\ order' = IF ask.items
                          THEN [order EXCEPT ![k.key].subtotal = ask.subtotal,
                                             ![k.key].after = ask.after]
                          ELSE order
        /\ UNCHANGED <<coupon, owed, noticed, deliveries>>

-----------------------------------------------------------------------------
\* Transactions in progress roll back; promises and events are gone.
Crash ==
    /\ "crash" \in Faults
    /\ call' = [c \in Calls |-> IdleCall]
    /\ owed' = {}
    /\ UNCHANGED <<account, ledger, lost, order, coupon, amendments, noticed,
                   deliveries>>

OrderCall(c) ==
    \/ Creates(c) \/ CreateFails(c)
    \/ \E task \in owed : HandleOrderPaid(c, task) \/ HandleRefunded(c, task)
    \/ Rollback(c) \/ FullRefundRecords(c) \/ AmendReads(c) \/ Amends(c)
    \/ \E o \in Orders :
          \/ \E wish \in Wishes[o] : CreateStarts(c, o, wish)
          \/ FullRefundStarts(c, o)
          \/ \E id \in AmendmentIds, change \in Changes : AmendStarts(c, o, id, change)

LoyaltyCall(c) ==
    /\ \/ Settles(c) \/ TopsUp(c) \/ AdjustsManually(c)
       \/ DuplicateFails(c) \/ Abort(c)
       \/ \E key \in Requests : RequestStarts(c, key)
    /\ UNCHANGED <<order, coupon, amendments, owed, noticed, deliveries>>

Next ==
    \/ \E c \in Calls : OrderCall(c) \/ LoyaltyCall(c)
    \/ \E o \in Orders :
          \/ Announce(o) \/ RecordOrderPaidEvent(o) \/ FullRefundIsNoted(o)
          \/ \E next \in Statuses : UpdateStatus(o, next)
    \/ \E task \in owed :
          DispatchReads(task) \/ DispatchAsks(task) \/ DispatchRecords(task)
    \/ Crash

Spec == Init /\ [][Next]_vars

-----------------------------------------------------------------------------
AmendAsks == [id : AmendmentIds, cash : Nat, back : Nat, base : Nat, new : Nat,
              items : BOOLEAN, subtotal : Nat, after : Nat]

Asks == {NoAsk} \cup [bonus : Nat] \cup [amount : Nat] \cup AmendAsks
          \cup [points : Nat, balance : Nat, coupon : BOOLEAN, discount : Nat]

CallRecords ==
    [at : CallSteps, op : Operations, key : Orders \cup Requests \cup {Nobody},
     account : Accounts \cup {Nobody}, own : Rows, ref : Int, net : Int, ask : Asks]

(* Every variable has its type; spend never goes below zero.               *)
TypeOK ==
    /\ account \in [Accounts -> Rows]
    /\ ledger \subseteq Entries
    /\ call \in [Calls -> CallRecords]
    /\ lost \subseteq Accounts
    /\ order \in [Orders -> OrderRows]
    /\ coupon \in Orders \cup {Nobody}
    /\ amendments \in [Orders -> AmendmentRows]
    /\ owed \subseteq Tasks
    /\ noticed \subseteq Orders
    /\ deliveries \in [Orders -> Nat]

(* An order and what it takes commit together: points and balance have an  *)
(* entry for it exactly as the order says, and the coupon is used by the   *)
(* one order that carries it.                                              *)
OrderTakesWhatItUses ==
    \A o \in Orders :
      /\ \A e \in ledger : e.key = o => Exists(o)
      /\ OfTarget(Find(o, "REDEEM_ON_ORDER", "ORDER"), "POINTS") =
           IF order[o].redeem = 0 THEN {}
           ELSE {Entry(Owner[o], o, "REDEEM_ON_ORDER", "ORDER", "POINTS",
                       -order[o].redeem)}
      /\ order[o].coupon <=> coupon = o

(* When a full refund is on record, the points and the balance the order   *)
(* was paid with have been returned.                                       *)
RefundReturnsPayment ==
    \A o \in Orders :
      amendments[o].refunded =>
        /\ order[o].status = "refunded"
        /\ Undone(o, "REDEEM_ON_ORDER", "REFUND_RETURN_REDEEM") = {}

(* A second courier is asked for only when a notification announces the    *)
(* order again.                                                            *)
OneCourier == \A o \in Orders \ noticed : deliveries[o] <= 1

(* The lifetime spend never exceeds what was topped up and what was earned *)
(* on and not taken back, as long as nothing was lost, announced twice or  *)
(* amended.  It is exactly that until an order with a discount of the      *)
(* counter or of a promotion is refunded: settling adds what is left after *)
(* all discounts, and the refund takes those two off as well.              *)
SpendIsEarned ==
    \A a \in Accounts \ lost :
      (\A o \in Orders : Owner[o] = a => /\ o \notin noticed
                                        /\ amendments[o].ids \subseteq {"FULL_REFUND"})
      => LET earned == Sum({e \in ledger : e.account = a /\ e.type \in
                             {"TOPUP_PURCHASED", "EARN_ON_PURCHASE", "REFUND_REVERSE_EARN"}})
         IN  /\ account[a].spend <= earned
             /\ (\A o \in Orders :
                   /\ Owner[o] = a
                   /\ Find(o, "REFUND_REVERSE_EARN", "FULL_REFUND") # {}
                   => order[o].discount = 0)
                => account[a].spend = earned

(* The cash returned for an order is not more than was paid for it.        *)
RefundsAreCapped == \A o \in Orders : amendments[o].cash <= Price
=============================================================================
