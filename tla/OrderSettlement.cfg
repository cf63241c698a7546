SPECIFICATION Spec
CONSTANTS
    member = member
    friend = friend
    counter = counter
    web = web
    topup = topup
    adjust = adjust
    Nobody = Nobody
    Accounts = {member, friend}
    Referrer <- MCReferrer
    Orders = {counter}
    Requests = {topup, adjust}
    Payload <- MCPayload
    AmendmentIds = {a1}
    Calls = {c1, c2}
    Faults = {"crash", "abort"}
    Owner <- MCOwner
    InStore = {counter}
    Couriered = {}
    Price = 2
    CouponWorth = 1
    Wishes <- MCWishes
    Changes <- MCChanges
    Announced = {}
    MovedTo = {"making", "ready", "completed", "refunded"}
SYMMETRY Symmetry
INVARIANTS
    LedgerExplainsRows
    RefundsUndoEntries
    RefundReturnsPayment
    SpendIsEarned
CHECK_DEADLOCK FALSE
