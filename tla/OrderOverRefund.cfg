SPECIFICATION Spec
CONSTANTS
    member = member
    friend = friend
    counter = counter
    web = web
    topup = topup
    adjust = adjust
    Nobody = Nobody
    Accounts = {member}
    Referrer <- MCReferrer
    Orders = {counter}
    Requests = {}
    Payload <- MCPayload
    AmendmentIds = {a1}
    Calls = {c1}
    Faults = {}
    Owner <- MCOwner
    InStore = {counter}
    Couriered = {}
    Price = 2
    CouponWorth = 1
    Wishes <- MCWishes
    Changes <- MCChanges
    Announced = {}
    MovedTo = {}
INVARIANT RefundsAreCapped
CHECK_DEADLOCK FALSE
