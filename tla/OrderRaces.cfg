SPECIFICATION Spec
CONSTANTS
    member = member
    friend = friend
    counter = counter
    web = web
    topup = topup
    adjust = adjust
    Nobody = Nobody
    Accounts = {member}
    Referrer <- MCReferrer
    Orders = {counter, web}
    Requests = {}
    Payload <- MCPayload
    AmendmentIds = {}
    Calls = {c1, c2}
    Faults = {}
    Owner <- MCOwner
    InStore = {counter}
    Couriered = {web}
    Price = 2
    CouponWorth = 1
    Wishes <- MCWishes
    Changes = {}
    Announced = {web}
    MovedTo = {"refunded"}
SYMMETRY Symmetry
INVARIANTS
    OrderTakesWhatItUses
    OneCourier
CHECK_DEADLOCK FALSE
