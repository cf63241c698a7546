SPECIFICATION Spec
CHECK_DEADLOCK FALSE
CONSTANTS
    c1 = c1
    c2 = c2
    c3 = c3
    c4 = c4
    Orders = {o1, o2}
    Spellings = {"padded", "plain"}
    Months = {"june", "july"}
    ThisMonth = "july"
    Calls = {c1, c2, c3, c4}
    Operations <- MCOperations
    MaxEntries = 3
INVARIANTS
    ChangesAreChained
    RevenueIsBookedOnce
    AccrualIsComplete
PROPERTY LateChangesAreOld
