SPECIFICATION FairSpec
CHECK_DEADLOCK FALSE
CONSTANTS
    u1 = u1
    u2 = u2
    prize = prize
    birthday = birthday
    c1 = c1
    c2 = c2
    Users = {u1, u2}
    Programs = {prize, birthday}
    Distributions <- MCDistributions
    Trigger <- MCTrigger
    RequiredQuantity <- MCRequiredQuantity
    PerUserLimit <- MCPerUserLimit
    Limits <- MCLimits
    Calls = {c1, c2}
    Requests <- MCRequests
    MaxAttempts = 2
    LastDay = 3
    YearOf <- MCYearOf
    MaxUpdates = 1
    MaxFaults = 1
INVARIANTS
    IssuedIsCounted
    BirthdayOnceAYear
PROPERTIES
    ClaimsKeepLimits
    BirthdayIsKept
