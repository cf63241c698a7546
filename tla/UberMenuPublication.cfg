SPECIFICATION FairSpec
CONSTANTS
    Items = {dish}
    Options = {}
    Settable = {"own"}
    NoItem = NoItem
    Legacy = {dish}
    Dark = {dish}
    Donor <- MCDonor
    Publishers = {p1}
    Admins = {a1}
    LastDay = 1
    MaxChanges = 2
    MaxVersions = 2
CHECK_DEADLOCK FALSE
INVARIANTS
    SucceededWasUploaded
    RestoreSticks
    SoldOutIsSuspended
PROPERTIES
    LossesAreAcknowledged
    PublicationsEnd
