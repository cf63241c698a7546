SPECIFICATION FairLifecycleSpec
CONSTANTS
    Requestable = {"ACCEPT", "DENY"}
    Writable <- MCWritable
    Admissions = {"ACCEPT", "DENY"}
    Sent = {"ACCEPT"}
    Workers = {w1}
    Tokens = {t1}
    Lanes = {l1}
    NoToken = NoToken
    NoAction = NoAction
INVARIANTS
    PaidIsAccepted
    ImportIsAnswered
PROPERTIES
    ImplementsOutbox
    AcceptedIsPrinted
