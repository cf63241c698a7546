SPECIFICATION FairSpec
CONSTANTS
    Tasks = {t1, t2, t3}
    MaxAttempts = 2
    MaxCalls = 2
    MaxUnanswered = 2
INVARIANTS
    TypeOK
    NothingIsForgotten
PROPERTY
    Settles
