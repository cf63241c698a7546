SPECIFICATION ReconciledSpec
CONSTANTS
    Payers = {p1, p2}
    Reconcilers = {r1}
    MaxAttempts = 2
    Mistaken = {2}
    Faults = {"crash", "lost", "mismatch", "refused"}
INVARIANTS
    OrderIsPaid
    OneOrder
    UsedIsNotFailed
PROPERTY
    LandedIsReconciled
