\* What must happen to holds, messages, slots and subscriptions.
SPECIFICATION LedgerSpec
CONSTANTS
    r1 = r1
    r2 = r2
    w1 = w1
    w2 = w2
    SyncOpen = SyncOpen
    SyncNone = SyncNone
    Requests = {r2}
    Kinds = {"five_hour"}
    MaxRows = 2
    MaxAttempts = 2
    Hold <- MCHold
    Limit <- MCLimit
    KeyLimit = 4
    Charges = {0, 1, 3}
    Workers = {w1, w2}
    AccountLease = TRUE
    Faults = {"crash", "dberror"}
INVARIANTS
    RecoverySound
    ExecutedOnce
PROPERTIES
    TerminalFinal
    HoldsResolve
    
    BookedExactlyOnce
    SlotsComeBack
    EndReaches
CHECK_DEADLOCK FALSE
