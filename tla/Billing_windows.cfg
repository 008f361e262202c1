\* Two requests, windows of two kinds that roll over and are voided.
SPECIFICATION WindowsSpec
CONSTANTS
    r1 = r1
    r2 = r2
    w1 = w1
    w2 = w2
    Requests = {r1, r2}
    Kinds = {"five_hour", "monthly"}
    MaxRows = 2
    MaxAttempts = 1
    Hold <- MCHold
    Limit <- MCLimit
    KeyLimit = 4
    Charges = {0, 3}
    Workers = {w1}
    AccountLease = FALSE
    Faults = {"crash"}
INVARIANTS
    HeldWindowsActive
    AggregatesAgree
CHECK_DEADLOCK FALSE
