\* Two requests that contend for one window, and the other gates of an admission.
SPECIFICATION AdmissionSpec
CONSTANTS
    r1 = r1  r2 = r2  w1 = w1  w2 = w2
    Requests = {r1, r2}
    Kinds = {"five_hour"}
    MaxRows = 1
    MaxAttempts = 1
    Hold <- MCHoldSame
    Limit <- MCLimit
    KeyLimit = 5
    Charges = {1, 3}
    Workers = {w1}
    AccountLease = FALSE
    Faults = {"stall", "suspend"}
INVARIANTS WithinLimit  PricesHold
PROPERTIES HoldsCloseOnce PolicyRules  RatesHold CatalogSound
CHECK_DEADLOCK FALSE
