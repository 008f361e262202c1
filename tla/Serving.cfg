\* Two requests that fail over between two accounts, next to the rest of the serving side.
SPECIFICATION ServingSpec
CONSTANTS
    r1 = r1  r2 = r2  a1 = a1  a2 = a2  cust = cust
    Customer = cust
    Accounts = {a1, a2}
    Limit <- MCLimit
    MaxSwitches = 0
    TTL = 2
    Requests = {r1, r2}
    Streams = {r1}
    Candidates <- MCCandidates
    MaxAttempts = 2
    MaxFaults = 0
INVARIANTS HeldWithinLimit   RoomsAgree
PROPERTIES SlotsKept UpstreamKept
CHECK_DEADLOCK FALSE
