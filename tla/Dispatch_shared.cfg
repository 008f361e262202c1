\* A request whose first two candidates share an account.
SPECIFICATION SlotsSpec
CONSTANTS
    r1 = r1  r2 = r2  a1 = a1  a2 = a2  cust = cust
    Customer = cust
    Accounts = {a1, a2}
    Limit <- MCLimit
    MaxSwitches = 0
    TTL = 2
    Requests = {r1}
    Streams = {}
    Candidates <- MCSharedAccount
    MaxAttempts = 3
    MaxFaults = 0
INVARIANT GivesUpLast
CHECK_DEADLOCK FALSE
