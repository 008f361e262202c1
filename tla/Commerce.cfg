\* A replayed, a raising and a voiding correction of one request and one of another in
\* the same window, next to what is bought, by whom.
SPECIFICATION CommerceSpec
CONSTANTS
    r1 = r1  r2 = r2  d1 = d1  d2 = d2  d3 = d3  d4 = d4  d5 = d5
    o1 = o1  o2 = o2  o3 = o3  SyncOpen = SyncOpen  SyncNone = SyncNone  p1 = p1  p2 = p2
    Requests = {r1, r2}
    Hold <- MCHold
    Charges = {0, 1, 3}
    Deliveries = {d1, d2, d3, d4, d5}
    Command <- MCCommand
INVARIANTS CorrectionsNet  MoneyAgrees  ChainHolds
 
CHECK_DEADLOCK FALSE
