\* A settlement that lands after its payment was taken back.
SPECIFICATION PaymentsSpec
CONSTANTS
    r1 = r1  r2 = r2  d1 = d1  d2 = d2  d3 = d3  d4 = d4  d5 = d5
    o1 = o1  o2 = o2  o3 = o3  SyncOpen = SyncOpen  SyncNone = SyncNone  p1 = p1  p2 = p2
    Requests = {r1, r2}
    Hold <- MCHold
    Charges = {0, 3}
    Deliveries = {d1, d2, d3, d4, d5}
    Command <- MCCommand
INVARIANT AccessIsPaid
CHECK_DEADLOCK FALSE
