\* Two admissions on a wallet with a top-up, a gift, a refund, reversals, a monthly
\* limit and the turn of a month, next to the tables beside the money.
SPECIFICATION MoneySpec
CONSTANTS
    r1 = r1  r2 = r2  m1 = m1  m2 = m2  m3 = m3
    NoOne = NoOne  NoLimit = NoLimit
    Requests = {r1, r2}
    Amount <- MCAmount
    Charges = {0, 3}
    Movements = {m1, m2, m3}
    Command <- MCCommand
    Limits = {4}
    MaxMonth = 2
INVARIANTS DebitsExact KeyedOnce UsageCountsOnce
PROPERTIES HoldsCovered WorkersAgree AppRowsHold
CHECK_DEADLOCK FALSE
