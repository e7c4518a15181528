\* Two requests of the whole daily budget on one day.
SPECIFICATION LedgerSpec
CONSTANTS
    Request = {r1, r2}
    Amount = {1}
    DailyLimit = 1
    MonthlyLimit = 0
    DaysPerMonth = 1
    LastDay = 0
    MaxInt = 7
    PriceUnit = 1
    Nobody = Nobody
INVARIANT SpendingWithinDay
CHECK_DEADLOCK FALSE
