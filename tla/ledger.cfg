\* Three requests of one or two units, two units a day, three a month, a month end.
SPECIFICATION LedgerSpec
CONSTANTS
    Request = {r1, r2, r3}
    Amount = {1, 2}
    DailyLimit = 2
    MonthlyLimit = 3
    DaysPerMonth = 2
    LastDay = 2
    MaxInt = 7
    PriceUnit = 1
    Nobody = Nobody
INVARIANTS
    ReservationsWithinLimits
SYMMETRY Requests
CHECK_DEADLOCK FALSE
