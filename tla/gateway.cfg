\* One idempotency key, an executing and a repeating submission, two attempts
\* over three providers, one store fault or crash.
SPECIFICATION FairSpec
CONSTANTS
    Handler = {h1, h2}
    Key = {k1}
    Payload = {p1, p2}
    Streamed = {p2}
    Provider = {a, b, c}
    MaxAttempts = 2
    CallResults <- AllResults
    Impatient = {h1}
    Cancellable = {k1}
    MaxFaults = 1
    None = None
INVARIANTS
    TypeOK
    RowInv
    SingleExecutor
    FactsMatchStatus
    OneSuccessfulAttempt
    AttemptsInOrder
    NoCapacityLeak
    ReportedSuccessIsDurable
PROPERTIES
    RefinesLifecycle
    HandlersReturn
    RequestSettles
    ReservationReleased
CHECK_DEADLOCK FALSE
