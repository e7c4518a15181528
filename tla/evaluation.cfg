\* One job, submitted and retried by two API calls, two workers, three faults of any kind.
SPECIFICATION FairSpec
CONSTANTS
    Job = {j1}
    Client = {c1, c2}
    Worker = {w1, w2}
    Api = api
    MaxAttempts = 2
    FaultKind = {"database", "source", "publish", "context", "channel", "crash"}
    MaxFaults = 3
    MaxCommands = 2
    None = None
INVARIANTS
    StatusHasEvidence
    WorkIsNotLost
PROPERTY JobsSettle
CHECK_DEADLOCK FALSE
