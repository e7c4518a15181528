\* Each kind of process, one request at a time, a development key and a created one.
SPECIFICATION FairSpec
CONSTANTS
    KeyID = {"development", "created"}
    DevKey = "development"
    DevSecret = {"d1", "d2"}
    Secret = {"d1", "d2", "generated"}
    PrefixOf <- MCPrefixOf
    Scope = {"chat:write", "requests:read"}
    None = None
    Handler = {h1}
    Kind = {"gateway", "evaluation-api", "outbox-relay", "audit-consumer", "evaluation-worker"}
    Needed = "chat:write"
INVARIANTS
    DrainedBeforeClose
    RevokedKeysStayOut
PROPERTIES
    ReadyMeansWorking
    ProcessExits
CHECK_DEADLOCK FALSE
