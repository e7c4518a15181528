\* Two facts, two relays and two consumers; two faults of any kind.
SPECIFICATION MCFairSpec
CONSTANTS
    Fact = {f1, f2}
    UsageFact = {f1}
    Relay = {r1, r2}
    Consumer = {c1, c2}
    BatchSize = 2
    FaultKind = {"database", "publish", "group", "crash", "expiry"}
    MaxFaults = 2
    None = None
INVARIANTS
    EffectsAreAtomic
    PublishedIsInLog
    OffsetFollowsEffects
PROPERTIES
    RefinesDelivery
    FactsTakeEffect
CHECK_DEADLOCK FALSE
