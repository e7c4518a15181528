\* Two calls, one of them restricted to one provider, race for one slot of each.
SPECIFICATION FairSpec
CONSTANTS
    c1 = c1
    p1 = p1
    p2 = p2
    Call = {c1, c2}
    Registry <- TwoProviders
    Permitted <- Restricted
    Excluded <- NoProvider
    Weight <- Rising
    Priority <- Rising
    MaxConcurrency <- Ones
    Strategies = {"weighted_round_robin", "least_outstanding", "least_latency", "priority_fallback"}
    SequencePeriod = 6
    FailureThreshold = 2
    Window = 1
    OpenDuration = 1
    HalfOpenProbes = 1
    MaxLag = 1
    None = None
INVARIANTS
    SlotsAreLeases
    ProbesHaveOwners
PROPERTY ProvidersReadmitted
