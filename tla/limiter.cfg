\* Two calls of two API keys, two permits a bucket, three faults (a call that crashed and
\* left its permit behind stands in for a third).
SPECIFICATION FairLimiterSpec
CONSTANTS
    c1 = c1
    tenant = tenant
    k1 = k1
    k2 = k2
    Call = {c1, c2}
    Buckets <- TwoKeys
    Tokens <- Uneven
    RequestsPerMinute = 2
    TokensPerMinute = 2
    MaxConcurrent = 2
    ConcurrencyTTL = 2
    MinuteLength = 1
    MaxFaults = 3
INVARIANTS
    CounterCoversPermits
PROPERTY RoomAgain
