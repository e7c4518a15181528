\* Three callers of one channel, two of which may stop waiting.
SPECIFICATION FairChannelSpec
CONSTANTS
    Caller = {c1, c2, c3}
    Impatient = {c1, c2}
    MaxMessages = 4
    Nobody = Nobody
INVARIANTS
    OwnConfirmation
PROPERTY CallersReturn
CHECK_DEADLOCK FALSE
