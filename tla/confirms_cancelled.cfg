\* API calls, whose clients may disconnect.
SPECIFICATION ChannelSpec
CONSTANTS
    Caller = {c1, c2}
    Impatient = {c1}
    MaxMessages = 2
    Nobody = Nobody
INVARIANT SuccessIsAcknowledged
CHECK_DEADLOCK FALSE
