SPECIFICATION FairSpec
INVARIANTS TypeOK RateIsBounded
PROPERTIES RetriesAreTransient RetryAfterIsHonored GetEnds
CONSTANTS
    Rps = 2
    Interval = 2
    MaxRetries = 3
    RetryBase = 1
    RetryAfters = {0, 1, 3}
CHECK_DEADLOCK TRUE
