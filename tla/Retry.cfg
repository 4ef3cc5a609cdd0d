\* Two callers, two requests in three nanoseconds, one retry.
CONSTANTS
    Callers = {c1, c2}
    Requests = 2
    Period = 3
    MaxAge = 4
    MaxRetries = 1
    BaseDelay = 3
    MaxDelay = 4
    Milli = 2
    Replies = {"ok", "deserialization", "serialization"}
    MaxCalls = 2
SPECIFICATION FairRetrySpec
INVARIANTS RateIsBounded TransientIsRetried
PROPERTIES EveryCallReturns RetriesArePaced
