\* A provider that answers a request with the JSON-RPC error of a rate limit.
CONSTANTS
    Callers = {c1}
    Requests = 1
    Period = 1
    MaxAge = 2
    MaxRetries = 1
    BaseDelay = 2
    MaxDelay = 4
    Milli = 2
    Replies = {"ok", "limited"}
    MaxCalls = 1
SPECIFICATION RetrySpec
INVARIANT TransientIsRetried
