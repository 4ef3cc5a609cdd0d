\* What the documentation of the catch-up promises, and the handover breaks.
CONSTANTS
    t1 = t1
    t2 = t2
    sender = sender
    router = router
    other = other
    plain = plain
    paced = paced
    broken = broken
    none = none
    unset = unset
    U64Max = 4
    AmountMax = 3
    FirstHead = 1
    LogOf <- MCLogOf
    NoLog = NoLog
    Config <- MCConfig
    Calls = {}
    Feeds <- MCFeeds
    Unset = unset
SPECIFICATION Spec
INVARIANTS
    NothingIsLost
