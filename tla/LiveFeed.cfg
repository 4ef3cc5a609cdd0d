\* Every API of src/events on a chain that grows from block 1 to the last one,
\* with a subscription open beside the scans.
CONSTANTS
    t1 = t1
    t2 = t2
    sender = sender
    router = router
    other = other
    plain = plain
    paced = paced
    broken = broken
    none = none
    unset = unset
    U64Max = 4
    AmountMax = 3
    FirstHead = 1
    LogOf <- MCLogOf
    NoLog = NoLog
    Config <- MCConfig
    Calls <- MCCalls
    Feeds <- MCFeeds
    Unset = unset
SPECIFICATION FairSpec
INVARIANTS
    OnlyFailedChunksAreMissing
    AnswerMatchesChain
    OnlyTheHandoverIsLost
PROPERTIES
    EveryScanEnds
