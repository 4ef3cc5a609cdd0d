\* Windows of up to four blocks in chunks of two, two serial attempts.
CONSTANTS
    Logs = {1, 2, 3, 4}
    BlockOf <- Blocks
    TxOf <- OneTxEach
    Readable = {2, 4}
    Ranges <- SomeRanges
    U64Max = 3
    ChunkSize = 2
    MaxAttempts = 2
    Permissive = TRUE
SPECIFICATION FairRetrievalSpec
INVARIANTS AccountedOnce CountersAgree HistoryIsWhole OneAtATime
PROPERTY EveryCallReturns
