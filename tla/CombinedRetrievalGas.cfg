\* A transaction with two matching transfers.
CONSTANTS
    Logs = {1, 2}
    BlockOf <- OneBlock
    TxOf <- OneTx
    Readable = {1, 2}
    Ranges <- OneRange
    U64Max = 3
    ChunkSize = 2
    MaxAttempts = 0
    Permissive = FALSE
SPECIFICATION RetrievalSpec
INVARIANT GasOnce
