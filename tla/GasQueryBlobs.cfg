\* A transaction with blobs is charged without them.
CONSTANTS
    t1 = t1  t2 = t2  j1 = j1  k1 = k1
    Keys = {k1}
    Jobs = {j1}
    KeyOf <- OneJob
    Tasks = {t1, t2}
    U64Max = 4
    Ranges <- MCRanges
    ChunkSize = 2
    FirstHead = 3
    PastHead = FALSE
    Degradable = FALSE
    ClearedKeys = {k1}
    ClearedBelow = {1, 2}
    WeiMax = 20
    TxsOf <- MCTxsOf
    NoFee = NoFee
SPECIFICATION GasSpec
INVARIANT BlobsAreCharged
