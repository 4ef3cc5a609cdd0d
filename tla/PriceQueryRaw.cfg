\* The raw swaps of a window, some of which lack their decimals.
CONSTANTS
    usdc = usdc  a = a  b = b
    Usdc = usdc
    Keys = {a, b}
    Jobs = {a, b}
    U64Max = 3
    Tokens = {usdc, a, b}
    Logs <- MCLogs
    ChunkSize = 2
    Ranges <- MCRanges
SPECIFICATION Spec
INVARIANT RawIsWhole
