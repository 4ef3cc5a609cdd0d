\* A price calculator with two tokens, whose decimals may fail at every request.
CONSTANTS
    usdc = usdc  a = a  b = b
    Usdc = usdc
    Keys = {a, b}
    Jobs = {a, b}
    U64Max = 3
    Tokens = {usdc, a, b}
    Logs <- MCLogs
    ChunkSize = 2
    Ranges <- MCRanges
SPECIFICATION Spec
PROPERTIES IsRangeQuery NeverLostOnceCounted EveryCallReturns
