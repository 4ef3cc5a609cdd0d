\* Every builder of up to four calls, and two tasks over each pool it makes.
CONSTANTS
    Tasks = {a, b}
    eth = eth
    base = base
    Chains = {eth, base}
    BuilderCalls <- MCBuilderCalls
    PoolCalls <- MCPoolCalls
    None = None
    MaxSetters = 4
    MaxInserted = 4
SPECIFICATION PoolSpec
INVARIANTS BuiltAsConfigured FailsOnlyIfEmptied
PROPERTIES ReplacesOnlyNewcomers
