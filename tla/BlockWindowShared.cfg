\* Daily and range calls on one calculator, over a growing chain.
CONSTANTS
    Tasks = {t1, t2}
    NoTask = NoTask
    Days = {0, 1}
    DayLength = 2
    Ranges <- BorderRange
    EagerHead = FALSE
    Monotonic = TRUE
    ReorgDepth = 0
    MaxTime = 4
    MaxBlocks = 4
SPECIFICATION Spec
SYMMETRY Symmetry
INVARIANTS TypeOK PersistedIsFinal AnswerIsExact
PROPERTIES PersistedNeverChanges HeadNeverGoesBack
