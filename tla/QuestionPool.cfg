SPECIFICATION FairSpec
CONSTANTS
    Lanes = {l1, l2, l3}
    Questions = 5
INVARIANT EveryQuestionOnce
PROPERTY KeepsPromise
PROPERTY PoolEnds
CHECK_DEADLOCK FALSE
