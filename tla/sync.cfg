SPECIFICATION FairSpec
CONSTANTS
    t1 = t1
    t2 = t2
    t3 = t3
    NoTask = NoTask
    Tasks <- MCTasks
    Kinds <- BothKinds
    Calls <- AllCalls
    TaskMayFail = TRUE
    PostMayFail = TRUE
    ForeignCancel = TRUE
INVARIANTS
    TypeOK
    NoUseAfterFree
    SuccessMeansAllRan
    StatusTellsFailure
    ReleasedOrExcused
PROPERTIES
    KeepsPromise
    WaitReturns
    EventuallyFreed
