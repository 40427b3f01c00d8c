SPECIFICATION Spec
CONSTANTS
    t1 = t1
    t2 = t2
    t3 = t3
    NoTask = NoTask
    Tasks <- MCTasks
    Kinds <- BothKinds
    Calls <- AllCalls
    TaskMayFail = TRUE
    PostMayFail = FALSE
    ForeignCancel = FALSE
INVARIANT ReleasedOnReturn
