SPECIFICATION FairSpec
CONSTANTS
    t1 = t1
    t2 = t2
    t3 = t3
    NoTask = NoTask
    Tasks <- MCTasks
    Kinds <- OnlyRecv
    Calls <- AllCalls
    TaskMayFail = FALSE
    PostMayFail = TRUE
    ForeignCancel = FALSE
PROPERTY FailedRecvCancels
