SPECIFICATION Spec
CONSTANTS
    snd = snd
    rcv = rcv
    NoTask = NoTask
    NWorkers = 2
    Requests <- BothSides
    Keyed <- RecvSide
    BatchSize = 2
    MaxBatches = 1
    WaitsFor = "everything"
    MayCancel = TRUE
    MayDestroy = TRUE
    MayFailToCreate = TRUE
INVARIANTS
    TypeOK
    PendingCountExact
    BoundTogether
    InSubmissionOrder
    EachTaskOnce
    NothingLeftQueued
    BatchCallbackOnce
