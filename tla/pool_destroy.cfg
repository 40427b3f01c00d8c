SPECIFICATION Spec
CONSTANTS
    snd = snd
    rcv = rcv
    NoTask = NoTask
    NWorkers = 2
    Requests <- SendSide
    Keyed <- NoSide
    BatchSize = 2
    MaxBatches = 1
    WaitsFor = "everything"
    MayCancel = FALSE
    MayDestroy = TRUE
    MayFailToCreate = FALSE
INVARIANT DestroyWaitsForTasks
