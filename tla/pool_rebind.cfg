SPECIFICATION Spec
CONSTANTS
    snd = snd
    rcv = rcv
    NoTask = NoTask
    NWorkers = 2
    Requests <- RecvSide
    Keyed <- RecvSide
    BatchSize = 2
    MaxBatches = 2
    WaitsFor = "return"
    MayCancel = FALSE
    MayDestroy = FALSE
    MayFailToCreate = FALSE
INVARIANT BoundTogether
