SPECIFICATION FairSpec
CONSTANTS
    snd = snd
    rcv = rcv
    NoTask = NoTask
    NWorkers = 2
    Requests <- RecvSide
    Keyed <- RecvSide
    BatchSize = 2
    MaxBatches = 2
    WaitsFor = "context"
    MayCancel = TRUE
    MayDestroy = TRUE
    MayFailToCreate = TRUE
PROPERTIES
    WakeupsServed
    CompletionRunsTask
    DestroyReturns
    InitReturns
INVARIANTS
    NeverCountedLow
    RunsForItsCompletion
    BoundTogether
    NothingLeftQueued
