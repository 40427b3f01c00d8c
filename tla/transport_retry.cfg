SPECIFICATION Spec
CONSTANTS
    x1 = x1
    x2 = x2
    None = None
    ChunkSize = 2
    Word = 16
    MaxChunkNum = 3
    FieldWidth = 2
    RequestIdBits = 6
    Transfers <- One
    Cases <- Retried
    ServerKey <- ServerKeys
    ClientKey <- ClientKeys
    CarefulReuse = FALSE
    Capacity = 2
    PostMayFail = FALSE
    CallbackMayFail = FALSE
    MayGiveUp = TRUE
INVARIANT RecvOkMeansArrived
