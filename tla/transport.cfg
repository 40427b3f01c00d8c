SPECIFICATION FairSpec
CONSTANTS
    x1 = x1
    x2 = x2
    None = None
    ChunkSize = 2
    Word = 16
    MaxChunkNum = 3
    FieldWidth = 2
    RequestIdBits = 6
    Transfers <- Two
    Cases <- TwoEnds
    ServerKey <- ServerKeys
    ClientKey <- ClientKeys
    CarefulReuse = TRUE
    Capacity = 2
    PostMayFail = TRUE
    CallbackMayFail = TRUE
    MayGiveUp = TRUE
INVARIANTS
    TypeOK
    CallbackSeesData
    OneChunkInFlight
    SendOkMeansDelivered
    CreditsConserved
    SplitIsExact
PROPERTIES
    SendReturns
    RecvReturns
