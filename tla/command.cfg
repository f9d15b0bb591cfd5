SPECIFICATION CommandSpec
CONSTANTS
    service = service
    pair = pair
    ann = ann
    bob = bob
    eve = eve
    NoDag = NoDag
    Processes = {service, pair, ann, bob, eve}
    Users = {ann, bob, eve}
    List <- Lists
    Id <- Ids
    Launches = {{service}, {pair}, {ann, bob}, {eve}}
    Hashes = {0, 1, 2}
    MaxInterrupts <- Interrupts
    Specs <- AllSpecs
    Content <- Contents
    Texts <- AllTexts
    Nesting = 3
    Inputs <- AllInputs
    Invalid <- InvalidSpecs
    Payload <- Payloads
INVARIANTS
    RunnerTypeOK
    EndsAreSaved
    WatchSeesAll
    ShardsPartition
    AddTypeOK
    MetasHaveRefs
    SequentialShares
    ExitIsTrue
    OnlyCirclesHang
    LoadsWhatWasAdded
PROPERTIES
    InterruptEnds
    StopReachesAll
    SharesSettle
CHECK_DEADLOCK FALSE
