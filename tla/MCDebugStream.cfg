SPECIFICATION StreamSpec
CONSTANTS
    Clients = {"decoder"}
    HeaderBytes = 2
    SampleBytes = 2
    SocketBuffer = 3
    Backlog = 1
    MaxSamples = 1
    MaxCalls = 2
    MaxConnections = 2
INVARIANTS
    StreamTypeOK
    PlotsAreRecords
    ClearedPlottedOnce
PROPERTIES
    CompleteIsPlotted
CHECK_DEADLOCK FALSE
