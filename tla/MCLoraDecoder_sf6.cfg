SPECIFICATION Spec
CONSTANTS
    Configs <- MCSf6Configs
    Headers <- MCOneHeader
    SamplesPerSymbol = 8
    DecimFactor = 1
    StreamLength <- MCSf6Length
INVARIANTS
    SupportedSpreadingFactor
CHECK_DEADLOCK FALSE
