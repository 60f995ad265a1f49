SPECIFICATION Spec
CONSTANTS
    Configs <- MCShortConfigs
    Headers <- MCOneHeader
    SamplesPerSymbol = 8
    DecimFactor = 1
    StreamLength <- MCShortLength
INVARIANTS
    AsksOnlyWhatIsNeeded
CHECK_DEADLOCK FALSE
