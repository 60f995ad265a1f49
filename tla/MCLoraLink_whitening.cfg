SPECIFICATION LinkSpec
CONSTANTS
    Configs <- MCLongConfigs
    Headers <- MCLongHeaders
    Transmissions <- MCLongTransmissions
    SamplesPerSymbol = 8
    DecimFactor = 1
    StreamLength <- MCLongStreamLength
    PreambleSymbols = 8
    Gap = 40
INVARIANT WhiteningCovers
CHECK_DEADLOCK FALSE
