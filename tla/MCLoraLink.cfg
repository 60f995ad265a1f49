SPECIFICATION LinkSpec
CONSTANTS
    Configs <- MCConfigs
    Headers <- MCHeaders
    Transmissions <- MCTransmissions
    SamplesPerSymbol = 8
    DecimFactor = 1
    StreamLength <- MCStreamLength
    PreambleSymbols = 8
    Gap = 40
INVARIANT OnlyPackets
PROPERTY EveryPacketDelivered
CHECK_DEADLOCK FALSE
