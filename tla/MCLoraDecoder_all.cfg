SPECIFICATION FairSpec
CONSTANTS
    Configs <- MCAllConfigs
    Headers <- MCExplicitHeaders
    SamplesPerSymbol = 8
    DecimFactor = 1
    StreamLength <- MCStreamLength
INVARIANTS
    TypeOK
    BlockCanComplete
    KeepsRunning
    OwnWords
    HeaderIsOwn
    FrameComplete
    MacFits
    SnrIsOwn
    SymbolCount
    NeverOverConsumes
PROPERTIES
    MovesOn
    ImplementsReceiver
    StreamIsConsumed
CHECK_DEADLOCK FALSE
