SPECIFICATION Spec
CONSTANTS
    Configs <- MCExplicitConfigs
    Headers <- MCNoCrHeaders
    SamplesPerSymbol = 8
    DecimFactor = 1
    StreamLength <- MCExplicitLength
INVARIANTS
    HeaderIsOwn
CHECK_DEADLOCK FALSE
