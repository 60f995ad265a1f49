SPECIFICATION Spec
CONSTANTS
    Blocks <- MCBlocks
    BinErrors <- MCBinErrors
    Garbage <- MCGarbage
    PrngCr56 <- MCPrngCr56
    PrngCr78 <- MCPrngCr78
INVARIANTS
    TypeOK
    DecodesWhatWasSent
    OneSymbolOneBit
    LostSymbolIsCorrected
    SoftDecoderCorrects
CHECK_DEADLOCK FALSE
