SPECIFICATION Spec
CONSTANTS
    Blocks <- MCHeaders
    BinErrors <- MCBinErrors
    Garbage <- MCGarbage
    PrngCr56 <- MCPrngCr56
    PrngCr78 <- MCPrngCr78
INVARIANT HeaderSurvivesLostSymbol
CHECK_DEADLOCK FALSE
