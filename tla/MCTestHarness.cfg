SPECIFICATION HarnessSpec
CONSTANTS
    Plans <- MCPlans
    Payloads = {"a", "b"}
    Empty = ""
    ReceiveBuffer = 2
    MaxFrames = 2
INVARIANTS
    HarnessTypeOK
    JudgedByItsOwn
    ReportsAddUp
PROPERTIES
    ImplementsDelivery
    HarnessEnds
CHECK_DEADLOCK FALSE
