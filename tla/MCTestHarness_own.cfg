SPECIFICATION HarnessSpec
CONSTANTS
    Plans <- MCPlans
    Payloads = {"a", "b"}
    Empty = ""
    ReceiveBuffer = 2
    MaxFrames = 2
INVARIANTS
    OutputFromTheFlowgraph
CHECK_DEADLOCK FALSE
