SPECIFICATION PipelineSpec
CONSTANTS
    Layers = {"LORATAP", "LORAPHY", "LORAMAC"}
    PayloadLengths = {1, 2}
    ReceiveBuffer = 2
    MaxDatagram = 19
    MaxReceptions = 3
INVARIANTS
    PipelineTypeOK
    InOrderOnce
    NoGapInFile
    EndedOnlyByEmptyPayload
    NothingVanishes
    AtMostOneMore
PROPERTIES
    ImplementsDelivery
    EverySettled
CHECK_DEADLOCK FALSE
