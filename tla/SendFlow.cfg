\* One link that sends short payloads to a peer that answers anything.
SPECIFICATION LiveSpec
CONSTANTS
    MAX_CAN_FRAME_SIZE = 12
    FRAME_PADDING = FALSE
    HALF_RANGE = 700
    COMPARISONS = {"wrapping"}
    SEND_BUF_SIZE = 21
    DEFAULT_TX_DL = 12
    DEFAULT_ST_MIN_US = 0
    MAX_WFT_NUMBER = 1
    RESPONSE_TIMEOUT_US = 200
    SendSizes = {7, 21, 22}
    TxDls = {8, 9}
    FlowControls <- MCFlowControls
    ClockStep = 100
    Preemptions = {0, 100}
    MaxLateness = 100
    MaxStall = 300
INVARIANTS
    Segmentation
    CreditRespected
PROPERTIES
    SeparationRespected
    TimeoutHonest
    TimeoutPrompt
    WaitLimit
    CompletionHonest
    CompletionStands
    SilenceEnds
