\* A peer asks for more separation than the response timeout.
SPECIFICATION LiveSpec
CONSTANTS
    MAX_CAN_FRAME_SIZE = 8
    FRAME_PADDING = FALSE
    HALF_RANGE = 500
    COMPARISONS = {"wrapping"}
    SEND_BUF_SIZE = 20
    DEFAULT_TX_DL = 8
    DEFAULT_ST_MIN_US = 0
    MAX_WFT_NUMBER = 1
    RESPONSE_TIMEOUT_US = 200
    SendSizes = {20}
    TxDls = {8}
    FlowControls <- MCFlowControls
    ClockStep = 100
    Preemptions = {0}
    MaxLateness = 100
    MaxStall = 100
PROPERTY
    TimeoutAwaitsFlowControl
