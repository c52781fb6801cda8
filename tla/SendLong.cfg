\* Long payloads in 48 and 64 byte frames: both First Frame forms, every sequence
\* number, either compilation of the deadline comparison.
SPECIFICATION Spec
CONSTANTS
    MAX_CAN_FRAME_SIZE = 64
    FRAME_PADDING = FALSE
    HALF_RANGE = 300
    COMPARISONS = {"wrapping", "signed"}
    SEND_BUF_SIZE = 4100
    DEFAULT_TX_DL = 64
    DEFAULT_ST_MIN_US = 0
    MAX_WFT_NUMBER = 1
    RESPONSE_TIMEOUT_US = 100
    SendSizes = {200, 4100}
    TxDls = {48, 63}
    FlowControls <- MCContinues
    ClockStep = 100
    Preemptions = {0}
    MaxLateness = 0
    MaxStall = 0
INVARIANTS
    TypeOK
    Segmentation
    CreditRespected
