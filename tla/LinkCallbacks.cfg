\* A link that sends and receives, with callbacks that make the next call.
SPECIFICATION LiveSpec
CONSTANTS
    MAX_CAN_FRAME_SIZE = 12
    FRAME_PADDING = FALSE
    HALF_RANGE = 250
    COMPARISONS = {"wrapping"}
    RESPONSE_TIMEOUT_US = 100
    DEFAULT_ST_MIN_US = 0
    MAX_WFT_NUMBER = 1
    BLOCK_SIZE = 2
    ENABLE_STREAMING = FALSE
    SEND_BUF_SIZE = 13
    DEFAULT_TX_DL = 8
    RECEIVE_BUF_SIZES = {13}
    SendSizes = {13}
    FlowControls <- MCFlowControls
    Frames <- MCFrames
    PayloadSizes = {13}
    StartTime = 50
    ClockStep = 100
    MaxCallback = 100
    MaxStall = 100
    MaxLateness = 100
PROPERTIES
    CallbackOutcomeStands
    TimeoutHonestInDuplex
    SilenceEndsBoth
