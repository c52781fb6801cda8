\* Three payloads over a bus with up to two faults.
SPECIFICATION LiveSpec
CHECK_DEADLOCK FALSE
CONSTANTS
    MAX_CAN_FRAME_SIZE = 8
    FRAME_PADDING = FALSE
    HALF_RANGE = 1100
    COMPARISONS = {"wrapping"}
    RESPONSE_TIMEOUT_US = 300
    DEFAULT_ST_MIN_US = 0
    MAX_WFT_NUMBER = 1
    BLOCK_SIZE = 2
    SEND_BUF_SIZE = 27
    DEFAULT_TX_DL = 8
    RECEIVE_BUF_SIZES = {6, 9, 27}
    Payloads <- MCPayloads
    StartTime = 50
    ClockStep = 100
    MaxTransit = 100
    MaxDelay = 100
    MaxHold = 100
    MaxLateness = 100
    MaxFaults = 2
INVARIANTS
    CreditAgreement
    Backpressure
    NoSpuriousFailure
PROPERTIES
    Transfers
    Delivered
    Settles
