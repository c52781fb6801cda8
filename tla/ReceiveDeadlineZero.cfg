\* The clock may stand at zero when a deadline is set: a link whose buffer is smaller than a frame, than the message, or holds it;
\* frames of two messages and malformed ones arrive in any order.
SPECIFICATION LiveSpec
CONSTANTS
    MAX_CAN_FRAME_SIZE = 12
    FRAME_PADDING = FALSE
    HALF_RANGE = 500
    COMPARISONS = {"wrapping"}
    ENABLE_STREAMING = TRUE
    RECEIVE_BUF_SIZES = {2, 9, 35}
    BLOCK_SIZE = 2
    ST_MIN_US = 0
    RESPONSE_TIMEOUT_US = 200
    Frames <- MCFrames
    PayloadSizes = {2, 40}
    StartTime = 0
    ClockStep = 100
    MaxLateness = 100
    Size = 35
    Dl = 8
PROPERTY
    SilenceEnds
