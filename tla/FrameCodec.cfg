\* Real frame sizes and lengths, a ring of 12 clock values.
SPECIFICATION Spec
CONSTANTS
    MAX_CAN_FRAME_SIZE = 64
    FRAME_PADDING = TRUE
    HALF_RANGE = 6
    COMPARISONS = {"wrapping"}
    TxDls = {0, 7, 8, 9, 12, 16, 20, 24, 32, 48, 63, 64, 65}
    MaxSize = 4200
    Fine = 50
CHECK_DEADLOCK FALSE
INVARIANTS
    SingleFrameRoundTrip
    FirstFrameRoundTrip
    ConsecutiveFrameRoundTrip
    PaddingTransmittable
    StMinExact
    DeadlineExact
