------------------------------ MODULE IsoTpFrame ------------------------------
(***************************************************************************)
(* The pure part of isotp-c: CAN data lengths, padding, the four PCI frame *)
(* formats, the STmin code and the comparison of wrapping deadlines.       *)
(*                                                                         *)
(* A frame is a record of its header fields, the number n of payload bytes *)
(* behind them and the frame length len handed to the driver.  Bit-field   *)
(* order and the byte swap of the 32-bit ff_dl are layout, and left out.   *)
(***************************************************************************)
EXTENDS Integers, FiniteSets

CONSTANTS
    MAX_CAN_FRAME_SIZE,   \* ISO_TP_MAX_CAN_FRAME_SIZE
    FRAME_PADDING,        \* TRUE iff ISO_TP_FRAME_PADDING is defined
    HALF_RANGE,           \* 2^31 in the code: half the range of the clock
    COMPARISONS           \* how the build may compile IsoTpTimeAfter

CAN_DL_CLASSIC == 8

(* CAN FD data lengths above 8 bytes. *)
CanFdFrameSizes == {12, 16, 20, 24, 32, 48, 64}

(* The values the build may give them. *)
FrameParameters ==
    /\ MAX_CAN_FRAME_SIZE \in {CAN_DL_CLASSIC} \cup CanFdFrameSizes
    /\ FRAME_PADDING \in BOOLEAN
    /\ HALF_RANGE \in Nat \ {0}
    /\ COMPARISONS \in (SUBSET {"wrapping", "signed"}) \ {{}}

ASSUME FrameAssumption == FrameParameters

-----------------------------------------------------------------------------
(* CAN data lengths *)

CeilCanDl(length) ==
    IF length <= CAN_DL_CLASSIC THEN length
    ELSE IF \E s \in CanFdFrameSizes : length <= s
         THEN CHOOSE s \in CanFdFrameSizes :
                /\ length <= s
                /\ \A t \in CanFdFrameSizes : length <= t => s <= t
         ELSE 64

IsValidCanDl(length) == length = CeilCanDl(length)

(* The values isotp_set_tx_dl accepts. *)
LegalTxDl(dl) ==
    /\ CAN_DL_CLASSIC <= dl
    /\ dl <= MAX_CAN_FRAME_SIZE
    /\ IsValidCanDl(dl)

(* The TX_DL in effect: Classical CAN for a link that was never initialised. *)
TxDl(dl) == IF LegalTxDl(dl) THEN dl ELSE CAN_DL_CLASSIC

FrameFlags(dl) == IF TxDl(dl) > CAN_DL_CLASSIC THEN "FD" ELSE "NONE"

(* Mutant: the CAN FD length table is not consulted. *)
MutantPadFrame(used) ==
    IF FRAME_PADDING /\ used < CAN_DL_CLASSIC THEN CAN_DL_CLASSIC ELSE used

(* Length of the frame on the bus once used bytes have been padded. *)
PadFrame(used) ==
    CeilCanDl(IF FRAME_PADDING /\ used < CAN_DL_CLASSIC THEN CAN_DL_CLASSIC ELSE used)

SfMaxPayload(dl) == IF dl > CAN_DL_CLASSIC THEN dl - 2 ELSE dl - 1

-----------------------------------------------------------------------------
(* Frames as the sender builds them; dl is the TX_DL in effect *)

(* Mutant: the escape byte is not counted in the frame length. *)
MutantSingleFrame(size) ==
    [type |-> "SF", sf_dl |-> IF size < CAN_DL_CLASSIC THEN size ELSE 0,
     escape |-> IF size < CAN_DL_CLASSIC THEN 0 ELSE size, n |-> size,
     len |-> PadFrame(size + 1)]

SingleFrame(size) ==
    IF size < CAN_DL_CLASSIC
    THEN [type |-> "SF", sf_dl |-> size, escape |-> 0, n |-> size,
          len |-> PadFrame(size + 1)]
    ELSE [type |-> "SF", sf_dl |-> 0, escape |-> size, n |-> size,
          len |-> PadFrame(size + 2)]

(* Mutant: 4096 bytes still take the 12-bit length. *)
MutantFirstFrame(size, dl) ==
    IF size <= 4096
    THEN [type |-> "FF", ff_dl_high |-> (size \div 256) % 16,
          ff_dl_low |-> size % 256, ff_dl |-> 0, n |-> dl - 2, len |-> dl]
    ELSE [type |-> "FF", ff_dl_high |-> 0, ff_dl_low |-> 0,
          ff_dl |-> size, n |-> dl - 6, len |-> dl]

FirstFrame(size, dl) ==
    IF size <= 4095
    THEN [type |-> "FF", ff_dl_high |-> (size \div 256) % 16,
          ff_dl_low |-> size % 256, ff_dl |-> 0, n |-> dl - 2, len |-> dl]
    ELSE [type |-> "FF", ff_dl_high |-> 0, ff_dl_low |-> 0,
          ff_dl |-> size, n |-> dl - 6, len |-> dl]

(* Payload bytes a First Frame carries: what send_offset starts from. *)
FfDataLength(size, dl) == IF size <= 4095 THEN dl - 2 ELSE dl - 6

(* Mutant: the PCI byte is forgotten. *)
MutantCfDataLength(left, dl) == IF left > dl THEN dl ELSE left

(* Payload bytes of a Consecutive Frame when left bytes are still unsent. *)
CfDataLength(left, dl) == IF left > dl - 1 THEN dl - 1 ELSE left

ConsecutiveFrame(sn, left, dl) ==
    LET n == CfDataLength(left, dl)
    IN  [type |-> "CF", SN |-> sn, n |-> n, len |-> PadFrame(n + 1)]

(* Mutant: the sequence number leaves its four bits. *)
MutantNextSn(sn) == sn + 1

NextSn(sn) == IF sn + 1 > 15 THEN 0 ELSE sn + 1

-----------------------------------------------------------------------------
(* Frames as the receiver reads them *)

SfPayloadLength(f) == IF f.sf_dl = 0 THEN f.escape ELSE f.sf_dl

(* isotp_receive_single_frame does not answer ISOTP_RET_LENGTH. *)
SfAccepted(f) ==
    /\ f.sf_dl = 0 => f.len > CAN_DL_CLASSIC
    /\ SfPayloadLength(f) > 0
    /\ SfPayloadLength(f) <= f.len - (IF f.sf_dl = 0 THEN 2 ELSE 1)

FfIsLong(f) == f.ff_dl_high * 256 + f.ff_dl_low = 0

FfPayloadLength(f) == IF FfIsLong(f) THEN f.ff_dl ELSE f.ff_dl_high * 256 + f.ff_dl_low

FfReadLength(f) == f.len - (IF FfIsLong(f) THEN 6 ELSE 2)

(* isotp_receive_first_frame does not answer ISOTP_RET_LENGTH. *)
FfAccepted(f) ==
    /\ f.len >= CAN_DL_CLASSIC
    /\ IsValidCanDl(f.len)
    /\ FfPayloadLength(f) > SfMaxPayload(f.len)

(* Bytes the receiver wants from the next Consecutive Frame. *)
CfWanted(left, rx_dl) ==
    CfDataLength(left, IF rx_dl < CAN_DL_CLASSIC THEN CAN_DL_CLASSIC ELSE rx_dl)

-----------------------------------------------------------------------------
(* Separation time code *)

(* Mutant: 127 ms is not recognised as representable. *)
MutantUsToStMin(us) ==
    IF us >= 127000 THEN 0
    ELSE IF us >= 100 /\ us <= 900 THEN 240 + us \div 100
    ELSE us \div 1000

UsToStMin(us) ==
    IF us > 127000 THEN 0
    ELSE IF us >= 100 /\ us <= 900 THEN 240 + us \div 100
    ELSE us \div 1000

StMinToUs(st_min) ==
    IF st_min <= 127 THEN st_min * 1000
    ELSE IF st_min >= 241 /\ st_min <= 249 THEN (st_min - 240) * 100
    ELSE 0

(* IsoTpFlowStatus; the other codes are reserved. *)
CONTINUE == 0
WAIT     == 1
OVERFLOW == 2

INVALID_BS == 65535   \* ISOTP_INVALID_BS: block size 0, no further Flow Control

FlowControl(fs, bs, st_min_us) ==
    [type |-> "FC", FS |-> fs, BS |-> bs, STmin |-> UsToStMin(st_min_us),
     len |-> PadFrame(3)]

(* What isotp_user_send_can may answer, and no frame at all. *)
DriverAnswers == {"OK", "NOSPACE", "ERROR"}
NoFrame       == [type |-> "none"]

-----------------------------------------------------------------------------
(* The clock: readings and deadlines are uint32_t, here 0 .. 2 * HALF_RANGE - 1 *)

Ticks == 0 .. 2 * HALF_RANGE - 1

WrapAdd(t, d) == IF t + d < 2 * HALF_RANGE THEN t + d ELSE t + d - 2 * HALF_RANGE

WrapSub(t, d) == IF t >= d THEN t - d ELSE t - d + 2 * HALF_RANGE

AsInt32(t) == IF t < HALF_RANGE THEN t ELSE t - 2 * HALF_RANGE

(* Mutant: the deadline itself already counts as passed. *)
MutantAfterWrapping(a, b) == WrapSub(b, a) >= HALF_RANGE \/ a = b

(* IsoTpTimeAfter(a, b) subtracts two int32_t.  Where the difference does  *)
(* not fit the subtraction is undefined: an unoptimised build wraps it, an *)
(* optimising compiler may turn (b - a < 0) into the comparison b < a.     *)
AfterWrapping(a, b) == WrapSub(b, a) >= HALF_RANGE
AfterSigned(a, b)   == AsInt32(b) < AsInt32(a)

(* The answers the build can give. *)
TimeAfter(a, b) ==
    {IF c = "wrapping" THEN AfterWrapping(a, b) ELSE AfterSigned(a, b) : c \in COMPARISONS}

=============================================================================
