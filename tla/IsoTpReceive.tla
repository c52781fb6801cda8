----------------------------- MODULE IsoTpReceive -----------------------------
(***************************************************************************)
(* The receive half of one IsoTpLink: Single, First and Consecutive Frames  *)
(* in isotp_on_can_message(), isotp_receive(), isotp_receive_streaming(),   *)
(* the receive part of isotp_poll() and the receive callback.  Each call is *)
(* one action.  The bytes of a payload are tokens that know their message   *)
(* and position, so that what reaches the application can be compared with  *)
(* what was sent.                                                           *)
(***************************************************************************)
EXTENDS IsoTpFrame, Sequences

CONSTANTS
    ENABLE_STREAMING,      \* TRUE iff ISO_TP_ENABLE_STREAMING is defined
    RECEIVE_BUF_SIZES,     \* recvbufsize values the application initialises links with
    BLOCK_SIZE,            \* ISO_TP_DEFAULT_BLOCK_SIZE
    ST_MIN_US,             \* ISO_TP_DEFAULT_ST_MIN_US
    RESPONSE_TIMEOUT_US,   \* ISO_TP_DEFAULT_RESPONSE_TIMEOUT_US
    \* The environment
    Frames,                \* CAN frames that may arrive
    PayloadSizes,          \* capacities the application passes to the receive calls
    StartTime,             \* reading of the clock when the link is initialised
    ClockStep,             \* microseconds by which the clock advances at once
    MaxLateness            \* how late after a deadline isotp_poll is still called

(* What a call hands over: bytes of the message from a position on, and      *)
(* whether they end it.                                                      *)
NoData == [from |-> 0, bytes |-> << >>, complete |-> TRUE]

(* What a received frame can hold: isotp_on_can_message gets its length as a  *)
(* uint8_t and reads the header fields, which are bit fields and integers of  *)
(* the PCI; behind them are n bytes of message msg from position at on.       *)
FrameType(f) ==
    /\ f.len \in 0 .. 255
    /\ f.n \in Nat /\ f.msg \in Nat /\ f.at \in Nat
    /\ f.type = "SF" => f.sf_dl \in 0 .. 15 /\ f.escape \in 0 .. 255
    /\ f.type = "FF" => /\ f.ff_dl_high \in 0 .. 15 /\ f.ff_dl_low \in 0 .. 255
                        /\ f.ff_dl \in Nat
    /\ f.type = "CF" => f.SN \in 0 .. 15

ReceiveParameters ==
    /\ ENABLE_STREAMING \in BOOLEAN
    /\ RECEIVE_BUF_SIZES \subseteq Nat
    /\ BLOCK_SIZE \in 0 .. 255
    /\ ST_MIN_US \in Nat
    /\ RESPONSE_TIMEOUT_US \in 1 .. HALF_RANGE - 1
    /\ PayloadSizes \subseteq Nat
    /\ StartTime \in Ticks
    /\ ClockStep \in 1 .. HALF_RANGE - 1
    /\ MaxLateness \in Nat
    /\ \A f \in Frames : FrameType(f)

ASSUME ReceiveAssumption == ReceiveParameters

(* Byte i of message m; NoByte is padding, or memory nobody has written.    *)
Byte(m, i) == m * 10000 + i
NoByte     == 0

(* The first k data bytes of frame f, which carries f.n bytes of message    *)
(* f.msg from position f.at on.                                             *)
FrameData(f, k) == [j \in 1 .. k |-> IF j <= f.n THEN Byte(f.msg, f.at + j) ELSE NoByte]

(* memcpy into memory at a zero-based position.                             *)
Overwrite(memory, at, bytes) ==
    [i \in DOMAIN memory |->
        IF i - at \in DOMAIN bytes THEN bytes[i - at] ELSE memory[i]]

Blank(size) == [i \in 1 .. size |-> NoByte]

Smaller(a, b) == IF a < b THEN a ELSE b

VARIABLES
    now,                   \* isotp_user_get_us()
    fc_tx,                 \* the Flow Control the driver accepted in the last step
    out,                   \* what the last step handed to the application
    rx_dl, receive_buf_size, receive_buffer, receive_size, receive_offset,
    receive_sn, receive_bs_count, receive_timer_cr,
    receive_protocol_result, receive_status,
    receive_stream_size, receive_streaming,
    receive_stream_carry_size, receive_stream_carry,
    rx_done_cb,            \* TRUE iff a receive callback is registered
    \* History, read by properties only
    message,               \* message of the last Single or First Frame accepted
    consumed,              \* bytes of it the application has already taken
    invited,               \* Consecutive Frames the last Flow Control still invites
    age_cr                 \* time since the receive timer was last started

paramVars  == <<receive_buf_size, rx_done_cb>>
bufferVars == <<rx_dl, receive_buffer, receive_size, receive_offset, receive_sn>>
streamVars == <<receive_stream_size, receive_streaming,
                receive_stream_carry_size, receive_stream_carry>>
flowVars   == <<receive_bs_count, invited>>
timerVars  == <<receive_timer_cr, age_cr>>
recvStatusVars == <<receive_protocol_result, receive_status>>
messageVars == <<message, consumed>>
vars == <<now, fc_tx, out, paramVars, bufferVars, streamVars, flowVars, timerVars,
          recvStatusVars, messageVars>>

Receiving == receive_status = "INPROGRESS"

-----------------------------------------------------------------------------
(* Life of the link *)

LinkInit ==
    /\ fc_tx = NoFrame /\ out = NoData
    /\ rx_dl = CAN_DL_CLASSIC
    /\ receive_buf_size \in RECEIVE_BUF_SIZES
    /\ receive_buffer = Blank(receive_buf_size)
    /\ receive_size = 0 /\ receive_offset = 0 /\ receive_sn = 0
    /\ receive_bs_count = 0 /\ receive_timer_cr = 0
    /\ receive_protocol_result = "OK" /\ receive_status = "IDLE"
    /\ receive_stream_size = 0 /\ receive_streaming = FALSE
    /\ receive_stream_carry_size = 0
    /\ receive_stream_carry = Blank(MAX_CAN_FRAME_SIZE - 1)
    /\ rx_done_cb = FALSE
    /\ message = 0 /\ consumed = 0 /\ invited = 0 /\ age_cr = 0

Init == now = StartTime /\ LinkInit

(* The memset that starts isotp_init_link and ends isotp_destroy_link; the  *)
(* buffer belongs to the caller, who starts over with a blank one.          *)
Reset(dl, size) ==
    /\ fc_tx' = NoFrame /\ out' = NoData
    /\ rx_dl' = dl
    /\ receive_buf_size' = size
    /\ receive_buffer' = Blank(size)
    /\ receive_size' = 0 /\ receive_offset' = 0 /\ receive_sn' = 0
    /\ receive_bs_count' = 0 /\ receive_timer_cr' = 0
    /\ receive_protocol_result' = "OK" /\ receive_status' = "IDLE"
    /\ receive_stream_size' = 0 /\ receive_streaming' = FALSE
    /\ receive_stream_carry_size' = 0
    /\ receive_stream_carry' = Blank(MAX_CAN_FRAME_SIZE - 1)
    /\ rx_done_cb' = FALSE
    /\ message' = 0 /\ consumed' = 0 /\ invited' = 0 /\ age_cr' = 0
    /\ UNCHANGED now

InitLink(size) == Reset(CAN_DL_CLASSIC, size)
DestroyLink    == Reset(0, 0)

SetRxDoneCb(registered) ==
    /\ rx_done_cb' = registered
    /\ fc_tx' = NoFrame /\ out' = NoData
    /\ UNCHANGED <<now, receive_buf_size, bufferVars, streamVars, flowVars, timerVars,
                   recvStatusVars, messageVars>>

-----------------------------------------------------------------------------
(* What the handlers share *)

(* isotp_send_flow_control, whose result every caller ignores: the driver   *)
(* may or may not have taken the frame.                                     *)
SendFlowControl(fs, bs, accepted) ==
    /\ fc_tx' = IF accepted THEN FlowControl(fs, bs, IF fs = OVERFLOW THEN 0 ELSE ST_MIN_US)
                ELSE NoFrame
    /\ invited' = IF fs = OVERFLOW THEN 0 ELSE IF bs = 0 THEN INVALID_BS ELSE bs

NoFlowControl == fc_tx' = NoFrame

(* Mutant: a running timer is not started again. *)
MutantStartTimer ==
    /\ receive_timer_cr' = IF Receiving THEN receive_timer_cr
                           ELSE WrapAdd(now, RESPONSE_TIMEOUT_US)
    /\ age_cr' = 0

StartTimer ==
    /\ receive_timer_cr' = WrapAdd(now, RESPONSE_TIMEOUT_US)
    /\ age_cr' = 0

(* Mutant: a streaming link invites whole blocks. *)
MutantBlock == BLOCK_SIZE

(* Consecutive Frames invited at once.                                      *)
Block == IF receive_streaming' THEN 1 ELSE BLOCK_SIZE

(* The end of isotp_on_can_message, whatever kind of frame it was: a         *)
(* complete message goes to the callback and the link becomes idle.          *)
Notify(status) ==
    IF status = "FULL" /\ rx_done_cb /\ ~receive_streaming'
    THEN /\ receive_status' = "IDLE"
         /\ out' = [from |-> 0, bytes |-> SubSeq(receive_buffer', 1, receive_size'),
                   complete |-> TRUE]
    ELSE /\ receive_status' = status
         /\ out' = NoData

(* The result a Single or First Frame starts from.                           *)
Interrupting == IF Receiving THEN "UNEXP_PDU" ELSE "OK"

-----------------------------------------------------------------------------
(* isotp_on_can_message *)

(* Frames of any other length are dropped without any effect.               *)
Plausible(f) == f.len \in 2 .. MAX_CAN_FRAME_SIZE

ReceiveSingleFrame(f) ==
    LET n == SfPayloadLength(f)
    IN  /\ f.type = "SF" /\ Plausible(f)
        /\ NoFlowControl
        /\ \/ /\ SfAccepted(f) /\ n <= receive_buf_size
              /\ receive_buffer' = Overwrite(receive_buffer, 0, FrameData(f, n))
              /\ receive_size' = n /\ receive_offset' = n
              /\ receive_stream_size' = IF ENABLE_STREAMING THEN n ELSE 0
              /\ receive_streaming' = FALSE
              /\ receive_stream_carry_size' = 0
              /\ receive_protocol_result' = Interrupting
              /\ message' = f.msg /\ consumed' = 0
              /\ Notify("FULL")
              /\ UNCHANGED <<rx_dl, receive_sn, receive_stream_carry>>
           \/ /\ SfAccepted(f) /\ n > receive_buf_size
              /\ receive_protocol_result' = "BUFFER_OVFLW"
              /\ UNCHANGED <<bufferVars, streamVars, messageVars>>
              /\ Notify(receive_status)
           \/ /\ ~SfAccepted(f)
              /\ receive_protocol_result' = Interrupting
              /\ UNCHANGED <<bufferVars, streamVars, messageVars>>
              /\ Notify(receive_status)
        /\ UNCHANGED <<now, paramVars, flowVars, timerVars>>

(* What the First Frame starts with does not fit.                           *)
FfOverflows(f) == IF ENABLE_STREAMING THEN receive_buf_size = 0
                  ELSE FfPayloadLength(f) > receive_buf_size

StoreFirstFrame(f) ==
    LET n      == FfReadLength(f)
        stored == IF ENABLE_STREAMING THEN Smaller(n, receive_buf_size) ELSE n
    IN  /\ receive_streaming' = (ENABLE_STREAMING /\ FfPayloadLength(f) > receive_buf_size)
        /\ receive_stream_size' = IF ENABLE_STREAMING THEN stored ELSE 0
        /\ receive_stream_carry_size' = n - stored
        /\ receive_buffer' = Overwrite(receive_buffer, 0, FrameData(f, stored))
        /\ receive_stream_carry' =
             Overwrite(receive_stream_carry, 0, SubSeq(FrameData(f, n), stored + 1, n))
        /\ receive_offset' = n
        /\ receive_size' = FfPayloadLength(f)
        /\ receive_sn' = 1
        /\ rx_dl' = f.len

ReceiveFirstFrame(f, accepted) ==
    /\ f.type = "FF" /\ Plausible(f)
    /\ \/ /\ FfAccepted(f) /\ ~FfOverflows(f)
          /\ StoreFirstFrame(f)
          /\ receive_protocol_result' = Interrupting
          /\ message' = f.msg /\ consumed' = 0
          /\ StartTimer
          /\ IF receive_streaming' /\ receive_stream_size' >= receive_buf_size
             THEN /\ NoFlowControl
                  /\ invited' = 0
                  /\ Notify("FULL")
                  /\ UNCHANGED receive_bs_count
             ELSE /\ receive_bs_count' = Block
                  /\ SendFlowControl(CONTINUE, receive_bs_count', accepted)
                  /\ Notify("INPROGRESS")
       \/ /\ FfAccepted(f) /\ FfOverflows(f)
          /\ receive_protocol_result' = "BUFFER_OVFLW"
          /\ SendFlowControl(OVERFLOW, 0, accepted)
          /\ UNCHANGED <<bufferVars, streamVars, messageVars, timerVars, receive_bs_count>>
          /\ Notify("IDLE")
       \/ /\ ~FfAccepted(f)
          /\ receive_protocol_result' = Interrupting
          /\ NoFlowControl
          /\ UNCHANGED <<bufferVars, streamVars, messageVars, timerVars, flowVars>>
          /\ Notify(receive_status)
    /\ UNCHANGED <<now, paramVars>>

(* Mutant: what does not fit into the buffer is dropped.                    *)
MutantStoreStreamed(data) ==
    LET fits == Smaller(Len(data), receive_buf_size - receive_stream_size)
    IN  /\ receive_buffer' =
             Overwrite(receive_buffer, receive_stream_size, SubSeq(data, 1, fits))
        /\ receive_stream_size' = receive_stream_size + fits
        /\ receive_stream_carry_size' = 0
        /\ UNCHANGED receive_stream_carry

StoreStreamed(data) ==
    LET fits == Smaller(Len(data), receive_buf_size - receive_stream_size)
    IN  /\ receive_buffer' =
             Overwrite(receive_buffer, receive_stream_size, SubSeq(data, 1, fits))
        /\ receive_stream_size' = receive_stream_size + fits
        /\ receive_stream_carry_size' = Len(data) - fits
        /\ receive_stream_carry' =
             Overwrite(receive_stream_carry, 0, SubSeq(data, fits + 1, Len(data)))

StoreWhole(data) ==
    /\ receive_buffer' = Overwrite(receive_buffer, receive_offset, data)
    /\ UNCHANGED <<receive_stream_size, receive_stream_carry_size, receive_stream_carry>>

(* Mutant: only the end of the message counts. *)
MutantChunkReady == receive_offset' >= receive_size

(* Everything has arrived, or the streaming buffer is full.                 *)
ChunkReady == \/ receive_offset' >= receive_size
              \/ receive_streaming /\ receive_stream_size' >= receive_buf_size

(* One of the invited frames has come.                                      *)
Used == invited' = IF invited = INVALID_BS THEN invited ELSE invited - 1

(* Mutant: the block is not started over.                                   *)
MutantCountBlock(accepted) ==
    /\ receive_bs_count' = (receive_bs_count - 1) % 256
    /\ IF receive_bs_count = 1
       THEN SendFlowControl(CONTINUE, BLOCK_SIZE, accepted)
       ELSE NoFlowControl /\ Used

(* A frame of the block has come; after the last one the next is invited.   *)
CountBlock(accepted) ==
    LET count == (receive_bs_count - 1) % 256
    IN  /\ receive_bs_count' = IF count = 0 THEN Block ELSE count
        /\ IF count = 0
           THEN SendFlowControl(CONTINUE, Block, accepted)
           ELSE NoFlowControl /\ Used

(* Mutant: a sequence number that runs ahead passes. *)
MutantInSequence(f) == receive_sn <= f.SN

InSequence(f) == receive_sn = f.SN

ReceiveConsecutiveFrame(f, accepted) ==
    LET n == CfWanted(receive_size - receive_offset, rx_dl)
    IN  /\ f.type = "CF" /\ Plausible(f)
        /\ \/ /\ Receiving /\ InSequence(f) /\ n <= f.len - 1
              /\ IF receive_streaming THEN StoreStreamed(FrameData(f, n))
                                      ELSE StoreWhole(FrameData(f, n))
              /\ receive_offset' = receive_offset + n
              /\ receive_sn' = NextSn(receive_sn)
              /\ StartTimer
              /\ UNCHANGED <<rx_dl, receive_size, receive_streaming, receive_protocol_result,
                             messageVars>>
              /\ IF ChunkReady
                 THEN /\ NoFlowControl
                      /\ Used
                      /\ UNCHANGED receive_bs_count
                      /\ Notify("FULL")
                 ELSE CountBlock(accepted) /\ Notify("INPROGRESS")
           \/ /\ Receiving /\ InSequence(f) /\ n > f.len - 1
              /\ NoFlowControl
              /\ UNCHANGED <<bufferVars, streamVars, messageVars, timerVars, flowVars,
                             receive_protocol_result>>
              /\ Notify("INPROGRESS")
           \/ /\ Receiving /\ ~InSequence(f)
              /\ NoFlowControl
              /\ receive_protocol_result' = "WRONG_SN"
              /\ UNCHANGED <<bufferVars, streamVars, messageVars, timerVars, flowVars>>
              /\ Notify("IDLE")
           \/ /\ ~Receiving
              /\ NoFlowControl
              /\ receive_protocol_result' = "UNEXP_PDU"
              /\ UNCHANGED <<bufferVars, streamVars, messageVars, timerVars, flowVars>>
              /\ Notify(receive_status)
        /\ UNCHANGED <<now, paramVars>>

(* A Flow Control or a frame of a reserved type: only the callback at the   *)
(* end concerns the receive half.                                           *)
ReceiveOtherFrame ==
    /\ NoFlowControl
    /\ UNCHANGED <<now, paramVars, bufferVars, streamVars, messageVars, timerVars, flowVars,
                   receive_protocol_result>>
    /\ Notify(receive_status)

-----------------------------------------------------------------------------
(* The application takes data *)

(* isotp_receive answering ISOTP_RET_OK: what payload_size cannot hold is   *)
(* lost.  All other answers leave the link alone.                           *)
Receive(payload_size) ==
    LET n == Smaller(receive_size, payload_size)
    IN  /\ ~rx_done_cb /\ ~receive_streaming
        /\ receive_status = "FULL"
        /\ out' = [from |-> 0, bytes |-> SubSeq(receive_buffer, 1, n),
                   complete |-> n = receive_size]
        /\ receive_status' = "IDLE"
        /\ fc_tx' = NoFrame
        /\ UNCHANGED <<now, paramVars, bufferVars, streamVars, flowVars, timerVars,
                       receive_protocol_result, messageVars>>

(* Mutant: the whole buffer is taken to be refilled. *)
MutantRefill ==
    /\ receive_stream_size' = Smaller(receive_stream_carry_size, receive_buf_size)
    /\ receive_stream_carry_size' = receive_stream_carry_size - receive_buf_size
    /\ UNCHANGED <<receive_buffer, receive_stream_carry>>

(* The carry moves to the front of the buffer just emptied.                 *)
Refill ==
    LET n == Smaller(receive_stream_carry_size, receive_buf_size)
    IN  /\ receive_stream_size' = n
        /\ receive_stream_carry_size' = receive_stream_carry_size - n
        /\ receive_buffer' =
             Overwrite(receive_buffer, 0, SubSeq(receive_stream_carry, 1, n))
        /\ receive_stream_carry' =
             Overwrite(receive_stream_carry, 0,
                       SubSeq(receive_stream_carry, n + 1, receive_stream_carry_size))

(* Mutant: the carry is forgotten. *)
MutantLastChunk == receive_offset >= receive_size

LastChunk == receive_offset >= receive_size /\ receive_stream_carry_size = 0

(* isotp_receive_streaming answering ISOTP_RET_OK.                          *)
ReceiveStreaming(payload_size, accepted) ==
    LET n == IF receive_streaming THEN receive_stream_size ELSE receive_size
    IN  /\ ENABLE_STREAMING
        /\ receive_status = "FULL"
        /\ payload_size >= n
        /\ out' = [from |-> IF receive_streaming THEN consumed ELSE 0,
                   bytes |-> SubSeq(receive_buffer, 1, n), complete |-> LastChunk]
        /\ IF ~receive_streaming \/ LastChunk
           THEN /\ receive_status' = "IDLE"
                /\ receive_streaming' = FALSE
                /\ NoFlowControl
                /\ UNCHANGED <<receive_buffer, receive_stream_size, receive_stream_carry_size,
                               receive_stream_carry, flowVars, timerVars, messageVars>>
           ELSE /\ Refill
                /\ consumed' = consumed + n
                /\ IF receive_stream_carry_size' > 0 \/ receive_offset >= receive_size
                   THEN /\ receive_status' = "FULL"
                        /\ NoFlowControl
                        /\ UNCHANGED <<flowVars, timerVars>>
                   ELSE /\ receive_status' = "INPROGRESS"
                        /\ receive_bs_count' = 1
                        /\ SendFlowControl(CONTINUE, 1, accepted)
                        /\ StartTimer
                /\ UNCHANGED <<receive_streaming, message>>
        /\ UNCHANGED <<now, paramVars, rx_dl, receive_size, receive_offset, receive_sn,
                       receive_protocol_result>>

-----------------------------------------------------------------------------
(* isotp_poll, receive part, and time *)

(* Mutant: a link that waits for its first Consecutive Frame is not polled. *)
MutantDeadlinePassed ==
    receive_timer_cr > 0 /\ receive_sn > 1 /\ TRUE \in TimeAfter(now, receive_timer_cr)

DeadlinePassed == receive_timer_cr > 0 /\ TRUE \in TimeAfter(now, receive_timer_cr)

PollTimesOut ==
    /\ Receiving
    /\ DeadlinePassed
    /\ receive_protocol_result' = "TIMEOUT_CR"
    /\ receive_status' = "IDLE"
    /\ fc_tx' = NoFrame /\ out' = NoData
    /\ UNCHANGED <<now, paramVars, bufferVars, streamVars, flowVars, timerVars, messageVars>>

(* While nothing is being received nothing reads the clock; an overdue link *)
(* is polled before more time than MaxLateness goes by.                     *)
Tick ==
    /\ Receiving
    /\ age_cr + ClockStep <= RESPONSE_TIMEOUT_US + MaxLateness
    /\ now' = WrapAdd(now, ClockStep)
    /\ age_cr' = age_cr + ClockStep
    /\ fc_tx' = NoFrame /\ out' = NoData
    /\ UNCHANGED <<paramVars, bufferVars, streamVars, flowVars, receive_timer_cr,
                   recvStatusVars, messageVars>>

OnCanMessage(f, accepted) ==
    \/ ReceiveSingleFrame(f)
    \/ ReceiveFirstFrame(f, accepted)
    \/ ReceiveConsecutiveFrame(f, accepted)

FrameArrives ==
    \/ \E f \in Frames, accepted \in BOOLEAN : OnCanMessage(f, accepted)
    \/ ReceiveOtherFrame

TakeData == \E size \in PayloadSizes, accepted \in BOOLEAN :
                Receive(size) \/ ReceiveStreaming(size, accepted)

Next ==
    \/ FrameArrives
    \/ TakeData
    \/ PollTimesOut
    \/ \E registered \in BOOLEAN : SetRxDoneCb(registered)
    \/ \E size \in RECEIVE_BUF_SIZES : InitLink(size)
    \/ DestroyLink
    \/ Tick

Spec == Init /\ [][Next]_vars

(* The clock advances by itself and the application keeps polling.          *)
LiveSpec == Spec /\ WF_vars(Tick) /\ WF_vars(PollTimesOut)

-----------------------------------------------------------------------------
(* Properties *)

BufferType ==
    /\ receive_buf_size \in Nat /\ receive_size \in Nat /\ receive_offset \in Nat
    /\ receive_buffer \in [1 .. receive_buf_size -> Nat]
    /\ rx_dl \in 0 .. 255 /\ receive_sn \in 0 .. 15

StreamType ==
    /\ receive_stream_size \in Nat /\ receive_streaming \in BOOLEAN
    /\ receive_stream_carry_size \in 0 .. 255
    /\ receive_stream_carry \in [1 .. MAX_CAN_FRAME_SIZE - 1 -> Nat]

ClockType == now \in Ticks /\ receive_timer_cr \in Ticks /\ age_cr \in Nat

FlowType == receive_bs_count \in 0 .. 255 /\ invited \in 0 .. INVALID_BS

StatusType ==
    /\ receive_protocol_result \in
         {"OK", "UNEXP_PDU", "BUFFER_OVFLW", "WRONG_SN", "TIMEOUT_CR"}
    /\ receive_status \in {"IDLE", "INPROGRESS", "FULL"}
    /\ rx_done_cb \in BOOLEAN

MessageType == message \in Nat /\ consumed \in Nat

(* Every field keeps the range of its C type or enumeration.                *)
TypeOK == BufferType /\ StreamType /\ ClockType /\ FlowType /\ StatusType /\ MessageType

(* No memcpy of the receive half leaves its array: the offsets a handler    *)
(* copies to lie inside the buffer, and the carry is empty whenever a frame *)
(* may come, so that a whole frame finds room in it even behind a buffer    *)
(* the last refill has filled up.                                           *)
WithinBounds ==
    /\ receive_stream_carry_size < MAX_CAN_FRAME_SIZE
    /\ receive_status # "IDLE" =>
         /\ receive_offset <= receive_size
         /\ ~receive_streaming => receive_size <= receive_buf_size
         /\ receive_streaming => receive_stream_size <= receive_buf_size
    /\ Receiving =>
         /\ receive_offset < receive_size
         /\ receive_stream_carry_size = 0

(* Consecutive Frame f carries what the sequence number it has stands for   *)
(* behind First Frame g.                                                    *)
Continues(g, f) ==
    LET at   == FfReadLength(g) + ((f.SN + 15) % 16) * (g.len - 1)
        data == CfDataLength(FfPayloadLength(g) - at, g.len)
    IN  f.msg = g.msg /\ f.at = at /\ (data <= f.len - 1 => data <= f.n)

(* What a peer may put on the bus for the next two properties to hold: any  *)
(* number of Single Frame messages and one segmented message whose frames   *)
(* their four-bit sequence numbers tell apart.  With a second one, or a     *)
(* longer one, a loss of its First Frame or of sixteen frames goes          *)
(* unnoticed: nothing in a Consecutive Frame says which message it is from. *)
OneSegmentedMessage ==
    /\ \A f \in Frames : f.type = "SF" /\ SfAccepted(f) => f.at = 0 /\ SfPayloadLength(f) <= f.n
    /\ \A g \in Frames : g.type = "FF" /\ FfAccepted(g) =>
         /\ g.at = 0 /\ FfReadLength(g) <= g.n
         /\ FfPayloadLength(g) <= FfReadLength(g) + 16 * (g.len - 1)
         /\ \A f \in Frames : f.type = "CF" => Continues(g, f)

(* Conservation: what the application has taken, what is in the buffer and  *)
(* what is in the carry are together exactly the bytes received so far, in  *)
(* order and without a gap, however chunks and frame boundaries fall.       *)
BufferHoldsMessage ==
    receive_status # "IDLE" =>
        IF receive_streaming
        THEN /\ consumed + receive_stream_size + receive_stream_carry_size = receive_offset
             /\ \A i \in 1 .. receive_stream_size :
                    receive_buffer[i] = Byte(message, consumed + i)
             /\ \A i \in 1 .. receive_stream_carry_size :
                    receive_stream_carry[i] =
                        Byte(message, consumed + receive_stream_size + i)
        ELSE \A i \in 1 .. receive_offset : receive_buffer[i] = Byte(message, i)

(* Whatever is lost, repeated or out of order on the bus, the bytes handed  *)
(* to the application continue the message they belong to, and the end is   *)
(* reported with its last byte and not before.                              *)
DeliveredExact ==
    [][out' # NoData =>
         /\ \A i \in 1 .. Len(out'.bytes) : out'.bytes[i] = Byte(message', out'.from + i)
         /\ out'.complete <=> out'.from + Len(out'.bytes) = receive_size']_vars

(* While it waits the receiver has invited at least one frame: it never     *)
(* waits for a peer that waits for it.                                      *)
NeverWaitsUninvited == Receiving => invited > 0

(* A peer that keeps to its credit sends nothing while a full streaming     *)
(* buffer waits for the application.                                        *)
StreamBackpressure ==
    receive_status = "FULL" /\ receive_streaming => invited = 0

(* A reception is given up only when the response timeout has really gone   *)
(* by since its last frame or since its last chunk was taken.               *)
TimeoutHonest ==
    [][(receive_protocol_result' = "TIMEOUT_CR" /\ receive_protocol_result # "TIMEOUT_CR")
           => age_cr > RESPONSE_TIMEOUT_US]_vars

(* Once nothing arrives any more every reassembly ends.                     *)
SilenceEnds == []<><<FrameArrives>>_vars \/ []<>~Receiving

-----------------------------------------------------------------------------
(* What the documentation says and the code does not do *)

(* README: the library pauses the sender whenever the buffer fills.         *)
PausedWhileFull ==
    Receiving /\ receive_streaming => receive_stream_size < receive_buf_size

=============================================================================
