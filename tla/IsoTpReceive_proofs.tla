-------------------------- MODULE IsoTpReceive_proofs --------------------------
(***************************************************************************)
(* Proofs about the receive half for every frame length, buffer size, block *)
(* size and set of frames, in any order.  IInv is inductive: what is copied *)
(* where (WithinBounds) needs the bytes to be conserved between buffer and  *)
(* carry, and that somebody is invited needs the count of the block.  What  *)
(* the buffers hold and hand over (ContentsInv) comes last.                 *)
(***************************************************************************)
EXTENDS IsoTpReceive, IsoTpFrame_proofs, SequenceTheorems

-----------------------------------------------------------------------------
(* The operators of the model *)

LEMMA Constants ==
    /\ MAX_CAN_FRAME_SIZE \in 8 .. 64
    /\ BLOCK_SIZE \in 0 .. 255
    /\ RESPONSE_TIMEOUT_US \in Nat /\ RESPONSE_TIMEOUT_US \in Ticks
    /\ ClockStep \in Nat /\ ClockStep \in Ticks
    /\ StartTime \in Ticks
    /\ ENABLE_STREAMING \in BOOLEAN
    /\ \A size \in RECEIVE_BUF_SIZES : size \in Nat
    /\ \A size \in PayloadSizes : size \in Nat
    /\ \A f \in Frames : FrameType(f)
BY FrameAssumption, ReceiveAssumption, ZeroIsTick
DEF FrameParameters, ReceiveParameters, CAN_DL_CLASSIC, CanFdFrameSizes

(* The data bytes of a frame: as many as are read, and bytes they are.      *)
LEMMA FrameDataType ==
    ASSUME NEW f, f.n \in Nat, f.msg \in Nat, f.at \in Nat, NEW k \in Nat
    PROVE  /\ FrameData(f, k) \in Seq(Nat)
           /\ Len(FrameData(f, k)) = k
           /\ DOMAIN FrameData(f, k) = 1 .. k
<1>1. FrameData(f, k) \in [1 .. k -> Nat]
    BY DEF FrameData, Byte, NoByte
<1>2. FrameData(f, k) \in Seq(Nat)
    BY <1>1, SeqDef
<1>3. DOMAIN FrameData(f, k) = 1 .. k
    BY <1>1
<1>4. Len(FrameData(f, k)) = k
    BY <1>2, <1>3, LenProperties
<1> QED BY <1>2, <1>3, <1>4

(* A prefix or a suffix of a sequence of bytes.                             *)
LEMMA SubSeqType ==
    ASSUME NEW s \in Seq(Nat), NEW m \in 1 .. Len(s) + 1, NEW n \in 0 .. Len(s)
    PROVE  /\ SubSeq(s, m, n) \in Seq(Nat)
           /\ Len(SubSeq(s, m, n)) = IF m <= n THEN n - m + 1 ELSE 0
           /\ \A i \in 1 .. n - m + 1 : SubSeq(s, m, n)[i] = s[m + i - 1]
<1>1. Len(s) \in Nat /\ \A i \in m .. n : s[i] \in Nat
    BY LenProperties
<1>2. m \in Int /\ n \in Int /\ \A i \in m .. n : s[i] \in Nat
    BY <1>1
<1> QED BY ONLY <1>2, SubSeqProperties

(* memcpy keeps an array of bytes an array of bytes.                        *)
LEMMA OverwriteType ==
    ASSUME NEW size \in Nat, NEW memory \in [1 .. size -> Nat],
           NEW at \in Nat, NEW bytes \in Seq(Nat)
    PROVE  Overwrite(memory, at, bytes) \in [1 .. size -> Nat]
<1>1. \A j \in DOMAIN bytes : bytes[j] \in Nat
    BY LenProperties
<1> QED BY <1>1 DEF Overwrite

LEMMA BlankType == ASSUME NEW size \in Nat PROVE Blank(size) \in [1 .. size -> Nat]
BY DEF Blank, NoByte

LEMMA SmallerType ==
    ASSUME NEW a \in Int, NEW b \in Int
    PROVE  /\ Smaller(a, b) \in {a, b}
           /\ Smaller(a, b) <= a /\ Smaller(a, b) <= b
           /\ Smaller(a, b) < a => Smaller(a, b) = b
BY DEF Smaller

(* A Single Frame that is accepted carries between one byte and its length. *)
LEMMA SingleFrameData ==
    ASSUME NEW f, FrameType(f), f.type = "SF", SfAccepted(f)
    PROVE  SfPayloadLength(f) \in Nat \ {0}
BY DEF FrameType, SfAccepted, SfPayloadLength

(* A First Frame that is accepted carries some bytes, not the whole message *)
(* and fewer than a frame is long.                                          *)
LEMMA FirstFrameData ==
    ASSUME NEW f, FrameType(f), f.type = "FF", Plausible(f), FfAccepted(f)
    PROVE  /\ FfPayloadLength(f) \in Nat
           /\ FfReadLength(f) \in 1 .. MAX_CAN_FRAME_SIZE - 1
           /\ FfReadLength(f) < FfPayloadLength(f)
           /\ f.len \in 8 .. 64
<1>1. f.len \in 8 .. 64
    BY Constants DEF Plausible, FfAccepted, CAN_DL_CLASSIC
<1>2. FfPayloadLength(f) \in Nat
    <2>1. f.ff_dl_high \in Nat /\ f.ff_dl_low \in Nat /\ f.ff_dl \in Nat
        BY DEF FrameType
    <2>2. f.ff_dl_high * 256 + f.ff_dl_low \in Nat
        BY <2>1
    <2> QED BY <2>1, <2>2 DEF FfPayloadLength
<1>3. FfPayloadLength(f) > SfMaxPayload(f.len)
    BY DEF FfAccepted
<1>4. FfReadLength(f) \in {f.len - 6, f.len - 2}
    BY DEF FfReadLength
<1>5. SfMaxPayload(f.len) >= f.len - 2
    BY <1>1 DEF SfMaxPayload
<1>6. FfReadLength(f) < FfPayloadLength(f)
    BY <1>1, <1>2, <1>3, <1>4, <1>5 DEF SfMaxPayload
<1>7. f.len <= MAX_CAN_FRAME_SIZE
    BY Constants DEF Plausible
<1> QED BY <1>1, <1>2, <1>4, <1>6, <1>7, Constants

(* The next Consecutive Frame brings at least one byte, at most what is     *)
(* left, and a full frame unless it is the last.                            *)
LEMMA ConsecutiveFrameData ==
    ASSUME NEW left \in Nat \ {0}, NEW dl \in 0 .. 255
    PROVE  /\ CfWanted(left, dl) \in 1 .. left
           /\ CfWanted(left, dl) < left /\ dl >= CAN_DL_CLASSIC
                  => CfWanted(left, dl) = dl - 1
BY DEF CfWanted, CfDataLength, CAN_DL_CLASSIC

-----------------------------------------------------------------------------
(* The inductive invariant *)

(* What has been received is with the application, in the buffer or in the  *)
(* carry; a message that is not streamed never needs the carry.             *)
Conservation ==
    receive_status # "IDLE" =>
        IF receive_streaming
        THEN receive_offset = consumed + receive_stream_size + receive_stream_carry_size
        ELSE /\ receive_stream_carry_size = 0
             /\ receive_status = "FULL" => receive_offset = receive_size

(* The count of the block is what the last Flow Control still invites; a    *)
(* streaming link invites one frame at a time and none while it is full.    *)
Invitations ==
    /\ NeverWaitsUninvited /\ StreamBackpressure
    /\ Receiving =>
         /\ invited # INVALID_BS => invited = receive_bs_count
         /\ receive_streaming => invited = 1

IInv == TypeOK /\ WithinBounds /\ Conservation /\ Invitations

LEMMA InitIInv == Init => IInv
<1> SUFFICES ASSUME Init PROVE IInv OBVIOUS
<1>1. receive_buf_size \in Nat /\ MAX_CAN_FRAME_SIZE \in 8 .. 64
    BY Constants DEF Init, LinkInit
<1>2. BufferType
    <2>1. Blank(receive_buf_size) \in [1 .. receive_buf_size -> Nat]
        BY <1>1, BlankType
    <2>2. /\ receive_buffer = Blank(receive_buf_size) /\ rx_dl = 8
          /\ receive_size = 0 /\ receive_offset = 0 /\ receive_sn = 0
        BY DEF Init, LinkInit, CAN_DL_CLASSIC
    <2> QED BY <1>1, <2>1, <2>2 DEF BufferType
<1>3. StreamType
    <2>1. Blank(MAX_CAN_FRAME_SIZE - 1) \in [1 .. MAX_CAN_FRAME_SIZE - 1 -> Nat]
        <3>1. MAX_CAN_FRAME_SIZE - 1 \in Nat
            BY <1>1
        <3> QED BY <3>1, BlankType
    <2>2. /\ receive_stream_carry = Blank(MAX_CAN_FRAME_SIZE - 1)
          /\ receive_stream_size = 0 /\ receive_streaming \in BOOLEAN
          /\ receive_stream_carry_size = 0
        BY DEF Init, LinkInit
    <2> QED BY <1>1, <2>1, <2>2 DEF StreamType
<1>4. ClockType /\ FlowType /\ StatusType /\ MessageType
    <2>1. now = StartTime /\ receive_timer_cr = 0 /\ age_cr = 0
        BY DEF Init, LinkInit
    <2>2. ClockType
        BY <2>1, Constants, ZeroIsTick DEF ClockType
    <2>3. FlowType /\ MessageType
        BY InvalidBsRange DEF Init, LinkInit, FlowType, MessageType
    <2>4. StatusType
        BY DEF Init, LinkInit, StatusType
    <2> QED BY <2>2, <2>3, <2>4
<1>5. receive_status = "IDLE" /\ receive_stream_carry_size < MAX_CAN_FRAME_SIZE
    BY <1>1 DEF Init, LinkInit
<1>6. WithinBounds /\ Conservation /\ Invitations
    BY <1>5 DEF WithinBounds, Conservation, Invitations, NeverWaitsUninvited,
                StreamBackpressure, Receiving
<1> QED BY <1>2, <1>3, <1>4, <1>6 DEF IInv, TypeOK

-----------------------------------------------------------------------------
(* Types: what the handlers share, then one lemma for each of them *)

LEMMA NotifyEffect ==
    ASSUME NEW status, Notify(status)
    PROVE  /\ receive_status' \in {status, "IDLE"}
           /\ receive_streaming' \/ status # "FULL" => receive_status' = status
BY DEF Notify

LEMMA FlowControlEffect ==
    ASSUME NEW fs, fs # OVERFLOW, NEW bs \in 0 .. 255, NEW accepted,
           SendFlowControl(fs, bs, accepted)
    PROVE  /\ invited' \in 1 .. INVALID_BS
           /\ invited' = IF bs = 0 THEN INVALID_BS ELSE bs
BY InvalidBsRange DEF SendFlowControl

LEMMA BlockType ==
    ASSUME receive_streaming' \in BOOLEAN
    PROVE  Block \in 0 .. 255 /\ (receive_streaming' => Block = 1)
BY Constants DEF Block

LEMMA StartTimerType == ASSUME ClockType, UNCHANGED now, StartTimer PROVE ClockType'
<1>1. receive_timer_cr' \in Ticks
    BY Constants, WrapType DEF ClockType, StartTimer
<1> QED BY <1>1 DEF ClockType, StartTimer

(* Status and result of a frame that changes neither of them freely.        *)
LEMMA StatusStep ==
    ASSUME StatusType, UNCHANGED rx_done_cb,
           NEW status \in {"IDLE", "INPROGRESS", "FULL"}, Notify(status),
           receive_protocol_result' \in
               {receive_protocol_result, Interrupting, "BUFFER_OVFLW", "WRONG_SN", "UNEXP_PDU"}
    PROVE  StatusType'
BY NotifyEffect DEF StatusType, Interrupting

(* Groups of fields a step leaves alone. *)
LEMMA Unchanged ==
    ASSUME TypeOK
    PROVE  /\ UNCHANGED <<receive_buf_size, bufferVars>> => BufferType'
           /\ UNCHANGED streamVars => StreamType'
           /\ UNCHANGED <<now, timerVars>> => ClockType'
           /\ UNCHANGED flowVars => FlowType'
           /\ UNCHANGED messageVars => MessageType'
           /\ UNCHANGED <<recvStatusVars, rx_done_cb>> => StatusType'
<1> USE DEF TypeOK
<1>1. UNCHANGED <<receive_buf_size, bufferVars>> => BufferType'
    BY DEF BufferType, bufferVars
<1>2. UNCHANGED streamVars => StreamType'
    BY DEF StreamType, streamVars
<1>3. UNCHANGED <<now, timerVars>> => ClockType'
    BY DEF ClockType, timerVars
<1>4. UNCHANGED flowVars => FlowType'
    BY DEF FlowType, flowVars
<1>5. UNCHANGED messageVars => MessageType'
    BY DEF MessageType, messageVars
<1>6. UNCHANGED <<recvStatusVars, rx_done_cb>> => StatusType'
    BY DEF StatusType, recvStatusVars
<1> QED BY <1>1, <1>2, <1>3, <1>4, <1>5, <1>6

LEMMA SingleFrameType ==
    ASSUME TypeOK, NEW f, FrameType(f), ReceiveSingleFrame(f)
    PROVE  TypeOK'
<1> DEFINE n == SfPayloadLength(f)
<1>1. f.type = "SF" /\ UNCHANGED <<now, paramVars, flowVars, timerVars>>
    BY DEF ReceiveSingleFrame
<1>2. ClockType' /\ FlowType' /\ UNCHANGED <<receive_buf_size, rx_done_cb>>
    BY <1>1, Unchanged DEF paramVars
<1>3. receive_status \in {"IDLE", "INPROGRESS", "FULL"} /\ StatusType
    BY DEF TypeOK, StatusType
<1>4. CASE /\ SfAccepted(f) /\ n <= receive_buf_size
           /\ receive_buffer' = Overwrite(receive_buffer, 0, FrameData(f, n))
           /\ receive_size' = n /\ receive_offset' = n
           /\ receive_stream_size' = IF ENABLE_STREAMING THEN n ELSE 0
           /\ receive_streaming' = FALSE
           /\ receive_stream_carry_size' = 0
           /\ receive_protocol_result' = Interrupting
           /\ message' = f.msg /\ consumed' = 0
           /\ Notify("FULL")
           /\ UNCHANGED <<rx_dl, receive_sn, receive_stream_carry>>
    <2>0. n \in Nat
        BY <1>1, <1>4, SingleFrameData
    <2>1. FrameData(f, n) \in Seq(Nat) /\ f.msg \in Nat
        <3> HIDE DEF n
        <3> QED BY <2>0, FrameDataType DEF FrameType
    <2>2. StatusType'
        BY <1>2, <1>3, <1>4, StatusStep
    <2> HIDE DEF n
    <2>3. BufferType'
        <3>1. receive_buffer' \in [1 .. receive_buf_size -> Nat]
            <4>1. receive_buf_size \in Nat /\ receive_buffer \in [1 .. receive_buf_size -> Nat]
                BY DEF TypeOK, BufferType
            <4> QED BY <1>4, <2>1, <4>1, OverwriteType
        <3> QED BY <1>2, <1>4, <2>0, <3>1 DEF TypeOK, BufferType
    <2>4. StreamType' /\ MessageType'
        <3>1. receive_streaming' \in BOOLEAN
            BY <1>4
        <3> QED BY <1>4, <2>0, <2>1, <3>1, Constants DEF TypeOK, StreamType, MessageType
    <2> QED BY <1>2, <2>2, <2>3, <2>4 DEF TypeOK
<1>5. CASE /\ receive_protocol_result' \in {"BUFFER_OVFLW", Interrupting}
           /\ UNCHANGED <<bufferVars, streamVars, messageVars>>
           /\ Notify(receive_status)
    <2>1. BufferType' /\ StreamType' /\ MessageType'
        BY <1>2, <1>5, Unchanged
    <2>2. StatusType'
        BY <1>2, <1>3, <1>5, StatusStep
    <2> QED BY <1>2, <2>1, <2>2 DEF TypeOK
<1> QED BY <1>4, <1>5 DEF ReceiveSingleFrame

(* What a First Frame stores: as much as the buffer takes, the rest in the  *)
(* carry, which is empty unless the buffer is full.                         *)
LEMMA StoreFirstFrameEffect ==
    ASSUME TypeOK, NEW f, FrameType(f), f.type = "FF", Plausible(f), FfAccepted(f),
           ~FfOverflows(f), StoreFirstFrame(f)
    PROVE  /\ receive_offset' \in 1 .. MAX_CAN_FRAME_SIZE - 1
           /\ receive_offset' < receive_size' /\ receive_size' \in Nat
           /\ receive_streaming' \in BOOLEAN
           /\ receive_stream_size' \in Nat
           /\ receive_stream_carry_size' \in 0 .. MAX_CAN_FRAME_SIZE - 1
           /\ receive_streaming' =>
                  /\ receive_stream_size' <= receive_buf_size
                  /\ receive_offset' = receive_stream_size' + receive_stream_carry_size'
                  /\ receive_stream_size' < receive_buf_size => receive_stream_carry_size' = 0
           /\ ~receive_streaming' =>
                  receive_size' <= receive_buf_size /\ receive_stream_carry_size' = 0
<1> DEFINE n      == FfReadLength(f)
           size   == FfPayloadLength(f)
           stored == IF ENABLE_STREAMING THEN Smaller(n, receive_buf_size) ELSE n
<1>1. /\ n \in 1 .. MAX_CAN_FRAME_SIZE - 1 /\ n < size /\ size \in Nat
    BY FirstFrameData
<1>2. /\ receive_streaming' = (ENABLE_STREAMING /\ size > receive_buf_size)
      /\ receive_stream_size' = IF ENABLE_STREAMING THEN stored ELSE 0
      /\ receive_stream_carry_size' = n - stored
      /\ receive_offset' = n /\ receive_size' = size
    BY DEF StoreFirstFrame
<1>3. receive_buf_size \in Nat /\ MAX_CAN_FRAME_SIZE \in 8 .. 64
    BY Constants DEF TypeOK, BufferType
<1>4. ~ENABLE_STREAMING => size <= receive_buf_size
    <2> SUFFICES ASSUME ~ENABLE_STREAMING PROVE size <= receive_buf_size
        OBVIOUS
    <2>1. ~(size > receive_buf_size)
        BY DEF FfOverflows
    <2> HIDE DEF size
    <2> QED BY <1>1, <1>3, <2>1
<1>5. ENABLE_STREAMING \in BOOLEAN
    BY Constants
<1> HIDE DEF n, size
<1>6. CASE ENABLE_STREAMING
    <2>1. /\ receive_stream_size' = Smaller(n, receive_buf_size)
          /\ receive_stream_carry_size' = n - Smaller(n, receive_buf_size)
          /\ receive_streaming' <=> size > receive_buf_size
        BY <1>2, <1>6
    <2> QED BY <1>1, <1>2, <1>3, <2>1 DEF Smaller
<1>7. CASE ~ENABLE_STREAMING
    <2>1. receive_stream_size' = 0 /\ receive_stream_carry_size' = 0
        BY <1>1, <1>2, <1>7
    <2>2. ~receive_streaming' /\ receive_streaming' \in BOOLEAN
        BY <1>2, <1>7
    <2> QED BY <1>1, <1>2, <1>3, <1>4, <1>7, <2>1, <2>2
<1> QED BY <1>5, <1>6, <1>7

LEMMA FirstFrameStored ==
    ASSUME TypeOK, NEW f, FrameType(f), f.type = "FF", Plausible(f), FfAccepted(f),
           ~FfOverflows(f), StoreFirstFrame(f), UNCHANGED receive_buf_size
    PROVE  BufferType' /\ StreamType'
<1> DEFINE n      == FfReadLength(f)
           stored == IF ENABLE_STREAMING THEN Smaller(n, receive_buf_size) ELSE n
<1>1. n \in 1 .. MAX_CAN_FRAME_SIZE - 1 /\ MAX_CAN_FRAME_SIZE \in 8 .. 64
    BY FirstFrameData, Constants
<1>2. receive_buf_size \in Nat /\ receive_buffer \in [1 .. receive_buf_size -> Nat]
    BY DEF TypeOK, BufferType
<1>3. stored \in 0 .. n
    <2> HIDE DEF n
    <2> QED BY <1>1, <1>2 DEF Smaller
<1>4. /\ receive_buffer' = Overwrite(receive_buffer, 0, FrameData(f, stored))
      /\ receive_stream_carry' =
             Overwrite(receive_stream_carry, 0, SubSeq(FrameData(f, n), stored + 1, n))
      /\ receive_sn' = 1 /\ rx_dl' = f.len
    BY DEF StoreFirstFrame
<1> HIDE DEF n, stored
<1>5. /\ FrameData(f, stored) \in Seq(Nat)
      /\ FrameData(f, n) \in Seq(Nat) /\ Len(FrameData(f, n)) = n
    BY <1>1, <1>3, FrameDataType DEF FrameType
<1>6. SubSeq(FrameData(f, n), stored + 1, n) \in Seq(Nat)
    BY <1>1, <1>3, <1>5, SubSeqType
<1>7. receive_buffer' \in [1 .. receive_buf_size -> Nat]
    <2>1. Overwrite(receive_buffer, 0, FrameData(f, stored)) \in [1 .. receive_buf_size -> Nat]
        BY ONLY <1>2, <1>5, OverwriteType
    <2> QED BY <1>4, <2>1
<1>8. receive_stream_carry' \in [1 .. MAX_CAN_FRAME_SIZE - 1 -> Nat]
    <2>1. Overwrite(receive_stream_carry, 0, SubSeq(FrameData(f, n), stored + 1, n))
              \in [1 .. MAX_CAN_FRAME_SIZE - 1 -> Nat]
        <3>1. /\ receive_stream_carry \in [1 .. MAX_CAN_FRAME_SIZE - 1 -> Nat]
              /\ MAX_CAN_FRAME_SIZE - 1 \in Nat
            BY <1>1 DEF TypeOK, StreamType
        <3> QED BY ONLY <3>1, <1>6, OverwriteType
    <2> QED BY <1>4, <2>1
<1>9. rx_dl' \in 0 .. 255
    BY <1>4 DEF FrameType
<1>10. /\ receive_offset' \in 1 .. MAX_CAN_FRAME_SIZE - 1 /\ receive_size' \in Nat
       /\ receive_streaming' \in BOOLEAN /\ receive_stream_size' \in Nat
       /\ receive_stream_carry_size' \in 0 .. MAX_CAN_FRAME_SIZE - 1
    BY StoreFirstFrameEffect
<1>11. BufferType'
    BY <1>1, <1>2, <1>4, <1>7, <1>9, <1>10 DEF BufferType
<1>12. StreamType'
    BY <1>1, <1>8, <1>10 DEF StreamType
<1> QED BY <1>11, <1>12

LEMMA FirstFrameType ==
    ASSUME TypeOK, NEW f, FrameType(f), NEW accepted, ReceiveFirstFrame(f, accepted)
    PROVE  TypeOK'
<1>1. f.type = "FF" /\ Plausible(f) /\ UNCHANGED <<now, receive_buf_size, rx_done_cb>>
    BY DEF ReceiveFirstFrame, paramVars
<1>2. StatusType /\ receive_status \in {"IDLE", "INPROGRESS", "FULL"}
    BY DEF TypeOK, StatusType
<1>3. CASE FfAccepted(f) /\ ~FfOverflows(f)
    <2>1. /\ StoreFirstFrame(f) /\ receive_protocol_result' = Interrupting
          /\ message' = f.msg /\ consumed' = 0 /\ StartTimer
        BY <1>1, <1>3 DEF ReceiveFirstFrame
    <2>2. \/ invited' = 0 /\ Notify("FULL") /\ UNCHANGED receive_bs_count
          \/ /\ receive_bs_count' = Block
             /\ SendFlowControl(CONTINUE, receive_bs_count', accepted)
             /\ Notify("INPROGRESS")
        BY <1>1, <1>3 DEF ReceiveFirstFrame
    <2>3. BufferType' /\ StreamType'
        BY <1>1, <1>3, <2>1, FirstFrameStored
    <2>4. StatusType'
        BY <1>1, <1>2, <2>1, <2>2, StatusStep
    <2>5. ClockType'
        BY <1>1, <2>1, StartTimerType DEF TypeOK
    <2>6. MessageType'
        BY <2>1 DEF FrameType, MessageType
    <2>7. FlowType'
        <3>1. Block \in 0 .. 255
            BY <2>3, BlockType DEF StreamType
        <3>2. receive_bs_count' \in 0 .. 255
            BY <2>2, <3>1 DEF TypeOK, FlowType
        <3>3. invited' \in 0 .. INVALID_BS
            BY <2>2, <3>2, InvalidBsRange DEF SendFlowControl, CONTINUE, OVERFLOW
        <3> QED BY <3>2, <3>3 DEF FlowType
    <2> QED BY <2>3, <2>4, <2>5, <2>6, <2>7 DEF TypeOK
<1>4. CASE ~(FfAccepted(f) /\ ~FfOverflows(f))
    <2>1. /\ UNCHANGED <<bufferVars, streamVars, messageVars, timerVars, receive_bs_count>>
          /\ invited' \in {0, invited}
          /\ receive_protocol_result' \in {"BUFFER_OVFLW", Interrupting}
          /\ Notify("IDLE") \/ Notify(receive_status)
        BY <1>1, <1>4 DEF ReceiveFirstFrame, SendFlowControl, flowVars
    <2>2. BufferType' /\ StreamType' /\ ClockType' /\ MessageType'
        BY <1>1, <2>1, Unchanged
    <2>3. FlowType'
        BY <2>1, InvalidBsRange DEF TypeOK, FlowType
    <2>4. StatusType'
        BY <1>1, <1>2, <2>1, StatusStep
    <2> QED BY <2>2, <2>3, <2>4 DEF TypeOK
<1> QED BY <1>3, <1>4

(* What the next Consecutive Frame is to bring. *)
LEMMA NextData ==
    ASSUME TypeOK, WithinBounds, Receiving
    PROVE  /\ receive_size - receive_offset \in Nat \ {0}
           /\ CfWanted(receive_size - receive_offset, rx_dl) \in 1 .. receive_size - receive_offset
           /\ CfWanted(receive_size - receive_offset, rx_dl) < receive_size - receive_offset
              /\ rx_dl >= CAN_DL_CLASSIC
                  => CfWanted(receive_size - receive_offset, rx_dl) = rx_dl - 1
<1>1. receive_size - receive_offset \in Nat \ {0} /\ rx_dl \in 0 .. 255
    BY DEF TypeOK, BufferType, WithinBounds
<1> QED BY <1>1, ConsecutiveFrameData

(* A frame's worth of data goes to the buffer, and to the carry once the    *)
(* buffer is full.                                                          *)
LEMMA StoreStreamedEffect ==
    ASSUME TypeOK, receive_stream_size <= receive_buf_size,
           NEW data \in Seq(Nat), Len(data) \in 0 .. MAX_CAN_FRAME_SIZE - 1,
           StoreStreamed(data)
    PROVE  /\ receive_stream_size' \in Nat /\ receive_stream_size' <= receive_buf_size
           /\ receive_stream_carry_size' \in 0 .. MAX_CAN_FRAME_SIZE - 1
           /\ receive_stream_size + Len(data)
                  = receive_stream_size' + receive_stream_carry_size'
           /\ receive_stream_size' < receive_buf_size => receive_stream_carry_size' = 0
<1>1. /\ receive_stream_size' = receive_stream_size
             + Smaller(Len(data), receive_buf_size - receive_stream_size)
      /\ receive_stream_carry_size' = Len(data)
             - Smaller(Len(data), receive_buf_size - receive_stream_size)
    BY DEF StoreStreamed
<1>2. receive_buf_size \in Nat /\ receive_stream_size \in Nat /\ MAX_CAN_FRAME_SIZE \in 8 .. 64
    BY Constants DEF TypeOK, BufferType, StreamType
<1>3. CASE Len(data) < receive_buf_size - receive_stream_size
    <2>1. receive_stream_size' = receive_stream_size + Len(data)
          /\ receive_stream_carry_size' = 0
        BY <1>1, <1>3 DEF Smaller
    <2> QED BY <1>2, <1>3, <2>1
<1>4. CASE ~(Len(data) < receive_buf_size - receive_stream_size)
    <2>1. receive_stream_size' = receive_buf_size
          /\ receive_stream_carry_size' = Len(data) - (receive_buf_size - receive_stream_size)
        BY <1>1, <1>2, <1>4 DEF Smaller
    <2> QED BY <1>2, <1>4, <2>1
<1> QED BY <1>3, <1>4

LEMMA StoreStreamedType ==
    ASSUME TypeOK, receive_stream_size <= receive_buf_size,
           NEW data \in Seq(Nat), StoreStreamed(data)
    PROVE  /\ receive_buffer' \in [1 .. receive_buf_size -> Nat]
           /\ receive_stream_carry' \in [1 .. MAX_CAN_FRAME_SIZE - 1 -> Nat]
<1> DEFINE fits == Smaller(Len(data), receive_buf_size - receive_stream_size)
<1>1. /\ receive_buf_size \in Nat /\ receive_stream_size \in Nat /\ Len(data) \in Nat
      /\ MAX_CAN_FRAME_SIZE \in 8 .. 64
    BY Constants, LenProperties DEF TypeOK, BufferType, StreamType
<1>2. fits \in 0 .. Len(data)
    BY <1>1 DEF Smaller
<1>3. /\ receive_buffer' =
             Overwrite(receive_buffer, receive_stream_size, SubSeq(data, 1, fits))
      /\ receive_stream_carry' =
             Overwrite(receive_stream_carry, 0, SubSeq(data, fits + 1, Len(data)))
    BY DEF StoreStreamed
<1> HIDE DEF fits
<1>4. /\ SubSeq(data, 1, fits) \in Seq(Nat)
      /\ SubSeq(data, fits + 1, Len(data)) \in Seq(Nat)
    <2>1. 1 \in 1 .. Len(data) + 1 /\ fits + 1 \in 1 .. Len(data) + 1
        BY <1>1, <1>2
    <2>2. fits \in 0 .. Len(data) /\ Len(data) \in 0 .. Len(data)
        BY <1>1, <1>2
    <2> QED BY ONLY data \in Seq(Nat), <2>1, <2>2, SubSeqType
<1>5. receive_buffer \in [1 .. receive_buf_size -> Nat]
    BY DEF TypeOK, BufferType
<1>6. receive_stream_carry \in [1 .. MAX_CAN_FRAME_SIZE - 1 -> Nat]
    BY DEF TypeOK, StreamType
<1>7. Overwrite(receive_buffer, receive_stream_size, SubSeq(data, 1, fits))
          \in [1 .. receive_buf_size -> Nat]
    BY ONLY <1>1, <1>4, <1>5, OverwriteType
<1>8. Overwrite(receive_stream_carry, 0, SubSeq(data, fits + 1, Len(data)))
          \in [1 .. MAX_CAN_FRAME_SIZE - 1 -> Nat]
    <2>1. MAX_CAN_FRAME_SIZE - 1 \in Nat
        BY <1>1
    <2> QED BY ONLY <1>4, <1>6, <2>1, OverwriteType
<1> QED BY <1>3, <1>7, <1>8

(* The frames a Consecutive Frame that is in sequence leaves to be counted. *)
LEMMA CountType ==
    ASSUME FlowType, receive_streaming' \in BOOLEAN, NEW accepted,
           \/ Used /\ UNCHANGED receive_bs_count /\ invited > 0
           \/ CountBlock(accepted) /\ invited > 0
    PROVE  FlowType'
<1>1. Block \in 0 .. 255
    BY BlockType
<1>2. (receive_bs_count - 1) % 256 \in 0 .. 255
    BY DEF FlowType
<1>3. \/ receive_bs_count' = receive_bs_count /\ Used
      \/ receive_bs_count' = (receive_bs_count - 1) % 256 /\ Used
      \/ receive_bs_count' = Block /\ SendFlowControl(CONTINUE, Block, accepted)
    BY DEF CountBlock
<1>4. receive_bs_count' \in 0 .. 255
    BY <1>1, <1>2, <1>3 DEF FlowType
<1>5. Used => invited' \in 0 .. INVALID_BS
    BY InvalidBsRange DEF FlowType, Used
<1>6. SendFlowControl(CONTINUE, Block, accepted) => invited' \in 0 .. INVALID_BS
    <2> HIDE DEF Block
    <2> QED BY <1>1, InvalidBsRange DEF SendFlowControl, CONTINUE, OVERFLOW
<1> QED BY <1>3, <1>4, <1>5, <1>6 DEF FlowType

(* The data of a Consecutive Frame that is long enough. *)
LEMMA FrameContents ==
    ASSUME TypeOK, WithinBounds, Receiving, NEW f, FrameType(f), Plausible(f),
           NEW n, n = CfWanted(receive_size - receive_offset, rx_dl), n <= f.len - 1
    PROVE  /\ n \in 1 .. MAX_CAN_FRAME_SIZE - 1
           /\ n <= receive_size - receive_offset
           /\ FrameData(f, n) \in Seq(Nat) /\ Len(FrameData(f, n)) = n
<1>1. n \in 1 .. receive_size - receive_offset /\ receive_size - receive_offset \in Nat
    BY NextData
<1>2. f.len \in 2 .. MAX_CAN_FRAME_SIZE /\ MAX_CAN_FRAME_SIZE \in 8 .. 64
    BY Constants DEF Plausible
<1>3. n \in Nat /\ n \in 1 .. MAX_CAN_FRAME_SIZE - 1 /\ n <= receive_size - receive_offset
    BY <1>1, <1>2
<1>4. FrameData(f, n) \in Seq(Nat) /\ Len(FrameData(f, n)) = n
    BY <1>3, FrameDataType DEF FrameType
<1> QED BY <1>3, <1>4

(* A Consecutive Frame that is taken, and what it does to the reassembly.   *)
Taken(f, accepted) ==
    LET n == CfWanted(receive_size - receive_offset, rx_dl)
    IN  /\ f.type = "CF" /\ Plausible(f)
        /\ Receiving /\ InSequence(f) /\ n <= f.len - 1
        /\ IF receive_streaming THEN StoreStreamed(FrameData(f, n))
                                ELSE StoreWhole(FrameData(f, n))
        /\ receive_offset' = receive_offset + n
        /\ receive_sn' = NextSn(receive_sn)
        /\ StartTimer
        /\ UNCHANGED <<now, receive_buf_size, rx_done_cb, rx_dl, receive_size,
                       receive_streaming, receive_protocol_result, messageVars>>
        /\ \/ ChunkReady /\ Used /\ UNCHANGED receive_bs_count /\ Notify("FULL")
           \/ ~ChunkReady /\ CountBlock(accepted) /\ Notify("INPROGRESS")

(* A Consecutive Frame that is not: the reassembly stays as it is, and      *)
(* nothing is sent.                                                         *)
NotTaken ==
    /\ NoFlowControl
    /\ UNCHANGED <<now, receive_buf_size, rx_done_cb, bufferVars, streamVars, messageVars,
                   timerVars, flowVars>>
    /\ receive_protocol_result' \in {receive_protocol_result, "WRONG_SN", "UNEXP_PDU"}
    /\ Notify("IDLE") \/ Notify(receive_status)

LEMMA ConsecutiveFrameEffect ==
    ASSUME TypeOK, WithinBounds, NEW f, FrameType(f), NEW accepted,
           ReceiveConsecutiveFrame(f, accepted)
    PROVE  Taken(f, accepted) \/ NotTaken
<1> DEFINE n == CfWanted(receive_size - receive_offset, rx_dl)
<1>1. CASE Receiving /\ InSequence(f) /\ n <= f.len - 1
    <2>0. ~(n > f.len - 1)
        <3>1. n \in Nat /\ f.len \in Nat
            BY <1>1, NextData DEF FrameType
        <3> HIDE DEF n
        <3> QED BY <1>1, <3>1
    <2>1. Taken(f, accepted)
        BY <1>1, <2>0 DEF ReceiveConsecutiveFrame, Taken, paramVars
    <2> QED BY <2>1
<1>2. CASE ~(Receiving /\ InSequence(f) /\ n <= f.len - 1)
    <2>1. NotTaken
        BY <1>2 DEF ReceiveConsecutiveFrame, NotTaken, paramVars, Receiving
    <2> QED BY <2>1
<1> QED BY <1>1, <1>2

LEMMA TakenType ==
    ASSUME TypeOK, WithinBounds, NeverWaitsUninvited,
           NEW f, FrameType(f), NEW accepted, Taken(f, accepted)
    PROVE  TypeOK'
<1> DEFINE n    == CfWanted(receive_size - receive_offset, rx_dl)
           data == FrameData(f, n)
<1>1. Receiving /\ Plausible(f) /\ n <= f.len - 1
    BY DEF Taken
<1>2. n \in 1 .. MAX_CAN_FRAME_SIZE - 1 /\ data \in Seq(Nat) /\ Len(data) = n
    BY <1>1, FrameContents
<1>3. /\ receive_buf_size \in Nat /\ receive_offset \in Nat /\ receive_size \in Nat
      /\ receive_buffer \in [1 .. receive_buf_size -> Nat]
      /\ rx_dl \in 0 .. 255 /\ receive_sn \in 0 .. 15
    BY DEF TypeOK, BufferType
<1>4. /\ UNCHANGED <<now, receive_buf_size, rx_done_cb, rx_dl, receive_size,
                     receive_streaming, receive_protocol_result, messageVars>>
      /\ receive_offset' = receive_offset + n /\ receive_sn' = NextSn(receive_sn)
    BY DEF Taken
<1>5. receive_streaming' \in BOOLEAN
    BY <1>4 DEF TypeOK, StreamType
<1>6. /\ receive_buffer' \in [1 .. receive_buf_size -> Nat]
      /\ StreamType'
    <2>1. CASE receive_streaming
        <3>1. StoreStreamed(data) /\ receive_stream_size <= receive_buf_size
            BY <1>1, <2>1 DEF Taken, WithinBounds, Receiving
        <3> HIDE DEF data, n
        <3>2. Len(data) \in 0 .. MAX_CAN_FRAME_SIZE - 1
            BY <1>2, Constants
        <3>3. /\ receive_stream_size' \in Nat
              /\ receive_stream_carry_size' \in 0 .. MAX_CAN_FRAME_SIZE - 1
            BY <1>2, <3>1, <3>2, StoreStreamedEffect
        <3>4. /\ receive_buffer' \in [1 .. receive_buf_size -> Nat]
              /\ receive_stream_carry' \in [1 .. MAX_CAN_FRAME_SIZE - 1 -> Nat]
            BY <1>2, <3>1, StoreStreamedType
        <3> QED BY <1>5, <3>3, <3>4, Constants DEF StreamType
    <2>2. CASE ~receive_streaming
        <3>1. StoreWhole(data)
            BY <2>2 DEF Taken
        <3> HIDE DEF data, n
        <3>2. Overwrite(receive_buffer, receive_offset, data) \in [1 .. receive_buf_size -> Nat]
            BY ONLY <1>2, <1>3, OverwriteType
        <3>3. /\ receive_buffer' = Overwrite(receive_buffer, receive_offset, data)
              /\ UNCHANGED streamVars
            BY <1>4, <3>1 DEF StoreWhole, streamVars
        <3>4. StreamType'
            BY <3>3, Unchanged
        <3> QED BY <3>2, <3>3, <3>4
    <2> QED BY <2>1, <2>2
<1>7. BufferType'
    <2>1. NextSn(receive_sn) \in 0 .. 15
        BY <1>3 DEF NextSn
    <2> HIDE DEF n, data
    <2> QED BY <1>2, <1>3, <1>4, <1>6, <2>1 DEF BufferType
<1>8. ClockType'
    BY <1>4, StartTimerType DEF TypeOK, Taken
<1>9. MessageType'
    BY <1>4, Unchanged
<1>10. FlowType'
    <2>1. invited > 0
        BY <1>1 DEF NeverWaitsUninvited
    <2> QED BY <1>5, <2>1, CountType DEF Taken, TypeOK
<1>11. StatusType'
    <2>1. Notify("FULL") \/ Notify("INPROGRESS")
        BY DEF Taken
    <2> QED BY <1>4, <2>1, StatusStep DEF TypeOK
<1> QED BY <1>6, <1>7, <1>8, <1>9, <1>10, <1>11 DEF TypeOK

LEMMA NotTakenType == ASSUME TypeOK, NotTaken PROVE TypeOK'
<1>1. BufferType' /\ StreamType' /\ ClockType' /\ FlowType' /\ MessageType'
    BY Unchanged DEF NotTaken
<1>2. StatusType /\ receive_status \in {"IDLE", "INPROGRESS", "FULL"}
    BY DEF TypeOK, StatusType
<1>3. StatusType'
    BY <1>2, StatusStep DEF NotTaken
<1> QED BY <1>1, <1>3 DEF TypeOK

LEMMA OtherFrameEffect == ReceiveOtherFrame => NotTaken
BY DEF ReceiveOtherFrame, NotTaken, paramVars

-----------------------------------------------------------------------------
(* Types: the application's calls, time, and the life of the link *)

(* isotp_receive_streaming when it ends the message, and when it does not.  *)
EndTaken ==
    /\ receive_status = "FULL" /\ receive_status' = "IDLE"
    /\ receive_streaming' = FALSE
    /\ UNCHANGED <<now, receive_buf_size, rx_done_cb, bufferVars, receive_stream_size,
                   receive_stream_carry_size, receive_stream_carry, flowVars, timerVars,
                   messageVars, receive_protocol_result>>

ChunkTaken(accepted) ==
    /\ receive_status = "FULL" /\ receive_streaming /\ ~LastChunk
    /\ Refill
    /\ consumed' = consumed + receive_stream_size
    /\ UNCHANGED <<now, receive_buf_size, rx_done_cb, rx_dl, receive_size, receive_offset,
                   receive_sn, receive_streaming, message, receive_protocol_result>>
    /\ \/ /\ receive_stream_carry_size' > 0 \/ receive_offset >= receive_size
          /\ receive_status' = "FULL"
          /\ UNCHANGED <<flowVars, timerVars>>
       \/ /\ ~(receive_stream_carry_size' > 0 \/ receive_offset >= receive_size)
          /\ receive_status' = "INPROGRESS"
          /\ receive_bs_count' = 1
          /\ SendFlowControl(CONTINUE, 1, accepted)
          /\ StartTimer

LEMMA ReceiveStreamingEffect ==
    ASSUME NEW size, NEW accepted, ReceiveStreaming(size, accepted)
    PROVE  EndTaken \/ ChunkTaken(accepted)
<1>1. CASE ~receive_streaming \/ LastChunk
    BY <1>1 DEF ReceiveStreaming, EndTaken, paramVars, bufferVars
<1>2. CASE receive_streaming /\ ~LastChunk
    BY <1>2 DEF ReceiveStreaming, ChunkTaken, paramVars
<1> QED BY <1>1, <1>2

LEMMA EndTakenType == ASSUME TypeOK, EndTaken PROVE TypeOK'
<1>1. BufferType' /\ ClockType' /\ FlowType' /\ MessageType'
    BY Unchanged DEF EndTaken
<1>2. receive_streaming' \in BOOLEAN
    BY DEF EndTaken
<1>3. StreamType'
    BY <1>2, Constants DEF TypeOK, StreamType, EndTaken
<1>4. StatusType'
    BY DEF TypeOK, StatusType, EndTaken
<1> QED BY <1>1, <1>3, <1>4 DEF TypeOK

(* The carry goes to the front of the buffer, as far as the buffer goes.    *)
LEMMA RefillEffect ==
    ASSUME TypeOK, Refill
    PROVE  /\ receive_stream_size' \in Nat /\ receive_stream_carry_size' \in 0 .. 255
           /\ receive_stream_size' <= receive_buf_size
           /\ receive_stream_carry_size' <= receive_stream_carry_size
           /\ receive_stream_carry_size = receive_stream_size' + receive_stream_carry_size'
<1>1. receive_stream_carry_size \in 0 .. 255 /\ receive_buf_size \in Nat
    BY DEF TypeOK, StreamType, BufferType
<1>2. /\ receive_stream_size' = Smaller(receive_stream_carry_size, receive_buf_size)
      /\ receive_stream_carry_size' =
             receive_stream_carry_size - Smaller(receive_stream_carry_size, receive_buf_size)
    BY DEF Refill
<1> QED BY <1>1, <1>2 DEF Smaller

LEMMA RefillType ==
    ASSUME TypeOK, receive_stream_carry_size < MAX_CAN_FRAME_SIZE, Refill
    PROVE  /\ receive_buffer' \in [1 .. receive_buf_size -> Nat]
           /\ receive_stream_carry' \in [1 .. MAX_CAN_FRAME_SIZE - 1 -> Nat]
<1> DEFINE n     == Smaller(receive_stream_carry_size, receive_buf_size)
           carry == receive_stream_carry
           front == SubSeq(carry, 1, n)
           rest  == SubSeq(carry, n + 1, receive_stream_carry_size)
<1>1. /\ receive_buf_size \in Nat /\ receive_buffer \in [1 .. receive_buf_size -> Nat]
      /\ receive_stream_carry_size \in 0 .. 255
      /\ MAX_CAN_FRAME_SIZE - 1 \in Nat /\ MAX_CAN_FRAME_SIZE \in Nat
      /\ carry \in [1 .. MAX_CAN_FRAME_SIZE - 1 -> Nat]
    <2>1. MAX_CAN_FRAME_SIZE - 1 \in Nat /\ MAX_CAN_FRAME_SIZE \in Nat
        BY Constants
    <2>2. receive_buf_size \in Nat /\ receive_buffer \in [1 .. receive_buf_size -> Nat]
        BY DEF TypeOK, BufferType
    <2>3. /\ receive_stream_carry_size \in 0 .. 255
          /\ carry \in [1 .. MAX_CAN_FRAME_SIZE - 1 -> Nat]
        BY DEF TypeOK, StreamType
    <2> QED BY <2>1, <2>2, <2>3
<1>2. n \in 0 .. receive_stream_carry_size /\ receive_stream_carry_size <= MAX_CAN_FRAME_SIZE - 1
    BY <1>1 DEF Smaller
<1>3. /\ receive_buffer' = Overwrite(receive_buffer, 0, front)
      /\ receive_stream_carry' = Overwrite(carry, 0, rest)
    BY DEF Refill
<1> HIDE DEF n
<1>4. front \in Seq(Nat) /\ rest \in Seq(Nat)
    <2>1. \A i \in 1 .. receive_stream_carry_size : carry[i] \in Nat
        BY <1>1, <1>2
    <2>2. /\ \A i \in 1 .. n : carry[i] \in Nat
          /\ \A i \in n + 1 .. receive_stream_carry_size : carry[i] \in Nat
          /\ 1 \in Int /\ n \in Int /\ n + 1 \in Int /\ receive_stream_carry_size \in Int
        BY <1>1, <1>2, <2>1
    <2> HIDE DEF carry
    <2>3. front \in Seq(Nat)
        BY ONLY <2>2, SubSeqProperties
    <2>4. rest \in Seq(Nat)
        BY ONLY <2>2, SubSeqProperties
    <2> QED BY <2>3, <2>4
<1> HIDE DEF front, rest, carry
<1>5. Overwrite(receive_buffer, 0, front) \in [1 .. receive_buf_size -> Nat]
    BY ONLY <1>1, <1>4, OverwriteType
<1>6. Overwrite(carry, 0, rest) \in [1 .. MAX_CAN_FRAME_SIZE - 1 -> Nat]
    BY ONLY <1>1, <1>4, OverwriteType
<1> QED BY <1>3, <1>5, <1>6

LEMMA ChunkTakenType ==
    ASSUME TypeOK, WithinBounds, NEW accepted, ChunkTaken(accepted)
    PROVE  TypeOK'
<1>1. Refill /\ receive_stream_carry_size < MAX_CAN_FRAME_SIZE
    BY DEF ChunkTaken, WithinBounds
<1>2. BufferType'
    <2>1. receive_buffer' \in [1 .. receive_buf_size -> Nat]
        BY <1>1, RefillType
    <2> QED BY <2>1 DEF ChunkTaken, TypeOK, BufferType
<1>3. StreamType'
    <2>1. receive_streaming' \in BOOLEAN
        BY DEF ChunkTaken, TypeOK, StreamType
    <2>2. receive_stream_carry' \in [1 .. MAX_CAN_FRAME_SIZE - 1 -> Nat]
        BY <1>1, RefillType
    <2> QED BY <1>1, <2>1, <2>2, RefillEffect, Constants DEF StreamType
<1>4. MessageType'
    <2>1. consumed' = consumed + receive_stream_size /\ message' = message
        BY DEF ChunkTaken
    <2> QED BY <2>1 DEF TypeOK, MessageType, StreamType
<1>5. ClockType'
    <2>1. UNCHANGED now /\ (StartTimer \/ UNCHANGED timerVars)
        BY DEF ChunkTaken
    <2> QED BY <2>1, StartTimerType, Unchanged DEF TypeOK
<1>6. FlowType'
    BY InvalidBsRange DEF ChunkTaken, TypeOK, FlowType, flowVars, SendFlowControl,
                          CONTINUE, OVERFLOW
<1>7. StatusType'
    BY DEF ChunkTaken, TypeOK, StatusType
<1> QED BY <1>2, <1>3, <1>4, <1>5, <1>6, <1>7 DEF TypeOK

(* The buffers stay as they are; the message in them may end.               *)
Resting ==
    /\ UNCHANGED <<receive_buf_size, bufferVars, streamVars, flowVars, messageVars>>
    /\ receive_status' \in {receive_status, "IDLE"}

LEMMA ReceiveRests ==
    ASSUME TypeOK, NEW size, Receive(size)
    PROVE  TypeOK' /\ Resting
<1>1. BufferType' /\ StreamType' /\ ClockType' /\ FlowType' /\ MessageType'
    BY Unchanged DEF Receive, paramVars
<1>2. StatusType'
    BY DEF Receive, TypeOK, StatusType, paramVars
<1> QED BY <1>1, <1>2 DEF TypeOK, Receive, Resting, paramVars

LEMMA PollTimesOutRests ==
    ASSUME TypeOK, PollTimesOut
    PROVE  TypeOK' /\ Resting
<1>1. BufferType' /\ StreamType' /\ ClockType' /\ FlowType' /\ MessageType'
    BY Unchanged DEF PollTimesOut, paramVars
<1>2. StatusType'
    BY DEF PollTimesOut, TypeOK, StatusType, paramVars
<1> QED BY <1>1, <1>2 DEF TypeOK, PollTimesOut, Resting, paramVars

LEMMA SetRxDoneCbRests ==
    ASSUME TypeOK, NEW registered \in BOOLEAN, SetRxDoneCb(registered)
    PROVE  TypeOK' /\ Resting
<1>1. BufferType' /\ StreamType' /\ ClockType' /\ FlowType' /\ MessageType'
    BY Unchanged DEF SetRxDoneCb
<1>2. rx_done_cb' \in BOOLEAN /\ UNCHANGED <<receive_protocol_result, receive_status>>
    BY DEF SetRxDoneCb, recvStatusVars
<1>3. StatusType'
    BY <1>2 DEF TypeOK, StatusType
<1> QED BY <1>1, <1>2, <1>3 DEF TypeOK, SetRxDoneCb, Resting

LEMMA TickRests ==
    ASSUME TypeOK, Tick
    PROVE  TypeOK' /\ Resting
<1>1. BufferType' /\ StreamType' /\ FlowType' /\ MessageType' /\ StatusType'
    BY Unchanged DEF Tick, paramVars
<1>2. ClockType'
    <2>1. now' \in Ticks
        BY Constants, WrapType DEF Tick, TypeOK, ClockType
    <2> QED BY <2>1, Constants DEF Tick, TypeOK, ClockType
<1> QED BY <1>1, <1>2 DEF TypeOK, Tick, Resting, paramVars, recvStatusVars

LEMMA StutterRests ==
    ASSUME TypeOK, UNCHANGED vars
    PROVE  TypeOK' /\ Resting
<1>1. UNCHANGED <<now, paramVars, bufferVars, streamVars, flowVars, timerVars,
                  recvStatusVars, messageVars>>
    BY DEF vars
<1> QED BY <1>1, Unchanged DEF TypeOK, Resting, paramVars, recvStatusVars

LEMMA ResetType ==
    ASSUME TypeOK, NEW dl \in 0 .. 255, NEW size \in Nat, Reset(dl, size)
    PROVE  /\ TypeOK'
           /\ receive_status' = "IDLE" /\ receive_stream_carry_size' = 0
<1>1. BufferType'
    <2>1. receive_buffer' = Blank(size)
        BY DEF Reset
    <2>2. receive_buffer' \in [1 .. size -> Nat]
        BY <2>1, BlankType
    <2> QED BY <2>2 DEF Reset, BufferType
<1>2. StreamType'
    <2>1. /\ MAX_CAN_FRAME_SIZE - 1 \in Nat
          /\ receive_stream_carry' = Blank(MAX_CAN_FRAME_SIZE - 1)
        BY Constants DEF Reset
    <2>2. receive_stream_carry' \in [1 .. MAX_CAN_FRAME_SIZE - 1 -> Nat]
        BY <2>1, BlankType
    <2>3. receive_streaming' \in BOOLEAN
        BY DEF Reset
    <2> QED BY <2>1, <2>2, <2>3 DEF Reset, StreamType
<1>3. ClockType' /\ FlowType' /\ MessageType'
    BY ZeroIsTick, InvalidBsRange DEF Reset, TypeOK, ClockType, FlowType, MessageType
<1>4. StatusType'
    BY DEF Reset, StatusType
<1> QED BY <1>1, <1>2, <1>3, <1>4 DEF TypeOK, Reset

LEMMA LifeType ==
    ASSUME TypeOK, DestroyLink \/ \E size \in RECEIVE_BUF_SIZES : InitLink(size)
    PROVE  /\ TypeOK'
           /\ receive_status' = "IDLE" /\ receive_stream_carry_size' = 0
<1>1. CAN_DL_CLASSIC \in 0 .. 255 /\ \A size \in RECEIVE_BUF_SIZES : size \in Nat
    BY Constants DEF CAN_DL_CLASSIC
<1>2. \E dl \in 0 .. 255, size \in Nat : Reset(dl, size)
    BY <1>1 DEF DestroyLink, InitLink
<1> QED BY <1>2, ResetType

-----------------------------------------------------------------------------
(* Bounds, conservation and invitations *)

Kept == WithinBounds /\ Conservation /\ Invitations

LEMMA IdleKept ==
    ASSUME receive_status' = "IDLE", receive_stream_carry_size' < MAX_CAN_FRAME_SIZE
    PROVE  Kept'
BY DEF Kept, WithinBounds, Conservation, Invitations, NeverWaitsUninvited,
       StreamBackpressure, Receiving

LEMMA RestingKept == ASSUME Kept, Resting PROVE Kept'
<1>1. receive_stream_carry_size' < MAX_CAN_FRAME_SIZE
    BY DEF Kept, WithinBounds, Resting, streamVars
<1>2. CASE receive_status' = "IDLE"
    BY <1>1, <1>2, IdleKept
<1>3. CASE UNCHANGED <<receive_buf_size, bufferVars, streamVars, flowVars, messageVars,
                       receive_status>>
    <2> USE DEF bufferVars, streamVars, flowVars, messageVars, Receiving
    <2>1. WithinBounds'
        BY <1>3 DEF Kept, WithinBounds
    <2>2. Conservation'
        BY <1>3 DEF Kept, Conservation
    <2>3. Invitations'
        BY <1>3 DEF Kept, Invitations, NeverWaitsUninvited, StreamBackpressure
    <2> QED BY <2>1, <2>2, <2>3 DEF Kept
<1> QED BY <1>2, <1>3 DEF Resting

LEMMA NotTakenRests == NotTaken => Resting
BY NotifyEffect DEF NotTaken, Resting

LEMMA SingleFrameKept ==
    ASSUME TypeOK, Kept, NEW f, FrameType(f), ReceiveSingleFrame(f)
    PROVE  Kept'
<1> DEFINE n == SfPayloadLength(f)
<1>1. f.type = "SF" /\ UNCHANGED <<receive_buf_size, flowVars>>
    BY DEF ReceiveSingleFrame, paramVars
<1>2. CASE /\ SfAccepted(f) /\ n <= receive_buf_size
           /\ receive_size' = n /\ receive_offset' = n
           /\ receive_streaming' = FALSE /\ receive_stream_carry_size' = 0
           /\ Notify("FULL")
    <2>1. n \in Nat /\ receive_status' \in {"FULL", "IDLE"} /\ ~receive_streaming'
        BY <1>1, <1>2, SingleFrameData, NotifyEffect
    <2> HIDE DEF n
    <2>2. WithinBounds' /\ Conservation'
        BY <1>1, <1>2, <2>1, Constants DEF WithinBounds, Conservation, Receiving
    <2>3. Invitations'
        BY <2>1 DEF Invitations, NeverWaitsUninvited, StreamBackpressure, Receiving
    <2> QED BY <2>2, <2>3 DEF Kept
<1>3. CASE /\ UNCHANGED <<bufferVars, streamVars, messageVars>>
           /\ Notify(receive_status)
    <2>1. Resting
        BY <1>1, <1>3, NotifyEffect DEF Resting
    <2> QED BY <2>1, RestingKept
<1> QED BY <1>2, <1>3 DEF ReceiveSingleFrame

LEMMA FirstFrameKept ==
    ASSUME TypeOK, Kept, NEW f, FrameType(f), NEW accepted, ReceiveFirstFrame(f, accepted)
    PROVE  Kept'
<1>0. /\ receive_buf_size' = receive_buf_size
      /\ receive_buf_size \in Nat /\ MAX_CAN_FRAME_SIZE \in 8 .. 64
    BY Constants DEF ReceiveFirstFrame, paramVars, TypeOK, BufferType
<1>1. f.type = "FF" /\ Plausible(f)
    BY DEF ReceiveFirstFrame
<1>2. CASE FfAccepted(f) /\ ~FfOverflows(f)
    <2>1. StoreFirstFrame(f)
        BY <1>1, <1>2 DEF ReceiveFirstFrame
    <2>2. /\ receive_offset' \in 1 .. MAX_CAN_FRAME_SIZE - 1
          /\ receive_offset' < receive_size' /\ receive_size' \in Nat
          /\ receive_stream_size' \in Nat
          /\ receive_stream_carry_size' \in 0 .. MAX_CAN_FRAME_SIZE - 1
        BY <1>1, <1>2, <2>1, StoreFirstFrameEffect
    <2>3. /\ receive_streaming' => receive_stream_size' <= receive_buf_size
          /\ ~receive_streaming' => receive_size' <= receive_buf_size
          /\ ~receive_streaming' \/ receive_stream_size' < receive_buf_size
                 => receive_stream_carry_size' = 0
        BY <1>1, <1>2, <2>1, StoreFirstFrameEffect
    <2>s. ASSUME receive_status' # "FULL" \/ receive_streaming'
          PROVE  Conservation'
        <3>1. consumed' = 0
            BY <1>1, <1>2 DEF ReceiveFirstFrame
        <3>2. CASE receive_streaming'
            <4>1. receive_offset' = receive_stream_size' + receive_stream_carry_size'
                BY <1>1, <1>2, <2>1, <3>2, StoreFirstFrameEffect
            <4>2. receive_offset' = consumed' + receive_stream_size' + receive_stream_carry_size'
                BY <2>2, <3>1, <4>1
            <4> QED BY <3>2, <4>2 DEF Conservation
        <3>3. CASE ~receive_streaming'
            BY <2>s, <2>3, <3>3 DEF Conservation
        <3> QED BY <3>2, <3>3
    <2>4. CASE receive_streaming' /\ receive_stream_size' >= receive_buf_size
        <3>1. invited' = 0 /\ Notify("FULL")
            BY <1>1, <1>2, <2>4 DEF ReceiveFirstFrame
        <3>2. receive_status' = "FULL"
            BY <2>4, <3>1, NotifyEffect
        <3>3. WithinBounds'
            BY <1>0, <2>2, <2>3, <2>4, <3>2 DEF WithinBounds, Receiving
        <3>4. Conservation'
            BY <2>s, <2>4
        <3>5. Invitations'
            BY <3>1, <3>2 DEF Invitations, NeverWaitsUninvited, StreamBackpressure, Receiving
        <3> QED BY <3>3, <3>4, <3>5 DEF Kept
    <2>5. CASE ~(receive_streaming' /\ receive_stream_size' >= receive_buf_size)
        <3>1. /\ receive_bs_count' = Block
              /\ SendFlowControl(CONTINUE, receive_bs_count', accepted)
              /\ Notify("INPROGRESS")
            BY <1>1, <1>2, <2>5 DEF ReceiveFirstFrame
        <3>2. receive_status' = "INPROGRESS"
            BY <3>1, NotifyEffect
        <3>3. receive_stream_carry_size' = 0
            BY <1>0, <2>2, <2>3, <2>5
        <3>4. WithinBounds'
            BY <1>0, <2>2, <2>3, <3>2, <3>3 DEF WithinBounds, Receiving
        <3>5. Conservation'
            BY <2>s, <3>2
        <3>6. /\ receive_bs_count' \in 0 .. 255 /\ (receive_streaming' => receive_bs_count' = 1)
            <4>1. receive_streaming' \in BOOLEAN
                BY <1>1, <1>2, <2>1, StoreFirstFrameEffect
            <4> QED BY <3>1, <4>1, BlockType
        <3>7. invited' = IF receive_bs_count' = 0 THEN INVALID_BS ELSE receive_bs_count'
            BY <3>1 DEF SendFlowControl, CONTINUE, OVERFLOW
        <3>8. Invitations'
            BY <3>2, <3>6, <3>7, InvalidBsRange
            DEF Invitations, NeverWaitsUninvited, StreamBackpressure, Receiving
        <3> QED BY <3>4, <3>5, <3>8 DEF Kept
    <2> QED BY <2>4, <2>5
<1>3. CASE FfAccepted(f) /\ FfOverflows(f)
    <2>1. Notify("IDLE") /\ UNCHANGED streamVars
        BY <1>1, <1>3 DEF ReceiveFirstFrame
    <2>2. receive_status' = "IDLE"
        BY <2>1, NotifyEffect
    <2>3. receive_stream_carry_size' < MAX_CAN_FRAME_SIZE
        BY <2>1 DEF Kept, WithinBounds, streamVars
    <2> QED BY <2>2, <2>3, IdleKept
<1>4. CASE ~FfAccepted(f)
    <2>1. /\ UNCHANGED <<bufferVars, streamVars, messageVars, flowVars>>
          /\ Notify(receive_status)
        BY <1>4 DEF ReceiveFirstFrame
    <2>2. Resting
        BY <1>0, <2>1, NotifyEffect DEF Resting
    <2> QED BY <2>2, RestingKept
<1> QED BY <1>2, <1>3, <1>4

(* The data of a Consecutive Frame, wherever it is stored.                  *)
LEMMA TakenStored ==
    ASSUME TypeOK, Kept, NEW f, FrameType(f), NEW accepted, Taken(f, accepted)
    PROVE  /\ receive_offset' <= receive_size' /\ receive_offset' \in Nat
           /\ receive_stream_carry_size' < MAX_CAN_FRAME_SIZE
           /\ receive_streaming =>
                /\ receive_stream_size' <= receive_buf_size
                /\ receive_stream_size' < receive_buf_size => receive_stream_carry_size' = 0
                /\ receive_offset' = consumed' + receive_stream_size' + receive_stream_carry_size'
           /\ ~receive_streaming =>
                receive_size' <= receive_buf_size /\ receive_stream_carry_size' = 0
<1> DEFINE n    == CfWanted(receive_size - receive_offset, rx_dl)
           data == FrameData(f, n)
<1>1. WithinBounds /\ Conservation /\ receive_status = "INPROGRESS"
    BY DEF Kept, Taken, Receiving
<1>2. /\ n \in 1 .. MAX_CAN_FRAME_SIZE - 1 /\ n <= receive_size - receive_offset
      /\ data \in Seq(Nat) /\ Len(data) = n
    BY <1>1, FrameContents DEF Taken
<1>3. /\ receive_offset' = receive_offset + n
      /\ receive_size' = receive_size /\ consumed' = consumed
      /\ receive_streaming => StoreStreamed(data)
      /\ ~receive_streaming => receive_stream_carry_size' = receive_stream_carry_size
    BY DEF Taken, messageVars, StoreWhole
<1>4. receive_offset \in Nat /\ receive_size \in Nat /\ consumed \in Nat
      /\ receive_stream_size \in Nat /\ MAX_CAN_FRAME_SIZE \in 8 .. 64
    BY Constants DEF TypeOK, BufferType, MessageType, StreamType
<1>5. receive_stream_carry_size = 0
    BY <1>1 DEF WithinBounds, Receiving
<1> HIDE DEF data, n
<1>6. receive_offset' <= receive_size' /\ receive_offset' \in Nat
    BY <1>2, <1>3, <1>4
<1>7. CASE receive_streaming
    <2>1. receive_stream_size <= receive_buf_size
        BY <1>1, <1>7 DEF WithinBounds
    <2>2. Len(data) \in 0 .. MAX_CAN_FRAME_SIZE - 1
        BY <1>2, <1>4
    <2>3. StoreStreamed(data)
        BY <1>3, <1>7
    <2>4. /\ receive_stream_size' \in Nat /\ receive_stream_size' <= receive_buf_size
          /\ receive_stream_carry_size' \in 0 .. MAX_CAN_FRAME_SIZE - 1
          /\ receive_stream_size' < receive_buf_size => receive_stream_carry_size' = 0
        BY <1>2, <2>1, <2>2, <2>3, StoreStreamedEffect
    <2>5. receive_stream_size + n = receive_stream_size' + receive_stream_carry_size'
        BY <1>2, <2>1, <2>2, <2>3, StoreStreamedEffect
    <2>6. receive_offset = consumed + receive_stream_size + receive_stream_carry_size
        BY <1>1, <1>7 DEF Conservation
    <2>7. receive_offset' = consumed' + receive_stream_size' + receive_stream_carry_size'
        <3>1. receive_offset' = consumed + (receive_stream_size + n)
            BY <1>2, <1>3, <1>4, <1>5, <2>6
        <3>2. receive_offset' = consumed' + (receive_stream_size' + receive_stream_carry_size')
            BY <1>3, <2>5, <3>1
        <3>3. consumed' \in Nat /\ receive_stream_carry_size' \in Nat
            BY <1>3, <1>4, <2>4
        <3> QED BY <2>4, <3>2, <3>3
    <2> QED BY <1>4, <1>6, <1>7, <2>4, <2>7
<1>8. CASE ~receive_streaming
    <2>1. receive_size <= receive_buf_size
        BY <1>1, <1>8 DEF WithinBounds
    <2> QED BY <1>3, <1>4, <1>5, <1>6, <1>8, <2>1
<1> QED BY <1>7, <1>8

(* The last frame of a message, or of what the buffer holds.                *)
LEMMA LastTakenKept ==
    ASSUME TypeOK, Kept, NEW f, FrameType(f), NEW accepted, Taken(f, accepted),
           ChunkReady, Used, Notify("FULL")
    PROVE  Kept'
<1>1. UNCHANGED <<receive_buf_size, receive_streaming>>
    BY DEF Taken
<1>2. receive_status' = "FULL" \/ (~receive_streaming' /\ receive_status' = "IDLE")
    BY DEF Notify
<1>3. CASE receive_status' = "IDLE"
    BY <1>3, TakenStored, IdleKept
<1>4. CASE receive_status' = "FULL"
    <2>1. WithinBounds'
        BY <1>1, <1>4, TakenStored DEF WithinBounds, Receiving
    <2>2. Conservation'
        <3>1. CASE receive_streaming
            BY <1>1, <1>4, <3>1, TakenStored DEF Conservation
        <3>2. CASE ~receive_streaming
            <4>1. receive_offset' >= receive_size'
                BY <3>2 DEF ChunkReady, Taken
            <4>2. receive_offset' <= receive_size' /\ receive_offset' \in Nat
                BY TakenStored
            <4>3. receive_size' \in Nat
                BY DEF Taken, TypeOK, BufferType
            <4>4. receive_offset' = receive_size'
                BY <4>1, <4>2, <4>3
            <4>5. receive_stream_carry_size' = 0
                BY <3>2, TakenStored
            <4> QED BY <1>1, <3>2, <4>4, <4>5 DEF Conservation
        <3> QED BY <3>1, <3>2
    <2>3. Invitations'
        <3>1. receive_streaming => invited = 1
            BY DEF Kept, Invitations, Taken
        <3>2. receive_streaming' => invited' = 0
            BY <1>1, <3>1, InvalidBsRange DEF Used
        <3> QED BY <1>4, <3>2 DEF Invitations, NeverWaitsUninvited, StreamBackpressure, Receiving
    <2> QED BY <2>1, <2>2, <2>3 DEF Kept
<1> QED BY <1>2, <1>3, <1>4

(* A frame after which more is awaited.                                     *)
LEMMA MoreTakenKept ==
    ASSUME TypeOK, Kept, NEW f, FrameType(f), NEW accepted, Taken(f, accepted),
           ~ChunkReady, CountBlock(accepted), Notify("INPROGRESS")
    PROVE  Kept'
<1>1. UNCHANGED <<receive_buf_size, receive_streaming, receive_size>>
    BY DEF Taken
<1>2. receive_status' = "INPROGRESS"
    BY NotifyEffect
<1>3. receive_size \in Nat /\ receive_buf_size \in Nat
    BY DEF TypeOK, BufferType
<1>4. receive_offset' < receive_size'
    <2>1. ~(receive_offset' >= receive_size')
        BY <1>1 DEF ChunkReady
    <2>2. receive_offset' \in Nat
        BY TakenStored
    <2> QED BY <1>1, <1>3, <2>1, <2>2
<1>5. receive_stream_carry_size' = 0
    <2>1. CASE receive_streaming
        <3>1. ~(receive_stream_size' >= receive_buf_size) /\ receive_stream_size' \in Nat
            <4>1. TypeOK'
                BY TakenType DEF Kept, Invitations
            <4> QED BY <2>1, <4>1 DEF ChunkReady, TypeOK, StreamType
        <3>2. receive_stream_size' < receive_buf_size
            BY <1>3, <3>1
        <3> QED BY <2>1, <3>2, TakenStored
    <2>2. CASE ~receive_streaming
        BY <2>2, TakenStored
    <2> QED BY <2>1, <2>2
<1>6. WithinBounds'
    BY <1>1, <1>2, <1>4, <1>5, TakenStored DEF WithinBounds, Receiving
<1>7. Conservation'
    BY <1>1, <1>2, <1>5, TakenStored DEF Conservation
<1>8. Invitations'
    <2> DEFINE count == (receive_bs_count - 1) % 256
    <2>1. /\ invited > 0
          /\ invited # INVALID_BS => invited = receive_bs_count
          /\ receive_streaming => invited = 1
        BY DEF Kept, Invitations, NeverWaitsUninvited, Taken
    <2>2. receive_bs_count \in 0 .. 255 /\ invited \in 0 .. INVALID_BS
        BY DEF TypeOK, FlowType
    <2>3. receive_streaming' \in BOOLEAN
        BY <1>1 DEF TypeOK, StreamType
    <2>4. Block \in 0 .. 255 /\ (receive_streaming' => Block = 1)
        BY <2>3, BlockType
    <2>5. CASE count = 0
        <3>1. receive_bs_count' = Block /\ SendFlowControl(CONTINUE, Block, accepted)
            BY <2>5 DEF CountBlock
        <3>2. invited' = IF Block = 0 THEN INVALID_BS ELSE Block
            BY <3>1 DEF SendFlowControl, CONTINUE, OVERFLOW
        <3> QED BY <1>2, <2>4, <3>1, <3>2, InvalidBsRange
                DEF Invitations, NeverWaitsUninvited, StreamBackpressure, Receiving
    <2>6. CASE count # 0
        <3>1. receive_bs_count' = count /\ Used
            BY <2>6 DEF CountBlock
        <3>2. CASE invited = INVALID_BS
            <4>1. invited' = INVALID_BS /\ ~receive_streaming'
                BY <1>1, <2>1, <3>1, <3>2, InvalidBsRange DEF Used
            <4> QED BY <1>2, <4>1, InvalidBsRange
                    DEF Invitations, NeverWaitsUninvited, StreamBackpressure, Receiving
        <3>3. CASE invited # INVALID_BS
            <4>1. invited = receive_bs_count /\ invited' = invited - 1
                BY <2>1, <3>1, <3>3 DEF Used
            <4>2. receive_bs_count > 1
                BY <2>1, <2>2, <2>6, <4>1
            <4>3. count = receive_bs_count - 1
                BY <2>2, <4>2
            <4>4. ~receive_streaming'
                BY <1>1, <2>1, <4>1, <4>2
            <4>5. invited' = receive_bs_count' /\ invited' > 0
                BY <2>2, <3>1, <4>1, <4>2, <4>3
            <4> QED BY <1>2, <4>4, <4>5
                    DEF Invitations, NeverWaitsUninvited, StreamBackpressure, Receiving
        <3> QED BY <3>2, <3>3
    <2> QED BY <2>5, <2>6
<1> QED BY <1>6, <1>7, <1>8 DEF Kept

LEMMA TakenKept ==
    ASSUME TypeOK, Kept, NEW f, FrameType(f), NEW accepted, Taken(f, accepted)
    PROVE  Kept'
<1>1. \/ ChunkReady /\ Used /\ Notify("FULL")
      \/ ~ChunkReady /\ CountBlock(accepted) /\ Notify("INPROGRESS")
    BY DEF Taken
<1> QED BY <1>1, LastTakenKept, MoreTakenKept

(* A chunk of a streamed message is taken, and the carry moves up.          *)
LEMMA ChunkTakenKept ==
    ASSUME TypeOK, Kept, NEW accepted, ChunkTaken(accepted)
    PROVE  Kept'
<1>1. /\ UNCHANGED <<receive_buf_size, receive_streaming, receive_size, receive_offset>>
      /\ receive_status = "FULL" /\ receive_streaming
      /\ consumed' = consumed + receive_stream_size
    BY DEF ChunkTaken
<1>2. /\ receive_offset \in Nat /\ receive_size \in Nat /\ consumed \in Nat
      /\ receive_stream_size \in Nat /\ receive_stream_carry_size \in 0 .. 255
      /\ receive_buf_size \in Nat /\ MAX_CAN_FRAME_SIZE \in 8 .. 64
    BY Constants DEF TypeOK, BufferType, MessageType, StreamType
<1>3. /\ receive_stream_size' \in Nat /\ receive_stream_carry_size' \in 0 .. 255
      /\ receive_stream_size' <= receive_buf_size
      /\ receive_stream_carry_size' <= receive_stream_carry_size
    BY RefillEffect DEF ChunkTaken
<1>4. /\ receive_offset <= receive_size
      /\ receive_stream_carry_size < MAX_CAN_FRAME_SIZE
    BY <1>1 DEF Kept, WithinBounds
<1>5. Conservation'
    <2>1. receive_offset = consumed + receive_stream_size + receive_stream_carry_size
        BY <1>1 DEF Kept, Conservation
    <2>2. receive_offset' = (consumed + receive_stream_size) + receive_stream_carry_size
        BY <1>1, <2>1
    <2>3. receive_offset' = consumed' + (receive_stream_size' + receive_stream_carry_size')
        <3>1. receive_stream_carry_size = receive_stream_size' + receive_stream_carry_size'
            BY RefillEffect DEF ChunkTaken
        <3> QED BY <1>1, <2>2, <3>1
    <2>4. consumed' \in Nat /\ receive_stream_carry_size' \in Nat
        BY <1>1, <1>2, <1>3
    <2>5. receive_offset' = consumed' + receive_stream_size' + receive_stream_carry_size'
        BY <1>3, <2>3, <2>4
    <2> QED BY <1>1, <2>5 DEF Conservation
<1>6. receive_stream_carry_size' < MAX_CAN_FRAME_SIZE
    BY <1>2, <1>3, <1>4
<1>7. CASE /\ receive_stream_carry_size' > 0 \/ receive_offset >= receive_size
           /\ receive_status' = "FULL"
           /\ UNCHANGED <<flowVars, timerVars>>
    <2>1. WithinBounds'
        BY <1>1, <1>3, <1>4, <1>6, <1>7 DEF WithinBounds, Receiving
    <2>2. Invitations'
        BY <1>1, <1>7 DEF Kept, Invitations, NeverWaitsUninvited, StreamBackpressure,
                          Receiving, flowVars
    <2> QED BY <1>5, <2>1, <2>2 DEF Kept
<1>8. CASE /\ ~(receive_stream_carry_size' > 0 \/ receive_offset >= receive_size)
           /\ receive_status' = "INPROGRESS"
           /\ receive_bs_count' = 1
           /\ SendFlowControl(CONTINUE, 1, accepted)
    <2>1. receive_stream_carry_size' = 0 /\ receive_offset < receive_size
        BY <1>2, <1>3, <1>8
    <2>2. WithinBounds'
        BY <1>1, <1>3, <1>4, <1>6, <1>8, <2>1 DEF WithinBounds, Receiving
    <2>3. invited' = 1
        BY <1>8 DEF SendFlowControl, CONTINUE, OVERFLOW
    <2>4. Invitations'
        BY <1>8, <2>3 DEF Invitations, NeverWaitsUninvited, StreamBackpressure, Receiving
    <2> QED BY <1>5, <2>2, <2>4 DEF Kept
<1> QED BY <1>7, <1>8 DEF ChunkTaken

-----------------------------------------------------------------------------
(* A frame of any kind that has the types of its fields; IsoTpLink and       *)
(* IsoTpNetwork hand over frames of their own.                               *)
LEMMA OnCanMessageStep ==
    ASSUME IInv, NEW f, FrameType(f), NEW accepted, OnCanMessage(f, accepted)
    PROVE  IInv'
<1>0. TypeOK /\ Kept
    BY DEF IInv, Kept
<1>1. CASE ReceiveSingleFrame(f)
    BY <1>0, <1>1, SingleFrameType, SingleFrameKept DEF IInv, Kept
<1>2. CASE ReceiveFirstFrame(f, accepted)
    BY <1>0, <1>2, FirstFrameType, FirstFrameKept DEF IInv, Kept
<1>3. CASE ReceiveConsecutiveFrame(f, accepted)
    <2>1. WithinBounds /\ NeverWaitsUninvited
        BY DEF IInv, Invitations
    <2>2. CASE Taken(f, accepted)
        BY <1>0, <2>1, <2>2, TakenType, TakenKept DEF IInv, Kept
    <2>3. CASE NotTaken
        BY <1>0, <2>3, NotTakenType, NotTakenRests, RestingKept DEF IInv, Kept
    <2> QED BY <1>0, <1>3, <2>1, <2>2, <2>3, ConsecutiveFrameEffect
<1> QED BY <1>1, <1>2, <1>3 DEF OnCanMessage

LEMMA RestingStep == ASSUME IInv, TypeOK', Resting PROVE IInv'
BY RestingKept DEF IInv, Kept

LEMMA OtherFrameStep == ASSUME IInv, ReceiveOtherFrame PROVE IInv'
BY OtherFrameEffect, NotTakenType, NotTakenRests, RestingStep DEF IInv

LEMMA TakeDataStep ==
    ASSUME IInv, NEW size, NEW accepted, Receive(size) \/ ReceiveStreaming(size, accepted)
    PROVE  IInv'
<1>0. TypeOK /\ Kept /\ WithinBounds
    BY DEF IInv, Kept
<1>1. CASE Receive(size)
    BY <1>0, <1>1, ReceiveRests, RestingStep
<1>2. CASE EndTaken
    <2>1. receive_stream_carry_size' < MAX_CAN_FRAME_SIZE /\ receive_status' = "IDLE"
        BY <1>0, <1>2 DEF EndTaken, WithinBounds
    <2> QED BY <1>0, <1>2, <2>1, EndTakenType, IdleKept DEF IInv, Kept
<1>3. CASE ChunkTaken(accepted)
    BY <1>0, <1>3, ChunkTakenType, ChunkTakenKept DEF IInv, Kept
<1> QED BY <1>1, <1>2, <1>3, ReceiveStreamingEffect

LEMMA LifeStep ==
    ASSUME IInv, DestroyLink \/ \E size \in RECEIVE_BUF_SIZES : InitLink(size)
    PROVE  IInv'
<1>1. TypeOK' /\ receive_status' = "IDLE" /\ receive_stream_carry_size' = 0
    BY LifeType DEF IInv
<1>2. receive_stream_carry_size' < MAX_CAN_FRAME_SIZE
    BY <1>1, Constants
<1> QED BY <1>1, <1>2, IdleKept DEF IInv, Kept

LEMMA NextStep == IInv /\ [Next]_vars => IInv'
<1> SUFFICES ASSUME IInv, [Next]_vars PROVE IInv'
    OBVIOUS
<1>0. TypeOK
    BY DEF IInv
<1>1. CASE FrameArrives
    BY <1>1, OnCanMessageStep, OtherFrameStep, Constants DEF FrameArrives
<1>2. CASE TakeData
    BY <1>2, TakeDataStep DEF TakeData
<1>3. CASE PollTimesOut
    BY <1>0, <1>3, PollTimesOutRests, RestingStep
<1>4. ASSUME NEW registered \in BOOLEAN, SetRxDoneCb(registered) PROVE IInv'
    BY <1>0, <1>4, SetRxDoneCbRests, RestingStep
<1>5. CASE DestroyLink \/ \E size \in RECEIVE_BUF_SIZES : InitLink(size)
    BY <1>5, LifeStep
<1>6. CASE Tick
    BY <1>0, <1>6, TickRests, RestingStep
<1>7. CASE UNCHANGED vars
    BY <1>0, <1>7, StutterRests, RestingStep
<1> QED BY <1>1, <1>2, <1>3, <1>4, <1>5, <1>6, <1>7 DEF Next

(* IInv is an invariant of the receive half.                                *)
THEOREM ReceiveInvariance == Spec => []IInv
<1>1. Init => IInv
    BY InitIInv
<1>2. IInv /\ [Next]_vars => IInv'
    BY NextStep
<1> QED BY <1>1, <1>2, PTL DEF Spec

(* Every field of the receive half keeps the range of its C type, whatever  *)
(* frames arrive in whatever order.                                         *)
THEOREM ReceiveTypeCorrect == Spec => []TypeOK
<1>1. IInv => TypeOK
    BY DEF IInv
<1> QED BY <1>1, ReceiveInvariance, PTL

(* No memcpy of isotp_on_can_message or isotp_receive_streaming leaves its  *)
(* array, for every buffer size, frame length and sequence of frames.       *)
THEOREM CopiesWithinBounds == Spec => []WithinBounds
<1>1. IInv => WithinBounds
    BY DEF IInv
<1> QED BY <1>1, ReceiveInvariance, PTL

(* A receiver that waits has invited a frame, at every block size: it never *)
(* waits for a peer that waits for it.                                      *)
THEOREM WaitingIsInvited == Spec => []NeverWaitsUninvited
<1>1. IInv => NeverWaitsUninvited
    BY DEF IInv, Invitations
<1> QED BY <1>1, ReceiveInvariance, PTL

(* While a full streaming buffer waits for the application no frame is      *)
(* invited.                                                                 *)
THEOREM StreamingHoldsBack == Spec => []StreamBackpressure
<1>1. IInv => StreamBackpressure
    BY DEF IInv, Invitations
<1> QED BY <1>1, ReceiveInvariance, PTL

-----------------------------------------------------------------------------
(* The response timeout, wherever the clock wraps: the counterpart of the    *)
(* transmit half's, under the same two conditions on the build and on the   *)
(* calls of isotp_poll.                                                     *)

Punctual ==
    /\ COMPARISONS = {"wrapping"}
    /\ MaxLateness <= HALF_RANGE

(* The receive timer was started at time t.                                 *)
StartedAt(t) ==
    /\ now = WrapAdd(t, age_cr)
    /\ receive_timer_cr = WrapAdd(t, RESPONSE_TIMEOUT_US)

(* While a message is being received its deadline is one timeout after the  *)
(* last frame or the last chunk taken.                                      *)
TimerInv ==
    Receiving =>
        /\ age_cr <= RESPONSE_TIMEOUT_US + MaxLateness
        /\ \E t \in Ticks : StartedAt(t)

LEMMA TimeTypes ==
    /\ HALF_RANGE \in Nat \ {0}
    /\ RESPONSE_TIMEOUT_US \in 1 .. HALF_RANGE - 1
    /\ MaxLateness \in Nat
    /\ ClockStep \in Nat
BY FrameAssumption, ReceiveAssumption DEF FrameParameters, ReceiveParameters

TimedOut == receive_protocol_result' = "TIMEOUT_CR" /\ receive_protocol_result # "TIMEOUT_CR"

-----------------------------------------------------------------------------
(* A timer that has just been started.                                      *)
LEMMA FreshTimer ==
    ASSUME now \in Ticks, UNCHANGED now, StartTimer
    PROVE  TimerInv'
<1>1. age_cr' = 0 /\ receive_timer_cr' = WrapAdd(now, RESPONSE_TIMEOUT_US)
    BY DEF StartTimer
<1>2. now' = WrapAdd(now, age_cr')
    BY <1>1, WrapAddZero
<1>3. StartedAt(now)'
    BY <1>1, <1>2 DEF StartedAt
<1>4. age_cr' <= RESPONSE_TIMEOUT_US + MaxLateness
    BY <1>1, TimeTypes
<1> QED BY <1>1, <1>2, <1>4 DEF TimerInv, StartedAt

(* Steps that leave the timer, the clock and the status alone, or that end  *)
(* whatever was being received.                                             *)
LEMMA QuietStep ==
    ASSUME TimerInv,
           \/ UNCHANGED <<now, timerVars>> /\ (Receiving' => Receiving)
           \/ ~Receiving'
    PROVE  TimerInv'
<1>1. CASE ~Receiving'
    BY <1>1 DEF TimerInv
<1>2. CASE UNCHANGED <<now, timerVars>> /\ Receiving
    BY <1>2 DEF TimerInv, StartedAt, timerVars
<1> QED BY <1>1, <1>2

(* A frame that is taken for the message starts the timer again, any other  *)
(* leaves it alone, and none reports a timeout.                             *)
LEMMA OnCanMessageTimer ==
    ASSUME IInv, TimerInv, NEW f, FrameType(f), NEW accepted, OnCanMessage(f, accepted)
    PROVE  TimerInv' /\ ~TimedOut
<1>0. TypeOK /\ WithinBounds /\ now \in Ticks
    BY DEF IInv, TypeOK, ClockType
<1>1. CASE ReceiveSingleFrame(f)
    <2>1. UNCHANGED <<now, timerVars>> /\ (Notify("FULL") \/ Notify(receive_status))
        BY <1>1 DEF ReceiveSingleFrame
    <2>2. Receiving' => Receiving
        BY <2>1, NotifyEffect DEF Receiving
    <2>3. ~TimedOut
        BY <1>1 DEF ReceiveSingleFrame, TimedOut, Interrupting
    <2> QED BY <2>1, <2>2, <2>3, QuietStep
<1>2. CASE ReceiveFirstFrame(f, accepted)
    <2>1. /\ UNCHANGED now
          /\ \/ StartTimer
             \/ UNCHANGED timerVars /\ (Notify("IDLE") \/ Notify(receive_status))
        BY <1>2 DEF ReceiveFirstFrame
    <2>2. UNCHANGED timerVars /\ (Notify("IDLE") \/ Notify(receive_status)) =>
              (Receiving' => Receiving)
        BY NotifyEffect DEF Receiving
    <2>3. ~TimedOut
        BY <1>2 DEF ReceiveFirstFrame, TimedOut, Interrupting
    <2> QED BY <1>0, <2>1, <2>2, <2>3, QuietStep, FreshTimer
<1>3. CASE ReceiveConsecutiveFrame(f, accepted)
    <2>1. CASE Taken(f, accepted)
        BY <1>0, <2>1, FreshTimer DEF Taken, TimedOut
    <2>2. CASE NotTaken
        <3>1. UNCHANGED <<now, timerVars>> /\ ~TimedOut
            BY <2>2 DEF NotTaken, TimedOut
        <3>2. Receiving' => Receiving
            BY <2>2, NotifyEffect DEF NotTaken, Receiving
        <3> QED BY <3>1, <3>2, QuietStep
    <2> QED BY <1>0, <1>3, <2>1, <2>2, ConsecutiveFrameEffect
<1> QED BY <1>1, <1>2, <1>3 DEF OnCanMessage

LEMMA TakeDataTimer ==
    ASSUME TypeOK, TimerInv, NEW size, NEW accepted,
           Receive(size) \/ ReceiveStreaming(size, accepted)
    PROVE  TimerInv' /\ ~TimedOut
<1>1. CASE Receive(size) \/ EndTaken
    <2>1. ~Receiving' /\ ~TimedOut
        BY <1>1 DEF Receive, EndTaken, Receiving, TimedOut
    <2> QED BY <2>1, QuietStep
<1>2. CASE ChunkTaken(accepted)
    <2>1. /\ UNCHANGED now /\ ~TimedOut
          /\ StartTimer \/ receive_status' = "FULL"
        BY <1>2 DEF ChunkTaken, TimedOut
    <2> QED BY <2>1, FreshTimer, QuietStep DEF TypeOK, ClockType, Receiving
<1> QED BY <1>1, <1>2, ReceiveStreamingEffect

(* isotp_poll reports the timeout only when it has gone by.                 *)
LEMMA PollTimer ==
    ASSUME Punctual, TypeOK, TimerInv, PollTimesOut
    PROVE  TimerInv' /\ age_cr > RESPONSE_TIMEOUT_US
<1>1. Receiving /\ ~Receiving'
    BY DEF PollTimesOut, Receiving
<1>2. PICK t \in Ticks : StartedAt(t)
    BY <1>1 DEF TimerInv
<1>3. age_cr \in Nat /\ age_cr <= RESPONSE_TIMEOUT_US + HALF_RANGE
    BY <1>1, TimeTypes DEF TimerInv, Punctual, TypeOK, ClockType
<1>4. TRUE \in TimeAfter(now, receive_timer_cr)
    BY DEF PollTimesOut, DeadlinePassed
<1>5. AfterWrapping(now, receive_timer_cr)
    BY <1>4, TimeAfterWraps DEF Punctual
<1>6. RESPONSE_TIMEOUT_US \in 0 .. HALF_RANGE - 1
    BY TimeTypes
<1>7. age_cr > RESPONSE_TIMEOUT_US
    BY <1>2, <1>3, <1>5, <1>6, DeadlineComparison DEF StartedAt
<1> QED BY <1>1, <1>7, QuietStep

LEMMA TickTimer ==
    ASSUME Punctual, TypeOK, TimerInv, Tick
    PROVE  TimerInv' /\ ~TimedOut
<1>1. /\ Receiving /\ age_cr + ClockStep <= RESPONSE_TIMEOUT_US + MaxLateness
      /\ now' = WrapAdd(now, ClockStep) /\ age_cr' = age_cr + ClockStep
      /\ receive_timer_cr' = receive_timer_cr
      /\ receive_protocol_result' = receive_protocol_result
    BY DEF Tick, recvStatusVars
<1>2. PICK t \in Ticks : StartedAt(t)
    BY <1>1 DEF TimerInv
<1>3. age_cr + ClockStep < 2 * HALF_RANGE /\ age_cr \in Nat
    BY <1>1, TimeTypes DEF Punctual, TypeOK, ClockType
<1>4. now' = WrapAdd(t, age_cr')
    BY <1>1, <1>2, <1>3, TimeTypes, WrapAddTwice DEF StartedAt
<1>5. StartedAt(t)'
    BY <1>1, <1>2, <1>4 DEF StartedAt
<1> QED BY <1>1, <1>5 DEF TimerInv, TimedOut

LEMMA TimerStep ==
    ASSUME Punctual, IInv, TimerInv, [Next]_vars
    PROVE  TimerInv' /\ (TimedOut => age_cr > RESPONSE_TIMEOUT_US)
<1>0. TypeOK
    BY DEF IInv
<1>1. CASE FrameArrives
    <2>1. CASE ReceiveOtherFrame
        <3>1. /\ UNCHANGED <<now, timerVars, receive_protocol_result>>
              /\ Notify(receive_status)
            BY <2>1 DEF ReceiveOtherFrame
        <3>2. (Receiving' => Receiving) /\ ~TimedOut
            BY <3>1, NotifyEffect DEF Receiving, TimedOut
        <3> QED BY <3>1, <3>2, QuietStep
    <2> QED BY <1>1, <2>1, OnCanMessageTimer, Constants DEF FrameArrives
<1>2. CASE TakeData
    BY <1>0, <1>2, TakeDataTimer DEF TakeData
<1>3. CASE PollTimesOut
    BY <1>0, <1>3, PollTimer
<1>4. ASSUME NEW registered \in BOOLEAN, SetRxDoneCb(registered)
      PROVE  TimerInv' /\ ~TimedOut
    BY <1>4, QuietStep DEF SetRxDoneCb, recvStatusVars, Receiving, TimedOut
<1>5. CASE DestroyLink \/ \E size \in RECEIVE_BUF_SIZES : InitLink(size)
    <2>1. ~Receiving' /\ ~TimedOut
        BY <1>5 DEF DestroyLink, InitLink, Reset, Receiving, TimedOut
    <2> QED BY <2>1, QuietStep
<1>6. CASE Tick
    BY <1>0, <1>6, TickTimer
<1>7. CASE UNCHANGED vars
    <2>1. UNCHANGED <<now, timerVars, receive_status, receive_protocol_result>>
        BY <1>7 DEF vars, recvStatusVars
    <2> QED BY <2>1, QuietStep DEF Receiving, TimedOut
<1> QED BY <1>1, <1>2, <1>3, <1>4, <1>5, <1>6, <1>7 DEF Next

LEMMA TimerInvariance == ASSUME Punctual PROVE Spec => []TimerInv
<1>1. Init => TimerInv
    BY DEF Init, LinkInit, TimerInv, Receiving
<1>2. IInv /\ TimerInv /\ [Next]_vars => TimerInv'
    BY TimerStep
<1> QED BY <1>1, <1>2, ReceiveInvariance, PTL DEF Spec

(* isotp_poll gives up a reception only after the response timeout has gone *)
(* by since its last frame or chunk, wherever the clock wraps, in a build   *)
(* that subtracts with wraparound.                                          *)
THEOREM ReceiveTimeoutIsHonest == ASSUME Punctual PROVE Spec => TimeoutHonest
<1>1. IInv /\ TimerInv /\ [Next]_vars =>
          [TimedOut => age_cr > RESPONSE_TIMEOUT_US]_vars
    BY TimerStep
<1> QED BY <1>1, ReceiveInvariance, TimerInvariance, PTL DEF Spec, TimeoutHonest, TimedOut

-----------------------------------------------------------------------------
(* The bytes: for every buffer size, frame length and length of the message,*)
(* in whatever order its frames arrive, are repeated or get lost, the       *)
(* buffer and the carry hold exactly the bytes received so far, and what    *)
(* the application is handed continues its message.  OneSegmentedMessage    *)
(* says what may be on the bus.                                             *)

(* size bytes of memory are those of message m that follow position from.   *)
Holding(memory, size, m, from) == \A i \in 1 .. size : memory[i] = Byte(m, from + i)

(* The bytes of a sequence are those of message m that follow position from. *)
Carries(bytes, m, from) == \A i \in 1 .. Len(bytes) : bytes[i] = Byte(m, from + i)

LEMMA FrameDataCarries ==
    ASSUME NEW f, f.n \in Nat, f.msg \in Nat, f.at \in Nat, NEW k \in Nat, k <= f.n
    PROVE  Carries(FrameData(f, k), f.msg, f.at)
<1>1. Len(FrameData(f, k)) = k
    BY FrameDataType
<1>2. \A j \in 1 .. k : FrameData(f, k)[j] = Byte(f.msg, f.at + j)
    BY DEF FrameData
<1> QED BY <1>1, <1>2 DEF Carries

(* A part of what carries a message carries the message from there on.      *)
LEMMA SubSeqCarries ==
    ASSUME NEW s \in Seq(Nat), NEW m \in Nat, NEW from \in Nat, Carries(s, m, from),
           NEW first \in 1 .. Len(s) + 1, NEW last \in 0 .. Len(s)
    PROVE  Carries(SubSeq(s, first, last), m, from + first - 1)
<1>1. /\ Len(SubSeq(s, first, last)) = IF first <= last THEN last - first + 1 ELSE 0
      /\ \A i \in 1 .. last - first + 1 : SubSeq(s, first, last)[i] = s[first + i - 1]
    BY SubSeqType
<1>2. Len(s) \in Nat
    BY LenProperties
<1>3. ASSUME NEW i \in 1 .. Len(SubSeq(s, first, last))
      PROVE  SubSeq(s, first, last)[i] = Byte(m, from + first - 1 + i)
    <2>1. i \in 1 .. last - first + 1 /\ first + i - 1 \in 1 .. Len(s)
        BY <1>1, <1>2, <1>3
    <2>2. SubSeq(s, first, last)[i] = s[first + i - 1]
        BY <1>1, <2>1
    <2>3. s[first + i - 1] = Byte(m, from + (first + i - 1))
        BY <2>1 DEF Carries
    <2>4. from + (first + i - 1) = from + first - 1 + i
        BY <1>2, <1>3, <2>1
    <2> QED BY <2>2, <2>3, <2>4
<1> QED BY <1>3 DEF Carries

(* The same of a prefix or a suffix of an array that holds a message.       *)
LEMMA SubSeqHolds ==
    ASSUME NEW memory, NEW held \in Nat, \A i \in 1 .. held : memory[i] \in Nat,
           NEW m \in Nat, NEW from \in Nat, Holding(memory, held, m, from),
           NEW first \in Nat \ {0}, NEW last \in Nat, first <= last + 1, last <= held
    PROVE  /\ SubSeq(memory, first, last) \in Seq(Nat)
           /\ Len(SubSeq(memory, first, last)) = last - first + 1
           /\ Carries(SubSeq(memory, first, last), m, from + first - 1)
<1>1. \A i \in first .. last : memory[i] \in Nat
    <2>1. \A i \in first .. last : i \in 1 .. held
        OBVIOUS
    <2> QED BY <2>1
<1>2. first \in Int /\ last \in Int
    OBVIOUS
<1>3. /\ SubSeq(memory, first, last) \in Seq(Nat)
      /\ Len(SubSeq(memory, first, last)) = IF first <= last THEN last - first + 1 ELSE 0
      /\ \A i \in 1 .. last - first + 1 : SubSeq(memory, first, last)[i] = memory[first + i - 1]
    BY ONLY <1>1, <1>2, SubSeqProperties
<1>4. Len(SubSeq(memory, first, last)) = last - first + 1
    BY <1>3
<1>5. ASSUME NEW i \in 1 .. Len(SubSeq(memory, first, last))
      PROVE  SubSeq(memory, first, last)[i] = Byte(m, from + first - 1 + i)
    <2>1. i \in 1 .. last - first + 1 /\ first + i - 1 \in 1 .. held
        BY <1>4, <1>5
    <2>2. SubSeq(memory, first, last)[i] = memory[first + i - 1]
        BY <1>3, <2>1
    <2>3. memory[first + i - 1] = Byte(m, from + (first + i - 1))
        BY <2>1 DEF Holding
    <2>4. from + (first + i - 1) = from + first - 1 + i
        BY <1>5, <2>1
    <2> QED BY <2>2, <2>3, <2>4
<1> QED BY <1>3, <1>4, <1>5 DEF Carries

LEMMA PrefixCarries ==
    ASSUME NEW memory, NEW held \in Nat, \A i \in 1 .. held : memory[i] \in Nat,
           NEW m \in Nat, NEW from \in Nat, Holding(memory, held, m, from),
           NEW n \in Nat, n <= held
    PROVE  /\ SubSeq(memory, 1, n) \in Seq(Nat)
           /\ Len(SubSeq(memory, 1, n)) = n
           /\ Carries(SubSeq(memory, 1, n), m, from)
<1>1. 1 \in Nat \ {0} /\ 1 <= n + 1 /\ n - 1 + 1 = n /\ from + 1 - 1 = from
    OBVIOUS
<1>2. /\ SubSeq(memory, 1, n) \in Seq(Nat)
      /\ Len(SubSeq(memory, 1, n)) = n - 1 + 1
      /\ Carries(SubSeq(memory, 1, n), m, from + 1 - 1)
    BY <1>1, SubSeqHolds
<1> QED BY <1>1, <1>2

(* memcpy behind what an array holds.                                       *)
LEMMA OverwriteHolds ==
    ASSUME NEW size \in Nat, NEW memory \in [1 .. size -> Nat],
           NEW at \in Nat, NEW bytes \in Seq(Nat), at + Len(bytes) <= size,
           NEW m \in Nat, NEW from \in Nat,
           Holding(memory, at, m, from), Carries(bytes, m, from + at)
    PROVE  Holding(Overwrite(memory, at, bytes), at + Len(bytes), m, from)
<1>1. DOMAIN bytes = 1 .. Len(bytes) /\ Len(bytes) \in Nat /\ DOMAIN memory = 1 .. size
    BY LenProperties
<1>2. ASSUME NEW i \in 1 .. at + Len(bytes)
      PROVE  Overwrite(memory, at, bytes)[i] = Byte(m, from + i)
    <2>1. i \in DOMAIN memory
        BY <1>1, <1>2
    <2>2. Overwrite(memory, at, bytes)[i] =
              IF i - at \in 1 .. Len(bytes) THEN bytes[i - at] ELSE memory[i]
        BY <1>1, <2>1 DEF Overwrite
    <2>3. CASE i - at \in 1 .. Len(bytes)
        <3>1. bytes[i - at] = Byte(m, from + at + (i - at))
            BY <2>3 DEF Carries
        <3>2. from + at + (i - at) = from + i
            BY <1>1, <1>2
        <3> QED BY <2>2, <2>3, <3>1, <3>2
    <2>4. CASE ~(i - at \in 1 .. Len(bytes))
        <3>1. i \in 1 .. at
            BY <1>1, <1>2, <2>4
        <3> QED BY <2>2, <2>4, <3>1 DEF Holding
    <2> QED BY <2>3, <2>4
<1> QED BY <1>2 DEF Holding

(* memcpy to the start of an array.                                         *)
LEMMA CopyHolds ==
    ASSUME NEW size \in Nat, NEW memory \in [1 .. size -> Nat],
           NEW bytes \in Seq(Nat), Len(bytes) <= size,
           NEW m \in Nat, NEW from \in Nat, Carries(bytes, m, from)
    PROVE  Holding(Overwrite(memory, 0, bytes), Len(bytes), m, from)
<1>1. Holding(memory, 0, m, from)
    BY DEF Holding
<1>2. from + 0 = from /\ 0 + Len(bytes) = Len(bytes) /\ 0 \in Nat
    BY LenProperties
<1> QED BY <1>1, <1>2, OverwriteHolds

(* A sequence number stands for one of sixteen frames: a message of at most *)
(* sixteen of them ends before the number comes round.                      *)
LEMMA BelowSixteen ==
    ASSUME NEW k \in Nat, NEW d \in Nat \ {0}, k * d < 16 * d
    PROVE  k \in 0 .. 15
<1> SUFFICES ASSUME k >= 16 PROVE FALSE
    OBVIOUS
<1>1. k * d >= 16 * d
    OBVIOUS
<1> QED BY <1>1

-----------------------------------------------------------------------------
(* The inductive invariant *)

Content ==
    IF receive_streaming
    THEN /\ Holding(receive_buffer, receive_stream_size, message, consumed)
         /\ Holding(receive_stream_carry, receive_stream_carry_size, message,
                    consumed + receive_stream_size)
    ELSE Holding(receive_buffer, receive_offset, message, 0)

(* First Frame g and k Consecutive Frames behind it have been received.     *)
Segment(g, k) ==
    /\ g.type = "FF" /\ Plausible(g) /\ FfAccepted(g)
    /\ message = g.msg /\ rx_dl = g.len /\ receive_size = FfPayloadLength(g)
    /\ receive_sn = (k + 1) % 16
    /\ receive_offset = FfReadLength(g) + k * (g.len - 1)

(* More frames of the message are to come, now or once a chunk is taken.    *)
Unfinished ==
    Receiving \/ (receive_status = "FULL" /\ receive_streaming /\ receive_offset < receive_size)

Position == Unfinished => \E g \in Frames, k \in 0 .. 15 : Segment(g, k)

(* The sequence number and the offset agree on the frame that comes next,   *)
(* so a frame in sequence carries the bytes that are wanted.                *)
ContentsInv == (receive_status # "IDLE" => Content) /\ Position

-----------------------------------------------------------------------------
(* The frames that are taken *)

LEMMA SingleFrameContent ==
    ASSUME TypeOK, NEW f, FrameType(f), f.at = 0, SfPayloadLength(f) <= f.n,
           f.type = "SF", SfAccepted(f), SfPayloadLength(f) <= receive_buf_size,
           receive_buffer' = Overwrite(receive_buffer, 0, FrameData(f, SfPayloadLength(f))),
           receive_offset' = SfPayloadLength(f), receive_streaming' = FALSE, message' = f.msg
    PROVE  Content'
<1> DEFINE n == SfPayloadLength(f)
<1>1. f.at = 0 /\ n <= f.n
    OBVIOUS
<1>2. FrameType(f) /\ n \in Nat
    BY SingleFrameData
<1>3. f.n \in Nat /\ f.msg \in Nat /\ f.at \in Nat
    BY <1>2 DEF FrameType
<1>4. receive_buf_size \in Nat /\ receive_buffer \in [1 .. receive_buf_size -> Nat]
    BY DEF TypeOK, BufferType
<1>5. n <= receive_buf_size /\ receive_buffer' = Overwrite(receive_buffer, 0, FrameData(f, n))
      /\ receive_offset' = n /\ ~receive_streaming'
    OBVIOUS
<1> HIDE DEF n
<1>6. FrameData(f, n) \in Seq(Nat) /\ Len(FrameData(f, n)) = n /\ Carries(FrameData(f, n), f.msg, 0)
    BY <1>1, <1>2, <1>3, FrameDataType, FrameDataCarries
<1>7. Holding(Overwrite(receive_buffer, 0, FrameData(f, n)), n, f.msg, 0)
    BY <1>3, <1>4, <1>5, <1>6, CopyHolds
<1> QED BY <1>5, <1>7 DEF Content, Holding, Byte

LEMMA FirstFrameContent ==
    ASSUME TypeOK, NEW f, FrameType(f), f.at = 0, FfReadLength(f) <= f.n,
           f.type = "FF", Plausible(f), FfAccepted(f), ~FfOverflows(f),
           StoreFirstFrame(f), message' = f.msg, consumed' = 0
    PROVE  Content' /\ Segment(f, 0)'
<1> DEFINE n      == FfReadLength(f)
           stored == IF ENABLE_STREAMING THEN Smaller(n, receive_buf_size) ELSE n
           data   == FrameData(f, n)
<1>1. f.at = 0 /\ n <= f.n /\ FrameType(f)
    OBVIOUS
<1>2. /\ n \in 1 .. MAX_CAN_FRAME_SIZE - 1 /\ MAX_CAN_FRAME_SIZE - 1 \in Nat
      /\ n < FfPayloadLength(f) /\ FfPayloadLength(f) \in Nat
    BY <1>1, FirstFrameData, Constants
<1>3. f.n \in Nat /\ f.msg \in Nat /\ f.at \in Nat
    BY <1>1 DEF FrameType
<1>4. receive_buf_size \in Nat /\ receive_buffer \in [1 .. receive_buf_size -> Nat]
      /\ receive_stream_carry \in [1 .. MAX_CAN_FRAME_SIZE - 1 -> Nat]
    BY DEF TypeOK, BufferType, StreamType
<1>5. /\ receive_streaming' = (ENABLE_STREAMING /\ FfPayloadLength(f) > receive_buf_size)
      /\ receive_stream_size' = IF ENABLE_STREAMING THEN stored ELSE 0
      /\ receive_stream_carry_size' = n - stored
      /\ receive_buffer' = Overwrite(receive_buffer, 0, FrameData(f, stored))
      /\ receive_stream_carry' = Overwrite(receive_stream_carry, 0, SubSeq(data, stored + 1, n))
      /\ receive_offset' = n
      /\ receive_size' = FfPayloadLength(f) /\ receive_sn' = 1 /\ rx_dl' = f.len
    BY DEF StoreFirstFrame
<1>6. stored \in 0 .. n /\ stored <= receive_buf_size
    <2>1. CASE ENABLE_STREAMING
        <3> HIDE DEF n
        <3> QED BY <1>2, <1>4, <2>1 DEF Smaller
    <2>2. CASE ~ENABLE_STREAMING
        <3>1. ~(FfPayloadLength(f) > receive_buf_size) /\ stored = n
            BY <2>2 DEF FfOverflows
        <3> HIDE DEF n, stored
        <3> QED BY <1>2, <1>4, <3>1
    <2> QED BY <2>1, <2>2
<1> HIDE DEF stored
<1>7. /\ data \in Seq(Nat) /\ Len(data) = n /\ Carries(data, f.msg, 0)
      /\ FrameData(f, stored) \in Seq(Nat) /\ Len(FrameData(f, stored)) = stored
      /\ Carries(FrameData(f, stored), f.msg, 0)
    <2> HIDE DEF n
    <2>1. n \in Nat /\ stored \in Nat /\ stored <= f.n
        BY <1>1, <1>2, <1>3, <1>6
    <2> QED BY <1>1, <1>3, <2>1, FrameDataType, FrameDataCarries
<1> HIDE DEF data
<1>8. Holding(receive_buffer', stored, f.msg, 0)
    BY <1>3, <1>4, <1>5, <1>6, <1>7, CopyHolds
<1>9. Holding(receive_stream_carry', n - stored, f.msg, stored)
    <2> DEFINE rest == SubSeq(data, stored + 1, n)
    <2>1. stored + 1 \in 1 .. Len(data) + 1 /\ n \in 0 .. Len(data)
        BY <1>2, <1>6, <1>7
    <2>2. rest \in Seq(Nat) /\ Len(rest) = n - stored /\ Carries(rest, f.msg, 0 + (stored + 1) - 1)
        <3>1. Len(rest) = IF stored + 1 <= n THEN n - (stored + 1) + 1 ELSE 0
            BY <1>7, <2>1, SubSeqType
        <3>2. Len(rest) = n - stored
            BY <1>2, <1>6, <3>1
        <3> QED BY <1>3, <1>7, <2>1, <3>2, SubSeqType, SubSeqCarries
    <2>3. 0 + (stored + 1) - 1 = stored /\ n - stored <= MAX_CAN_FRAME_SIZE - 1 /\ stored \in Nat
        BY <1>2, <1>6
    <2> HIDE DEF rest
    <2>4. Holding(Overwrite(receive_stream_carry, 0, rest), n - stored, f.msg, stored)
        BY <1>2, <1>3, <1>4, <2>2, <2>3, CopyHolds
    <2> QED BY <1>5, <2>4 DEF rest
<1>10. Content'
    <2>1. CASE receive_streaming'
        <3>1. receive_stream_size' = stored /\ receive_stream_carry_size' = n - stored
            BY <1>5, <2>1
        <3>2. 0 + stored = stored
            BY <1>6
        <3> QED BY <1>8, <1>9, <2>1, <3>1, <3>2 DEF Content, Holding, Byte
    <2>2. CASE ~receive_streaming'
        <3>1. stored = n
            <4>1. CASE ENABLE_STREAMING
                <5>1. ~(FfPayloadLength(f) > receive_buf_size)
                    BY <1>5, <2>2, <4>1
                <5>2. n <= receive_buf_size /\ n \in Int
                    BY <1>2, <1>4, <5>1
                <5> HIDE DEF n
                <5> QED BY <1>4, <4>1, <5>2 DEF stored, Smaller
            <4>2. CASE ~ENABLE_STREAMING
                BY <4>2 DEF stored
            <4> QED BY <4>1, <4>2
        <3> QED BY <1>5, <1>8, <2>2, <3>1 DEF Content, Holding, Byte
    <2> QED BY <2>1, <2>2
<1>11. Segment(f, 0)'
    <2>1. n + 0 * (f.len - 1) = n /\ (0 + 1) % 16 = 1
        BY <1>1, <1>2 DEF FrameType
    <2> QED BY <1>5, <2>1 DEF Segment, Plausible
<1> QED BY <1>10, <1>11

(* A Consecutive Frame in sequence brings the bytes that come next.         *)
LEMMA NextFrameCarries ==
    ASSUME OneSegmentedMessage, TypeOK, NEW g \in Frames, NEW k \in 0 .. 15, Segment(g, k),
           NEW f \in Frames, f.type = "CF", InSequence(f),
           NEW n \in Nat, n = CfWanted(receive_size - receive_offset, rx_dl), n <= f.len - 1
    PROVE  Carries(FrameData(f, n), message, receive_offset)
<1> DEFINE at   == FfReadLength(g) + ((f.SN + 15) % 16) * (g.len - 1)
           data == CfDataLength(FfPayloadLength(g) - at, g.len)
<1>1. f.msg = g.msg /\ f.at = at /\ (data <= f.len - 1 => data <= f.n)
    <2>1. Continues(g, f)
        BY DEF OneSegmentedMessage, Segment
    <2> QED BY <2>1 DEF Continues
<1>2. f.SN = (k + 1) % 16
    BY DEF InSequence, Segment
<1>3. (f.SN + 15) % 16 = k
    BY <1>2
<1>4. at = receive_offset
    BY <1>3 DEF Segment
<1>5. FrameType(f) /\ g.len >= CAN_DL_CLASSIC /\ g.len \in Nat
    BY Constants DEF Segment, FfAccepted, FrameType
<1>6. data = n
    <2>1. ~(g.len < CAN_DL_CLASSIC)
        BY <1>5 DEF CAN_DL_CLASSIC
    <2> QED BY <1>4, <2>1 DEF Segment, CfWanted
<1>7. f.at = receive_offset /\ f.msg = message /\ n <= f.n
    BY <1>1, <1>4, <1>6 DEF Segment
<1> QED BY <1>5, <1>7, FrameDataCarries DEF FrameType

LEMMA StreamedContent ==
    ASSUME TypeOK, Content, receive_streaming, receive_stream_size <= receive_buf_size,
           NEW data \in Seq(Nat), Len(data) <= MAX_CAN_FRAME_SIZE - 1,
           Carries(data, message, consumed + receive_stream_size), StoreStreamed(data),
           UNCHANGED <<receive_streaming, messageVars>>
    PROVE  Content'
<1> DEFINE fits  == Smaller(Len(data), receive_buf_size - receive_stream_size)
           front == SubSeq(data, 1, fits)
           rest  == SubSeq(data, fits + 1, Len(data))
<1>1. /\ receive_buf_size \in Nat /\ receive_stream_size \in Nat /\ Len(data) \in Nat
      /\ MAX_CAN_FRAME_SIZE - 1 \in Nat /\ message \in Nat /\ consumed \in Nat
    BY Constants, LenProperties DEF TypeOK, BufferType, StreamType, MessageType
<1>2. fits \in 0 .. Len(data) /\ receive_stream_size + fits <= receive_buf_size
    BY <1>1 DEF Smaller
<1>3. /\ receive_buffer' = Overwrite(receive_buffer, receive_stream_size, front)
      /\ receive_stream_carry' = Overwrite(receive_stream_carry, 0, rest)
      /\ receive_stream_size' = receive_stream_size + fits
      /\ receive_stream_carry_size' = Len(data) - fits
      /\ message' = message /\ consumed' = consumed /\ receive_streaming'
    BY DEF StoreStreamed, messageVars
<1> HIDE DEF fits
<1>4. 1 \in 1 .. Len(data) + 1 /\ fits + 1 \in 1 .. Len(data) + 1 /\ Len(data) \in 0 .. Len(data)
    BY <1>1, <1>2
<1>5. /\ front \in Seq(Nat) /\ Len(front) = fits
      /\ Carries(front, message, consumed + receive_stream_size)
    <2>1. Len(front) = IF 1 <= fits THEN fits - 1 + 1 ELSE 0
        BY <1>2, <1>4, SubSeqType
    <2>2. Len(front) = fits
        BY <1>2, <2>1
    <2>3. consumed + receive_stream_size \in Nat
          /\ consumed + receive_stream_size + 1 - 1 = consumed + receive_stream_size
        BY <1>1
    <2>4. Carries(front, message, consumed + receive_stream_size + 1 - 1)
        BY <1>1, <1>2, <1>4, <2>3, SubSeqCarries
    <2> QED BY <1>2, <1>4, <2>2, <2>3, <2>4, SubSeqType
<1>6. /\ rest \in Seq(Nat) /\ Len(rest) = Len(data) - fits
      /\ Carries(rest, message, consumed + (receive_stream_size + fits))
    <2>1. Len(rest) = IF fits + 1 <= Len(data) THEN Len(data) - (fits + 1) + 1 ELSE 0
        BY <1>2, <1>4, SubSeqType
    <2>2. Len(rest) = Len(data) - fits
        BY <1>1, <1>2, <2>1
    <2>3. consumed + receive_stream_size \in Nat
          /\ consumed + receive_stream_size + (fits + 1) - 1
                 = consumed + (receive_stream_size + fits)
        BY <1>1, <1>2
    <2>4. Carries(rest, message, consumed + receive_stream_size + (fits + 1) - 1)
        BY <1>1, <1>4, <2>3, SubSeqCarries
    <2> QED BY <1>4, <2>2, <2>3, <2>4, SubSeqType
<1> HIDE DEF front, rest
<1>7. Holding(receive_buffer', receive_stream_size + fits, message, consumed)
    <2>1. receive_buffer \in [1 .. receive_buf_size -> Nat]
        BY DEF TypeOK, BufferType
    <2>2. Holding(receive_buffer, receive_stream_size, message, consumed)
        BY DEF Content
    <2> QED BY <1>1, <1>2, <1>3, <1>5, <2>1, <2>2, OverwriteHolds
<1>8. Holding(receive_stream_carry', Len(data) - fits, message,
              consumed + (receive_stream_size + fits))
    <2>1. receive_stream_carry \in [1 .. MAX_CAN_FRAME_SIZE - 1 -> Nat]
        BY DEF TypeOK, StreamType
    <2>2. Len(rest) <= MAX_CAN_FRAME_SIZE - 1 /\ consumed + (receive_stream_size + fits) \in Nat
        BY <1>1, <1>2, <1>6
    <2> QED BY <1>1, <1>3, <1>6, <2>1, <2>2, CopyHolds
<1> QED BY <1>3, <1>7, <1>8 DEF Content, Holding, Byte

(* The frame after which k + 1 of them have come is not the last of sixteen. *)
LEMMA NextSegment ==
    ASSUME TypeOK, WithinBounds, NEW g \in Frames, NEW k \in 0 .. 15, Segment(g, k),
           OneSegmentedMessage, NEW f, NEW accepted, Taken(f, accepted),
           receive_offset' < receive_size'
    PROVE  k + 1 \in 0 .. 15 /\ Segment(g, k + 1)'
<1> DEFINE n == CfWanted(receive_size - receive_offset, rx_dl)
           d == g.len - 1
<1>1. /\ receive_offset' = receive_offset + n /\ receive_sn' = NextSn(receive_sn)
      /\ rx_dl' = rx_dl /\ receive_size' = receive_size /\ message' = message
      /\ Receiving
    BY DEF Taken, messageVars
<1>2. /\ g.type = "FF" /\ Plausible(g) /\ FfAccepted(g) /\ FrameType(g)
      /\ message = g.msg /\ rx_dl = g.len /\ receive_size = FfPayloadLength(g)
      /\ receive_sn = (k + 1) % 16
      /\ receive_offset = FfReadLength(g) + k * d
    BY Constants DEF Segment
<1>3. FfReadLength(g) \in Nat /\ g.len \in 8 .. 64 /\ d \in Nat \ {0}
      /\ FfPayloadLength(g) \in Nat
    BY <1>2, FirstFrameData
<1>4. receive_offset \in Nat /\ receive_size \in Nat
    BY DEF TypeOK, BufferType
<1>5. n = d
    <2>1. n \in 1 .. receive_size - receive_offset
        BY <1>1, NextData
    <2>2. n < receive_size - receive_offset
        <3> HIDE DEF n
        <3> QED BY <1>1, <1>4, <2>1
    <2>3. rx_dl >= CAN_DL_CLASSIC
        BY <1>2 DEF FfAccepted
    <2> QED BY <1>1, <1>2, <2>2, <2>3, NextData
<1>6. FfPayloadLength(g) <= FfReadLength(g) + 16 * d
    BY <1>2 DEF OneSegmentedMessage
<1> HIDE DEF n, d
<1>7. k * d \in Nat /\ (k + 1) * d = k * d + d
    BY <1>3
<1>8. receive_offset' = FfReadLength(g) + (k + 1) * d
    BY <1>1, <1>2, <1>3, <1>5, <1>7
<1>9. (k + 1) * d < 16 * d
    <2>1. (k + 1) * d \in Nat /\ 16 * d \in Nat
        BY <1>3, <1>7
    <2>2. FfReadLength(g) + (k + 1) * d < FfReadLength(g) + 16 * d
        <3>1. receive_offset' < FfPayloadLength(g)
            BY <1>1, <1>2
        <3> QED BY <1>3, <1>6, <1>8, <2>1, <3>1
    <2> QED BY <1>3, <2>1, <2>2
<1>10. k + 1 \in 0 .. 15
    BY <1>3, <1>9, BelowSixteen
<1>11. receive_sn' = ((k + 1) + 1) % 16
    BY <1>1, <1>2, <1>10 DEF NextSn
<1>12. Segment(g, k + 1)'
    <2>1. receive_offset' = FfReadLength(g) + (k + 1) * (g.len - 1)
        BY <1>8 DEF d
    <2> QED BY <1>1, <1>2, <1>11, <2>1 DEF Segment, Plausible
<1> QED BY <1>10, <1>12

(* The bytes of a frame that is taken go where they belong.                 *)
LEMMA TakenContent ==
    ASSUME TypeOK, Kept, Content, NEW f, FrameType(f), NEW accepted, Taken(f, accepted),
           Carries(FrameData(f, CfWanted(receive_size - receive_offset, rx_dl)),
                   message, receive_offset)
    PROVE  Content'
<1> DEFINE n    == CfWanted(receive_size - receive_offset, rx_dl)
           data == FrameData(f, n)
<1>1. /\ WithinBounds /\ Conservation /\ Receiving /\ receive_status = "INPROGRESS"
      /\ Plausible(f) /\ n <= f.len - 1
    BY DEF Kept, Taken, Receiving
<1>3. /\ n \in Nat /\ n <= MAX_CAN_FRAME_SIZE - 1 /\ n <= receive_size - receive_offset
      /\ data \in Seq(Nat) /\ Len(data) = n
    <2>1. n \in 1 .. MAX_CAN_FRAME_SIZE - 1 /\ n <= receive_size - receive_offset
          /\ data \in Seq(Nat) /\ Len(data) = n
        BY <1>1, FrameContents
    <2> QED BY <2>1
<1>4. Carries(data, message, receive_offset)
    OBVIOUS
<1>5. /\ UNCHANGED <<receive_streaming, messageVars, receive_size>>
      /\ receive_offset' = receive_offset + n
      /\ receive_streaming => StoreStreamed(data)
      /\ ~receive_streaming => StoreWhole(data)
    BY DEF Taken
<1>6. /\ receive_offset \in Nat /\ receive_size \in Nat /\ consumed \in Nat /\ message \in Nat
      /\ receive_stream_size \in Nat
      /\ receive_buf_size \in Nat /\ receive_buffer \in [1 .. receive_buf_size -> Nat]
    BY DEF TypeOK, BufferType, MessageType, StreamType
<1>7. receive_stream_carry_size = 0
    BY <1>1 DEF WithinBounds
<1> HIDE DEF n, data
<1>8. Content'
    <2>1. CASE receive_streaming
        <3>1. receive_stream_size <= receive_buf_size
            BY <1>1, <2>1 DEF WithinBounds
        <3>2. receive_offset = consumed + receive_stream_size
            BY <1>1, <1>6, <1>7, <2>1 DEF Conservation
        <3>3. StoreStreamed(data) /\ Carries(data, message, consumed + receive_stream_size)
              /\ Len(data) <= MAX_CAN_FRAME_SIZE - 1
            BY <1>3, <1>4, <1>5, <2>1, <3>2
        <3> QED BY <1>3, <1>5, <2>1, <3>1, <3>3, StreamedContent
    <2>2. CASE ~receive_streaming
        <3>1. receive_size <= receive_buf_size
            BY <1>1, <2>2 DEF WithinBounds
        <3>2. Holding(receive_buffer, receive_offset, message, 0)
            BY <2>2 DEF Content
        <3>3. receive_offset + Len(data) <= receive_buf_size /\ 0 + receive_offset = receive_offset
            BY <1>3, <1>6, <3>1
        <3>4. Holding(Overwrite(receive_buffer, receive_offset, data),
                      receive_offset + Len(data), message, 0)
            BY <1>3, <1>4, <1>6, <3>2, <3>3, OverwriteHolds
        <3>5. Holding(receive_buffer', receive_offset + n, message, 0)
            BY <1>3, <1>5, <2>2, <3>4 DEF StoreWhole
        <3> QED BY <1>5, <2>2, <3>5 DEF Content, Holding, Byte, messageVars
    <2> QED BY <2>1, <2>2
<1> QED BY <1>8

LEMMA TakenContents ==
    ASSUME OneSegmentedMessage, TypeOK, Kept, ContentsInv,
           NEW f \in Frames, NEW accepted, Taken(f, accepted)
    PROVE  Content' /\ Position'
<1> DEFINE n == CfWanted(receive_size - receive_offset, rx_dl)
<1>1. /\ WithinBounds /\ Receiving /\ receive_status = "INPROGRESS"
      /\ FrameType(f) /\ Plausible(f) /\ n <= f.len - 1
    BY Constants DEF Kept, Taken, Receiving
<1>2. PICK g \in Frames, k \in 0 .. 15 : Segment(g, k)
    BY <1>1 DEF ContentsInv, Position, Unfinished
<1>3. n \in Nat /\ receive_offset \in Nat /\ receive_size \in Nat
    <2>1. n \in 1 .. MAX_CAN_FRAME_SIZE - 1 /\ MAX_CAN_FRAME_SIZE \in Nat
        BY <1>1, FrameContents, Constants
    <2> QED BY <2>1 DEF TypeOK, BufferType
<1>4. Carries(FrameData(f, n), message, receive_offset)
    BY <1>1, <1>2, <1>3, NextFrameCarries DEF Taken
<1>5. UNCHANGED <<message, receive_size>> /\ receive_offset' = receive_offset + n
    BY DEF Taken, messageVars
<1> HIDE DEF n
<1>8. Content'
    BY <1>1, <1>4, TakenContent DEF ContentsInv, n
<1>9. Position'
    <2> SUFFICES ASSUME Unfinished' PROVE \E h \in Frames, j \in 0 .. 15 : Segment(h, j)'
        BY DEF Position
    <2>1. receive_offset' < receive_size'
        <3>1. CASE ~ChunkReady
            <4>1. ~(receive_offset' >= receive_size)
                BY <3>1 DEF ChunkReady
            <4> QED BY <1>3, <1>5, <4>1
        <3>2. CASE ChunkReady
            <4>1. receive_status' \in {"FULL", "IDLE"}
                BY <3>2, NotifyEffect DEF Taken
            <4> QED BY <4>1 DEF Unfinished, Receiving
        <3> QED BY <3>1, <3>2
    <2>2. k + 1 \in 0 .. 15 /\ Segment(g, k + 1)'
        BY <1>1, <1>2, <2>1, NextSegment
    <2> QED BY <2>2
<1> QED BY <1>8, <1>9

-----------------------------------------------------------------------------
(* The other steps *)

LEMMA IdleContents == ASSUME receive_status' = "IDLE" PROVE ContentsInv'
BY DEF ContentsInv, Position, Unfinished, Receiving

LEMMA RestingContents == ASSUME ContentsInv, Resting PROVE ContentsInv'
<1>1. CASE receive_status' = "IDLE"
    BY <1>1, IdleContents
<1>2. CASE UNCHANGED <<receive_buf_size, bufferVars, streamVars, messageVars, receive_status>>
    <2> USE DEF bufferVars, streamVars, messageVars
    <2>1. Content => Content'
        BY <1>2 DEF Content, Holding, Byte
    <2>2. Position'
        <3>1. Unfinished' => Unfinished
            BY <1>2 DEF Unfinished, Receiving
        <3>2. ASSUME NEW g, NEW k, Segment(g, k) PROVE Segment(g, k)'
            BY <1>2, <3>2 DEF Segment, Plausible
        <3> QED BY <3>1, <3>2 DEF ContentsInv, Position
    <2> QED BY <1>2, <2>1, <2>2 DEF ContentsInv
<1> QED BY <1>1, <1>2 DEF Resting

LEMMA SingleFrameContents ==
    ASSUME OneSegmentedMessage, TypeOK, ContentsInv, NEW f \in Frames, ReceiveSingleFrame(f)
    PROVE  ContentsInv'
<1>1. f.type = "SF" /\ UNCHANGED <<receive_buf_size, flowVars>>
    BY DEF ReceiveSingleFrame, paramVars
<1>2. CASE /\ SfAccepted(f) /\ SfPayloadLength(f) <= receive_buf_size
           /\ receive_buffer' = Overwrite(receive_buffer, 0, FrameData(f, SfPayloadLength(f)))
           /\ receive_offset' = SfPayloadLength(f)
           /\ receive_streaming' = FALSE /\ message' = f.msg
           /\ Notify("FULL")
    <2>1. Content'
        <3>1. FrameType(f) /\ f.at = 0 /\ SfPayloadLength(f) <= f.n
            BY <1>1, <1>2, Constants DEF OneSegmentedMessage
        <3> QED BY <1>1, <1>2, <3>1, SingleFrameContent
    <2>2. receive_status' \in {"FULL", "IDLE"} /\ ~receive_streaming'
        BY <1>2, NotifyEffect
    <2> QED BY <2>1, <2>2 DEF ContentsInv, Position, Unfinished, Receiving
<1>3. CASE /\ UNCHANGED <<bufferVars, streamVars, messageVars>>
           /\ Notify(receive_status)
    <2>1. Resting
        BY <1>1, <1>3, NotifyEffect DEF Resting
    <2> QED BY <2>1, RestingContents
<1> QED BY <1>2, <1>3 DEF ReceiveSingleFrame

LEMMA FirstFrameContents ==
    ASSUME OneSegmentedMessage, TypeOK, ContentsInv,
           NEW f \in Frames, NEW accepted, ReceiveFirstFrame(f, accepted)
    PROVE  ContentsInv'
<1>1. f.type = "FF" /\ Plausible(f) /\ receive_buf_size' = receive_buf_size
    BY DEF ReceiveFirstFrame, paramVars
<1>2. CASE FfAccepted(f) /\ ~FfOverflows(f)
    <2>1. StoreFirstFrame(f) /\ message' = f.msg /\ consumed' = 0
        BY <1>1, <1>2 DEF ReceiveFirstFrame
    <2>2. Content' /\ Segment(f, 0)'
        BY <1>1, <1>2, <2>1, FirstFrameContent, Constants DEF OneSegmentedMessage
    <2>3. 0 \in 0 .. 15
        OBVIOUS
    <2>4. Position'
        BY <2>2, <2>3 DEF Position
    <2> QED BY <2>2, <2>4 DEF ContentsInv
<1>3. CASE FfAccepted(f) /\ FfOverflows(f)
    <2>1. receive_status' = "IDLE"
        BY <1>1, <1>3, NotifyEffect DEF ReceiveFirstFrame
    <2> QED BY <2>1, IdleContents
<1>4. CASE ~FfAccepted(f)
    <2>1. /\ UNCHANGED <<receive_buf_size, bufferVars, streamVars, flowVars, messageVars>>
          /\ Notify(receive_status)
        BY <1>1, <1>4 DEF ReceiveFirstFrame
    <2>2. Resting
        BY <2>1, NotifyEffect DEF Resting
    <2> QED BY <2>2, RestingContents
<1> QED BY <1>2, <1>3, <1>4

LEMMA ChunkTakenContent ==
    ASSUME TypeOK, Kept, Content, NEW accepted, ChunkTaken(accepted)
    PROVE  Content'
<1> DEFINE n     == Smaller(receive_stream_carry_size, receive_buf_size)
           front == SubSeq(receive_stream_carry, 1, n)
           rest  == SubSeq(receive_stream_carry, n + 1, receive_stream_carry_size)
           start == consumed + receive_stream_size
<1>1. /\ UNCHANGED <<rx_dl, receive_size, receive_offset, receive_sn, receive_streaming, message>>
      /\ receive_status = "FULL" /\ receive_streaming
      /\ consumed' = start
      /\ receive_stream_size' = n
      /\ receive_stream_carry_size' = receive_stream_carry_size - n
      /\ receive_buffer' = Overwrite(receive_buffer, 0, front)
      /\ receive_stream_carry' = Overwrite(receive_stream_carry, 0, rest)
    BY DEF ChunkTaken, Refill
<1>2. /\ receive_stream_carry_size \in 0 .. 255
      /\ receive_stream_carry_size <= MAX_CAN_FRAME_SIZE - 1 /\ MAX_CAN_FRAME_SIZE - 1 \in Nat
    <2>1. receive_stream_carry_size < MAX_CAN_FRAME_SIZE
        BY DEF Kept, WithinBounds
    <2> QED BY <2>1, Constants DEF TypeOK, StreamType
<1>3. /\ receive_buf_size \in Nat /\ message \in Nat /\ consumed \in Nat
      /\ receive_stream_size \in Nat
      /\ receive_offset \in Nat /\ receive_size \in Nat
      /\ receive_buffer \in [1 .. receive_buf_size -> Nat]
      /\ receive_stream_carry \in [1 .. MAX_CAN_FRAME_SIZE - 1 -> Nat]
    BY DEF TypeOK, BufferType, StreamType, MessageType
<1>4. Holding(receive_stream_carry, receive_stream_carry_size, message, start)
    BY <1>1 DEF Content
<1>5. n \in 0 .. receive_stream_carry_size /\ n <= receive_buf_size
    BY <1>2, <1>3 DEF Smaller
<1>6. start \in Nat
    BY <1>3
<1> HIDE DEF n, start
<1>7. /\ receive_stream_carry_size \in Nat /\ message \in Nat
      /\ \A i \in 1 .. receive_stream_carry_size : receive_stream_carry[i] \in Nat
    <2>1. \A i \in 1 .. receive_stream_carry_size : i \in 1 .. MAX_CAN_FRAME_SIZE - 1
        BY <1>2
    <2> QED BY <1>2, <1>3, <2>1
<1>8. front \in Seq(Nat) /\ Len(front) = n /\ Carries(front, message, start)
    <2>1. n \in Nat /\ n <= receive_stream_carry_size
        BY <1>2, <1>5
    <2> QED BY ONLY <1>4, <1>6, <1>7, <2>1, PrefixCarries
<1>9. /\ rest \in Seq(Nat) /\ Len(rest) = receive_stream_carry_size - n
      /\ Carries(rest, message, start + n)
    <2> DEFINE size == receive_stream_carry_size
    <2>1. n + 1 \in Nat \ {0} /\ size \in Nat /\ n + 1 <= size + 1 /\ size <= size
        BY <1>2, <1>5
    <2>2. /\ SubSeq(receive_stream_carry, n + 1, size) \in Seq(Nat)
          /\ Len(SubSeq(receive_stream_carry, n + 1, size)) = size - (n + 1) + 1
          /\ Carries(SubSeq(receive_stream_carry, n + 1, size), message, start + (n + 1) - 1)
        BY ONLY <1>4, <1>6, <1>7, <2>1, SubSeqHolds
    <2>3. size - (n + 1) + 1 = size - n /\ start + (n + 1) - 1 = start + n
        BY <1>2, <1>5, <1>6
    <2> QED BY <2>2, <2>3
<1> HIDE DEF front, rest
<1>10. Holding(receive_buffer', n, message, start)
    BY <1>1, <1>3, <1>5, <1>6, <1>8, CopyHolds
<1>11. Holding(receive_stream_carry', receive_stream_carry_size - n, message, start + n)
    <2>1. start + n \in Nat /\ receive_stream_carry_size - n <= MAX_CAN_FRAME_SIZE - 1
        BY <1>2, <1>5, <1>6
    <2> QED BY <1>1, <1>2, <1>3, <1>9, <2>1, CopyHolds
<1> QED BY <1>1, <1>10, <1>11 DEF Content, Holding, Byte

LEMMA ChunkTakenContents ==
    ASSUME TypeOK, Kept, ContentsInv, NEW accepted, ChunkTaken(accepted)
    PROVE  ContentsInv'
<1>1. /\ UNCHANGED <<rx_dl, receive_size, receive_offset, receive_sn, receive_streaming, message>>
      /\ receive_status = "FULL" /\ receive_streaming
    BY DEF ChunkTaken
<1>3. receive_offset \in Nat /\ receive_size \in Nat
    BY DEF TypeOK, BufferType
<1>12. Content'
    BY <1>1, ChunkTakenContent DEF ContentsInv
<1>13. Position'
    <2>1. Unfinished' => receive_offset < receive_size
        BY <1>1, <1>3 DEF ChunkTaken, Unfinished, Receiving
    <2>2. ASSUME NEW g, NEW k, Segment(g, k) PROVE Segment(g, k)'
        BY <1>1, <2>2 DEF Segment, Plausible
    <2> QED BY <1>1, <2>1, <2>2 DEF ContentsInv, Position, Unfinished
<1> QED BY <1>12, <1>13 DEF ContentsInv

(* A frame of the set that may arrive, whatever it is and whenever.         *)
LEMMA OnCanMessageContents ==
    ASSUME OneSegmentedMessage, IInv, ContentsInv,
           NEW f \in Frames, NEW accepted, OnCanMessage(f, accepted)
    PROVE  ContentsInv'
<1>0. TypeOK /\ Kept /\ WithinBounds /\ FrameType(f)
    BY Constants DEF IInv, Kept
<1>1. CASE ReceiveSingleFrame(f)
    BY <1>0, <1>1, SingleFrameContents
<1>2. CASE ReceiveFirstFrame(f, accepted)
    BY <1>0, <1>2, FirstFrameContents
<1>3. CASE ReceiveConsecutiveFrame(f, accepted)
    <2>1. CASE Taken(f, accepted)
        BY <1>0, <2>1, TakenContents DEF ContentsInv
    <2>2. CASE NotTaken
        BY <2>2, NotTakenRests, RestingContents
    <2> QED BY <1>0, <1>3, <2>1, <2>2, ConsecutiveFrameEffect
<1> QED BY <1>1, <1>2, <1>3 DEF OnCanMessage

LEMMA ContentsStep ==
    ASSUME OneSegmentedMessage, IInv, ContentsInv, [Next]_vars
    PROVE  ContentsInv'
<1>0. TypeOK /\ Kept
    BY DEF IInv, Kept
<1>1. CASE FrameArrives
    BY <1>1, OnCanMessageContents, OtherFrameEffect, NotTakenRests, RestingContents
    DEF FrameArrives
<1>2. ASSUME NEW size, NEW accepted, Receive(size) \/ ReceiveStreaming(size, accepted)
      PROVE  ContentsInv'
    <2>1. CASE Receive(size)
        BY <1>0, <2>1, ReceiveRests, RestingContents
    <2>2. CASE EndTaken
        BY <2>2, IdleContents DEF EndTaken
    <2>3. CASE ChunkTaken(accepted)
        BY <1>0, <2>3, ChunkTakenContents
    <2> QED BY <1>2, <2>1, <2>2, <2>3, ReceiveStreamingEffect
<1>3. CASE PollTimesOut
    BY <1>0, <1>3, PollTimesOutRests, RestingContents
<1>4. ASSUME NEW registered \in BOOLEAN, SetRxDoneCb(registered) PROVE ContentsInv'
    BY <1>0, <1>4, SetRxDoneCbRests, RestingContents
<1>5. CASE DestroyLink \/ \E size \in RECEIVE_BUF_SIZES : InitLink(size)
    BY <1>0, <1>5, LifeType, IdleContents
<1>6. CASE Tick
    BY <1>0, <1>6, TickRests, RestingContents
<1>7. CASE UNCHANGED vars
    BY <1>0, <1>7, StutterRests, RestingContents
<1> QED BY <1>1, <1>2, <1>3, <1>4, <1>5, <1>6, <1>7 DEF Next, TakeData

LEMMA ContentsInvariance == ASSUME OneSegmentedMessage PROVE Spec => []ContentsInv
<1>1. Init => ContentsInv
    BY DEF Init, LinkInit, ContentsInv, Position, Unfinished, Receiving
<1>2. IInv /\ ContentsInv /\ [Next]_vars => ContentsInv'
    BY ContentsStep
<1> QED BY <1>1, <1>2, ReceiveInvariance, PTL DEF Spec

(* Nothing isotp_on_can_message has stored is lost, repeated or out of      *)
(* place: buffer and carry hold the bytes received and not yet taken, in    *)
(* order, for every buffer size, however chunks and frames fall.            *)
THEOREM BuffersHoldMessage == ASSUME OneSegmentedMessage PROVE Spec => []BufferHoldsMessage
<1>1. IInv /\ ContentsInv => BufferHoldsMessage
    <2> SUFFICES ASSUME IInv, ContentsInv, receive_status # "IDLE" PROVE BufferHoldsMessage
        BY DEF BufferHoldsMessage
    <2>1. /\ receive_offset \in Nat /\ consumed \in Nat /\ receive_stream_size \in Nat
          /\ receive_stream_carry_size \in Nat
        BY DEF IInv, TypeOK, BufferType, StreamType, MessageType
    <2>2. CASE receive_streaming
        <3>1. receive_offset = consumed + receive_stream_size + receive_stream_carry_size
            BY <2>2 DEF IInv, Conservation
        <3>2. consumed + receive_stream_size + receive_stream_carry_size = receive_offset
            BY <3>1
        <3> QED BY <2>2, <3>2 DEF ContentsInv, Content, Holding, BufferHoldsMessage
    <2>3. CASE ~receive_streaming
        <3>1. \A i \in 1 .. receive_offset : 0 + i = i
            BY <2>1
        <3>2. \A i \in 1 .. receive_offset : receive_buffer[i] = Byte(message, 0 + i)
            BY <2>3 DEF ContentsInv, Content, Holding
        <3>3. \A i \in 1 .. receive_offset : receive_buffer[i] = Byte(message, i)
            BY <3>1, <3>2
        <3> QED BY <2>3, <3>3 DEF BufferHoldsMessage
    <2> QED BY <2>2, <2>3
<1> QED BY <1>1, ReceiveInvariance, ContentsInvariance, PTL

-----------------------------------------------------------------------------
(* What the application is handed *)

Exact ==
    out' # NoData =>
        /\ \A i \in 1 .. Len(out'.bytes) : out'.bytes[i] = Byte(message', out'.from + i)
        /\ out'.complete <=> out'.from + Len(out'.bytes) = receive_size'

(* The buffer holds the whole of a message that is not streamed.            *)
Whole ==
    /\ receive_buf_size \in Nat /\ receive_buffer \in [1 .. receive_buf_size -> Nat]
    /\ receive_size \in 0 .. receive_buf_size /\ message \in Nat
    /\ Holding(receive_buffer, receive_size, message, 0)

LEMMA QuietExact == out' = NoData => Exact
BY DEF Exact

(* The callback is handed the whole message.                                *)
LEMMA NotifyExact ==
    ASSUME NEW status, Notify(status), status = "FULL" /\ ~receive_streaming' => Whole'
    PROVE  Exact
<1>1. CASE out' = NoData
    BY <1>1, QuietExact
<1>2. CASE out' # NoData
    <2> DEFINE bytes == SubSeq(receive_buffer', 1, receive_size')
    <2>1. status = "FULL" /\ ~receive_streaming'
          /\ out' = [from |-> 0, bytes |-> bytes, complete |-> TRUE]
        BY <1>2 DEF Notify
    <2>2. Whole'
        BY <2>1
    <2>3. receive_size' \in Nat /\ message' \in Nat /\ 0 \in Nat /\ receive_size' <= receive_size'
        BY <2>2 DEF Whole
    <2>4. \A i \in 1 .. receive_size' : receive_buffer'[i] \in Nat
        BY <2>2 DEF Whole
    <2>5. Holding(receive_buffer', receive_size', message', 0)
        BY <2>2 DEF Whole, Holding, Byte
    <2>6. Len(bytes) = receive_size' /\ Carries(bytes, message', 0)
        BY ONLY <2>3, <2>4, <2>5, PrefixCarries
    <2>7. 0 + receive_size' = receive_size'
        <3>1. \A n \in Nat : 0 + n = n
            OBVIOUS
        <3> QED BY ONLY <2>3, <3>1
    <2> HIDE DEF bytes
    <2> QED BY <2>1, <2>6, <2>7 DEF Exact, Carries
<1> QED BY <1>1, <1>2

(* A message complete in the buffer.                                        *)
LEMMA FullIsWhole ==
    ASSUME IInv, Content, receive_status = "FULL", ~receive_streaming
    PROVE  Whole /\ receive_stream_carry_size = 0 /\ receive_offset = receive_size
<1>1. receive_offset = receive_size /\ receive_stream_carry_size = 0
    BY DEF IInv, Conservation
<1>2. receive_size <= receive_buf_size
    BY DEF IInv, WithinBounds
<1>3. Holding(receive_buffer, receive_size, message, 0)
    BY <1>1 DEF Content
<1> QED BY <1>1, <1>2, <1>3 DEF IInv, TypeOK, BufferType, MessageType, Whole

LEMMA NotTakenExact == ASSUME IInv, ContentsInv, NotTaken PROVE Exact
<1>1. Notify("IDLE") \/ Notify(receive_status)
    BY DEF NotTaken
<1>2. receive_status = "FULL" /\ ~receive_streaming' => Whole'
    BY FullIsWhole
    DEF ContentsInv, NotTaken, Whole, Holding, Byte, bufferVars, streamVars, messageVars
<1> QED BY <1>1, <1>2, NotifyExact

LEMMA OnCanMessageExact ==
    ASSUME OneSegmentedMessage, IInv, ContentsInv,
           NEW f \in Frames, NEW accepted, OnCanMessage(f, accepted)
    PROVE  Exact
<1>0. /\ TypeOK /\ Kept /\ WithinBounds /\ NeverWaitsUninvited /\ FrameType(f)
      /\ receive_buf_size \in Nat
    BY Constants DEF IInv, Kept, Invitations, TypeOK, BufferType
<1>1. CASE ReceiveSingleFrame(f)
    <2>1. f.type = "SF" /\ UNCHANGED receive_buf_size
        BY <1>1 DEF ReceiveSingleFrame, paramVars
    <2>2. CASE /\ SfAccepted(f) /\ SfPayloadLength(f) <= receive_buf_size
               /\ receive_buffer' = Overwrite(receive_buffer, 0, FrameData(f, SfPayloadLength(f)))
               /\ receive_size' = SfPayloadLength(f) /\ receive_offset' = SfPayloadLength(f)
               /\ receive_streaming' = FALSE /\ message' = f.msg
               /\ Notify("FULL")
        <3>1. Content' /\ ~receive_streaming'
            BY <1>0, <2>1, <2>2, SingleFrameContent DEF OneSegmentedMessage
        <3>2. SfPayloadLength(f) \in 0 .. receive_buf_size
            <4>1. SfPayloadLength(f) \in Nat
                BY <1>0, <2>1, <2>2, SingleFrameData
            <4> QED BY <1>0, <2>2, <4>1
        <3>3. TypeOK'
            BY <1>0, <1>1, SingleFrameType
        <3>4. Holding(receive_buffer', receive_size', message', 0)
            BY <2>2, <3>1 DEF Content, Holding, Byte
        <3>5. Whole'
            BY <2>1, <2>2, <3>2, <3>3, <3>4
            DEF Whole, TypeOK, BufferType, MessageType, Holding, Byte
        <3> QED BY <2>2, <3>5, NotifyExact
    <2>3. CASE /\ UNCHANGED <<bufferVars, streamVars, messageVars>>
               /\ Notify(receive_status)
        <3>1. receive_status = "FULL" /\ ~receive_streaming' => Whole'
            BY <2>1, <2>3, FullIsWhole
            DEF ContentsInv, Whole, Holding, Byte, bufferVars, streamVars, messageVars
        <3> QED BY <2>3, <3>1, NotifyExact
    <2> QED BY <1>1, <2>2, <2>3 DEF ReceiveSingleFrame
<1>2. CASE ReceiveFirstFrame(f, accepted)
    <2>1. UNCHANGED receive_buf_size
        BY <1>2 DEF ReceiveFirstFrame, paramVars
    <2>2. \/ Notify("FULL") /\ receive_streaming'
          \/ Notify("INPROGRESS") \/ Notify("IDLE")
          \/ UNCHANGED <<bufferVars, streamVars, messageVars>> /\ Notify(receive_status)
        BY <1>2 DEF ReceiveFirstFrame
    <2>3. CASE UNCHANGED <<bufferVars, streamVars, messageVars>> /\ Notify(receive_status)
        <3>1. receive_status = "FULL" /\ ~receive_streaming' => Whole'
            BY <2>1, <2>3, FullIsWhole
            DEF ContentsInv, Whole, Holding, Byte, bufferVars, streamVars, messageVars
        <3> QED BY <2>3, <3>1, NotifyExact
    <2> QED BY <2>2, <2>3, NotifyExact
<1>3. CASE ReceiveConsecutiveFrame(f, accepted)
    <2>1. CASE Taken(f, accepted)
        <3>1. CASE ChunkReady /\ Notify("FULL")
            <4> SUFFICES ASSUME ~receive_streaming' PROVE Whole'
                BY <3>1, NotifyExact
            <4>1. Content' /\ TypeOK'
                BY <1>0, <2>1, TakenContents, TakenType
            <4>2. ~receive_streaming /\ receive_size' = receive_size
                  /\ receive_buf_size' = receive_buf_size
                BY <2>1 DEF Taken
            <4>3. receive_offset' >= receive_size'
                BY <3>1, <4>2 DEF ChunkReady
            <4>4. receive_offset' <= receive_size' /\ receive_size' <= receive_buf_size
                BY <1>0, <2>1, <4>2, TakenStored
            <4>5. receive_offset' \in Nat /\ receive_size' \in Nat
                BY <4>1 DEF TypeOK, BufferType
            <4>6. receive_offset' = receive_size' /\ receive_size' \in 0 .. receive_buf_size'
                BY <1>0, <4>2, <4>3, <4>4, <4>5
            <4>7. Holding(receive_buffer', receive_size', message', 0)
                BY <4>1, <4>6 DEF Content, Holding, Byte
            <4> QED BY <4>1, <4>6, <4>7
                    DEF Whole, TypeOK, BufferType, MessageType, Holding, Byte
        <3>2. CASE Notify("INPROGRESS")
            BY <3>2, NotifyExact
        <3> QED BY <2>1, <3>1, <3>2 DEF Taken
    <2>2. CASE NotTaken
        BY <2>2, NotTakenExact
    <2> QED BY <1>0, <1>3, <2>1, <2>2, ConsecutiveFrameEffect
<1> QED BY <1>1, <1>2, <1>3 DEF OnCanMessage

(* isotp_receive copies as much as the caller has room for, and calls it    *)
(* complete when that is all.                                               *)
LEMMA ReceiveExact ==
    ASSUME IInv, Content, NEW size \in Nat, Receive(size)
    PROVE  Exact
<1> DEFINE n     == Smaller(receive_size, size)
           bytes == SubSeq(receive_buffer, 1, n)
<1>1. /\ receive_status = "FULL" /\ ~receive_streaming
      /\ out' = [from |-> 0, bytes |-> bytes, complete |-> n = receive_size]
      /\ message' = message /\ receive_size' = receive_size
    BY DEF Receive, messageVars, bufferVars
<1>2. Whole
    BY <1>1, FullIsWhole
<1>3. /\ receive_size \in Nat /\ message \in Nat /\ 0 \in Nat
      /\ \A i \in 1 .. receive_size : receive_buffer[i] \in Nat
      /\ Holding(receive_buffer, receive_size, message, 0)
    BY <1>2 DEF Whole
<1>4. n \in Nat /\ n <= receive_size
    BY <1>3 DEF Smaller
<1> HIDE DEF n
<1>5. Len(bytes) = n /\ Carries(bytes, message, 0)
    BY ONLY <1>3, <1>4, PrefixCarries
<1>6. 0 + n = n
    BY <1>4
<1> HIDE DEF bytes
<1> QED BY <1>1, <1>5, <1>6 DEF Exact, Carries

(* isotp_receive_streaming hands over the buffer, and calls it the last     *)
(* chunk when the whole message has arrived and nothing is left behind it.  *)
LEMMA ReceiveStreamingExact ==
    ASSUME IInv, Content, NEW size, NEW accepted, ReceiveStreaming(size, accepted)
    PROVE  Exact
<1> DEFINE n     == IF receive_streaming THEN receive_stream_size ELSE receive_size
           from  == IF receive_streaming THEN consumed ELSE 0
           bytes == SubSeq(receive_buffer, 1, n)
<1>1. /\ receive_status = "FULL"
      /\ out' = [from |-> from, bytes |-> bytes, complete |-> LastChunk]
      /\ message' = message /\ receive_size' = receive_size
    BY DEF ReceiveStreaming, messageVars
<1>2. /\ receive_buf_size \in Nat /\ receive_buffer \in [1 .. receive_buf_size -> Nat]
      /\ receive_offset \in Nat /\ receive_size \in Nat /\ message \in Nat
      /\ consumed \in Nat /\ receive_stream_size \in Nat /\ receive_stream_carry_size \in Nat
    BY DEF IInv, TypeOK, BufferType, MessageType, StreamType
<1>3. n \in Nat /\ n <= receive_buf_size /\ from \in Nat
    BY <1>1, <1>2, FullIsWhole DEF IInv, WithinBounds, Whole
<1>4. Holding(receive_buffer, n, message, from)
    <2>1. CASE receive_streaming
        BY <1>1, <2>1 DEF Content
    <2>2. CASE ~receive_streaming
        BY <1>1, <2>2, FullIsWhole DEF Whole
    <2> QED BY <2>1, <2>2
<1>5. LastChunk <=> from + n = receive_size
    <2>1. CASE receive_streaming
        <3>1. receive_offset = consumed + receive_stream_size + receive_stream_carry_size
              /\ receive_offset <= receive_size
            BY <1>1, <2>1 DEF IInv, Conservation, WithinBounds
        <3>2. LastChunk <=> consumed + receive_stream_size = receive_size
            BY <1>2, <3>1 DEF LastChunk
        <3> QED BY <2>1, <3>2
    <2>2. CASE ~receive_streaming
        <3>1. receive_offset = receive_size /\ receive_stream_carry_size = 0
            BY <1>1, <2>2, FullIsWhole
        <3>2. LastChunk /\ 0 + receive_size = receive_size
            BY <1>2, <3>1 DEF LastChunk
        <3> QED BY <2>2, <3>2
    <2> QED BY <2>1, <2>2
<1> HIDE DEF n, from
<1>6. /\ \A i \in 1 .. n : receive_buffer[i] \in Nat
      /\ n <= n
    BY <1>2, <1>3
<1>7. message \in Nat
    BY <1>2
<1>8. Len(bytes) = n /\ Carries(bytes, message, from)
    BY ONLY <1>3, <1>4, <1>6, <1>7, PrefixCarries
<1> HIDE DEF bytes
<1> QED BY <1>1, <1>5, <1>8 DEF Exact, Carries

LEMMA ExactStep ==
    ASSUME OneSegmentedMessage, IInv, ContentsInv, Next
    PROVE  Exact
<1>1. CASE FrameArrives
    BY <1>1, OnCanMessageExact, OtherFrameEffect, NotTakenExact DEF FrameArrives
<1>2. CASE TakeData
    <2>1. receive_status = "FULL"
        BY <1>2 DEF TakeData, Receive, ReceiveStreaming
    <2>2. Content
        BY <2>1 DEF ContentsInv
    <2> QED BY <1>2, <2>2, ReceiveExact, ReceiveStreamingExact, Constants DEF TakeData
<1>3. CASE \/ PollTimesOut \/ Tick \/ DestroyLink
           \/ \E registered \in BOOLEAN : SetRxDoneCb(registered)
           \/ \E size \in RECEIVE_BUF_SIZES : InitLink(size)
    <2>1. out' = NoData
        BY <1>3 DEF PollTimesOut, Tick, DestroyLink, SetRxDoneCb, InitLink, Reset
    <2> QED BY <2>1, QuietExact
<1> QED BY <1>1, <1>2, <1>3 DEF Next

(* What the receive callback, isotp_receive and isotp_receive_streaming     *)
(* hand over continues the message it belongs to, and the last of it is     *)
(* reported as such and nothing before, whatever the bus loses, repeats or  *)
(* reorders and however small the buffer is.                                *)
THEOREM DeliveriesAreExact == ASSUME OneSegmentedMessage PROVE Spec => DeliveredExact
<1>1. IInv /\ ContentsInv /\ [Next]_vars => [Exact]_vars
    BY ExactStep
<1> QED BY <1>1, ReceiveInvariance, ContentsInvariance, PTL DEF Spec, DeliveredExact, Exact

-----------------------------------------------------------------------------
(* What IsoTpNetwork needs of an application with room for the whole buffer *)

(* It is handed the next piece of the message, up to its end at most.       *)
LEMMA PieceTaken ==
    ASSUME IInv, Content, NEW accepted,
           Receive(receive_buf_size) \/ ReceiveStreaming(receive_buf_size, accepted)
    PROVE  /\ Exact
           /\ out'.from = IF receive_streaming THEN consumed ELSE 0
           /\ Len(out'.bytes) = IF receive_streaming THEN receive_stream_size ELSE receive_size
           /\ out'.from + Len(out'.bytes) <= receive_size
           /\ receive_status = "FULL"
           /\ message' = message /\ receive_size' = receive_size
           /\ ChunkTaken(accepted) \/ receive_status' = "IDLE"
<1> DEFINE n    == IF receive_streaming THEN receive_stream_size ELSE receive_size
           from == IF receive_streaming THEN consumed ELSE 0
<1>1. /\ receive_buf_size \in Nat /\ receive_buffer \in [1 .. receive_buf_size -> Nat]
      /\ receive_offset \in Nat /\ receive_size \in Nat
      /\ consumed \in Nat /\ receive_stream_size \in Nat /\ receive_stream_carry_size \in Nat
    BY DEF IInv, TypeOK, BufferType, MessageType, StreamType
<1>2. receive_status = "FULL"
    BY DEF Receive, ReceiveStreaming
<1>3. n \in 0 .. receive_buf_size /\ from + n <= receive_size
    <2>1. CASE receive_streaming
        <3>1. /\ receive_offset = consumed + receive_stream_size + receive_stream_carry_size
              /\ receive_offset <= receive_size /\ receive_stream_size <= receive_buf_size
            BY <1>2, <2>1 DEF IInv, Conservation, WithinBounds
        <3> QED BY <1>1, <2>1, <3>1
    <2>2. CASE ~receive_streaming
        <3>1. receive_size <= receive_buf_size
            BY <1>2, <2>2 DEF IInv, WithinBounds
        <3> QED BY <1>1, <2>2, <3>1
    <2> QED BY <2>1, <2>2
<1> HIDE DEF n, from
<1>4. Len(SubSeq(receive_buffer, 1, n)) = n
    <2>1. n \in Nat /\ n <= receive_buf_size
        BY <1>1, <1>3
    <2>2. \A i \in 1 .. n : receive_buffer[i] \in Nat
        BY <1>1, <2>1
    <2> QED BY <2>1, <2>2
<1>5. CASE Receive(receive_buf_size)
    <2>1. /\ ~receive_streaming /\ n = receive_size /\ from = 0
          /\ out' = [from |-> 0, bytes |-> SubSeq(receive_buffer, 1, Smaller(receive_size,
                                                                             receive_buf_size)),
                     complete |-> Smaller(receive_size, receive_buf_size) = receive_size]
          /\ receive_status' = "IDLE" /\ message' = message /\ receive_size' = receive_size
        BY <1>5 DEF Receive, n, from, messageVars, bufferVars
    <2>2. Smaller(receive_size, receive_buf_size) = n
        BY <1>1, <1>3, <2>1 DEF Smaller
    <2>3. Exact
        BY <1>1, <1>5, ReceiveExact
    <2>4. out'.from = from /\ Len(out'.bytes) = n
        BY <1>4, <2>1, <2>2
    <2>5. out'.from + Len(out'.bytes) <= receive_size
        BY <1>3, <2>4
    <2> QED BY <1>2, <2>1, <2>3, <2>4, <2>5 DEF n, from
<1>6. CASE ReceiveStreaming(receive_buf_size, accepted)
    <2>1. /\ out' = [from |-> from, bytes |-> SubSeq(receive_buffer, 1, n), complete |-> LastChunk]
          /\ message' = message /\ receive_size' = receive_size
        BY <1>6 DEF ReceiveStreaming, n, from, messageVars
    <2>2. Exact
        BY <1>6, ReceiveStreamingExact
    <2>3. ChunkTaken(accepted) \/ receive_status' = "IDLE"
        BY <1>6, ReceiveStreamingEffect DEF EndTaken
    <2>4. out'.from = from /\ Len(out'.bytes) = n
        BY <1>4, <2>1
    <2>5. out'.from + Len(out'.bytes) <= receive_size
        BY <1>3, <2>4
    <2> QED BY <1>2, <2>1, <2>2, <2>3, <2>4, <2>5 DEF n, from
<1> QED BY <1>5, <1>6

(* A streaming buffer is given to the application with something in it.     *)
LEMMA ChunkLeft ==
    ASSUME TypeOK, receive_buf_size # 0, NEW accepted, ChunkTaken(accepted), receive_status' = "FULL"
    PROVE  receive_stream_size' > 0
<1>1. /\ receive_stream_carry_size \in Nat /\ receive_buf_size \in Nat
    BY DEF TypeOK, StreamType, BufferType
<1>2. /\ receive_stream_size' = Smaller(receive_stream_carry_size, receive_buf_size)
      /\ receive_stream_carry_size' > 0 \/ receive_offset >= receive_size
      /\ ~(receive_offset >= receive_size /\ receive_stream_carry_size = 0)
    BY DEF ChunkTaken, Refill, LastChunk
<1>3. receive_stream_carry_size > 0
    <2>1. /\ receive_stream_carry_size' \in 0 .. 255
          /\ receive_stream_carry_size' <= receive_stream_carry_size
        BY RefillEffect DEF ChunkTaken
    <2> QED BY <1>1, <1>2, <2>1
<1> QED BY <1>1, <1>2, <1>3 DEF Smaller

LEMMA ChunkArrived ==
    ASSUME TypeOK, Kept, receive_buf_size # 0,
           NEW f, FrameType(f), NEW accepted, Taken(f, accepted), receive_streaming
    PROVE  receive_stream_size' > 0
<1> DEFINE n    == CfWanted(receive_size - receive_offset, rx_dl)
           data == FrameData(f, n)
<1>1. WithinBounds /\ Receiving /\ receive_status = "INPROGRESS" /\ Plausible(f) /\ n <= f.len - 1
    BY DEF Kept, Taken, Receiving
<1>2. n \in 1 .. MAX_CAN_FRAME_SIZE - 1 /\ data \in Seq(Nat) /\ Len(data) = n
    BY <1>1, FrameContents
<1>3. /\ receive_stream_size \in Nat /\ receive_buf_size \in Nat
      /\ receive_stream_size <= receive_buf_size
    BY <1>1 DEF TypeOK, StreamType, BufferType, WithinBounds
<1>4. receive_stream_size' = receive_stream_size
          + Smaller(Len(data), receive_buf_size - receive_stream_size)
    BY DEF Taken, StoreStreamed
<1> HIDE DEF data
<1>5. n \in Nat /\ n > 0
    BY <1>2, Constants
<1> HIDE DEF n
<1> QED BY <1>2, <1>3, <1>4, <1>5 DEF Smaller


=============================================================================
