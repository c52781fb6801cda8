---------------------- MODULE IsoTpNetworkTransfer_proofs ----------------------
(***************************************************************************)
(* Proof that the steps of two links on a bus are steps of IsoTpTransfer as *)
(* long as frames are only lost: that a Consecutive Frame put into the      *)
(* wrong place, which a sequence number of four bits cannot exclude, is     *)
(* never handed to the application.                                         *)
(***************************************************************************)
EXTENDS IsoTpNetworkCredit_proofs

(* A byte is modelled by one number for its message and its position, which *)
(* it tells apart up to this length.                                        *)
Numbered == \A m \in 1 .. Len(Payloads) : Payloads[m] < 10000

-----------------------------------------------------------------------------
(* The invariant *)

(* With c Consecutive Frames on the bus there is more to come of the        *)
(* message that the receiver is taking, from this position on.              *)
More(c)   == c > 0 \/ Current
NextAt(c) == IF c > 0 THEN to_receiver[1].frame.at ELSE send_offset

(* Either the receiver has every byte up to there, or a whole frame is      *)
(* missing; then so many frames are missing from the block as well that     *)
(* neither the block nor the message can come to its end.                   *)
Sound(c) ==
    /\ receive_status = "FULL" => RP!Content
    /\ R!Receiving /\ More(c) =>
         \/ NextAt(c) = receive_offset /\ RP!Content
         \/ Pending(c) < invited /\ receive_offset + (Dl - 1) <= NextAt(c)

(* The receiver goes on where the application stands.                       *)
Handing ==
    /\ handed.msg \in 0 .. message
    /\ receive_status # "IDLE" =>
         /\ message \in 1 .. sent /\ receive_size = Payloads[message] /\ receive_size > 0
         /\ receive_status = "FULL" /\ receive_streaming => receive_stream_size > 0
         /\ IF handed.msg = message THEN receive_streaming /\ handed.to = consumed
            ELSE receive_streaming => consumed = 0

TransferInv == Benign => Turns /\ Handing /\ \E c \in Nat : Joint(c) /\ Sound(c)

LEMMA SoundFacts ==
    ASSUME NEW c, Agreed(c)
    PROVE  /\ RP!IInv /\ RP!TypeOK /\ RP!Kept /\ RP!WithinBounds
           /\ rx_done_cb = FALSE /\ receive_buf_size # 0
           /\ receive_offset \in Nat /\ receive_size \in Nat /\ receive_stream_size \in Nat
           /\ consumed \in Nat /\ message \in 0 .. sent /\ sent \in Nat
           /\ Dl \in 8 .. 64 /\ c \in Nat /\ Pending(c) \in Nat
           /\ R!Receiving => /\ invited \in 1 .. 255 /\ invited = receive_bs_count
                             /\ receive_size = Payloads[message] /\ rx_dl = Dl
                             /\ Pending(c) <= invited
<1>1. /\ RP!IInv /\ rx_done_cb = FALSE /\ receive_buf_size \in RECEIVE_BUF_SIZES
      /\ Prompt /\ Joint(c)
    BY DEF Agreed, BaseInv, NetworkInv, ReceiverInv
<1>2. RP!TypeOK /\ RP!Kept /\ RP!WithinBounds
    BY <1>1 DEF RP!IInv, RP!Kept
<1>3. /\ receive_offset \in Nat /\ receive_size \in Nat /\ receive_stream_size \in Nat
      /\ consumed \in Nat
    BY <1>2 DEF RP!TypeOK, RP!BufferType, RP!StreamType, RP!MessageType
<1>4. receive_buf_size # 0
    BY <1>1 DEF Prompt
<1>5. /\ message \in 0 .. sent /\ sent \in Nat /\ c \in Nat
    BY AgreedBus
<1>6. ASSUME R!Receiving
      PROVE  /\ invited \in 1 .. 255 /\ invited = receive_bs_count
             /\ receive_size = Payloads[message] /\ rx_dl = Dl /\ Pending(c) <= invited
    <2>1. Live
        BY <1>6 DEF Live
    <2>2. /\ invited \in 0 .. 255 /\ invited > 0 /\ invited = receive_bs_count
          /\ receive_size = Payloads[message] /\ rx_dl = Dl
        BY <1>6, <2>1, AgreedCounts
    <2>3. Pending(c) <= invited
        BY <1>1, <2>1 DEF Joint, Accounts
    <2> QED BY <2>2, <2>3
<1>7. Pending(c) \in Nat
    BY AgreedCounts
<1>8. Dl \in 8 .. 64
    BY NetworkConstants
<1> QED BY <1>1, <1>2, <1>3, <1>4, <1>5, <1>6, <1>7, <1>8

-----------------------------------------------------------------------------
(* Steps that leave the receiver's buffers alone *)

LEMMA SameBytes == \A m, i : R!Byte(m, i) = RP!Byte(m, i)
BY DEF R!Byte, RP!Byte

LEMMA ContentStays ==
    ASSUME RP!Content,
           UNCHANGED <<receive_buffer, receive_offset, receive_streaming, receive_stream_size,
                       receive_stream_carry, receive_stream_carry_size, message, consumed>>
    PROVE  RP!Content'
BY DEF RP!Content, RP!Holding, RP!Byte

LEMMA RestingKeeps ==
    ASSUME RP!Resting
    PROVE  /\ UNCHANGED <<receive_offset, receive_size, receive_sn, receive_streaming,
                          receive_stream_size, message, consumed, invited>>
           /\ receive_status' = "IDLE" \/ receive_status' = receive_status
           /\ RP!Content => RP!Content'
<1>1. UNCHANGED <<receive_buffer, receive_offset, receive_streaming, receive_stream_size,
                  receive_stream_carry, receive_stream_carry_size, message, consumed>>
    BY DEF RP!Resting, RP!bufferVars, RP!streamVars, RP!messageVars
<1>2. RP!Content => RP!Content'
    BY <1>1, ContentStays
<1> QED BY <1>1, <1>2 DEF RP!Resting, RP!bufferVars, RP!flowVars

LEMMA RestingReceiver == ReceiverRests => RP!Resting
BY DEF ReceiverRests, receiver, RP!Resting, RP!bufferVars, RP!streamVars, RP!flowVars,
       RP!messageVars

(* What is to come stays, or comes to an end.                               *)
LEMMA SoundKept ==
    ASSUME NEW c, Agreed(c), Sound(c), RP!Resting, NEW d \in Nat, Pending(d)' \in Nat,
           R!Receiving /\ R!Receiving' /\ More(d)' =>
               More(c) /\ NextAt(d)' = NextAt(c) /\ Pending(d)' <= Pending(c)
    PROVE  Sound(d)'
<1>1. /\ UNCHANGED <<receive_offset, invited>>
      /\ receive_status' = "IDLE" \/ receive_status' = receive_status
      /\ RP!Content => RP!Content'
    BY RestingKeeps
<1>2. receive_status' = "FULL" => RP!Content'
    BY <1>1 DEF Sound
<1>3. ASSUME R!Receiving', More(d)'
      PROVE  \/ NextAt(d)' = receive_offset' /\ RP!Content'
             \/ Pending(d)' < invited' /\ receive_offset' + (Dl - 1) <= NextAt(d)'
    <2>1. R!Receiving
        BY <1>1, <1>3 DEF R!Receiving
    <2>2. More(c) /\ NextAt(d)' = NextAt(c) /\ Pending(d)' <= Pending(c)
        BY <1>3, <2>1
    <2>3. Pending(c) \in Nat /\ invited \in 1 .. 255
        BY <2>1, SoundFacts
    <2>4. \/ NextAt(c) = receive_offset /\ RP!Content
          \/ Pending(c) < invited /\ receive_offset + (Dl - 1) <= NextAt(c)
        BY <2>1, <2>2 DEF Sound
    <2> QED BY <1>1, <2>2, <2>3, <2>4
<1> QED BY <1>2, <1>3 DEF Sound

LEMMA HandingKept ==
    ASSUME Handing, RP!Resting, UNCHANGED handed, sent \in Nat, sent' \in Nat, sent <= sent',
           message \in 0 .. sent
    PROVE  Handing'
<1>1. /\ UNCHANGED <<receive_size, receive_streaming, receive_stream_size, message, consumed>>
      /\ receive_status' = "IDLE" \/ receive_status' = receive_status
    BY RestingKeeps
<1>2. message \in 1 .. sent => message \in 1 .. sent'
    OBVIOUS
<1>3. handed'.msg \in 0 .. message'
    BY <1>1 DEF Handing
<1>4. ASSUME receive_status' # "IDLE"
      PROVE  /\ message' \in 1 .. sent'
             /\ receive_size' = Payloads[message'] /\ receive_size' > 0
             /\ receive_status' = "FULL" /\ receive_streaming' => receive_stream_size' > 0
             /\ IF handed'.msg = message' THEN receive_streaming' /\ handed'.to = consumed'
                ELSE receive_streaming' => consumed' = 0
    <2>1. receive_status # "IDLE" /\ receive_status' = receive_status
        BY <1>1, <1>4
    <2> QED BY <1>1, <1>2, <2>1 DEF Handing
<1> QED BY <1>3, <1>4 DEF Handing

-----------------------------------------------------------------------------
(* A Consecutive Frame leaves the bus: the frames on their way are fewer by *)
(* one, and if more is to come of the message the frame was a whole one.    *)

LEMMA NextPending ==
    ASSUME Prompt, BaseInv, Next, NEW d \in Nat
    PROVE  Pending(d)' \in Nat
<1>1. NetworkInv' /\ Rates'
    BY BaseStep DEF BaseInv
<1>2. send_bs_remain' \in Nat
    <2>1. send_bs_remain' \in 0 .. 255
        BY <1>1 DEF Rates
    <2> QED BY <2>1
<1>3. Coming' \in Nat
    <2>1. CASE to_sender' = << >>
        BY <2>1, Counting
    <2>2. CASE to_sender' # << >>
        <3>1. Channel(to_sender')
            BY <1>1 DEF NetworkInv, BusInv
        <3>2. 1 \in 1 .. Len(to_sender') /\ Head(to_sender') = to_sender'[1]
            BY <2>2, <3>1, ChannelFrames
        <3>3. to_sender'[1].frame \in Invitations
            BY <1>1, <3>2 DEF Rates, Answer
        <3>4. to_sender'[1].frame.BS \in 1 .. 255
            BY <3>3, InvitationFields
        <3>5. Coming' = to_sender'[1].frame.BS
            BY <2>2, <3>2 DEF Coming
        <3> QED BY <3>4, <3>5
    <2> QED BY <2>1, <2>2
<1>4. Pending(d)' = d + 0 \/ Pending(d)' = d + (send_bs_remain' + Coming')
    BY Counting
<1> QED BY <1>2, <1>3, <1>4

LEMMA PendingLess ==
    ASSUME NEW c, Agreed(c), FrameGoes, to_receiver[1].frame.type = "CF",
           message' = message, UNCHANGED <<to_sender, sent>>
    PROVE  c - 1 \in Nat /\ Pending(c - 1)' = Pending(c) - 1
<1>1. /\ SenderStays /\ c > 0
    BY GoingFrame
<1>2. c \in Nat
    BY AgreedBus
<1>3. (Current' <=> Current) /\ send_bs_remain' = send_bs_remain /\ Coming' = Coming
    BY <1>1, Staying, Counting DEF SenderStays
<1>4. send_bs_remain \in Nat /\ Coming \in Nat
    <2>1. send_bs_remain \in 0 .. 255 /\ Coming \in 0 .. 255
        BY AgreedCounts
    <2> QED BY <2>1
<1>5. CASE Current
    <2>1. /\ Pending(c) = c + (send_bs_remain + Coming)
          /\ Pending(c - 1)' = (c - 1) + (send_bs_remain + Coming)
        BY <1>3, <1>5, Counting
    <2> QED BY <1>1, <1>2, <1>4, <2>1
<1>6. CASE ~Current
    <2>1. Pending(c) = c + 0 /\ Pending(c - 1)' = (c - 1) + 0
        BY <1>3, <1>6, Counting
    <2> QED BY <1>1, <1>2, <2>1
<1> QED BY <1>5, <1>6

LEMMA WholeFrame ==
    ASSUME NEW left \in Nat \ {0}
    PROVE  /\ CfWanted(left, Dl) <= Dl - 1
           /\ CfWanted(left, Dl) < left => CfWanted(left, Dl) = Dl - 1
<1>1. Dl \in 8 .. 64
    BY NetworkConstants
<1> QED BY <1>1 DEF CfWanted, CfDataLength, CAN_DL_CLASSIC

LEMMA MoreFrames ==
    ASSUME NEW c, Agreed(c), FrameGoes, to_receiver[1].frame.type = "CF",
           message' = message, UNCHANGED sent, More(c - 1)'
    PROVE  /\ NextAt(c - 1)' = to_receiver[1].frame.at + to_receiver[1].frame.n
           /\ to_receiver[1].frame.n = Dl - 1
<1> DEFINE f == to_receiver[1].frame
<1>1. /\ SenderStays /\ c > 0 /\ f.msg = message /\ FrameOf(f, sent)
      /\ \A i \in 1 .. Len(to_receiver) - 1 : to_receiver'[i] = to_receiver[i + 1]
    BY GoingFrame
<1>2. /\ Queue(to_receiver, c, message, Sending, Place) /\ Frames(to_receiver, sent)
      /\ c \in 0 .. Len(to_receiver) /\ Len(to_receiver) \in Nat /\ c \in Nat
      /\ S!InProgress => Sending = sent
      /\ Place.at = send_offset
    BY AgreedBus
<1>3. /\ f.n = CfWanted(Payloads[message] - f.at, Dl) /\ f.n > 0
      /\ f.at + f.n <= Payloads[message] /\ f.at \in Nat /\ f.n \in Nat
    BY <1>1 DEF FrameOf, R!FrameType
<1>4. Payloads[message] \in Nat
    <2>1. f.msg \in 1 .. sent /\ sent \in 0 .. Len(Payloads)
        BY <1>1 DEF FrameOf, Agreed, BaseInv, NetworkInv, SenderInv
    <2>2. Len(Payloads) \in Nat /\ \A m \in 1 .. Len(Payloads) : Payloads[m] \in Nat
        BY NetworkConstants
    <2>3. f.msg \in 1 .. Len(Payloads)
        BY <2>1, <2>2
    <2> QED BY <1>1, <2>2, <2>3
<1>5. f.at + f.n < Payloads[message] /\ NextAt(c - 1)' = f.at + f.n
    <2>1. CASE c - 1 > 0
        <3>1. 1 \in 1 .. c - 1 /\ 2 \in 1 .. c /\ 1 \in 1 .. Len(to_receiver) - 1
              /\ 2 \in 1 .. Len(to_receiver)
            BY <1>2, <2>1
        <3>2. to_receiver'[1] = to_receiver[2]
            BY <1>1, <3>1
        <3>3. /\ Follows(f, to_receiver[2].frame)
              /\ to_receiver[2].frame.type = "CF" /\ to_receiver[2].frame.msg = message
            BY <1>2, <3>1 DEF Queue, Line
        <3>4. FrameOf(to_receiver[2].frame, sent)
            BY <1>2, <3>1 DEF Frames
        <3>5. /\ to_receiver[2].frame.n > 0 /\ to_receiver[2].frame.n \in Nat
              /\ to_receiver[2].frame.at \in Nat
              /\ to_receiver[2].frame.at + to_receiver[2].frame.n <= Payloads[message]
            BY <3>3, <3>4 DEF FrameOf, R!FrameType
        <3>6. to_receiver[2].frame.at = f.at + f.n
            BY <3>3 DEF Follows
        <3>7. NextAt(c - 1)' = to_receiver'[1].frame.at
            BY <2>1 DEF NextAt
        <3> QED BY <1>4, <3>2, <3>5, <3>6, <3>7
    <2>2. CASE ~(c - 1 > 0)
        <3>1. c = 1
            BY <1>1, <1>2, <2>2
        <3>2. Current'
            BY <2>2 DEF More
        <3>3. Current /\ send_offset' = send_offset
            BY <1>1, <3>2, Staying DEF SenderStays
        <3>4. S!InProgress /\ message = sent /\ Sending = message
            BY <1>2, <3>3 DEF Current
        <3>5. Follows(to_receiver[c].frame, Place)
            BY <1>1, <1>2, <3>4 DEF Queue, Tip
        <3>6. send_offset = f.at + f.n
            BY <1>2, <3>1, <3>5 DEF Follows
        <3>7. send_offset < Payloads[message]
            BY <3>4, SenderBehind
        <3>8. NextAt(c - 1)' = send_offset'
            BY <2>2 DEF NextAt
        <3> QED BY <3>3, <3>6, <3>7, <3>8
    <2> QED BY <2>1, <2>2
<1>6. f.n = Dl - 1
    <2>1. PICK left \in Nat \ {0} : left = Payloads[message] - f.at
        BY <1>3, <1>4, <1>5
    <2>2. CfWanted(left, Dl) < left
        BY <1>3, <1>4, <1>5, <2>1
    <2> QED BY <1>3, <2>1, <2>2, WholeFrame
<1> QED BY <1>5, <1>6

(* Lost or refused.                                                         *)
LEMMA MissedSound ==
    ASSUME NEW c, Agreed(c), Sound(c), FrameGoes, to_receiver[1].frame.type = "CF",
           RP!Resting, UNCHANGED <<to_sender, sent>>
    PROVE  Sound(c - 1)'
<1> DEFINE f == to_receiver[1].frame
<1>1. /\ UNCHANGED <<receive_offset, message, invited>>
      /\ receive_status' = "IDLE" \/ receive_status' = receive_status
      /\ RP!Content => RP!Content'
    BY RestingKeeps
<1>2. receive_status' = "FULL" => RP!Content'
    BY <1>1 DEF Sound
<1>3. ASSUME R!Receiving', More(c - 1)'
      PROVE  Pending(c - 1)' < invited' /\ receive_offset' + (Dl - 1) <= NextAt(c - 1)'
    <2>1. R!Receiving
        BY <1>1, <1>3 DEF R!Receiving
    <2>2. c > 0 /\ FrameOf(f, sent)
        BY GoingFrame
    <2>3. More(c) /\ NextAt(c) = f.at
        BY <2>2 DEF More, NextAt
    <2>4. Pending(c) <= invited /\ invited \in 1 .. 255 /\ Pending(c) \in Nat
          /\ receive_offset \in Nat /\ Dl \in 8 .. 64
        BY <2>1, SoundFacts
    <2>5. Pending(c - 1)' = Pending(c) - 1
        BY <1>1, PendingLess
    <2>6. NextAt(c - 1)' = f.at + (Dl - 1)
        BY <1>1, <1>3, MoreFrames
    <2>7. f.at \in Nat
        BY <2>2 DEF FrameOf, R!FrameType
    <2>8. f.at = receive_offset \/ receive_offset + (Dl - 1) <= f.at
        BY <2>1, <2>3 DEF Sound
    <2>9. receive_offset + (Dl - 1) <= f.at + (Dl - 1)
        BY <2>4, <2>7, <2>8
    <2> QED BY <1>1, <2>4, <2>5, <2>6, <2>9
<1> QED BY <1>2, <1>3 DEF Sound

LEMMA NotifyKeepsQuiet ==
    ASSUME ~rx_done_cb, NEW status, RP!Notify(status)
    PROVE  receive_status' = status /\ out' = R!NoData
BY DEF RP!Notify, RP!NoData, R!NoData

(* Taken, from the place the receiver is at or from a later one.  The later *)
(* one has too many of the block and of the message missing for anything    *)
(* but waiting.                                                             *)
LEMMA TakenSound ==
    ASSUME NEW c, Agreed(c), Sound(c), ReceiverTakesFrame, to_receiver[1].frame.type = "CF",
           RP!Taken(to_receiver[1].frame, TRUE)
    PROVE  Sound(c - 1)'
<1> DEFINE f == to_receiver[1].frame
           n == RP!CfWanted(receive_size - receive_offset, rx_dl)
<1>1. FrameGoes /\ UNCHANGED sent
    BY DEF FrameGoes, ReceiverTakesFrame
<1>2. c > 0 /\ f.msg = message /\ FrameOf(f, sent) /\ to_sender = << >>
    BY <1>1, GoingFrame
<1>3. /\ R!Receiving /\ n <= f.len - 1
      /\ receive_offset' = receive_offset + n
      /\ UNCHANGED <<receive_size, receive_streaming, message>>
      /\ \/ RP!ChunkReady /\ RP!Notify("FULL")
         \/ ~RP!ChunkReady /\ RP!CountBlock(TRUE) /\ RP!Notify("INPROGRESS")
    BY SameHandling DEF RP!Taken, RP!messageVars
<1>4. /\ RP!TypeOK /\ RP!Kept /\ RP!WithinBounds /\ ~rx_done_cb
      /\ receive_offset \in Nat /\ receive_size \in Nat
      /\ invited \in 1 .. 255 /\ invited = receive_bs_count
      /\ receive_size = Payloads[message] /\ rx_dl = Dl
      /\ Pending(c) <= invited /\ Pending(c) \in Nat /\ Dl \in 8 .. 64
    BY <1>3, SoundFacts
<1>5. /\ f.at \in Nat /\ f.n \in Nat /\ f.n > 0 /\ f.msg \in Nat
      /\ f.n = CfWanted(receive_size - f.at, Dl) /\ f.at + f.n <= receive_size
      /\ R!FrameType(f)
    BY <1>2, <1>4 DEF FrameOf, R!FrameType
<1>6. More(c) /\ NextAt(c) = f.at
    BY <1>2 DEF More, NextAt
<1>7. n = CfWanted(receive_size - receive_offset, Dl)
    BY <1>4, SameReceiveLengths, ReceiverCodec
<1>8. CASE f.at = receive_offset /\ RP!Content
    <2>1. n = f.n
        BY <1>5, <1>7, <1>8
    <2>2. RP!Carries(RP!FrameData(f, n), message, receive_offset)
        BY <1>2, <1>5, <1>8, <2>1, ReceiveConstants, RP!FrameDataCarries
    <2>3. RP!FrameType(f)
        BY <1>5 DEF RP!FrameType, R!FrameType
    <2>4. RP!Content'
        BY <1>4, <1>8, <2>2, <2>3, ReceiveConstants, RP!TakenContent
    <2>5. More(c - 1)' => NextAt(c - 1)' = receive_offset'
        BY <1>1, <1>3, <1>8, <2>1, MoreFrames, Zenon
    <2> QED BY <2>4, <2>5 DEF Sound
<1>9. CASE Pending(c) < invited /\ receive_offset + (Dl - 1) <= f.at
    <2>1. Pending(c) >= 1
        BY <1>2, AgreedCounts
    <2>2. invited > 1 /\ ~receive_streaming
        <3>1. receive_streaming => invited = 1
            BY <1>3, AgreedCounts
        <3> QED BY <1>4, <1>9, <2>1, <3>1
    <2>3. receive_offset' \in Nat /\ receive_offset' <= receive_offset + (Dl - 1)
          /\ receive_offset' < receive_size
        <3>1. receive_offset < receive_size
            BY <1>4, <1>5, <1>9
        <3>2. PICK left \in Nat \ {0} : left = receive_size - receive_offset
            BY <1>4, <3>1
        <3>3. n <= Dl - 1 /\ n \in Nat
            <4>1. CfWanted(left, Dl) <= Dl - 1
                BY <3>2, WholeFrame
            <4>2. CfWanted(left, Dl) \in Nat
                BY <1>4, <3>2 DEF CfWanted, CfDataLength, CAN_DL_CLASSIC
            <4> QED BY <1>7, <3>2, <4>1, <4>2
        <3> QED BY <1>3, <1>4, <1>5, <1>9, <3>3
    <2>4. ~RP!ChunkReady /\ RP!CountBlock(TRUE) /\ receive_status' = "INPROGRESS"
        <3>1. ~RP!ChunkReady
            BY <1>3, <1>4, <2>2, <2>3 DEF RP!ChunkReady
        <3> QED BY <1>3, <1>4, <3>1, NotifyKeepsQuiet
    <2>5. invited' = invited - 1 /\ fc_tx' = NoFrame
        <3>1. \A k \in 2 .. 255 : (k - 1) % 256 # 0
            OBVIOUS
        <3>2. invited \in 2 .. 255
            BY <1>4, <2>2
        <3>3. (receive_bs_count - 1) % 256 # 0
            BY <1>4, <3>1, <3>2
        <3>4. RP!NoFlowControl /\ RP!Used
            BY <2>4, <3>3 DEF RP!CountBlock
        <3>5. invited # RP!INVALID_BS
            BY <3>2 DEF RP!INVALID_BS
        <3> QED BY <3>4, <3>5, SameReceiveFrames, ReceiverCodec DEF RP!NoFlowControl, RP!Used
    <2>6. UNCHANGED to_sender
        BY <2>5 DEF ReceiverTakesFrame, FlowControlSent
    <2>7. Pending(c - 1)' = Pending(c) - 1
        BY <1>1, <1>3, <2>6, PendingLess
    <2>8. Pending(c - 1)' < invited'
        BY <1>4, <1>9, <2>5, <2>7
    <2>9. More(c - 1)' => receive_offset' + (Dl - 1) <= NextAt(c - 1)'
        <3>1. ASSUME More(c - 1)' PROVE receive_offset' + (Dl - 1) <= NextAt(c - 1)'
            <4>1. NextAt(c - 1)' = f.at + (Dl - 1)
                BY <1>1, <1>3, <3>1, MoreFrames
            <4> QED BY <1>4, <1>5, <1>9, <2>3, <4>1
        <3> QED BY <3>1
    <2> QED BY <2>4, <2>8, <2>9 DEF Sound
<1> QED BY <1>3, <1>6, <1>8, <1>9 DEF Sound

LEMMA ConsecutiveFrameSound ==
    ASSUME NEW c, Agreed(c), Sound(c), ReceiverTakesFrame,
           R!ReceiveConsecutiveFrame(to_receiver[1].frame, TRUE)
    PROVE  \E d \in Nat : Turns' /\ Joint(d)' /\ Sound(d)'
<1> DEFINE f == to_receiver[1].frame
<1>1. FrameGoes /\ UNCHANGED sent
    BY DEF FrameGoes, ReceiverTakesFrame
<1>2. /\ RP!IInv /\ RP!TypeOK /\ RP!WithinBounds /\ ~rx_done_cb
    BY SoundFacts
<1>3. c > 0 /\ FrameOf(f, sent) /\ f.type = "CF" /\ c \in Nat /\ to_sender = << >>
    <2>1. f.type = "CF"
        BY DEF R!ReceiveConsecutiveFrame
    <2> QED BY <1>1, <2>1, GoingFrame, AgreedBus
<1>4. R!FrameType(f) /\ RP!FrameType(f)
    BY <1>3 DEF FrameOf, R!FrameType, RP!FrameType
<1>5. Turns' /\ Joint(c - 1)'
    <2>1. Takes(f) \/ Refuses(f)
        BY <1>2, <1>4, TakesConsecutiveFrame
    <2> QED BY <1>3, <2>1, FrameTakenAgrees, FrameRefusedAgrees
<1>6. RP!Taken(f, TRUE) \/ (RP!Resting /\ fc_tx' = NoFrame)
    <2>1. RP!ReceiveConsecutiveFrame(f, TRUE)
        BY SameConsecutiveFrame
    <2>2. RP!Taken(f, TRUE) \/ RP!NotTaken
        BY <1>2, <1>4, <2>1, ReceiveConstants, RP!ConsecutiveFrameEffect
    <2>3. CASE RP!NotTaken
        <3>1. RP!Resting
            BY <2>3, ReceiveConstants, RP!NotTakenRests
        <3>2. fc_tx' = NoFrame
            BY <2>3, SameReceiveFrames, ReceiverCodec DEF RP!NotTaken, RP!NoFlowControl
        <3> QED BY <3>1, <3>2
    <2> QED BY <2>2, <2>3
<1>7. Sound(c - 1)'
    <2>1. CASE RP!Taken(f, TRUE)
        BY <1>3, <2>1, TakenSound
    <2>2. CASE RP!Resting /\ fc_tx' = NoFrame
        <3>1. UNCHANGED to_sender
            BY <2>2 DEF ReceiverTakesFrame, FlowControlSent
        <3> QED BY <1>1, <1>3, <2>2, <3>1, MissedSound
    <2> QED BY <1>6, <2>1, <2>2
<1> QED BY <1>3, <1>5, <1>7

-----------------------------------------------------------------------------
(* A Single or First Frame: its message begins.                             *)

LEMMA FrameQuiet ==
    ASSUME ~rx_done_cb, ReceiverTakesFrame
    PROVE  out' = R!NoData /\ UNCHANGED <<handed, sent, rx_done_cb>>
<1>1. PICK f : R!OnCanMessage(f, TRUE)
    BY DEF ReceiverTakesFrame
<1>2. /\ \E status : R!Notify(status)
      /\ rx_done_cb' = rx_done_cb
    BY <1>1 DEF R!OnCanMessage, R!ReceiveSingleFrame, R!ReceiveFirstFrame,
                R!ReceiveConsecutiveFrame, R!paramVars
<1>3. out' = R!NoData
    BY <1>2 DEF R!Notify
<1> QED BY <1>2, <1>3 DEF ReceiverTakesFrame, Handed

LEMMA OpeningFrame ==
    ASSUME NEW c, Agreed(c), ReceiverTakesFrame, to_receiver[1].frame.type # "CF"
    PROVE  /\ c = 0 /\ ~Current /\ SenderStays
           /\ R!FrameType(to_receiver[1].frame) /\ RP!FrameType(to_receiver[1].frame)
           /\ FrameOf(to_receiver[1].frame, sent)
           /\ to_receiver[1].frame.msg \in 1 .. sent /\ message < to_receiver[1].frame.msg
           /\ out' = R!NoData /\ UNCHANGED <<handed, sent>>
<1> DEFINE f == to_receiver[1].frame
<1>1. /\ c = 0 /\ ~Current /\ SenderStays /\ FrameOf(f, sent) /\ message < f.msg
    BY GoingFrame DEF FrameGoes
<1>2. R!FrameType(f) /\ RP!FrameType(f) /\ f.msg \in 1 .. sent
    BY <1>1 DEF FrameOf, R!FrameType, RP!FrameType
<1>3. ~rx_done_cb
    BY SoundFacts
<1> QED BY <1>1, <1>2, <1>3, FrameQuiet

(* Nothing handed over before belongs to it.                                *)
LEMMA HandingBegins ==
    ASSUME Handing, UNCHANGED <<handed, sent>>, message' \in 1 .. sent, message < message',
           sent \in Nat, message \in 0 .. sent,
           receive_size' = Payloads[message'], receive_size' > 0, consumed' = 0,
           receive_status' = "FULL" /\ receive_streaming' => receive_stream_size' > 0
    PROVE  Handing'
<1>1. handed.msg \in 0 .. message
    BY DEF Handing
<1>2. handed.msg \in 0 .. message' /\ handed.msg # message'
    BY <1>1
<1> QED BY <1>2 DEF Handing

LEMMA SingleFrameSound ==
    ASSUME NEW c, Agreed(c), Sound(c), Handing, ReceiverTakesFrame,
           R!ReceiveSingleFrame(to_receiver[1].frame)
    PROVE  Sound(0)' /\ Handing'
<1> DEFINE f == to_receiver[1].frame
           n == RP!SfPayloadLength(f)
<1>1. f.type = "SF"
    BY DEF R!ReceiveSingleFrame
<1>2. /\ c = 0 /\ ~Current /\ SenderStays /\ FrameOf(f, sent) /\ RP!FrameType(f)
      /\ f.msg \in 1 .. sent /\ message < f.msg /\ UNCHANGED <<handed, sent>>
    BY <1>1, OpeningFrame
<1>3. /\ RP!TypeOK /\ ~rx_done_cb /\ sent \in Nat /\ message \in 0 .. sent
    BY SoundFacts
<1>4. RP!ReceiveSingleFrame(f)
    BY SameSingleFrame
<1>5. CASE /\ RP!SfAccepted(f) /\ n <= receive_buf_size
           /\ receive_buffer' = RP!Overwrite(receive_buffer, 0, RP!FrameData(f, n))
           /\ receive_size' = n /\ receive_offset' = n
           /\ receive_streaming' = FALSE
           /\ message' = f.msg /\ consumed' = 0
           /\ RP!Notify("FULL")
    <2>1. receive_status' = "FULL"
        BY <1>3, <1>5, NotifyKeepsQuiet
    <2>2. n \in Nat \ {0}
        BY <1>1, <1>2, <1>5, ReceiveConstants, RP!SingleFrameData
    <2>3. n = Payloads[f.msg] /\ f.at = 0 /\ n <= f.n
        <3>1. n = Payloads[f.msg] /\ f.at = 0 /\ f.n = n
            BY <1>1, <1>2, SameReceiveLengths, ReceiverCodec DEF FrameOf
        <3> QED BY <2>2, <3>1
    <2>4. RP!Content'
        BY <1>1, <1>2, <1>3, <1>5, <2>3, ReceiveConstants, RP!SingleFrameContent
    <2>5. Sound(0)'
        BY <2>1, <2>4 DEF Sound, R!Receiving
    <2>6. receive_size' > 0
        BY <1>5, <2>2
    <2>7. Handing'
        BY <1>2, <1>3, <1>5, <2>3, <2>6, HandingBegins
    <2> QED BY <2>5, <2>7
<1>6. CASE /\ UNCHANGED <<RP!bufferVars, RP!streamVars, RP!messageVars>>
           /\ RP!Notify(receive_status)
    <2>1. RP!Resting
        <3>1. receive_status' = receive_status
            BY <1>3, <1>6, NotifyKeepsQuiet
        <3> QED BY <1>4, <1>6, <3>1
            DEF RP!Resting, RP!ReceiveSingleFrame, RP!paramVars
    <2>2. ~Current'
        <3>1. message' = message
            BY <1>6 DEF RP!messageVars
        <3> QED BY <1>2, <3>1, Staying
    <2>3. Pending(0)' \in Nat
        BY <2>2, Counting
    <2>4. ~More(0)' /\ 0 \in Nat
        BY <2>2 DEF More
    <2>5. Sound(0)'
        BY <2>1, <2>3, <2>4, SoundKept
    <2>6. Handing'
        BY <1>2, <1>3, <2>1, HandingKept
    <2> QED BY <2>5, <2>6
<1> QED BY <1>4, <1>5, <1>6 DEF RP!ReceiveSingleFrame

LEMMA FirstFrameSound ==
    ASSUME NEW c, Agreed(c), Sound(c), Handing, ReceiverTakesFrame,
           R!ReceiveFirstFrame(to_receiver[1].frame, TRUE)
    PROVE  Sound(0)' /\ Handing'
<1> DEFINE f == to_receiver[1].frame
<1>1. f.type = "FF"
    BY DEF R!ReceiveFirstFrame
<1>2. /\ SenderStays /\ FrameOf(f, sent) /\ RP!FrameType(f)
      /\ f.msg \in 1 .. sent /\ message < f.msg /\ UNCHANGED <<handed, sent>>
    BY <1>1, OpeningFrame
<1>3. /\ RP!TypeOK /\ ~rx_done_cb /\ receive_buf_size # 0 /\ receive_buf_size \in Nat
      /\ sent \in Nat /\ message \in 0 .. sent
    <2>1. /\ RP!TypeOK /\ ~rx_done_cb /\ receive_buf_size # 0
          /\ sent \in Nat /\ message \in 0 .. sent
        BY SoundFacts
    <2> QED BY <2>1 DEF RP!TypeOK, RP!BufferType
<1>4. send_offset = f.n
    BY <1>1, GoingFrame DEF FrameGoes
<1>5. /\ FfAccepted(f) /\ FfReadLength(f) = f.n /\ f.at = 0 /\ FfPayloadLength(f) = Payloads[f.msg]
      /\ f.n \in Nat
    BY <1>1, <1>2 DEF FrameOf, R!FrameType
<1>6. RP!FfAccepted(f) /\ ~RP!FfOverflows(f) /\ RP!ReceiveFirstFrame(f, TRUE)
    BY <1>3, <1>5, SameFirstFrame, SameReceiveFrames, ReceiverCodec DEF RP!FfOverflows
<1>7. /\ RP!Plausible(f) /\ RP!StoreFirstFrame(f) /\ message' = f.msg /\ consumed' = 0
      /\ IF receive_streaming' /\ receive_stream_size' >= receive_buf_size
         THEN RP!Notify("FULL") ELSE RP!Notify("INPROGRESS")
    BY <1>6 DEF RP!ReceiveFirstFrame
<1>8. RP!FfReadLength(f) = f.n /\ RP!FfPayloadLength(f) = Payloads[f.msg]
    BY <1>5, SameReceiveLengths, ReceiverCodec
<1>9. RP!Content'
    <2>1. RP!FfReadLength(f) <= f.n
        BY <1>5, <1>8
    <2> QED BY <1>1, <1>2, <1>3, <1>5, <1>6, <1>7, <2>1, ReceiveConstants, RP!FirstFrameContent
<1>10. /\ receive_offset' < receive_size' /\ receive_size' \in Nat /\ receive_offset' \in Nat
       /\ receive_stream_size' \in Nat
    <2>1. /\ receive_offset' < receive_size' /\ receive_size' \in Nat
          /\ receive_stream_size' \in Nat
        BY <1>1, <1>2, <1>3, <1>6, <1>7, ReceiveConstants, RP!StoreFirstFrameEffect
    <2>2. receive_offset' = f.n
        BY <1>7, <1>8 DEF RP!StoreFirstFrame
    <2> QED BY <1>5, <2>1, <2>2
<1>11. receive_offset' = f.n /\ receive_size' = Payloads[f.msg] /\ receive_size' > 0
    BY <1>7, <1>8, <1>10 DEF RP!StoreFirstFrame
<1>12. send_offset' = send_offset
    BY <1>2 DEF SenderStays
<1>13. Sound(0)'
    BY <1>4, <1>9, <1>11, <1>12 DEF Sound, NextAt
<1>14. receive_status' = "FULL" /\ receive_streaming' => receive_stream_size' > 0
    <2>1. receive_status' = "FULL" =>
            receive_streaming' /\ receive_stream_size' >= receive_buf_size
        BY <1>3, <1>7, NotifyKeepsQuiet
    <2> QED BY <1>3, <1>10, <2>1
<1>15. Handing'
    BY <1>2, <1>3, <1>7, <1>11, <1>14, HandingBegins
<1> QED BY <1>13, <1>15

(* A Consecutive Frame goes on with the message the receiver is taking.     *)
LEMMA ConsecutiveFrameHanding ==
    ASSUME NEW c, Agreed(c), Handing, ReceiverTakesFrame,
           R!ReceiveConsecutiveFrame(to_receiver[1].frame, TRUE)
    PROVE  Handing'
<1> DEFINE f == to_receiver[1].frame
<1>1. /\ RP!TypeOK /\ RP!Kept /\ RP!WithinBounds /\ ~rx_done_cb /\ receive_buf_size # 0
      /\ sent \in Nat /\ message \in 0 .. sent
    BY SoundFacts
<1>2. UNCHANGED <<handed, sent>>
    BY <1>1, FrameQuiet
<1>3. RP!FrameType(f)
    <2>1. FrameOf(f, sent)
        BY GoingFrame DEF FrameGoes
    <2> QED BY <2>1 DEF FrameOf, R!FrameType, RP!FrameType
<1>4. RP!Taken(f, TRUE) \/ RP!NotTaken
    <2>1. RP!ReceiveConsecutiveFrame(f, TRUE)
        BY SameConsecutiveFrame
    <2> QED BY <1>1, <1>3, <2>1, ReceiveConstants, RP!ConsecutiveFrameEffect
<1>5. CASE RP!Taken(f, TRUE)
    <2>1. /\ receive_status # "IDLE"
          /\ UNCHANGED <<receive_size, receive_streaming, message, consumed>>
        BY <1>5, SameHandling DEF RP!Taken, RP!messageVars, R!Receiving
    <2>2. receive_streaming => receive_stream_size' > 0
        BY <1>1, <1>3, <1>5, ReceiveConstants, RP!ChunkArrived
    <2> QED BY <1>2, <2>1, <2>2 DEF Handing
<1>6. CASE RP!NotTaken
    <2>1. RP!Resting
        BY <1>6, ReceiveConstants, RP!NotTakenRests
    <2> QED BY <1>1, <1>2, <2>1, HandingKept
<1> QED BY <1>4, <1>5, <1>6

LEMMA FrameReceivedSound ==
    ASSUME NEW c, Agreed(c), Sound(c), Handing, ReceiverTakesFrame
    PROVE  /\ Handing' /\ \E d \in Nat : Turns' /\ Joint(d)' /\ Sound(d)'
           /\ UNCHANGED <<sent, send_status, handed>>
<1> DEFINE f == to_receiver[1].frame
<1>1. R!OnCanMessage(f, TRUE) /\ SenderStays
    <2>1. Head(to_receiver).frame = f /\ SenderStays
        BY GoingFrame DEF FrameGoes
    <2> QED BY <2>1 DEF ReceiverTakesFrame
<1>2. UNCHANGED <<sent, send_status, handed>>
    <2>1. ~rx_done_cb
        BY SoundFacts
    <2> QED BY <1>1, <2>1, FrameQuiet DEF SenderStays
<1>3. CASE R!ReceiveSingleFrame(f)
    <2>1. Turns' /\ Joint(0)' /\ Sound(0)' /\ Handing' /\ 0 \in Nat
        BY <1>3, SingleFrameAgrees, SingleFrameSound
    <2> QED BY <1>2, <2>1, Zenon
<1>4. CASE R!ReceiveFirstFrame(f, TRUE)
    <2>1. Turns' /\ Joint(0)' /\ Sound(0)' /\ Handing'
        BY <1>4, FirstFrameAgrees, FirstFrameSound
    <2> QED BY <1>2, <2>1
<1>5. CASE R!ReceiveConsecutiveFrame(f, TRUE)
    BY <1>2, <1>5, ConsecutiveFrameSound, ConsecutiveFrameHanding
<1> QED BY <1>1, <1>3, <1>4, <1>5 DEF R!OnCanMessage

-----------------------------------------------------------------------------
(* The application takes data.                                              *)

(* What the bytes of a piece say of it.                                     *)
LEMMA PieceRead ==
    ASSUME Numbered, NEW m \in 1 .. Len(Payloads), NEW from \in Nat, NEW bytes,
           Len(bytes) \in Nat, Len(bytes) > 0, from + Len(bytes) <= Payloads[m],
           \A i \in 1 .. Len(bytes) : bytes[i] = R!Byte(m, from + i)
    PROVE  Piece(bytes) = [msg |-> m, from |-> from, to |-> from + Len(bytes),
                           complete |-> out'.complete]
<1>1. Payloads[m] \in Nat /\ Payloads[m] < 10000 /\ m \in Nat
    BY NetworkConstants DEF Numbered
<1>2. bytes[1] = R!Byte(m, from + 1)
    OBVIOUS
<1>3. /\ R!Byte(m, from + 1) \div R!Byte(1, 0) = m
      /\ R!Byte(m, from + 1) - R!Byte(m, 1) = from
    <2>1. PICK i \in 0 .. 9999 : i = from + 1
        BY <1>1
    <2>2. R!Byte(m, i) \div R!Byte(1, 0) = m
        BY <1>1, SMTT(60) DEF R!Byte
    <2> QED BY <1>1, <2>1, <2>2 DEF R!Byte
<1> QED BY <1>2, <1>3, Zenon DEF Piece

LEMMA DataTakenSound ==
    ASSUME NEW c, Agreed(c), Sound(c), ReceiverTakesData
    PROVE  Sound(c)'
<1>1. /\ RP!IInv /\ RP!TypeOK /\ RP!Kept
    BY SoundFacts
<1>2. receive_status = "FULL"
    BY <1>1, TakesData DEF ReceiverTakesData
<1>3. RP!Content
    BY <1>2 DEF Sound
<1>4. /\ RP!ChunkTaken(TRUE) \/ receive_status' = "IDLE"
      /\ message' = message
    <2>1. RP!Receive(receive_buf_size) \/ RP!ReceiveStreaming(receive_buf_size, TRUE)
        BY SameTakeData DEF ReceiverTakesData
    <2> QED BY <1>1, <1>3, <2>1, ReceiveConstants, RP!PieceTaken
<1>5. CASE receive_status' = "IDLE"
    BY <1>5 DEF Sound, R!Receiving
<1>6. CASE RP!ChunkTaken(TRUE)
    <2>1. RP!Content'
        BY <1>1, <1>3, <1>6, ReceiveConstants, RP!ChunkTakenContent
    <2>2. More(c)' => NextAt(c)' = receive_offset'
        <3>1. Holding /\ Live
            BY <1>2, <1>6 DEF RP!ChunkTaken, Holding, Live
        <3>2. /\ invited = 0 /\ Pending(c) \in Nat /\ (c > 0 => Pending(c) >= 1)
            BY <3>1, AgreedCounts
        <3>3. Pending(c) <= 0 /\ (Pending(c) = 0 => InStep(c))
            BY <3>1, <3>2 DEF Agreed, Joint, Accounts
        <3>4. c \in Nat /\ ~(c > 0) /\ InStep(c)
            BY <3>2, <3>3, AgreedBus
        <3>5. SenderStays /\ receive_offset' = receive_offset
            BY <1>6, Staying DEF ReceiverTakesData, RP!ChunkTaken
        <3>6. ASSUME More(c)' PROVE NextAt(c)' = receive_offset'
            <4>1. Current' /\ c = 0
                BY <3>4, <3>6 DEF More
            <4>2. Current
                BY <1>4, <3>5, <4>1, Staying
            <4>3. receive_offset = send_offset
                BY <3>4, <4>1, <4>2 DEF InStep
            <4>4. NextAt(c)' = send_offset' /\ send_offset' = send_offset
                BY <3>4, <3>5 DEF NextAt, SenderStays
            <4> QED BY <3>5, <4>3, <4>4
        <3> QED BY <3>6
    <2> QED BY <2>1, <2>2 DEF Sound
<1> QED BY <1>4, <1>5, <1>6

(* The piece goes on where the last one ended, or begins its message.       *)
LEMMA DataTakenHanded ==
    ASSUME Numbered, NEW c, Agreed(c), Sound(c), Handing, ReceiverTakesData
    PROVE  /\ Handing'
           /\ \E m \in 1 .. sent : \E to \in 1 .. Payloads[m] : Transfer!HandOver(m, to)
<1> DEFINE n == Len(out'.bytes)
           from == out'.from
<1>1. /\ RP!IInv /\ RP!TypeOK /\ RP!Kept /\ receive_buf_size # 0
      /\ sent \in Nat /\ message \in 0 .. sent /\ consumed \in Nat
      /\ receive_size \in Nat /\ receive_stream_size \in Nat
    BY SoundFacts
<1>2. receive_status = "FULL" /\ RP!Content
    BY <1>1, TakesData DEF ReceiverTakesData, Sound
<1>3. /\ RP!Exact
      /\ from = IF receive_streaming THEN consumed ELSE 0
      /\ n = IF receive_streaming THEN receive_stream_size ELSE receive_size
      /\ from + n <= receive_size
      /\ message' = message /\ receive_size' = receive_size
      /\ RP!ChunkTaken(TRUE) \/ receive_status' = "IDLE"
    <2>1. RP!Receive(receive_buf_size) \/ RP!ReceiveStreaming(receive_buf_size, TRUE)
        BY SameTakeData DEF ReceiverTakesData
    <2> QED BY <1>1, <1>2, <2>1, ReceiveConstants, RP!PieceTaken
<1>4. /\ message \in 1 .. sent /\ receive_size = Payloads[message] /\ receive_size > 0
      /\ receive_streaming => receive_stream_size > 0
      /\ IF handed.msg = message THEN receive_streaming /\ handed.to = consumed
         ELSE receive_streaming => consumed = 0
      /\ handed.msg \in 0 .. message
    BY <1>2 DEF Handing
<1>5. n \in Nat /\ n > 0 /\ from \in Nat
    BY <1>1, <1>3, <1>4
<1>6. out' # R!NoData
    BY <1>5 DEF R!NoData
<1>7. /\ \A i \in 1 .. n : out'.bytes[i] = R!Byte(message, from + i)
      /\ out'.complete <=> from + n = receive_size
    <2>1. out' # RP!NoData
        BY <1>6, SameReceiveFrames
    <2>2. /\ \A i \in 1 .. n : out'.bytes[i] = RP!Byte(message', from + i)
          /\ out'.complete <=> from + n = receive_size'
        BY <1>3, <2>1 DEF RP!Exact
    <2> QED BY <1>3, <2>2, SameBytes
<1>8. message \in 1 .. Len(Payloads)
    <2>1. sent \in 0 .. Len(Payloads) /\ Len(Payloads) \in Nat
        BY NetworkConstants DEF Agreed, BaseInv, NetworkInv, SenderInv
    <2> QED BY <1>4, <2>1
<1>9. handed' = [msg |-> message, from |-> from, to |-> from + n, complete |-> out'.complete]
    <2>1. handed' = Piece(out'.bytes)
        BY <1>6 DEF ReceiverTakesData, Handed
    <2> QED BY <1>3, <1>4, <1>5, <1>7, <1>8, <2>1, PieceRead
<1>10. UNCHANGED <<sent, send_status>>
    BY Staying DEF ReceiverTakesData, SenderStays
<1>11. Transfer!HandOver(message, from + n)
    <2>1. from = IF message = handed.msg THEN handed.to ELSE 0
        BY <1>3, <1>4
    <2>2. handed.msg <= message /\ from < from + n
        BY <1>1, <1>4, <1>5
    <2>3. out'.complete = (from + n = Payloads[message])
        <3>1. out'.complete \in BOOLEAN
            <4>1. CASE R!Receive(receive_buf_size)
                BY <4>1 DEF R!Receive
            <4>2. CASE R!ReceiveStreaming(receive_buf_size, TRUE)
                <5>1. R!LastChunk \in BOOLEAN
                    BY DEF R!LastChunk
                <5>2. out'.complete = R!LastChunk
                    BY <4>2 DEF R!ReceiveStreaming
                <5> QED BY <5>1, <5>2
            <4> QED BY <4>1, <4>2 DEF ReceiverTakesData
        <3>2. out'.complete <=> from + n = Payloads[message]
            BY <1>4, <1>7
        <3> HIDE DEF n, from
        <3> QED BY <3>1, <3>2
    <2>4. S!InProgress' = S!InProgress
        BY <1>10 DEF S!InProgress
    <2> QED BY <1>9, <1>10, <2>1, <2>2, <2>3, <2>4 DEF Transfer!HandOver
<1>12. from + n \in 1 .. Payloads[message]
    BY <1>1, <1>3, <1>4, <1>5
<1>13. Handing'
    <2>1. handed'.msg = message /\ handed'.to = from + n
        BY <1>9
    <2>2. CASE receive_status' = "IDLE"
        BY <1>1, <1>3, <1>4, <2>1, <2>2 DEF Handing
    <2>3. CASE RP!ChunkTaken(TRUE)
        <3>1. receive_streaming /\ receive_streaming'
              /\ consumed' = consumed + receive_stream_size
            BY <2>3 DEF RP!ChunkTaken
        <3>2. receive_status' = "FULL" => receive_stream_size' > 0
            BY <1>1, <2>3, ReceiveConstants, RP!ChunkLeft
        <3>3. handed'.to = consumed'
            BY <1>3, <2>1, <3>1
        <3> QED BY <1>1, <1>3, <1>4, <1>10, <2>1, <3>1, <3>2, <3>3 DEF Handing
    <2> QED BY <1>3, <2>2, <2>3
<1> QED BY <1>4, <1>11, <1>12, <1>13

-----------------------------------------------------------------------------
(* The steps the receiver rests in                                          *)

LEMMA PayloadSound ==
    ASSUME NEW c, Agreed(c), Sound(c), SendPayload
    PROVE  Sound(c)'
<1>1. /\ ~S!InProgress
      /\ \E f : to_receiver' = Append(to_receiver, OnBus(f))
      /\ sent' = sent + 1
    BY PayloadOnBus DEF SendPayload
<1>2. /\ Frames(to_receiver, sent) /\ sent \in Nat /\ message \in 0 .. sent
      /\ c \in 0 .. Len(to_receiver) /\ Len(to_receiver) \in Nat /\ c \in Nat
    BY AgreedBus
<1>3. RP!Resting
    BY RestingReceiver DEF SendPayload
<1>4. ~Current /\ ~Current'
    <2>1. message' = message
        BY <1>3, RestingKeeps
    <2> QED BY <1>1, <1>2, <2>1 DEF Current
<1>5. Pending(c)' = c + 0 /\ Pending(c) = c + 0
    BY <1>4, Counting
<1>6. More(c)' => More(c) /\ NextAt(c)' = NextAt(c)
    <2>1. ASSUME More(c)' PROVE c > 0 /\ to_receiver'[1] = to_receiver[1]
        <3>1. c > 0
            BY <1>4, <2>1 DEF More
        <3>2. 1 \in 1 .. Len(to_receiver)
            BY <1>2, <3>1
        <3>3. to_receiver'[1] = to_receiver[1]
            BY <1>1, <1>2, <3>2, ChannelSends DEF Frames
        <3> QED BY <3>1, <3>3
    <2> QED BY <2>1 DEF More, NextAt
<1> QED BY <1>2, <1>3, <1>5, <1>6, SoundKept

LEMMA FrameSentSound ==
    ASSUME NEW c, Agreed(c), Sound(c), SenderPolls, S!PollAccepted(0)
    PROVE  Sound(c + 1)'
<1>1. /\ Current /\ c \in Nat
      /\ c > 0 => to_receiver'[1] = to_receiver[1]
      /\ c = 0 => to_receiver'[1].frame.at = send_offset
      /\ Pending(c + 1)' <= Pending(c)
    BY FrameSentAgrees
<1>2. RP!Resting
    BY RestingReceiver DEF SenderPolls
<1>3. Pending(c + 1)' \in Nat
    <2>1. Prompt /\ BaseInv /\ Next /\ c + 1 \in Nat
        BY <1>1 DEF Agreed, Next
    <2> QED BY <2>1, NextPending
<1>4. More(c) /\ NextAt(c + 1)' = NextAt(c) /\ c + 1 \in Nat
    BY <1>1 DEF More, NextAt
<1> QED BY <1>1, <1>2, <1>3, <1>4, SoundKept

(* The bus holds the same Consecutive Frames, and the sender goes on from   *)
(* where it was or not at all.                                              *)
LEMMA SteadySound ==
    ASSUME NEW c, Agreed(c), Sound(c), Next, RP!Resting,
           c > 0 => to_receiver'[1].frame = to_receiver[1].frame,
           Current' => Current /\ send_offset' = send_offset,
           Pending(c)' <= Pending(c)
    PROVE  Sound(c)'
<1>1. c \in Nat
    BY AgreedBus
<1>2. Pending(c)' \in Nat
    BY <1>1, NextPending DEF Agreed
<1>3. More(c)' => More(c) /\ NextAt(c)' = NextAt(c)
    BY <1>1 DEF More, NextAt
<1> QED BY <1>1, <1>2, <1>3, SoundKept

LEMMA NothingSentSound ==
    ASSUME NEW c, Agreed(c), Sound(c), SenderPolls \/ DriverFails,
           S!PollNoSpace(0) \/ S!PollFailed(0) \/ S!PollWaiting(0)
    PROVE  Sound(c)' /\ (S!InProgress' => S!InProgress)
<1>1. /\ S!InProgress /\ can_tx' = NoFrame
      /\ UNCHANGED <<send_offset, send_bs_remain>>
    BY SendsNothing DEF Agreed, BaseInv, NetworkInv, SenderInv
<1>2. UNCHANGED <<to_receiver, to_sender, sent>> /\ ReceiverRests /\ Next
    BY <1>1 DEF SenderPolls, DriverFails, DataSent, bus, Next
<1>3. RP!Resting /\ message' = message
    BY <1>2, RestingReceiver, RestingKeeps
<1>4. Current' => Current /\ send_offset' = send_offset
    BY <1>1, <1>2, <1>3 DEF Current
<1>5. Pending(c)' <= Pending(c)
    <2>1. c \in Nat /\ send_bs_remain \in Nat /\ Coming \in Nat
        <3>1. c \in Nat /\ send_bs_remain \in 0 .. 255 /\ Coming \in 0 .. 255
            BY AgreedBus, AgreedCounts
        <3> QED BY <3>1
    <2>2. Coming' = Coming
        BY <1>2, Counting
    <2>3. CASE Current'
        <3>1. Pending(c)' = c + (send_bs_remain' + Coming')
            BY <2>3, Counting
        <3>2. Pending(c) = c + (send_bs_remain + Coming)
            BY <1>4, <2>3, Counting
        <3> QED BY <1>1, <2>1, <2>2, <3>1, <3>2
    <2>4. CASE ~Current'
        <3>1. Pending(c)' = c + 0
            BY <2>4, Counting
        <3>2. Pending(c) = c + 0 \/ Pending(c) = c + (send_bs_remain + Coming)
            BY Counting
        <3> QED BY <2>1, <3>1, <3>2
    <2> QED BY <2>3, <2>4
<1>6. Sound(c)'
    BY <1>2, <1>3, <1>4, <1>5, SteadySound
<1> QED BY <1>1, <1>6

LEMMA InvitationTakenSound ==
    ASSUME NEW c, Agreed(c), Sound(c), SenderTakesFrame
    PROVE  Sound(c)'
<1>1. /\ c = 0 /\ Current /\ UNCHANGED <<send_offset, to_receiver>>
      /\ Pending(c)' = Pending(c)
    BY InvitationTakenAgrees
<1>2. RP!Resting /\ Next
    BY RestingReceiver DEF SenderTakesFrame, Next
<1>3. Pending(c)' <= Pending(c)
    <2>1. Pending(c) \in Nat
        BY AgreedCounts
    <2> QED BY <1>1, <2>1
<1> QED BY <1>1, <1>2, <1>3, SteadySound

LEMMA InvitationLostSound ==
    ASSUME NEW c, Agreed(c), Sound(c), FlowControlLost
    PROVE  Sound(c)'
<1>1. /\ SenderStays /\ ReceiverStays /\ UNCHANGED <<to_receiver, sent>> /\ RP!Resting /\ Next
    BY Staying, RestingReceiver DEF FlowControlLost, Next
<1>2. (Current' <=> Current) /\ UNCHANGED <<send_offset, send_bs_remain>>
    BY <1>1, Staying DEF SenderStays, ReceiverStays
<1>3. Pending(c)' <= Pending(c)
    <2>1. c \in Nat /\ send_bs_remain \in Nat /\ Coming \in Nat
        <3>1. c \in Nat /\ send_bs_remain \in 0 .. 255 /\ Coming \in 0 .. 255
            BY AgreedBus, AgreedCounts
        <3> QED BY <3>1
    <2>2. Coming' = 0
        <3>1. to_sender # << >> /\ to_sender' = Tail(to_sender) /\ Turns
            BY DEF FlowControlLost, Agreed
        <3>2. Len(to_sender) = 1 /\ Channel(to_sender)
            BY <3>1 DEF Turns, Agreed, BaseInv, NetworkInv, BusInv
        <3>3. to_sender' = << >>
            BY <3>1, <3>2 DEF Channel
        <3> QED BY <3>3, Counting
    <2>3. CASE Current
        <3>1. /\ Pending(c)' = c + (send_bs_remain' + 0)
              /\ Pending(c) = c + (send_bs_remain + Coming)
            BY <1>2, <2>2, <2>3, Counting
        <3> QED BY <1>2, <2>1, <3>1
    <2>4. CASE ~Current
        <3>1. Pending(c)' = c + 0 /\ Pending(c) = c + 0
            BY <1>2, <2>4, Counting
        <3> QED BY <2>1, <3>1
    <2> QED BY <2>3, <2>4
<1> QED BY <1>1, <1>2, <1>3, SteadySound

LEMMA LossSound ==
    ASSUME NEW c, Agreed(c), Sound(c), DataLost
    PROVE  \E d \in Nat : Turns' /\ Joint(d)' /\ Sound(d)'
<1>1. FrameGoes /\ RP!Resting /\ UNCHANGED <<to_sender, sent>> /\ Next
    BY RestingReceiver DEF FrameGoes, DataLost, Next
<1>2. PICK d \in Nat : /\ Turns' /\ Joint(d)'
                       /\ d = IF to_receiver[1].frame.type = "CF" THEN c - 1 ELSE c
    BY LossAgrees
<1>3. CASE to_receiver[1].frame.type = "CF"
    BY <1>1, <1>2, <1>3, MissedSound
<1>4. CASE to_receiver[1].frame.type # "CF"
    <2>1. c = 0 /\ ~Current /\ SenderStays
        BY <1>1, <1>4, GoingFrame
    <2>2. ~Current'
        <3>1. message' = message
            BY <1>1, RestingKeeps
        <3> QED BY <2>1, <3>1, Staying
    <2>3. Pending(c)' = c + 0 /\ Pending(c) = c + 0
        BY <2>1, <2>2, Counting
    <2>4. Sound(c)'
        BY <1>1, <2>1, <2>2, <2>3, SteadySound
    <2> QED BY <1>2, <1>4, <2>4
<1> QED BY <1>3, <1>4

LEMMA TickRests ==
    ASSUME NEW c, Agreed(c), Tick
    PROVE  RP!Resting
<1>1. CASE R!Receiving
    <2>1. RP!Tick /\ RP!TypeOK
        BY <1>1, SameReceiveLife, SoundFacts DEF Tick
    <2> QED BY <2>1, ReceiveConstants, RP!TickRests
<1>2. CASE ~R!Receiving
    BY <1>2, RestingReceiver DEF Tick
<1> QED BY <1>1, <1>2

LEMMA TickSound ==
    ASSUME NEW c, Agreed(c), Sound(c), Tick
    PROVE  Sound(c)'
<1>1. /\ UNCHANGED <<send_offset, send_bs_remain>> /\ (Current' <=> Current)
      /\ \A i \in 1 .. Len(to_receiver) : to_receiver'[i].frame = to_receiver[i].frame
      /\ to_sender' = << >> <=> to_sender = << >>
      /\ to_sender # << >> => /\ to_sender'[1].frame = to_sender[1].frame
                              /\ Head(to_sender') = to_sender'[1]
                              /\ Head(to_sender) = to_sender[1]
    BY TimeGoesOn
<1>2. RP!Resting /\ Next
    BY TickRests DEF Next
<1>3. Coming' = Coming
    BY <1>1 DEF Coming
<1>4. Pending(c)' <= Pending(c)
    <2>1. Pending(c)' = Pending(c)
        BY <1>1, <1>3 DEF Pending
    <2>2. Pending(c) \in Nat
        BY AgreedCounts
    <2> QED BY <2>1, <2>2
<1>5. c > 0 => to_receiver'[1].frame = to_receiver[1].frame
    <2>1. c \in 0 .. Len(to_receiver) /\ Len(to_receiver) \in Nat
        BY AgreedBus
    <2>2. c > 0 => 1 \in 1 .. Len(to_receiver)
        BY <2>1
    <2> QED BY <1>1, <2>2
<1> QED BY <1>1, <1>2, <1>4, <1>5, SteadySound

LEMMA ReceptionGivenUpSound ==
    ASSUME NEW c, Agreed(c), ReceiverPolls
    PROVE  Sound(c)' /\ RP!Resting
<1>1. receive_status' = "IDLE"
    BY ReceiverTimesOut DEF ReceiverPolls
<1>2. RP!Resting
    <2>1. RP!PollTimesOut /\ RP!TypeOK
        BY SameReceiveLife, SoundFacts DEF ReceiverPolls
    <2> QED BY <2>1, ReceiveConstants, RP!PollTimesOutRests
<1> QED BY <1>1, <1>2 DEF Sound, R!Receiving

-----------------------------------------------------------------------------
(* Every step is one of IsoTpTransfer or changes nothing there.             *)

LEMMA RestingHanding ==
    ASSUME NEW c, Agreed(c), Handing, Next, RP!Resting, UNCHANGED handed
    PROVE  Handing'
<1>1. sent \in Nat /\ sent' \in Nat /\ sent <= sent'
    BY SentGrows DEF Agreed, BaseInv
<1>2. message \in 0 .. sent
    BY AgreedBus
<1> QED BY <1>1, <1>2, HandingKept

LEMMA SenderMapped ==
    /\ UNCHANGED <<sent, send_status, handed>> => UNCHANGED Transfer!vars
    /\ UNCHANGED <<sent, handed>> /\ S!InProgress =>
         Transfer!End \/ UNCHANGED Transfer!vars
<1>1. S!InProgress \in BOOLEAN /\ S!InProgress' \in BOOLEAN
    BY DEF S!InProgress
<1>2. UNCHANGED send_status => S!InProgress' = S!InProgress
    BY DEF S!InProgress
<1> QED BY <1>1, <1>2 DEF Transfer!End, Transfer!vars

LEMMA PayloadOffered ==
    ASSUME NEW c, Agreed(c), SendPayload
    PROVE  Transfer!Offer
<1>1. ~S!InProgress /\ sent < Len(Payloads) /\ sent' = sent + 1 /\ UNCHANGED handed
    BY PayloadOnBus DEF SendPayload
<1>2. S!InProgress' \in BOOLEAN
    BY DEF S!InProgress
<1> QED BY <1>1, <1>2 DEF Transfer!Offer

Kept(d) == Handing' /\ Turns' /\ Joint(d)' /\ Sound(d)'
Mapped  == Transfer!Next \/ UNCHANGED Transfer!vars

LEMMA TransferStep ==
    ASSUME Prompt, Numbered, BaseInv, TransferInv, Next, Benign'
    PROVE  Mapped /\ \E d \in Nat : Kept(d)
<1>1. Benign /\ ~ConsecutiveFrameRepeated /\ ~SenderRestarts /\ ~ReceiverRestarts
    BY BenignBefore DEF BaseInv
<1>2. PICK c \in Nat : Agreed(c) /\ Sound(c) /\ Handing
    BY <1>1 DEF TransferInv, Agreed
<1>3. CASE SendPayload
    <2>1. Turns' /\ Joint(c)' /\ Sound(c)'
        BY <1>2, <1>3, PayloadAgrees, PayloadSound
    <2>2. RP!Resting /\ UNCHANGED handed
        BY <1>3, RestingReceiver DEF SendPayload
    <2>3. Handing'
        BY <1>2, <2>2, RestingHanding
    <2>4. Transfer!Next
        BY <1>2, <1>3, PayloadOffered DEF Transfer!Next
    <2> QED BY <2>1, <2>3, <2>4 DEF Kept, Mapped
<1>4. CASE SenderPolls \/ DriverFails
    <2>1. RP!Resting /\ UNCHANGED <<sent, handed>>
        BY <1>4, RestingReceiver DEF SenderPolls, DriverFails
    <2>2. Handing'
        BY <1>2, <2>1, RestingHanding
    <2>3. CASE SenderPolls /\ S!PollAccepted(0)
        <3>1. Turns' /\ Joint(c + 1)' /\ Sound(c + 1)' /\ S!InProgress
            BY <1>2, <2>3, FrameSentAgrees, FrameSentSound DEF Current
        <3>2. Mapped
            BY <2>1, <3>1, SenderMapped DEF Transfer!Next, Mapped
        <3>3. c + 1 \in Nat
            BY <1>2
        <3> QED BY <2>2, <3>1, <3>2, <3>3 DEF Kept
    <2>4. CASE S!PollNoSpace(0) \/ S!PollFailed(0) \/ S!PollWaiting(0)
        <3>1. Turns' /\ Joint(c)' /\ Sound(c)'
            BY <1>2, <1>4, <2>4, NothingSentAgrees, NothingSentSound
        <3>2. S!InProgress
            BY <1>2, <2>4, SendsNothing DEF Agreed, BaseInv, NetworkInv, SenderInv
        <3>3. Mapped
            BY <2>1, <3>2, SenderMapped DEF Transfer!Next, Mapped
        <3> QED BY <1>2, <2>2, <3>1, <3>3 DEF Kept
    <2> QED BY <1>4, <2>3, <2>4 DEF SenderPolls, DriverFails
<1>5. CASE SenderTakesFrame
    <2>1. Turns' /\ Joint(c)' /\ Sound(c)' /\ UNCHANGED send_status
        BY <1>2, <1>5, InvitationTakenAgrees, InvitationTakenSound
    <2>2. RP!Resting /\ UNCHANGED <<sent, handed>>
        BY <1>5, RestingReceiver DEF SenderTakesFrame
    <2>3. Handing'
        BY <1>2, <2>2, RestingHanding
    <2>4. Mapped
        BY <2>1, <2>2, SenderMapped DEF Mapped
    <2> QED BY <1>2, <2>1, <2>3, <2>4 DEF Kept
<1>6. CASE ReceiverTakesFrame
    <2>1. /\ Handing' /\ \E d \in Nat : Turns' /\ Joint(d)' /\ Sound(d)'
          /\ UNCHANGED <<sent, send_status, handed>>
        BY <1>2, <1>6, FrameReceivedSound
    <2>2. Mapped
        BY <2>1, SenderMapped DEF Mapped
    <2> QED BY <2>1, <2>2 DEF Kept
<1>7. CASE ReceiverPolls
    <2>1. Turns' /\ Joint(c)' /\ Sound(c)' /\ RP!Resting
        BY <1>2, <1>7, ReceptionGivenUpAgrees, ReceptionGivenUpSound
    <2>2. UNCHANGED <<sent, send_status, handed>>
        BY <1>7, Staying DEF ReceiverPolls, SenderStays
    <2>3. Handing'
        BY <1>2, <2>1, <2>2, RestingHanding
    <2>4. Mapped
        BY <2>2, SenderMapped DEF Mapped
    <2> QED BY <1>2, <2>1, <2>3, <2>4 DEF Kept
<1>8. CASE ReceiverTakesData
    <2>1. Turns' /\ Joint(c)' /\ Sound(c)'
        BY <1>2, <1>8, DataTakenAgrees, DataTakenSound
    <2>2. /\ Handing'
          /\ \E m \in 1 .. sent : \E to \in 1 .. Payloads[m] : Transfer!HandOver(m, to)
        BY <1>2, <1>8, DataTakenHanded
    <2> QED BY <1>2, <2>1, <2>2 DEF Kept, Mapped, Transfer!Next
<1>9. CASE DataLost \/ FlowControlLost
    <2>1. \E d \in Nat : Turns' /\ Joint(d)' /\ Sound(d)'
        BY <1>2, <1>9, LossSound, InvitationLostAgrees, InvitationLostSound
    <2>2. RP!Resting /\ UNCHANGED <<sent, send_status, handed>>
        BY <1>9, RestingReceiver, Staying DEF DataLost, FlowControlLost, SenderStays
    <2>3. Handing'
        BY <1>2, <2>2, RestingHanding
    <2>4. Mapped
        BY <2>2, SenderMapped DEF Mapped
    <2> QED BY <2>1, <2>3, <2>4 DEF Kept
<1>10. CASE Tick
    <2>1. Turns' /\ Joint(c)' /\ Sound(c)' /\ RP!Resting
        BY <1>2, <1>10, TickAgrees, TickSound, TickRests
    <2>2. UNCHANGED <<sent, send_status>>
        BY <1>2, <1>10, TimeGoesOn
    <2>3. UNCHANGED handed
        BY <1>10 DEF Tick
    <2>4. Handing'
        BY <1>2, <2>1, <2>3, RestingHanding
    <2>5. Mapped
        BY <2>2, <2>3, SenderMapped DEF Mapped
    <2> QED BY <1>2, <2>1, <2>4, <2>5 DEF Kept
<1> QED BY <1>1, <1>3, <1>4, <1>5, <1>6, <1>7, <1>8, <1>9, <1>10 DEF Next

LEMMA TransferStutters ==
    ASSUME TransferInv, UNCHANGED vars
    PROVE  TransferInv' /\ UNCHANGED Transfer!vars
<1>1. UNCHANGED <<sender, receiver, bus, sent, held, handed, faults>>
    BY DEF vars
<1>2. Benign' => Benign
    BY <1>1 DEF Benign
<1>3. Turns => Turns'
    BY <1>1 DEF Turns, Current, Holding, S!InProgress, sender, receiver, bus
<1>4. Handing => Handing'
    BY <1>1 DEF Handing, receiver
<1>5. \A c : Joint(c) => Joint(c)'
    BY <1>1 DEF Joint, Accounts, InStep, Pending, Current, Coming, Sending, Place, Live, Holding,
                S!InProgress, R!Receiving, sender, receiver, bus
<1>6. \A c : Sound(c) => Sound(c)'
    <2>1. RP!Content => RP!Content'
        BY <1>1, ContentStays DEF receiver
    <2> QED BY <1>1, <2>1 DEF Sound, More, NextAt, Pending, Current, Coming, S!InProgress,
                              R!Receiving, sender, receiver, bus
<1>7. UNCHANGED Transfer!vars
    BY <1>1 DEF Transfer!vars, S!InProgress, sender
<1> QED BY <1>2, <1>3, <1>4, <1>5, <1>6, <1>7 DEF TransferInv

LEMMA TransferStarts == Init => TransferInv /\ Transfer!Init
<1> SUFFICES ASSUME Init PROVE TransferInv /\ Transfer!Init
    OBVIOUS
<1>1. /\ sent = 0 /\ message = 0 /\ handed = Transfer!NoPiece
      /\ receive_status = "IDLE" /\ send_status = "IDLE"
    BY DEF Init, S!LinkInit, S!ClearedLink, R!LinkInit
<1>2. Turns /\ Joint(0) /\ 0 \in Nat
    BY JointStarts
<1>3. Sound(0)
    BY <1>1 DEF Sound, R!Receiving
<1>4. Handing
    BY <1>1 DEF Handing, Transfer!NoPiece
<1>5. Transfer!Init
    BY <1>1 DEF Transfer!Init, S!InProgress
<1> QED BY <1>2, <1>3, <1>4, <1>5 DEF TransferInv

(* What the two links promise to their applications.  However many frames   *)
(* are lost, refused or late, for every payload list, block size but 0,     *)
(* buffer size and delay within the bounds of Prompt: every step of the     *)
(* senders, the receiver and the bus is a step of IsoTpTransfer, which hands *)
(* over nothing twice, with a gap, mixed with another message or after a    *)
(* later one, and announces the end with the last byte.                     *)
THEOREM TransferIsImplemented ==
    ASSUME Prompt, Numbered
    PROVE  Spec /\ []Benign => Transfer!Spec
<1>1. Init => TransferInv /\ Transfer!Init
    BY TransferStarts
<1>2. BaseInv /\ TransferInv /\ [Next]_vars => TransferInv'
    <2>1. ASSUME BaseInv, TransferInv, Next, Benign'
          PROVE  Turns' /\ Handing' /\ \E c \in Nat : Joint(c)' /\ Sound(c)'
        BY <2>1, TransferStep DEF Kept
    <2>2. TransferInv' <=>
            (Benign' => Turns' /\ Handing' /\ \E c \in Nat : Joint(c)' /\ Sound(c)')
        BY DEF TransferInv
    <2> QED BY <2>1, <2>2, TransferStutters
<1>3. BaseInv /\ TransferInv /\ Benign' /\ [Next]_vars => [Transfer!Next]_(Transfer!vars)
    BY TransferStep, TransferStutters DEF Mapped
<1>4. Spec => []BaseInv
    BY BaseInvariance
<1> QED BY <1>1, <1>2, <1>3, <1>4, PTL DEF Spec, Transfer!Spec

=============================================================================
