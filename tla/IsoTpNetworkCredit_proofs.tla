----------------------- MODULE IsoTpNetworkCredit_proofs -----------------------
(***************************************************************************)
(* Proofs about what two links on a bus count together - the frames one may *)
(* still send and the frames the other has invited, with the queues of the  *)
(* bus in between - and about how long they wait for each other.            *)
(***************************************************************************)
EXTENDS IsoTpNetwork_proofs, FiniteSetTheorems

(* Blocks are counted - a block size of 0 asks for none, and the receiver's *)
(* counter of one byte goes round -, the receiver has a buffer, and a frame *)
(* there, a chunk left lying and a frame back take no longer than the       *)
(* sender waits.                                                            *)
Prompt ==
    /\ Punctual
    /\ BLOCK_SIZE # 0 /\ 0 \notin RECEIVE_BUF_SIZES
    /\ 2 * MaxTransit + MaxHold <= RESPONSE_TIMEOUT_US

-----------------------------------------------------------------------------
(* Nothing is left undone for longer than its bound. *)

OnTime(s) == \A i \in 1 .. Len(s) : s[i].age <= MaxTransit

Timing ==
    /\ OnTime(to_receiver) /\ OnTime(to_sender)
    /\ held \in Nat /\ (Holding => held <= MaxHold)
    /\ S!InProgress /\ send_bs_remain # 0 => age_bs <= send_st_min_us + MaxDelay

LEMMA OnTimeMoves ==
    ASSUME NEW s, Channel(s), OnTime(s)
    PROVE  /\ \A f : OnTime(Append(s, OnBus(f)))
           /\ s # << >> => OnTime(Tail(s))
           /\ s # << >> => OnTime(<<Head(s)>> \o s)
           /\ (\A i \in DOMAIN s : s[i].age + ClockStep <= MaxTransit) => OnTime(Aged(s))
<1>0. /\ Len(s) \in Nat /\ DOMAIN s = 1 .. Len(s) /\ MaxTransit \in Nat /\ ClockStep \in Nat
      /\ \A i \in 1 .. Len(s) : s[i].age \in Nat
    BY ChannelFrames, NetworkConstants
<1>1. ASSUME NEW f PROVE OnTime(Append(s, OnBus(f)))
    <2>1. PICK t : t = Append(s, OnBus(f))
        OBVIOUS
    <2>2. /\ Len(t) = Len(s) + 1 /\ \A i \in 1 .. Len(s) : t[i] = s[i]
          /\ t[Len(s) + 1].age = 0
        BY <2>1, ChannelSends
    <2>3. ASSUME NEW i \in 1 .. Len(t) PROVE t[i].age <= MaxTransit
        <3>1. i \in 1 .. Len(s) \/ i = Len(s) + 1
            BY <1>0, <2>2
        <3> QED BY <1>0, <2>2, <3>1 DEF OnTime
    <2> QED BY <2>1, <2>3 DEF OnTime
<1>2. ASSUME s # << >> PROVE OnTime(Tail(s))
    <2>1. /\ Len(Tail(s)) = Len(s) - 1 /\ \A i \in 1 .. Len(s) - 1 : Tail(s)[i] = s[i + 1]
        BY <1>2, ChannelTakes
    <2>2. \A i \in 1 .. Len(s) - 1 : i + 1 \in 1 .. Len(s)
        BY <1>0
    <2> QED BY <2>1, <2>2 DEF OnTime
<1>3. ASSUME s # << >> PROVE OnTime(<<Head(s)>> \o s)
    <2>1. PICK t : t = <<Head(s)>> \o s
        OBVIOUS
    <2>2. /\ Len(t) = Len(s) + 1
          /\ \A i \in 1 .. Len(s) + 1 : t[i] = IF i = 1 THEN s[1] ELSE s[i - 1]
        BY <1>3, <2>1, ChannelRepeats
    <2>3. Len(s) # 0
        BY <1>3, ChannelFrames
    <2>4. ASSUME NEW i \in 1 .. Len(t) PROVE t[i].age <= MaxTransit
        <3>1. i = 1 \/ i - 1 \in 1 .. Len(s)
            BY <1>0, <2>2
        <3>2. 1 \in 1 .. Len(s)
            BY <1>0, <2>3
        <3> QED BY <1>0, <2>2, <3>1, <3>2 DEF OnTime
    <2> QED BY <2>1, <2>4 DEF OnTime
<1>4. ASSUME \A i \in DOMAIN s : s[i].age + ClockStep <= MaxTransit PROVE OnTime(Aged(s))
    <2>1. /\ Len(Aged(s)) = Len(s)
          /\ \A i \in 1 .. Len(s) : Aged(s)[i].age = s[i].age + ClockStep
        BY ChannelAges
    <2> QED BY <1>0, <1>4, <2>1 DEF OnTime
<1> QED BY <1>1, <1>2, <1>3, <1>4

LEMMA BusOnTime ==
    ASSUME NetworkInv, Timing, DataMoves, FlowControlMoves
    PROVE  OnTime(to_receiver') /\ OnTime(to_sender')
<1>0. /\ Channel(to_receiver) /\ OnTime(to_receiver)
      /\ Channel(to_sender) /\ OnTime(to_sender)
    BY DEF NetworkInv, BusInv, Timing
<1>1. OnTime(to_receiver')
    <2>1. CASE UNCHANGED to_receiver
        BY <1>0, <2>1
    <2>2. CASE \E f : FrameOf(f, sent') /\ to_receiver' = Append(to_receiver, OnBus(f))
        BY <1>0, <2>2, OnTimeMoves
    <2>3. CASE to_receiver # << >> /\ to_receiver' = Tail(to_receiver)
        BY <1>0, <2>3, OnTimeMoves
    <2>4. CASE to_receiver # << >> /\ to_receiver' = <<Head(to_receiver)>> \o to_receiver
        BY <1>0, <2>4, OnTimeMoves
    <2>5. CASE Timely /\ to_receiver' = Aged(to_receiver)
        BY <1>0, <2>5, OnTimeMoves DEF Timely
    <2> QED BY <2>1, <2>2, <2>3, <2>4, <2>5 DEF DataMoves
<1>2. OnTime(to_sender')
    <2>1. CASE UNCHANGED to_sender
        BY <1>0, <2>1
    <2>2. CASE to_sender' = Append(to_sender, OnBus(fc_tx'))
        BY <1>0, <2>2, OnTimeMoves
    <2>3. CASE to_sender # << >> /\ to_sender' = Tail(to_sender)
        BY <1>0, <2>3, OnTimeMoves
    <2>4. CASE Timely /\ to_sender' = Aged(to_sender)
        BY <1>0, <2>4, OnTimeMoves DEF Timely
    <2> QED BY <2>1, <2>2, <2>3, <2>4 DEF FlowControlMoves
<1> QED BY <1>1, <1>2

(* The application's patience with a full buffer is counted from when it    *)
(* became full.                                                             *)
LEMMA HeldOnTime ==
    ASSUME NetworkInv, Timing, Next
    PROVE  held' \in Nat /\ (Holding' => held' <= MaxHold)
<1>0. /\ held \in Nat /\ (Holding => held <= MaxHold) /\ MaxHold \in Nat /\ ClockStep \in Nat
    BY NetworkConstants DEF Timing
<1>1. CASE UNCHANGED <<held, receive_status, receive_streaming>>
    BY <1>0, <1>1 DEF Holding
<1>2. CASE held' = 0
    BY <1>0, <1>2
<1>3. CASE ReceiverPolls
    <2>1. ~Holding' /\ UNCHANGED held
        BY <1>3 DEF ReceiverPolls, R!PollTimesOut, Holding
    <2> QED BY <1>0, <2>1
<1>4. CASE ReceiverTakesData
    <2>1. /\ \E size : R!Receive(size) \/ R!ReceiveStreaming(size, TRUE)
          /\ held' = IF Holding' THEN held ELSE 0
        BY <1>4 DEF ReceiverTakesData
    <2>2. Holding' => Holding
        BY <2>1, TakesData DEF NetworkInv, ReceiverInv, Holding
    <2> QED BY <1>0, <2>1, <2>2
<1>5. CASE Tick
    <2>1. /\ held' = IF Holding THEN held + ClockStep ELSE 0
          /\ Holding => held + ClockStep <= MaxHold
          /\ UNCHANGED <<receive_status, receive_streaming>>
        BY <1>5 DEF Tick, Timely, R!Tick, R!recvStatusVars, R!streamVars, ReceiverRests, receiver
    <2> QED BY <1>0, <2>1 DEF Holding
<1> QED BY <1>1, <1>2, <1>3, <1>4, <1>5
        DEF Next, SendPayload, SenderPolls, SenderTakesFrame, ReceiverTakesFrame, DataLost,
            FlowControlLost, ConsecutiveFrameRepeated, DriverFails, SenderRestarts,
            ReceiverRestarts, ReceiverRests, receiver

(* A receiver with a buffer invites one frame or a whole block, at the pace *)
(* it is configured for.                                                    *)
Invitations == {FlowControl(CONTINUE, bs, DEFAULT_ST_MIN_US) : bs \in {1, BLOCK_SIZE}}

Rates ==
    /\ send_bs_remain \in 0 .. 255
    /\ send_st_min_us \in 0 .. DEFAULT_ST_MIN_US
    /\ \A i \in 1 .. Len(to_sender) : Answer(i) \in Invitations
    /\ Live => invited \in 0 .. 255

LEMMA InvitationFields ==
    ASSUME Prompt, NEW f \in Invitations
    PROVE  /\ f \in BuiltFlowControls /\ f # NoFrame
           /\ f.FS = CONTINUE /\ f.BS \in 1 .. 255
           /\ StMinToUs(f.STmin) \in 0 .. DEFAULT_ST_MIN_US
<1>1. PICK bs \in {1, BLOCK_SIZE} : f = FlowControl(CONTINUE, bs, DEFAULT_ST_MIN_US)
    BY DEF Invitations
<1>2. bs \in 1 .. 255 /\ DEFAULT_ST_MIN_US \in Nat
    BY NetworkConstants DEF Prompt
<1>3. f \in BuiltFlowControls
    BY <1>1, <1>2 DEF BuiltFlowControls
<1>4. f.FS = CONTINUE /\ f.BS = bs /\ f.type = "FC"
    BY <1>1 DEF FlowControl
<1>5. f # NoFrame
    BY <1>4 DEF NoFrame
<1>6. StMinToUs(f.STmin) <= DEFAULT_ST_MIN_US /\ f.STmin \in 0 .. 255
    <2>1. CONTINUE \in 0 .. 15 /\ bs \in 0 .. 255
        BY <1>2 DEF CONTINUE
    <2>2. /\ FlowControl(CONTINUE, bs, DEFAULT_ST_MIN_US) \in FlowControlType
          /\ StMinToUs(FlowControl(CONTINUE, bs, DEFAULT_ST_MIN_US).STmin) <= DEFAULT_ST_MIN_US
        <3>1. PICK fs \in 0 .. 15 : fs = CONTINUE
            BY <2>1
        <3>2. PICK us \in Nat : us = DEFAULT_ST_MIN_US
            BY <1>2
        <3>3. /\ FlowControl(fs, bs, us) \in FlowControlType
              /\ StMinToUs(FlowControl(fs, bs, us).STmin) <= us
            BY <2>1, FlowControlBuilt
        <3> QED BY <3>1, <3>2, <3>3
    <2>3. f \in FlowControlType
        BY <1>1, <2>2
    <2> QED BY <1>1, <2>2, <2>3 DEF FlowControlType
<1>7. StMinToUs(f.STmin) \in Nat
    BY <1>6 DEF StMinToUs
<1> QED BY <1>2, <1>3, <1>4, <1>5, <1>6, <1>7

LEMMA FirstInvitation ==
    ASSUME NetworkInv, Rates, to_sender # << >>
    PROVE  /\ 1 \in 1 .. Len(to_sender) /\ Head(to_sender) = to_sender[1]
           /\ Answer(1) \in Invitations /\ to_sender[1].age \in Nat
<1>1. /\ Len(to_sender) \in Nat /\ Len(to_sender) # 0 /\ Head(to_sender) = to_sender[1]
      /\ \A i \in 1 .. Len(to_sender) : to_sender[i].age \in Nat
    BY ChannelFrames DEF NetworkInv, BusInv
<1> QED BY <1>1 DEF Rates

LEMMA SenderRates ==
    ASSUME Prompt, NetworkInv, Timing, Rates, Next
    PROVE  /\ send_bs_remain' \in 0 .. 255
           /\ send_st_min_us' \in 0 .. DEFAULT_ST_MIN_US
           /\ S!InProgress' /\ send_bs_remain' # 0 => age_bs' <= send_st_min_us' + MaxDelay
<1>0. /\ DEFAULT_ST_MIN_US \in Nat /\ MaxDelay \in Nat /\ ClockStep \in Nat
      /\ \A m \in 1 .. Len(Payloads) : Payloads[m] \in Nat
    BY NetworkConstants
<1>1. /\ SP!IInv /\ tx_dl = DEFAULT_TX_DL /\ sent \in 0 .. Len(Payloads)
      /\ send_bs_remain \in 0 .. 255 /\ send_st_min_us \in 0 .. DEFAULT_ST_MIN_US
      /\ S!InProgress /\ send_bs_remain # 0 => age_bs <= send_st_min_us + MaxDelay
    BY DEF NetworkInv, SenderInv, Rates, Timing
<1>2. CASE SendPayload
    <2>1. Payloads[sent'] \in Nat
        BY <1>0, <1>1, <1>2, NetworkConstants DEF SendPayload
    <2>2. CASE S!SendSingleFrame(Payloads[sent'], "OK")
        <3>1. ~S!InProgress' /\ UNCHANGED <<send_bs_remain, send_st_min_us>>
            BY <1>1, <2>2, SendsSingleFrame
        <3> QED BY <1>1, <3>1
    <2>3. CASE S!SendFirstFrame(Payloads[sent'], "OK")
        <3>1. send_bs_remain' = 0 /\ send_st_min_us' = 0
            BY <1>1, <2>1, <2>3, SendsFirstFrame
        <3> QED BY <1>0, <3>1
    <2> QED BY <1>2, <2>2, <2>3 DEF SendPayload
<1>3. CASE S!PollAccepted(0)
    <2>1. /\ send_bs_remain # 0 /\ age_bs' = 0 /\ UNCHANGED send_st_min_us
          /\ send_bs_remain' = IF send_bs_remain = INVALID_BS THEN INVALID_BS
                               ELSE send_bs_remain - 1
        BY <1>1, <1>3, SendsConsecutiveFrame
    <2> QED BY <1>0, <1>1, <2>1 DEF INVALID_BS
<1>4. CASE S!PollNoSpace(0) \/ S!PollFailed(0) \/ S!PollWaiting(0)
    <2>1. /\ S!InProgress /\ UNCHANGED <<age_bs, send_bs_remain, send_st_min_us>>
        BY <1>1, <1>4, SendsNothing
    <2> QED BY <1>1, <2>1
<1>5. CASE to_sender # << >> /\ S!OnFlowControl(Head(to_sender).frame)
    <2>1. PICK f \in Invitations : S!OnFlowControl(f)
        BY <1>5, FirstInvitation DEF Answer
    <2>2. /\ f \in BuiltFlowControls /\ f.FS = CONTINUE /\ f.BS \in 1 .. 255
          /\ StMinToUs(f.STmin) \in 0 .. DEFAULT_ST_MIN_US
        BY InvitationFields
    <2>3. f.FS # OVERFLOW
        BY <2>2 DEF CONTINUE, OVERFLOW
    <2>4. /\ age_bs' = 0 /\ send_bs_remain' = f.BS
          /\ send_st_min_us' = IF StMinToUs(f.STmin) > DEFAULT_ST_MIN_US
                               THEN StMinToUs(f.STmin) ELSE DEFAULT_ST_MIN_US
        BY <2>1, <2>2, <2>3, ContinuesOrStops
    <2> QED BY <1>0, <2>2, <2>4
<1>6. CASE S!InitLink
    BY <1>0, <1>6 DEF S!InitLink, S!Clear, S!InProgress
<1>7. CASE UNCHANGED <<send_status, send_bs_remain, send_st_min_us, age_bs>>
    BY <1>1, <1>7 DEF S!InProgress
<1>8. CASE Tick
    <2>1. CASE S!InProgress
        <3>1. /\ age_bs' = age_bs + ClockStep
              /\ UNCHANGED <<send_status, send_bs_remain, send_st_min_us>>
              /\ S!InProgress /\ send_bs_remain # 0 =>
                    age_bs + ClockStep <= send_st_min_us + MaxDelay
            BY <1>8, <2>1 DEF Tick, Timely, S!Tick, S!linkVars, S!creditVars, S!statusVars
        <3> QED BY <1>1, <3>1 DEF S!InProgress
    <2>2. CASE ~S!InProgress
        BY <1>7, <1>8, <2>2 DEF Tick, SenderRests, sender
    <2> QED BY <2>1, <2>2
<1> QED BY <1>2, <1>3, <1>4, <1>5, <1>6, <1>7, <1>8
        DEF Next, SenderPolls, SenderTakesFrame, ReceiverTakesFrame, ReceiverPolls,
            ReceiverTakesData, DataLost, FlowControlLost, ConsecutiveFrameRepeated,
            DriverFails, SenderRestarts, ReceiverRestarts, SenderRests, sender

(* What is on the bus for the receiver is a frame it can take, and what it  *)
(* answers is an invitation.                                                *)
LEMMA ReceiverRates ==
    ASSUME Prompt, NetworkInv, Rates, ReceiverMoves
    PROVE  /\ fc_tx' = NoFrame \/ fc_tx' \in Invitations
           /\ Live' => invited' \in 0 .. 255
<1>0. /\ RP!IInv /\ RP!TypeOK /\ rx_done_cb = FALSE /\ receive_buf_size # 0
      /\ Live => invited \in 0 .. 255
      /\ R!Receiving => invited > 0
    BY SameReceiveInvariants, SameHandling
    DEF Prompt, NetworkInv, ReceiverInv, RP!IInv, RP!Invitations, Rates, R!NeverWaitsUninvited
<1>1. ASSUME Invites(1) \/ Invites(BLOCK_SIZE)
      PROVE  fc_tx' \in Invitations /\ invited' \in 0 .. 255
    BY <1>1, NetworkConstants DEF Prompt, Invites, Invitations
<1>2. ASSUME NEW f, DataFrame(f), R!OnCanMessage(f, TRUE)
      PROVE  /\ fc_tx' = NoFrame \/ fc_tx' \in Invitations
             /\ Live' => invited' \in 0 .. 255
    <2>1. CASE R!ReceiveSingleFrame(f)
        <3>1. /\ fc_tx' = NoFrame
              /\ \/ receive_status' = "FULL" /\ ~receive_streaming'
                 \/ UNCHANGED <<receive_status, reception>>
            BY <1>0, <2>1, TakesSingleFrame
        <3> QED BY <1>0, <3>1 DEF Live, Holding, R!Receiving, reception
    <2>2. CASE R!ReceiveFirstFrame(f, TRUE)
        <3>1. FfAccepted(f)
            BY <1>2, <2>2 DEF DataFrame, FrameOf, R!ReceiveFirstFrame
        <3>2. \/ invited' = 0 /\ fc_tx' = NoFrame
              \/ Invites(1) \/ Invites(BLOCK_SIZE)
            BY <1>0, <2>2, <3>1, TakesFirstFrame
        <3> QED BY <1>1, <3>2
    <2>3. CASE R!ReceiveConsecutiveFrame(f, TRUE)
        <3>1. R!FrameType(f)
            BY <1>2 DEF DataFrame, FrameOf
        <3>2. Takes(f) \/ Refuses(f)
            BY <1>0, <2>3, <3>1, TakesConsecutiveFrame
        <3>3. CASE Takes(f)
            <4>1. R!Receiving
                BY <3>3 DEF Takes
            <4>2. \/ /\ fc_tx' = NoFrame
                     /\ invited' = IF invited = INVALID_BS THEN invited ELSE invited - 1
                  \/ Invites(1) \/ Invites(BLOCK_SIZE)
                BY <3>3 DEF Takes
            <4> QED BY <1>0, <1>1, <4>1, <4>2 DEF Live, INVALID_BS
        <3>4. CASE Refuses(f)
            BY <1>0, <3>4 DEF Refuses, Live, Holding, R!Receiving, reception
        <3> QED BY <3>2, <3>3, <3>4
    <2> QED BY <1>2, <2>1, <2>2, <2>3 DEF R!OnCanMessage
<1>3. CASE \E size : R!Receive(size) \/ R!ReceiveStreaming(size, TRUE)
    <2>1. /\ receive_status = "FULL"
          /\ \/ receive_status' = "IDLE" /\ fc_tx' = NoFrame
             \/ fc_tx' = NoFrame /\ receive_streaming /\ UNCHANGED invited
             \/ Invites(1)
        BY <1>0, <1>3, TakesData
    <2> QED BY <1>0, <1>1, <2>1 DEF Live, Holding, R!Receiving
<1>4. CASE R!PollTimesOut
    BY <1>4, ReceiverTimesOut DEF Live, Holding, R!Receiving
<1>5. CASE R!InitLink(receive_buf_size)
    BY <1>5, ReceiverCodec DEF R!InitLink, R!Reset, Live, Holding, R!Receiving
<1>6. CASE R!Tick
    BY <1>0, <1>6, ReceiverCodec
    DEF R!Tick, R!flowVars, R!recvStatusVars, R!streamVars, Live, Holding, R!Receiving
<1>7. CASE ReceiverRestsInTime /\ fc_tx' = NoFrame
    BY <1>0, <1>7 DEF ReceiverRestsInTime, receiver, Live, Holding, R!Receiving
<1> QED BY <1>2, <1>3, <1>4, <1>5, <1>6, <1>7 DEF ReceiverMoves

LEMMA InvitationsStep ==
    ASSUME NetworkInv, Rates, FlowControlMoves, fc_tx' = NoFrame \/ fc_tx' \in Invitations
    PROVE  \A i \in 1 .. Len(to_sender') : to_sender'[i].frame \in Invitations
<1> DEFINE n == Len(to_sender)
<1>0. /\ Channel(to_sender) /\ n \in Nat
      /\ \A i \in 1 .. n : to_sender[i].frame \in Invitations
    BY ChannelFrames DEF NetworkInv, BusInv, Rates, Answer
<1>1. CASE UNCHANGED to_sender
    BY <1>0, <1>1
<1>2. CASE fc_tx' # NoFrame /\ to_sender' = Append(to_sender, OnBus(fc_tx'))
    <2>1. PICK f \in Invitations : f = fc_tx'
        BY <1>2
    <2>2. /\ Len(to_sender') = n + 1
          /\ \A i \in 1 .. n : to_sender'[i] = to_sender[i]
          /\ to_sender'[n + 1].frame = f
        BY <1>0, <1>2, <2>1, ChannelSends
    <2>3. ASSUME NEW i \in 1 .. n + 1 PROVE to_sender'[i].frame \in Invitations
        <3>1. i \in 1 .. n \/ i = n + 1
            BY <1>0
        <3> QED BY <1>0, <2>1, <2>2, <3>1
    <2> QED BY <2>2, <2>3
<1>3. CASE to_sender # << >> /\ to_sender' = Tail(to_sender)
    <2>1. /\ Len(to_sender') = n - 1
          /\ \A i \in 1 .. n - 1 : to_sender'[i] = to_sender[i + 1]
        BY <1>0, <1>3, ChannelTakes
    <2>2. \A i \in 1 .. n - 1 : i + 1 \in 1 .. n
        BY <1>0
    <2> QED BY <1>0, <2>1, <2>2
<1>4. CASE Timely /\ to_sender' = Aged(to_sender)
    <2>1. /\ Len(to_sender') = n
          /\ \A i \in 1 .. n : to_sender'[i].frame = to_sender[i].frame
        BY <1>0, <1>4, ChannelAges
    <2> QED BY <1>0, <2>1
<1> QED BY <1>1, <1>2, <1>3, <1>4 DEF FlowControlMoves

(* The part of the invariant that holds whatever faults there are.          *)
BaseInv == NetworkInv /\ TimersInv /\ Timing /\ Rates

LEMMA BaseStep == Prompt /\ BaseInv /\ [Next]_vars => BaseInv'
<1>1. ASSUME Prompt, BaseInv, Next PROVE BaseInv'
    <2>1. NetworkInv' /\ TimersInv'
        BY <1>1, NetworkStep, TimersStep DEF BaseInv, Prompt
    <2>2. DataMoves /\ FlowControlMoves /\ ReceiverMoves
        BY <1>1, SentGrows, FlowControlSteps, ReceiverSteps DEF BaseInv
    <2>3. OnTime(to_receiver') /\ OnTime(to_sender')
        BY <1>1, <2>2, BusOnTime DEF BaseInv
    <2>4. held' \in Nat /\ (Holding' => held' <= MaxHold)
        BY <1>1, HeldOnTime DEF BaseInv
    <2>5. /\ send_bs_remain' \in 0 .. 255 /\ send_st_min_us' \in 0 .. DEFAULT_ST_MIN_US
          /\ S!InProgress' /\ send_bs_remain' # 0 => age_bs' <= send_st_min_us' + MaxDelay
        BY <1>1, SenderRates DEF BaseInv
    <2>6. /\ fc_tx' = NoFrame \/ fc_tx' \in Invitations
          /\ Live' => invited' \in 0 .. 255
        BY <1>1, <2>2, ReceiverRates DEF BaseInv
    <2>7. \A i \in 1 .. Len(to_sender') : to_sender'[i].frame \in Invitations
        BY <1>1, <2>2, <2>6, InvitationsStep DEF BaseInv
    <2>8. Timing'
        BY <2>3, <2>4, <2>5 DEF Timing, OnTime
    <2>9. Rates'
        BY <2>5, <2>6, <2>7 DEF Rates, Answer
    <2> QED BY <2>1, <2>8, <2>9 DEF BaseInv
<1>2. ASSUME Prompt, BaseInv, UNCHANGED vars PROVE BaseInv'
    <2>1. NetworkInv' /\ TimersInv'
        BY <1>2, NetworkStep, TimersStep DEF BaseInv, Prompt
    <2>2. Timing' /\ Rates'
        BY <1>2 DEF BaseInv, Timing, OnTime, Rates, Answer, Live, Holding, S!InProgress,
                    R!Receiving, vars, sender, receiver, bus
    <2> QED BY <2>1, <2>2 DEF BaseInv
<1> QED BY <1>1, <1>2

LEMMA BaseStarts == Init => Timing /\ Rates
<1> SUFFICES ASSUME Init PROVE Timing /\ Rates
    OBVIOUS
<1>1. /\ to_receiver = << >> /\ to_sender = << >> /\ held = 0
      /\ receive_status = "IDLE" /\ send_status = "IDLE"
      /\ send_bs_remain = 0 /\ send_st_min_us = 0
    BY DEF Init, S!LinkInit, S!ClearedLink, R!LinkInit
<1>2. Len(<< >>) = 0 /\ DEFAULT_ST_MIN_US \in Nat
    BY NetworkConstants
<1> QED BY <1>1, <1>2 DEF Timing, OnTime, Rates, Live, Holding, S!InProgress, R!Receiving

LEMMA BaseInvariance == ASSUME Prompt PROVE Spec => []BaseInv
<1>1. Init /\ []NetworkInv /\ []TimersInv => BaseInv
    BY BaseStarts, PTL DEF BaseInv
<1>2. BaseInv /\ [Next]_vars => BaseInv'
    BY BaseStep
<1>3. Spec => []NetworkInv /\ []TimersInv
    BY NetworkInvariance, TimersInvariance, PTL DEF Prompt
<1> QED BY <1>1, <1>2, <1>3, PTL DEF Spec

-----------------------------------------------------------------------------
(* The frames on their way to the receiver: the Consecutive Frames of the   *)
(* message it is taking, one behind the other, and behind them the opening  *)
(* frames of later messages.                                                *)

(* Frame g, or the place g, comes right behind frame f. *)
Follows(f, g) == g.at = f.at + f.n /\ g.SN = NextSn(f.SN)

Line(s, c, m) ==
    /\ c \in 0 .. Len(s)
    /\ \A i \in 1 .. c : s[i].frame.type = "CF" /\ s[i].frame.msg = m
    /\ \A i \in 1 .. c - 1 : Follows(s[i].frame, s[i + 1].frame)
    /\ \A i \in c + 1 .. Len(s) : s[i].frame.type # "CF" /\ m < s[i].frame.msg
    /\ \A i \in c + 1 .. Len(s), j \in c + 1 .. Len(s) :
           i < j => s[i].frame.msg < s[j].frame.msg

(* The last of them come from the message being sent, at whose place p the  *)
(* sender is; it is 0 when none is being sent.                              *)
Tip(s, c, m, sending, p) ==
    /\ c > 0 /\ sending = m => Follows(s[c].frame, p)
    /\ \A i \in c + 1 .. Len(s) :
           s[i].frame.type = "FF" => s[i].frame.msg = sending /\ p.at = s[i].frame.n /\ p.SN = 1

Queue(s, c, m, sending, p) == Line(s, c, m) /\ Tip(s, c, m, sending, p)

(* A channel of frames of the first count messages. *)
Frames(s, count) ==
    Channel(s) /\ count \in Nat /\ \A i \in 1 .. Len(s) : FrameOf(s[i].frame, count)

LEMMA FramesNumbered ==
    ASSUME NEW s, NEW count, Frames(s, count)
    PROVE  /\ Len(s) \in Nat /\ DOMAIN s = 1 .. Len(s) /\ count \in Nat
           /\ \A i \in 1 .. Len(s) : /\ s[i].frame.msg \in 1 .. count
                                     /\ s[i].age \in Nat
                                     /\ s[i].frame.type \in {"SF", "FF", "CF"}
BY ChannelFrames DEF Frames, FrameOf

LEMMA QueueOpens ==
    ASSUME NEW s, NEW count, Frames(s, count), NEW c, NEW m \in 0 .. count, NEW p, NEW q, NEW f,
           NEW sending, Queue(s, c, m, 0, p), f.type \in {"SF", "FF"}, f.msg = count + 1,
           f.type = "FF" => sending = f.msg /\ q.at = f.n /\ q.SN = 1,
           f.type = "SF" => sending = 0
    PROVE  Queue(Append(s, OnBus(f)), c, m, sending, q)
<1>0. /\ Len(s) \in Nat /\ count \in Nat /\ c \in 0 .. Len(s)
      /\ \A i \in 1 .. Len(s) : s[i].frame.msg \in 1 .. count
    BY FramesNumbered DEF Queue, Line
<1>1. PICK t : t = Append(s, OnBus(f))
    OBVIOUS
<1>2. /\ Len(t) = Len(s) + 1 /\ \A i \in 1 .. Len(s) : t[i] = s[i]
      /\ t[Len(s) + 1].frame = f
    BY <1>1, ChannelSends DEF Frames
<1>3. Line(t, c, m)
    <2>1. c \in 0 .. Len(t)
        BY <1>0, <1>2
    <2>2. \A i \in 1 .. c : t[i].frame.type = "CF" /\ t[i].frame.msg = m
        BY <1>0, <1>2 DEF Queue, Line
    <2>3. ASSUME NEW i \in 1 .. c - 1 PROVE Follows(t[i].frame, t[i + 1].frame)
        <3>1. i \in 1 .. Len(s) /\ i + 1 \in 1 .. Len(s)
            BY <1>0
        <3> QED BY <1>2, <3>1 DEF Queue, Line
    <2>4. ASSUME NEW i \in c + 1 .. Len(t)
          PROVE  t[i].frame.type # "CF" /\ m < t[i].frame.msg
        <3>1. CASE i = Len(s) + 1
            BY <1>0, <1>2, <3>1
        <3>2. CASE i # Len(s) + 1
            <4>1. i \in c + 1 .. Len(s) /\ i \in 1 .. Len(s)
                BY <1>0, <1>2, <3>2
            <4> QED BY <1>2, <4>1 DEF Queue, Line
        <3> QED BY <3>1, <3>2
    <2>5. ASSUME NEW i \in c + 1 .. Len(t), NEW j \in c + 1 .. Len(t), i < j
          PROVE  t[i].frame.msg < t[j].frame.msg
        <3>1. i \in c + 1 .. Len(s) /\ i \in 1 .. Len(s)
            BY <1>0, <1>2, <2>5
        <3>2. CASE j = Len(s) + 1
            BY <1>0, <1>2, <3>1, <3>2
        <3>3. CASE j # Len(s) + 1
            <4>1. j \in c + 1 .. Len(s) /\ j \in 1 .. Len(s)
                BY <1>0, <1>2, <3>3
            <4> QED BY <1>2, <2>5, <3>1, <4>1 DEF Queue, Line
        <3> QED BY <3>2, <3>3
    <2> QED BY <2>1, <2>2, <2>3, <2>4, <2>5 DEF Line
<1>4. Tip(t, c, m, sending, q)
    <2>1. ~(c > 0 /\ sending = m)
        <3>1. sending = 0 \/ sending > m
            BY <1>0
        <3>2. c > 0 => m # 0
            <4>1. c > 0 => 1 \in 1 .. Len(s) /\ 1 \in 1 .. c
                BY <1>0
            <4>2. c > 0 => s[1].frame.msg = m /\ s[1].frame.msg \in 1 .. count
                BY <1>0, <4>1 DEF Queue, Line
            <4> QED BY <1>0, <4>2
        <3> QED BY <1>0, <3>1, <3>2
    <2>2. ASSUME NEW i \in c + 1 .. Len(t), t[i].frame.type = "FF"
          PROVE  t[i].frame.msg = sending /\ q.at = t[i].frame.n /\ q.SN = 1
        <3>1. CASE i = Len(s) + 1
            BY <1>2, <2>2, <3>1
        <3>2. CASE i # Len(s) + 1
            <4>1. i \in c + 1 .. Len(s) /\ i \in 1 .. Len(s)
                BY <1>0, <1>2, <3>2
            <4>2. s[i].frame.msg = 0
                BY <1>2, <2>2, <4>1 DEF Queue, Tip
            <4> QED BY <1>0, <4>1, <4>2
        <3> QED BY <3>1, <3>2
    <2> QED BY <2>1, <2>2 DEF Tip
<1> QED BY <1>1, <1>3, <1>4 DEF Queue

LEMMA QueueGoesOn ==
    ASSUME NEW s, NEW count, Frames(s, count), NEW m, NEW p, NEW q, NEW f, NEW sending,
           Queue(s, Len(s), m, m, p), f.type = "CF", f.msg = m, f.at = p.at, f.SN = p.SN,
           Follows(f, q)
    PROVE  Queue(Append(s, OnBus(f)), Len(s) + 1, m, sending, q)
<1>0. Len(s) \in Nat
    BY FramesNumbered
<1>1. PICK t : t = Append(s, OnBus(f))
    OBVIOUS
<1>2. /\ Len(t) = Len(s) + 1 /\ \A i \in 1 .. Len(s) : t[i] = s[i]
      /\ t[Len(s) + 1].frame = f
    BY <1>1, ChannelSends DEF Frames
<1>3. ASSUME NEW i \in 1 .. Len(s) + 1 PROVE t[i].frame.type = "CF" /\ t[i].frame.msg = m
    <2>1. i = Len(s) + 1 \/ i \in 1 .. Len(s)
        BY <1>0
    <2> QED BY <1>2, <2>1 DEF Queue, Line
<1>4. ASSUME NEW i \in 1 .. Len(s) PROVE Follows(t[i].frame, t[i + 1].frame)
    <2>1. CASE i = Len(s)
        <3>1. Len(s) > 0 /\ Len(s) \in 1 .. Len(s)
            BY <1>0, <2>1
        <3>2. Follows(s[Len(s)].frame, p)
            BY <3>1 DEF Queue, Tip
        <3> QED BY <1>2, <2>1, <3>1, <3>2 DEF Follows
    <2>2. CASE i # Len(s)
        <3>1. i \in 1 .. Len(s) - 1 /\ i + 1 \in 1 .. Len(s)
            BY <1>0, <2>2
        <3> QED BY <1>2, <3>1 DEF Queue, Line
    <2> QED BY <2>1, <2>2
<1>5. Line(t, Len(s) + 1, m)
    <2>1. /\ Len(s) + 1 \in 0 .. Len(t) /\ (Len(s) + 1) - 1 = Len(s)
          /\ \A i : i \notin (Len(s) + 1) + 1 .. Len(t)
        BY <1>0, <1>2
    <2> QED BY <1>3, <1>4, <2>1 DEF Line
<1>6. Tip(t, Len(s) + 1, m, sending, q)
    <2>1. \A i : i \notin (Len(s) + 1) + 1 .. Len(t)
        BY <1>0, <1>2
    <2> QED BY <1>2, <2>1 DEF Tip
<1> QED BY <1>1, <1>5, <1>6 DEF Queue

(* The first frame is taken or lost, or time passes. *)
LEMMA QueueShortens ==
    ASSUME NEW s, NEW count, Frames(s, count), NEW c, NEW m, NEW sending, NEW p,
           Queue(s, c, m, sending, p), s # << >>
    PROVE  /\ c > 0 => Queue(Tail(s), c - 1, m, sending, p)
           /\ c = 0 => /\ Queue(Tail(s), 0, m, sending, p)
                       /\ Queue(Tail(s), 0, s[1].frame.msg, sending, p)
<1>0. /\ Len(s) \in Nat /\ c \in 0 .. Len(s) /\ Len(s) # 0
      /\ Len(s) - 1 \in Nat
    BY FramesNumbered, ChannelFrames DEF Queue, Line, Frames
<1>1. PICK t : t = Tail(s)
    OBVIOUS
<1>2. /\ Len(t) = Len(s) - 1 /\ \A i \in 1 .. Len(s) - 1 : t[i] = s[i + 1]
    BY <1>1, ChannelTakes DEF Frames
<1>3. ASSUME c > 0 PROVE Queue(t, c - 1, m, sending, p)
    <2>1. c - 1 \in 0 .. Len(t)
        BY <1>0, <1>2, <1>3
    <2>2. ASSUME NEW i \in 1 .. c - 1 PROVE t[i].frame.type = "CF" /\ t[i].frame.msg = m
        <3>1. i \in 1 .. Len(s) - 1 /\ i + 1 \in 1 .. c
            BY <1>0
        <3> QED BY <1>2, <3>1 DEF Queue, Line
    <2>3. ASSUME NEW i \in 1 .. (c - 1) - 1 PROVE Follows(t[i].frame, t[i + 1].frame)
        <3>1. i \in 1 .. Len(s) - 1 /\ i + 1 \in 1 .. Len(s) - 1 /\ i + 1 \in 1 .. c - 1
            BY <1>0
        <3> QED BY <1>2, <3>1 DEF Queue, Line
    <2>4. ASSUME NEW i \in (c - 1) + 1 .. Len(t)
          PROVE  /\ t[i] = s[i + 1] /\ i + 1 \in c + 1 .. Len(s)
        <3>1. i \in 1 .. Len(s) - 1 /\ i + 1 \in c + 1 .. Len(s)
            BY <1>0, <1>2, <1>3
        <3> QED BY <1>2, <3>1
    <2>5. \A i \in (c - 1) + 1 .. Len(t), j \in (c - 1) + 1 .. Len(t) :
              i < j => t[i].frame.msg < t[j].frame.msg
        <3> SUFFICES ASSUME NEW i \in (c - 1) + 1 .. Len(t), NEW j \in (c - 1) + 1 .. Len(t),
                            i < j
                     PROVE  t[i].frame.msg < t[j].frame.msg
            OBVIOUS
        <3>1. i + 1 < j + 1
            BY <1>0
        <3> QED BY <2>4, <3>1 DEF Queue, Line
    <2>6. Line(t, c - 1, m)
        BY <2>1, <2>2, <2>3, <2>4, <2>5 DEF Queue, Line
    <2>7. ASSUME c - 1 > 0, sending = m PROVE Follows(t[c - 1].frame, p)
        <3>1. c - 1 \in 1 .. Len(s) - 1 /\ (c - 1) + 1 = c
            BY <1>0, <2>7
        <3>2. t[c - 1] = s[c]
            BY <1>2, <3>1
        <3> QED BY <1>3, <2>7, <3>2 DEF Queue, Tip
    <2>8. Tip(t, c - 1, m, sending, p)
        BY <2>4, <2>7 DEF Queue, Tip
    <2> QED BY <2>6, <2>8 DEF Queue
<1>4. ASSUME c = 0, NEW k, k = m \/ k = s[1].frame.msg PROVE Queue(t, 0, k, sending, p)
    <2>1. ASSUME NEW i \in 0 + 1 .. Len(t)
          PROVE  t[i] = s[i + 1] /\ i + 1 \in c + 1 .. Len(s) /\ 1 \in c + 1 .. Len(s) /\ 1 < i + 1
        <3>1. i \in 1 .. Len(s) - 1 /\ i + 1 \in c + 1 .. Len(s) /\ 1 < i + 1
              /\ 1 \in c + 1 .. Len(s)
            BY <1>0, <1>2, <1>4
        <3> QED BY <1>2, <3>1
    <2>2. \A i \in 0 + 1 .. Len(t) : t[i].frame.type # "CF" /\ k < t[i].frame.msg
        BY <1>4, <2>1 DEF Queue, Line
    <2>3. \A i \in 0 + 1 .. Len(t), j \in 0 + 1 .. Len(t) :
              i < j => t[i].frame.msg < t[j].frame.msg
        <3> SUFFICES ASSUME NEW i \in 0 + 1 .. Len(t), NEW j \in 0 + 1 .. Len(t), i < j
                     PROVE  t[i].frame.msg < t[j].frame.msg
            OBVIOUS
        <3>1. i + 1 < j + 1
            BY <1>0
        <3> QED BY <2>1, <3>1 DEF Queue, Line
    <2>4. 0 \in 0 .. Len(t) /\ (\A i : i \notin 1 .. 0) /\ \A i : i \notin 1 .. 0 - 1
        BY <1>0, <1>2
    <2>5. Line(t, 0, k)
        BY <2>2, <2>3, <2>4 DEF Line
    <2>6. Tip(t, 0, k, sending, p)
        BY <1>4, <2>1 DEF Queue, Tip
    <2> QED BY <2>5, <2>6 DEF Queue
<1> QED BY <1>1, <1>3, <1>4

LEMMA QueueAges ==
    ASSUME NEW s, NEW count, Frames(s, count), NEW c, NEW m, NEW sending, NEW p,
           Queue(s, c, m, sending, p)
    PROVE  Queue(Aged(s), c, m, sending, p)
<1>0. Len(s) \in Nat /\ c \in 0 .. Len(s)
    BY FramesNumbered DEF Queue, Line
<1>1. PICK t : t = Aged(s)
    OBVIOUS
<1>2. Len(t) = Len(s) /\ \A i \in 1 .. Len(s) : t[i].frame = s[i].frame
    BY <1>1, ChannelAges DEF Frames
<1>3. /\ \A i \in 1 .. c : i \in 1 .. Len(s)
      /\ \A i \in 1 .. c - 1 : i \in 1 .. Len(s) /\ i + 1 \in 1 .. Len(s)
      /\ \A i \in c + 1 .. Len(s) : i \in 1 .. Len(s)
      /\ c > 0 => c \in 1 .. Len(s)
    BY <1>0
<1>4. Line(t, c, m)
    BY <1>2, <1>3 DEF Queue, Line
<1>5. Tip(t, c, m, sending, p)
    BY <1>2, <1>3 DEF Queue, Tip
<1> QED BY <1>1, <1>4, <1>5 DEF Queue

(* The sender stops: no First Frame of its message may be on the way.       *)
LEMMA QueueStops ==
    ASSUME NEW s, NEW count, Frames(s, count), NEW c, NEW m \in 0 .. count, NEW sending, NEW p,
           NEW q, Queue(s, c, m, sending, p), c = Len(s)
    PROVE  Queue(s, c, m, 0, q)
<1>0. /\ Len(s) \in Nat /\ count \in Nat /\ c \in 0 .. Len(s)
      /\ \A i \in 1 .. Len(s) : s[i].frame.msg \in 1 .. count
    BY FramesNumbered DEF Queue, Line
<1>1. c > 0 => m # 0
    <2>1. c > 0 => 1 \in 1 .. Len(s) /\ 1 \in 1 .. c
        BY <1>0
    <2>2. c > 0 => s[1].frame.msg = m /\ s[1].frame.msg \in 1 .. count
        BY <1>0, <2>1 DEF Queue, Line
    <2> QED BY <1>0, <2>2
<1>2. \A i : i \notin c + 1 .. Len(s)
    BY <1>0
<1> QED BY <1>1, <1>2 DEF Queue, Tip

(* Behind the last message there is no opening frame. *)
LEMMA QueueOfLast ==
    ASSUME NEW s, NEW count, Frames(s, count), NEW c, NEW m, m = count, NEW sending, NEW p,
           Queue(s, c, m, sending, p)
    PROVE  c = Len(s)
<1>0. /\ Len(s) \in Nat /\ count \in Nat /\ c \in 0 .. Len(s)
      /\ \A i \in 1 .. Len(s) : s[i].frame.msg \in 1 .. count
    BY FramesNumbered DEF Queue, Line
<1>1. ASSUME c # Len(s) PROVE FALSE
    <2>1. Len(s) \in c + 1 .. Len(s) /\ Len(s) \in 1 .. Len(s)
        BY <1>0, <1>1
    <2>2. m < s[Len(s)].frame.msg /\ s[Len(s)].frame.msg \in 1 .. count
        BY <1>0, <2>1 DEF Queue, Line
    <2> QED BY <1>0, <2>2
<1> QED BY <1>1

(* An opening frame at the front: no Consecutive Frame is on the way, and a *)
(* First Frame is the only one there.                                       *)
LEMMA QueueFront ==
    ASSUME NEW s, NEW count, Frames(s, count), NEW c, NEW m, NEW sending, NEW p,
           Queue(s, c, m, sending, p), s # << >>, sending = 0 \/ sending = count
    PROVE  /\ 1 \in 1 .. Len(s)
           /\ s[1].frame.type = "CF" => c > 0 /\ s[1].frame.msg = m
           /\ s[1].frame.type # "CF" => c = 0 /\ m < s[1].frame.msg
           /\ s[1].frame.type = "FF" => /\ s[1].frame.msg = sending /\ Len(s) = 1
                                        /\ p.at = s[1].frame.n /\ p.SN = 1
<1>0. /\ Len(s) \in Nat /\ count \in Nat /\ c \in 0 .. Len(s) /\ Len(s) # 0
      /\ \A i \in 1 .. Len(s) : s[i].frame.msg \in 1 .. count
    BY FramesNumbered, ChannelFrames DEF Queue, Line, Frames
<1>1. 1 \in 1 .. Len(s)
    BY <1>0
<1>2. c > 0 => s[1].frame.type = "CF" /\ s[1].frame.msg = m
    <2>1. c > 0 => 1 \in 1 .. c
        BY <1>0
    <2> QED BY <2>1 DEF Queue, Line
<1>3. c = 0 => s[1].frame.type # "CF" /\ m < s[1].frame.msg
    <2>1. c = 0 => 1 \in c + 1 .. Len(s)
        BY <1>0
    <2> QED BY <2>1 DEF Queue, Line
<1>4. ASSUME s[1].frame.type = "FF"
      PROVE  s[1].frame.msg = sending /\ Len(s) = 1 /\ p.at = s[1].frame.n /\ p.SN = 1
    <2>1. c = 0 /\ 1 \in c + 1 .. Len(s)
        BY <1>0, <1>2, <1>4
    <2>2. s[1].frame.msg = sending /\ p.at = s[1].frame.n /\ p.SN = 1
        BY <1>4, <2>1 DEF Queue, Tip
    <2>3. sending = count
        BY <1>0, <1>1, <2>2
    <2>4. ASSUME Len(s) # 1 PROVE FALSE
        <3>1. 2 \in c + 1 .. Len(s) /\ 1 < 2 /\ 2 \in 1 .. Len(s)
            <4>1. \A n \in Nat : n # 0 /\ n # 1 => n >= 2
                OBVIOUS
            <4>2. Len(s) >= 2
                BY <1>0, <2>4, <4>1
            <4> QED BY <1>0, <2>1, <4>2
        <3>2. s[1].frame.msg < s[2].frame.msg
            BY <2>1, <3>1 DEF Queue, Line
        <3> QED BY <1>0, <1>1, <2>2, <2>3, <3>1, <3>2
    <2> QED BY <2>2, <2>4
<1> QED BY <1>0, <1>1, <1>2, <1>3, <1>4

-----------------------------------------------------------------------------
(* What the two count. *)

Sending == IF S!InProgress THEN sent ELSE 0
Place   == [at |-> send_offset, SN |-> send_sn]

(* The message being sent is the one the receiver is taking.                *)
Current == S!InProgress /\ message = sent

Coming == IF to_sender = << >> THEN 0 ELSE Head(to_sender).frame.BS

(* With c Consecutive Frames on the bus: what may still come of them.       *)
Pending(c) == c + IF Current THEN send_bs_remain + Coming ELSE 0

(* Nothing is missing: the next frame is the expected one, and the last one *)
(* is the last of the message.                                              *)
InStep(c) ==
    /\ c > 0 => /\ to_receiver[1].frame.at = receive_offset
                /\ to_receiver[1].frame.SN = receive_sn
    /\ c > 0 /\ ~Current => to_receiver[c].frame.at + to_receiver[c].frame.n = receive_size
    /\ c = 0 => IF Current THEN receive_offset = send_offset /\ receive_sn = send_sn
                ELSE receive_offset = receive_size

Accounts(c) ==
    Live => /\ Pending(c) <= invited
            /\ Pending(c) = invited => InStep(c)
            /\ faults = << >> /\ Current => Pending(c) = invited

Joint(c) == Queue(to_receiver, c, message, Sending, Place) /\ Accounts(c)

(* Whose turn it is: credit is for the message the receiver is taking; an   *)
(* invitation on its way finds a sender that waits for it and has not timed *)
(* out; a sender whose frame is on its way, or whose chunk the application  *)
(* has not taken, has waited no longer than that.                           *)
Turns ==
    /\ S!InProgress /\ message # sent => send_bs_remain = 0
    /\ to_sender # << >> =>
         /\ Current /\ Len(to_sender) = 1 /\ to_receiver = << >> /\ send_bs_remain = 0
         /\ age_bs <= MaxTransit + MaxHold + to_sender[1].age
    /\ S!InProgress /\ to_receiver # << >> => age_bs <= to_receiver[Len(to_receiver)].age
    /\ Holding /\ Current => age_bs <= MaxTransit + held

Agreed(c) == Prompt /\ BaseInv /\ Turns /\ Joint(c)

LEMMA AgreedBus ==
    ASSUME NEW c, Agreed(c)
    PROVE  /\ Frames(to_receiver, sent) /\ Queue(to_receiver, c, message, Sending, Place)
           /\ sent \in Nat /\ message \in 0 .. sent
           /\ c \in 0 .. Len(to_receiver) /\ Len(to_receiver) \in Nat /\ c \in Nat
           /\ to_receiver = << >> <=> Len(to_receiver) = 0
           /\ Sending \in 0 .. sent /\ (Sending = 0 \/ Sending = sent)
           /\ S!InProgress => sent \in 1 .. Len(Payloads) /\ Sending = sent /\ send_size = Payloads[sent]
           /\ ~S!InProgress => Sending = 0 /\ to_sender = << >>
           /\ Current => c = Len(to_receiver)
           /\ Place.at = send_offset /\ Place.SN = send_sn
<1>1. NetworkInv /\ Turns /\ Queue(to_receiver, c, message, Sending, Place)
    BY DEF Agreed, BaseInv, Joint
<1>2. /\ Channel(to_receiver) /\ sent \in 0 .. Len(Payloads) /\ message \in 0 .. sent
      /\ S!InProgress => sent > 0 /\ send_size = Payloads[sent]
      /\ \A i \in 1 .. Len(to_receiver) : FrameOf(to_receiver[i].frame, sent)
    BY <1>1 DEF NetworkInv, BusInv, SenderInv, ReceiverInv, Frame, DataFrame
<1>3. Len(Payloads) \in Nat
    BY NetworkConstants
<1>4. Frames(to_receiver, sent) /\ sent \in Nat
    BY <1>2, <1>3 DEF Frames
<1>5. c \in 0 .. Len(to_receiver) /\ Len(to_receiver) \in Nat
      /\ (to_receiver = << >> <=> Len(to_receiver) = 0)
    BY <1>1, <1>2, ChannelFrames DEF Queue, Line
<1>6. Sending \in 0 .. sent /\ (Sending = 0 \/ Sending = sent)
    BY <1>4 DEF Sending
<1>7. ~S!InProgress => Sending = 0 /\ to_sender = << >>
    BY <1>1 DEF Sending, Turns, Current
<1>8. Current => c = Len(to_receiver)
    <2>1. ASSUME Current PROVE c = Len(to_receiver)
        <3>1. message = sent
            BY <2>1 DEF Current
        <3> QED BY <1>1, <1>4, <3>1, QueueOfLast
    <2> QED BY <2>1
<1>9. S!InProgress => sent \in 1 .. Len(Payloads) /\ Sending = sent
    BY <1>2, <1>3 DEF Sending
<1>10. Place.at = send_offset /\ Place.SN = send_sn
    BY DEF Place
<1>11. c \in Nat
    BY <1>5
<1> QED BY <1>1, <1>2, <1>4, <1>5, <1>6, <1>7, <1>8, <1>9, <1>10, <1>11

LEMMA AgreedCounts ==
    ASSUME NEW c, Agreed(c)
    PROVE  /\ send_bs_remain \in 0 .. 255 /\ Coming \in 0 .. 255
           /\ to_sender # << >> => /\ Head(to_sender) = to_sender[1] /\ to_sender[1].age \in Nat
                                   /\ Coming > 0 /\ Head(to_sender).frame \in Invitations
           /\ age_bs \in Nat /\ held \in Nat
           /\ Live => /\ invited \in 0 .. 255 /\ receive_size = Payloads[message] /\ rx_dl = Dl
                      /\ message \in 1 .. sent
           /\ R!Receiving => invited > 0 /\ invited = receive_bs_count
           /\ R!Receiving /\ receive_streaming => invited = 1
           /\ Holding => invited = 0 /\ held <= MaxHold
           /\ Pending(c) \in Nat /\ (c > 0 => Pending(c) >= 1)
           /\ \A i \in 1 .. Len(to_receiver) : /\ to_receiver[i].age \in Nat
                                               /\ to_receiver[i].age <= MaxTransit
           /\ \A i \in 1 .. Len(to_sender) : to_sender[i].age <= MaxTransit
           /\ MaxTransit \in Nat /\ MaxHold \in Nat
           /\ RESPONSE_TIMEOUT_US \in Nat /\ 2 * MaxTransit + MaxHold <= RESPONSE_TIMEOUT_US
<1>1. NetworkInv /\ Timing /\ Rates /\ Prompt /\ Joint(c)
    BY DEF Agreed, BaseInv
<1>2. /\ SP!IInv /\ RP!IInv /\ message \in 0 .. sent /\ sent \in Nat
      /\ Live => message > 0 /\ receive_size = Payloads[message] /\ rx_dl = Dl
    BY <1>1, AgreedBus DEF NetworkInv, SenderInv, ReceiverInv
<1>3. to_sender # << >> => /\ Head(to_sender) = to_sender[1] /\ to_sender[1].age \in Nat
                           /\ Head(to_sender).frame \in Invitations
    BY <1>1, FirstInvitation DEF Answer
<1>4. /\ to_sender # << >> => Coming \in 1 .. 255
      /\ to_sender = << >> => Coming = 0
    BY <1>1, <1>3, InvitationFields DEF Coming
<1>14. Coming \in 0 .. 255 /\ (to_sender # << >> => Coming > 0)
    <2>1. CASE to_sender = << >>
        BY <1>4, <2>1
    <2>2. CASE to_sender # << >>
        <3>1. PICK k \in 1 .. 255 : k = Coming
            BY <1>4, <2>2
        <3>2. k \in 0 .. 255 /\ k > 0
            OBVIOUS
        <3> QED BY <3>1, <3>2
    <2> QED BY <2>1, <2>2
<1>5. age_bs \in Nat
    BY <1>2 DEF SP!IInv, SP!TypeOK, SP!HistoryType
<1>6. /\ send_bs_remain \in 0 .. 255
      /\ Live => invited \in 0 .. 255
    BY <1>1 DEF Rates
<1>7. /\ R!Receiving => /\ invited > 0
                        /\ (invited # RP!INVALID_BS => invited = receive_bs_count)
                        /\ (receive_streaming => invited = 1)
      /\ Holding => invited = 0
    BY <1>2, SameReceiveInvariants, SameHandling
    DEF RP!IInv, RP!Invitations, R!NeverWaitsUninvited, R!StreamBackpressure, Holding
<1>8. R!Receiving => invited = receive_bs_count
    BY <1>6, <1>7 DEF Live, RP!INVALID_BS
<1>9. held \in Nat /\ (Holding => held <= MaxHold)
    BY <1>1 DEF Timing
<1>10. /\ \A i \in 1 .. Len(to_receiver) : /\ to_receiver[i].age \in Nat
                                           /\ to_receiver[i].age <= MaxTransit
       /\ \A i \in 1 .. Len(to_sender) : to_sender[i].age <= MaxTransit
    BY <1>1, ChannelFrames DEF NetworkInv, BusInv, Timing, OnTime
<1>11. /\ c > 0 => Pending(c) >= 1
       /\ Pending(c) \in Nat
    <2>1. c \in Nat
        BY AgreedBus
    <2>2. Pending(c) = c + 0 \/ Pending(c) = c + (send_bs_remain + Coming)
        BY DEF Pending
    <2>3. Coming \in Nat
        BY <1>14
    <2> QED BY <1>6, <2>1, <2>2, <2>3
<1>12. /\ MaxTransit \in Nat /\ MaxHold \in Nat /\ RESPONSE_TIMEOUT_US \in Nat
       /\ 2 * MaxTransit + MaxHold <= RESPONSE_TIMEOUT_US
    BY <1>1, NetworkConstants DEF Prompt
<1>13. Live => message \in 1 .. sent
    BY <1>2
<1> QED BY <1>2, <1>3, <1>4, <1>5, <1>6, <1>7, <1>8, <1>9, <1>10, <1>11, <1>12, <1>13, <1>14

-----------------------------------------------------------------------------
(* A step of one side leaves what the other side counts with alone.         *)

SenderStays ==
    UNCHANGED <<send_status, send_offset, send_sn, send_bs_remain, sent, age_bs>>
ReceiverStays ==
    UNCHANGED <<receive_status, receive_streaming, receive_offset, receive_size, receive_sn,
                message, invited>>

LEMMA Staying ==
    /\ SenderStays => /\ S!InProgress' <=> S!InProgress
                      /\ Sending' = Sending /\ Place' = Place
    /\ ReceiverStays => /\ Live' <=> Live
                        /\ Holding' <=> Holding
                        /\ R!Receiving' <=> R!Receiving
    /\ SenderStays /\ message' = message => (Current' <=> Current)
    /\ SenderRests /\ UNCHANGED sent => SenderStays
    /\ ReceiverRests => ReceiverStays
BY DEF SenderStays, ReceiverStays, S!InProgress, Sending, Place, Live, Holding, R!Receiving,
       Current, SenderRests, ReceiverRests, sender, receiver

LEMMA Counting ==
    ASSUME NEW d
    PROVE  /\ Current => Pending(d) = d + (send_bs_remain + Coming)
           /\ ~Current => Pending(d) = d + 0
           /\ Current' => Pending(d)' = d + (send_bs_remain' + Coming')
           /\ ~Current' => Pending(d)' = d + 0
           /\ to_sender = << >> => Coming = 0
           /\ to_sender' = << >> => Coming' = 0
           /\ UNCHANGED to_sender => Coming' = Coming
BY DEF Pending, Coming

LEMMA AccountsKept ==
    ASSUME NEW c \in Nat, Accounts(c), ReceiverStays, Current' <=> Current,
           Current => UNCHANGED <<send_offset, send_sn, send_bs_remain>> /\ Coming' = Coming,
           \A i \in 1 .. c : to_receiver'[i].frame = to_receiver[i].frame,
           faults' = << >> => faults = << >>
    PROVE  Accounts(c)'
<1>1. Pending(c)' = Pending(c)
    BY Counting DEF Pending
<1>2. InStep(c) => InStep(c)'
    <2>1. c > 0 => 1 \in 1 .. c /\ c \in 1 .. c
        OBVIOUS
    <2>2. UNCHANGED <<receive_offset, receive_size, receive_sn>>
        BY DEF ReceiverStays
    <2> QED BY <2>1, <2>2 DEF InStep
<1>3. (Live' <=> Live) /\ invited' = invited
    BY Staying DEF ReceiverStays
<1> QED BY <1>1, <1>2, <1>3 DEF Accounts

(* Fewer frames may still come than are invited: a frame is missing.        *)
LEMMA AccountsSlack ==
    ASSUME NEW d \in Nat, Live' => Pending(d)' < invited', Live' => invited' \in Nat,
           Pending(d)' \in Nat, ~(faults' = << >> /\ Current')
    PROVE  Accounts(d)'
BY DEF Accounts

(* An opening frame is put on the bus: its message is a new one. *)
LEMMA PayloadOnBus ==
    ASSUME NEW c, Agreed(c), SendPayload
    PROVE  /\ ~S!InProgress
           /\ send_status # "ERROR" => send_status' # "ERROR"
           /\ \E f : /\ to_receiver' = Append(to_receiver, OnBus(f)) /\ f.msg = sent + 1
                    /\ \/ f.type = "SF" /\ ~S!InProgress'
                       \/ /\ f.type = "FF" /\ S!InProgress'
                          /\ send_offset' = f.n /\ send_sn' = 1 /\ send_bs_remain' = 0
                          /\ age_bs' = 0
<1>0. tx_dl = DEFAULT_TX_DL /\ sent \in Nat
    BY AgreedBus DEF Agreed, BaseInv, NetworkInv, SenderInv
<1>1. sent' = sent + 1 /\ DataSent(sent', 0) /\ sent < Len(Payloads)
    BY DEF SendPayload
<1>2. PICK size : size = Payloads[sent'] /\ size \in Nat
    BY <1>0, <1>1, NetworkConstants
<1>3. PICK m : m = sent'
    OBVIOUS
<1>4. CASE S!SendSingleFrame(size, "OK")
    <2>1. /\ size <= SfMaxPayload(Dl) /\ can_tx' = SingleFrame(size)
          /\ ~S!InProgress /\ ~S!InProgress' /\ send_status' = send_status
        BY <1>0, <1>4, SendsSingleFrame
    <2>2. can_tx'.type = "SF" /\ can_tx' # NoFrame
        BY <2>1 DEF SingleFrame, NoFrame
    <2>3. Carrying(can_tx', m, 0).msg = m /\ Carrying(can_tx', m, 0).type = "SF"
        BY <1>2, <2>1, <2>2, CarryingFields, CarryingFrames, FramesOfDl
    <2> QED BY <1>1, <1>3, <2>1, <2>2, <2>3 DEF DataSent
<1>5. CASE S!SendFirstFrame(size, "OK")
    <2>1. /\ size > SfMaxPayload(Dl) /\ can_tx' = FirstFrame(size, Dl)
          /\ send_offset' = can_tx'.n /\ send_sn' = 1
          /\ send_bs_remain' = 0 /\ age_bs' = 0 /\ send_status' = "INPROGRESS"
          /\ ~S!InProgress /\ S!InProgress'
        BY <1>0, <1>2, <1>5, SendsFirstFrame
    <2>2. can_tx'.type = "FF" /\ can_tx' # NoFrame
        BY <2>1 DEF FirstFrame, NoFrame
    <2>3. /\ Carrying(can_tx', m, 0).msg = m /\ Carrying(can_tx', m, 0).type = "FF"
          /\ Carrying(can_tx', m, 0).n = can_tx'.n
        BY <1>2, <2>1, <2>2, CarryingFields, CarryingFrames, FramesOfDl
    <2> QED BY <1>1, <1>3, <2>1, <2>2, <2>3 DEF DataSent
<1> QED BY <1>2, <1>4, <1>5 DEF SendPayload

LEMMA PayloadAgrees ==
    ASSUME NEW c, Agreed(c), SendPayload
    PROVE  Turns' /\ Joint(c)'
<1>0. Turns /\ Joint(c)
    BY DEF Agreed
<1>1. /\ Frames(to_receiver, sent) /\ Queue(to_receiver, c, message, Sending, Place)
      /\ sent \in Nat /\ message \in 0 .. sent /\ c \in 0 .. Len(to_receiver)
      /\ Len(to_receiver) \in Nat /\ c \in Nat
      /\ ~S!InProgress => Sending = 0 /\ to_sender = << >>
    BY AgreedBus
<1>2. /\ sent' = sent + 1 /\ ReceiverStays
      /\ UNCHANGED to_sender /\ UNCHANGED faults
    BY Staying DEF SendPayload
<1>3. message' = message
    BY <1>2 DEF ReceiverStays
<1>4. ~Current'
    BY <1>1, <1>2, <1>3 DEF Current
<1>5. ~S!InProgress
    BY PayloadOnBus
<1>6. PICK f : /\ to_receiver' = Append(to_receiver, OnBus(f)) /\ f.msg = sent + 1
               /\ \/ f.type = "SF" /\ ~S!InProgress'
                  \/ /\ f.type = "FF" /\ S!InProgress'
                     /\ send_offset' = f.n /\ send_sn' = 1 /\ send_bs_remain' = 0
                     /\ age_bs' = 0
    BY PayloadOnBus
<1>7. /\ Len(to_receiver') = Len(to_receiver) + 1
      /\ \A i \in 1 .. Len(to_receiver) : to_receiver'[i] = to_receiver[i]
      /\ to_receiver'[Len(to_receiver')].age = 0
    BY <1>1, <1>6, ChannelSends DEF Frames
<1>8. Queue(to_receiver', c, message', Sending', Place')
    <2>1. PICK q, sending, p : q = Place' /\ sending = Sending' /\ p = Place
        OBVIOUS
    <2>2. f.type = "FF" => sending = f.msg /\ q.at = f.n /\ q.SN = 1
        BY <1>2, <1>6, <2>1 DEF Sending, Place
    <2>3. f.type = "SF" => sending = 0
        BY <1>6, <2>1 DEF Sending
    <2>4. Queue(to_receiver, c, message, 0, p)
        BY <1>1, <1>5, <2>1
    <2>5. Queue(Append(to_receiver, OnBus(f)), c, message, sending, q)
        BY <1>1, <1>6, <2>2, <2>3, <2>4, QueueOpens
    <2> QED BY <1>3, <1>6, <2>1, <2>5
<1>9. Accounts(c)'
    <2>1. ~Current
        BY <1>5 DEF Current
    <2>2. \A i \in 1 .. c : to_receiver'[i].frame = to_receiver[i].frame
        BY <1>1, <1>7
    <2> QED BY <1>0, <1>1, <1>2, <1>4, <2>1, <2>2, AccountsKept DEF Joint
<1>10. Turns'
    <2>1. to_sender' = << >>
        BY <1>1, <1>2, <1>5
    <2>2. S!InProgress' => send_bs_remain' = 0 /\ age_bs' <= to_receiver'[Len(to_receiver')].age
        BY <1>6, <1>7
    <2> QED BY <1>4, <2>1, <2>2 DEF Turns
<1> QED BY <1>8, <1>9, <1>10 DEF Joint

(* A transmission is given up for lack of an answer only when it is late.   *)
LEMMA NotEarly ==
    ASSUME NEW c, Agreed(c), Next, S!InProgress,
           send_status' = "ERROR", send_protocol_result' = "TIMEOUT_BS"
    PROVE  age_bs' > RESPONSE_TIMEOUT_US
<1>1. /\ Punctual /\ NetworkInv /\ SP!TimerInv
    BY DEF Agreed, BaseInv, TimersInv, Prompt
<1>2. SenderMoves
    BY <1>1, SenderSteps
<1>3. SP!TimedOut
    BY SameSendLife DEF SP!TimedOut
<1> QED BY <1>1, <1>2, <1>3, SenderTimer

(* A Consecutive Frame is put on the bus.  It is the one the receiver will  *)
(* expect if no frame before it is missing.                                 *)
LEMMA FrameSentAgrees ==
    ASSUME NEW c, Agreed(c), SenderPolls, S!PollAccepted(0)
    PROVE  /\ Turns' /\ Joint(c + 1)'
           /\ Live /\ InStep(c) => InStep(c + 1)'
           /\ Current /\ c \in Nat /\ to_sender' = << >> /\ send_status' # "ERROR"
           /\ to_receiver'[c + 1].age = 0
           /\ c > 0 => to_receiver'[1] = to_receiver[1]
           /\ c = 0 => to_receiver'[1].frame.at = send_offset
           /\ Pending(c + 1)' <= Pending(c)
<1>0. /\ Turns /\ Joint(c) /\ tx_dl = DEFAULT_TX_DL /\ Prompt /\ SP!IInv /\ Next
    BY DEF Agreed, BaseInv, NetworkInv, SenderInv, Next
<1>1. /\ Frames(to_receiver, sent) /\ Queue(to_receiver, c, message, Sending, Place)
      /\ sent \in Nat /\ message \in 0 .. sent /\ c \in 0 .. Len(to_receiver)
      /\ Len(to_receiver) \in Nat /\ c \in Nat
      /\ S!InProgress => sent \in 1 .. Len(Payloads) /\ Sending = sent /\ send_size = Payloads[sent]
      /\ Current => c = Len(to_receiver)
      /\ Place.at = send_offset /\ Place.SN = send_sn
    BY AgreedBus
<1>2. /\ send_bs_remain \in 0 .. 255 /\ held \in Nat /\ MaxTransit \in Nat
      /\ Live => invited \in 0 .. 255 /\ receive_size = Payloads[message]
      /\ RESPONSE_TIMEOUT_US \in Nat
    BY AgreedCounts
<1>3. /\ S!InProgress /\ send_bs_remain # 0
      /\ send_size - send_offset \in Nat /\ send_size - send_offset > 0
      /\ can_tx' = ConsecutiveFrame(send_sn, send_size - send_offset, Dl)
      /\ send_offset' = send_offset + can_tx'.n /\ send_sn' = NextSn(send_sn)
      /\ send_bs_remain' = IF send_bs_remain = INVALID_BS THEN INVALID_BS
                           ELSE send_bs_remain - 1
      /\ age_bs' = 0
      /\ \/ send_status' = "ERROR" /\ send_protocol_result' = "TIMEOUT_BS"
         \/ send_status' = IF send_offset' >= send_size THEN "IDLE" ELSE "INPROGRESS"
    BY <1>0, SendsConsecutiveFrame
<1>4. /\ DataSent(sent, send_offset) /\ ReceiverStays /\ sent' = sent
      /\ UNCHANGED <<to_sender, held, faults>>
    BY Staying DEF SenderPolls
<1>5. message' = message
    BY <1>4 DEF ReceiverStays
<1>6. /\ message = sent /\ Current /\ to_sender = << >> /\ c = Len(to_receiver)
      /\ Sending = message
    BY <1>0, <1>1, <1>3 DEF Turns, Current
<1>7. send_bs_remain' = send_bs_remain - 1 /\ send_bs_remain > 0
    BY <1>2, <1>3 DEF INVALID_BS
<1>8. send_status' = IF send_offset' >= send_size THEN "IDLE" ELSE "INPROGRESS"
    <2>1. ~(send_status' = "ERROR" /\ send_protocol_result' = "TIMEOUT_BS")
        BY <1>0, <1>2, <1>3, NotEarly
    <2> QED BY <1>3, <2>1
<1>9. /\ send_offset \in Nat /\ send_sn \in 0 .. 15 /\ send_size \in Nat
      /\ send_offset < Payloads[sent] /\ sent \in 1 .. Len(Payloads)
      /\ send_size = Payloads[sent]
    <2>1. send_offset \in Nat /\ send_sn \in 0 .. 15 /\ send_size \in Nat
        BY <1>0 DEF SP!IInv, SP!TypeOK, SP!SegmentType
    <2> QED BY <1>1, <1>3, <2>1
<1>10. PICK f : f = Carrying(can_tx', sent, send_offset)
    OBVIOUS
<1>11. /\ f.type = "CF" /\ f.msg = sent /\ f.at = send_offset /\ f.SN = send_sn
       /\ f.n = can_tx'.n /\ can_tx' # NoFrame
    <2>1. /\ can_tx'.type = "CF" /\ can_tx'.SN = send_sn /\ can_tx' # NoFrame
        BY <1>3 DEF ConsecutiveFrame, NoFrame
    <2> QED BY <1>3, <1>10, <2>1, CarryingFields, CarryingFrames
<1>12. FrameOf(f, sent)
    BY <1>3, <1>9, <1>10, ConsecutiveFrameOf
<1>13. f.n \in Int /\ f.at + f.n <= Payloads[sent] /\ send_offset' = f.at + f.n
    <2>1. f.n \in Nat
        BY <1>11, <1>12 DEF FrameOf, R!FrameType
    <2> QED BY <1>3, <1>11, <1>12, <2>1 DEF FrameOf
<1>14. to_receiver' = Append(to_receiver, OnBus(f))
    BY <1>4, <1>10, <1>11 DEF DataSent
<1>15. /\ Len(to_receiver') = c + 1
       /\ \A i \in 1 .. c : to_receiver'[i] = to_receiver[i]
       /\ to_receiver'[c + 1].frame = f
       /\ to_receiver'[Len(to_receiver')].age = 0
    BY <1>1, <1>6, <1>14, ChannelSends DEF Frames
<1>16. Queue(to_receiver', c + 1, message', Sending', Place')
    <2>1. PICK q, sending, p : q = Place' /\ sending = Sending' /\ p = Place
        OBVIOUS
    <2>2. Follows(f, q)
        BY <1>3, <1>11, <1>13, <2>1 DEF Follows, Place
    <2>3. Queue(to_receiver, Len(to_receiver), message, message, p)
        BY <1>1, <1>6, <2>1
    <2>4. f.at = p.at /\ f.SN = p.SN /\ f.msg = message
        BY <1>1, <1>6, <1>11, <2>1
    <2>5. Queue(Append(to_receiver, OnBus(f)), Len(to_receiver) + 1, message, sending, q)
        BY <1>1, <1>11, <2>2, <2>3, <2>4, QueueGoesOn
    <2> QED BY <1>5, <1>6, <1>14, <2>1, <2>5
<1>17. ASSUME Live, InStep(c) PROVE InStep(c + 1)'
    <2>1. UNCHANGED <<receive_offset, receive_size, receive_sn>>
        BY <1>4 DEF ReceiverStays
    <2>2. c + 1 > 0 /\ c + 1 # 0
        BY <1>1
    <2>3. /\ to_receiver'[1].frame.at = receive_offset
          /\ to_receiver'[1].frame.SN = receive_sn
        <3>1. CASE c = 0
            BY <1>6, <1>11, <1>15, <1>17, <3>1 DEF InStep
        <3>2. CASE c # 0
            <4>1. c > 0 /\ 1 \in 1 .. c
                BY <1>1, <3>2
            <4> QED BY <1>15, <1>17, <4>1 DEF InStep
        <3> QED BY <3>1, <3>2
    <2>4. ~Current' => to_receiver'[c + 1].frame.at + to_receiver'[c + 1].frame.n = receive_size
        <3>1. ASSUME ~Current' PROVE f.at + f.n = receive_size
            <4>1. send_status' # "INPROGRESS"
                BY <1>4, <1>5, <1>6, <3>1 DEF Current, S!InProgress
            <4>2. send_offset' >= send_size
                BY <1>8, <4>1
            <4>3. receive_size = Payloads[sent]
                BY <1>2, <1>6, <1>17
            <4> QED BY <1>9, <1>11, <1>13, <4>2, <4>3
        <3> QED BY <1>15, <3>1
    <2> QED BY <2>1, <2>2, <2>3, <2>4 DEF InStep
<1>18. /\ Current' => Pending(c + 1)' = Pending(c)
       /\ Pending(c + 1)' <= Pending(c) /\ Pending(c) \in Nat /\ Pending(c + 1)' \in Nat
    <2>1. /\ Pending(c) = c + (send_bs_remain + 0)
          /\ Current' => Pending(c + 1)' = (c + 1) + (send_bs_remain' + 0)
          /\ ~Current' => Pending(c + 1)' = (c + 1) + 0
        BY <1>4, <1>6, Counting
    <2> QED BY <1>1, <1>2, <1>7, <2>1
<1>19. Accounts(c + 1)'
    <2> SUFFICES ASSUME Live'
                 PROVE  /\ Pending(c + 1)' <= invited'
                        /\ Pending(c + 1)' = invited' => InStep(c + 1)'
                        /\ faults' = << >> /\ Current' => Pending(c + 1)' = invited'
        BY DEF Accounts
    <2>1. Live /\ invited' = invited /\ invited \in 0 .. 255
        BY <1>2, <1>4, Staying DEF ReceiverStays
    <2>2. Pending(c) <= invited /\ (Pending(c) = invited => InStep(c))
          /\ (faults = << >> => Pending(c) = invited)
        BY <1>0, <1>6, <2>1 DEF Joint, Accounts
    <2> QED BY <1>4, <1>17, <1>18, <2>1, <2>2
<1>20. Turns'
    <2>1. to_sender' = << >> /\ message' = sent'
        BY <1>4, <1>5, <1>6
    <2>2. age_bs' = 0 /\ held' \in Nat /\ age_bs' <= to_receiver'[Len(to_receiver')].age
        BY <1>2, <1>3, <1>4, <1>15
    <2>3. age_bs' <= MaxTransit + held'
        <3>1. age_bs' = 0 /\ held' \in Nat /\ MaxTransit \in Nat
            BY <1>2, <2>2
        <3>2. PICK h \in Nat, t \in Nat : h = held' /\ t = MaxTransit
            BY <3>1
        <3>3. 0 <= t + h
            OBVIOUS
        <3> QED BY <3>1, <3>2, <3>3
    <2> QED BY <2>1, <2>2, <2>3 DEF Turns
<1>21. c > 0 => to_receiver'[1] = to_receiver[1]
    <2>1. c > 0 => 1 \in 1 .. c
        BY <1>1
    <2> QED BY <1>15, <2>1
<1>22. send_status' # "ERROR"
    BY <1>8
<1>23. c = 0 => to_receiver'[1].frame.at = send_offset
    BY <1>11, <1>15
<1> QED BY <1>1, <1>4, <1>6, <1>15, <1>16, <1>17, <1>18, <1>19, <1>20, <1>21, <1>22, <1>23
        DEF Joint


LEMMA FaultHappens ==
    ASSUME NetworkInv, NEW kind, Fault(kind)
    PROVE  /\ faults' # << >>
           /\ \A k \in FaultKinds : k = kind =>
                 kind \in Range(faults') /\ Range(faults) \subseteq Range(faults')
<1>1. faults \in Seq(FaultKinds) /\ faults' = Append(faults, kind)
    BY DEF NetworkInv, Fault
<1>2. PICK s \in Seq(FaultKinds) : s = faults
    BY <1>1
<1>3. ASSUME NEW k, k = kind
      PROVE  /\ Len(Append(s, k)) = Len(s) + 1 /\ Len(s) \in Nat
             /\ DOMAIN Append(s, k) = 1 .. Len(s) + 1
             /\ Append(s, k)[Len(s) + 1] = k
             /\ \A i \in 1 .. Len(s) : Append(s, k)[i] = s[i]
             /\ DOMAIN s = 1 .. Len(s)
    OBVIOUS
<1>4. PICK n \in Nat : n = Len(s)
    BY <1>3
<1>5. n + 1 \in 1 .. n + 1 /\ \A i \in 1 .. n : i \in 1 .. n + 1
    OBVIOUS
<1>6. faults' # << >>
    <2>1. Len(faults') # 0
        BY <1>1, <1>2, <1>3, <1>4
    <2> QED BY <2>1
<1>7. kind \in Range(faults') /\ Range(faults) \subseteq Range(faults')
    BY <1>1, <1>2, <1>3, <1>4, <1>5 DEF Range
<1> QED BY <1>6, <1>7

(* A sender that has waited for longer than its timeout waits in vain. *)
LEMMA LateSender ==
    ASSUME NEW c, Agreed(c), S!InProgress, age_bs > RESPONSE_TIMEOUT_US
    PROVE  to_receiver = << >> /\ to_sender = << >> /\ ~(Holding /\ Current)
<1>0. Turns
    BY DEF Agreed
<1>1. /\ Len(to_receiver) \in Nat
      /\ to_receiver = << >> <=> Len(to_receiver) = 0
    BY AgreedBus
<1>2. /\ held \in Nat /\ MaxTransit \in Nat /\ MaxHold \in Nat /\ age_bs \in Nat
      /\ Holding => held <= MaxHold
      /\ \A i \in 1 .. Len(to_receiver) : /\ to_receiver[i].age \in Nat
                                          /\ to_receiver[i].age <= MaxTransit
      /\ \A i \in 1 .. Len(to_sender) : to_sender[i].age <= MaxTransit
      /\ to_sender # << >> => to_sender[1].age \in Nat
      /\ RESPONSE_TIMEOUT_US \in Nat /\ 2 * MaxTransit + MaxHold <= RESPONSE_TIMEOUT_US
    BY AgreedCounts
<1>3. age_bs > MaxTransit /\ age_bs > 2 * MaxTransit + MaxHold
    BY <1>2
<1>4. ASSUME to_receiver # << >> PROVE FALSE
    <2>1. Len(to_receiver) \in 1 .. Len(to_receiver)
        BY <1>1, <1>4
    <2>2. age_bs <= to_receiver[Len(to_receiver)].age
        BY <1>0, <1>4 DEF Turns
    <2> QED BY <1>2, <1>3, <2>1, <2>2
<1>5. ASSUME to_sender # << >> PROVE FALSE
    <2>1. /\ 1 \in 1 .. Len(to_sender)
          /\ age_bs <= MaxTransit + MaxHold + to_sender[1].age
        BY <1>0, <1>5 DEF Turns
    <2>2. to_sender[1].age <= MaxTransit /\ to_sender[1].age \in Nat
        BY <1>2, <1>5, <2>1
    <2> QED BY <1>2, <1>3, <2>1, <2>2
<1>6. ASSUME Holding, Current PROVE FALSE
    <2>1. age_bs <= MaxTransit + held /\ held <= MaxHold
        BY <1>0, <1>2, <1>6 DEF Turns
    <2> QED BY <1>2, <1>3, <2>1
<1> QED BY <1>4, <1>5, <1>6

LEMMA NothingSentAgrees ==
    ASSUME NEW c, Agreed(c), SenderPolls \/ DriverFails,
           S!PollNoSpace(0) \/ S!PollFailed(0) \/ S!PollWaiting(0)
    PROVE  Turns' /\ Joint(c)'
<1>0. /\ Turns /\ Joint(c) /\ Prompt /\ SP!IInv /\ Next /\ NetworkInv
    BY DEF Agreed, BaseInv, NetworkInv, SenderInv, Next
<1>1. /\ Frames(to_receiver, sent) /\ Queue(to_receiver, c, message, Sending, Place)
      /\ sent \in Nat /\ message \in 0 .. sent /\ c \in 0 .. Len(to_receiver)
      /\ Len(to_receiver) \in Nat /\ c \in Nat
      /\ to_receiver = << >> <=> Len(to_receiver) = 0
      /\ Current => c = Len(to_receiver)
    BY AgreedBus
<1>2. /\ send_bs_remain \in 0 .. 255 /\ held \in Nat /\ MaxTransit \in Nat /\ MaxHold \in Nat
      /\ age_bs \in Nat
      /\ Live => invited \in 0 .. 255
      /\ R!Receiving => invited > 0
      /\ Holding => held <= MaxHold
      /\ \A i \in 1 .. Len(to_receiver) : /\ to_receiver[i].age \in Nat
                                          /\ to_receiver[i].age <= MaxTransit
      /\ \A i \in 1 .. Len(to_sender) : to_sender[i].age <= MaxTransit
      /\ to_sender # << >> => to_sender[1].age \in Nat
      /\ RESPONSE_TIMEOUT_US \in Nat /\ 2 * MaxTransit + MaxHold <= RESPONSE_TIMEOUT_US
    BY AgreedCounts
<1>3. /\ S!InProgress /\ can_tx' = NoFrame
      /\ ~S!PollWaiting(0) => send_bs_remain # 0
      /\ \/ send_status' = "ERROR" /\ send_protocol_result' = "TIMEOUT_BS"
         \/ UNCHANGED <<send_status, send_protocol_result>>
         \/ S!PollFailed(0) /\ send_status' = "ERROR"
      /\ age_bs' = age_bs
      /\ UNCHANGED <<send_offset, send_sn, send_bs_remain>>
    BY <1>0, SendsNothing
<1>4. /\ UNCHANGED <<to_receiver, to_sender, sent, held>> /\ ReceiverStays
      /\ faults' = << >> => faults = << >>
    <2>1. CASE SenderPolls
        BY <1>3, <2>1, Staying DEF SenderPolls, DataSent
    <2>2. CASE DriverFails
        <3>1. UNCHANGED <<to_receiver, to_sender, sent, held>> /\ ReceiverStays
            BY <2>2, Staying DEF DriverFails, bus
        <3>2. faults' # << >>
            BY <1>0, <2>2, FaultHappens DEF DriverFails
        <3> QED BY <3>1, <3>2
    <2> QED BY <2>1, <2>2
<1>5. message' = message
    BY <1>4 DEF ReceiverStays
<1>6. CASE UNCHANGED send_status
    <2>1. SenderStays
        BY <1>3, <1>4, <1>6 DEF SenderStays
    <2>2. (Current' <=> Current) /\ Sending' = Sending /\ Place' = Place /\ Coming' = Coming
        BY <1>4, <1>5, <2>1, Staying, Counting
    <2>3. Accounts(c)'
        BY <1>0, <1>1, <1>3, <1>4, <2>2, AccountsKept DEF Joint
    <2>4. Queue(to_receiver', c, message', Sending', Place')
        BY <1>1, <1>4, <1>5, <2>2
    <2>5. (S!InProgress' <=> S!InProgress) /\ (Holding' <=> Holding)
        BY <1>4, <2>1, Staying
    <2>6. Turns'
        BY <1>0, <1>3, <1>4, <1>5, <2>2, <2>5 DEF Turns
    <2> QED BY <2>3, <2>4, <2>6 DEF Joint
<1>7. CASE send_status' = "ERROR"
    <2>1. ~S!InProgress' /\ ~Current' /\ Sending' = 0
        BY <1>7 DEF S!InProgress, Current, Sending
    <2>2. \/ /\ age_bs > RESPONSE_TIMEOUT_US /\ to_sender = << >> /\ to_receiver = << >>
             /\ ~(Holding /\ Current)
          \/ send_bs_remain # 0 /\ Current /\ to_sender = << >>
        <3>1. CASE send_bs_remain # 0
            BY <1>0, <1>3, <3>1 DEF Turns, Current
        <3>2. CASE send_bs_remain = 0
            <4>1. /\ S!PollWaiting(0)
                  /\ send_protocol_result' = "TIMEOUT_BS"
                <5>1. ~S!PollFailed(0)
                    <6>1. S!MayContinue => send_bs_remain # 0
                        BY DEF S!MayContinue, S!INVALID_BS
                    <6> QED BY <3>2, <6>1 DEF S!PollFailed
                <5> QED BY <1>3, <1>7, <3>2, <5>1 DEF S!InProgress
            <4>2. age_bs > RESPONSE_TIMEOUT_US
                BY <1>0, <1>3, <1>7, <4>1, NotEarly
            <4> QED BY <1>3, <4>2, LateSender
        <3> QED BY <3>1, <3>2
    <2>3. c = Len(to_receiver) /\ to_sender = << >>
        BY <1>1, <2>2
    <2>4. Queue(to_receiver', c, message', Sending', Place')
        <3>1. PICK q, p, sending : q = Place' /\ p = Place /\ sending = Sending
            OBVIOUS
        <3>2. Queue(to_receiver, c, message, 0, q)
            BY <1>1, <2>3, <3>1, QueueStops
        <3> QED BY <1>4, <1>5, <2>1, <3>1, <3>2
    <2>5. Accounts(c)'
        <3>1. CASE ~Current
            BY <1>0, <1>1, <1>4, <2>1, <3>1, AccountsKept DEF Joint
        <3>2. CASE Current
            <4>1. Pending(c)' = c + 0 /\ Pending(c) = c + (send_bs_remain + 0)
                BY <2>1, <2>3, <3>2, Counting
            <4>2. Live' => Live /\ invited' = invited
                BY <1>4, Staying DEF ReceiverStays
            <4>3. Live => c + 0 < invited
                <5>1. CASE send_bs_remain # 0
                    <6>1. Live => c + (send_bs_remain + 0) <= invited
                        BY <1>0, <4>1 DEF Joint, Accounts
                    <6>2. send_bs_remain > 0 /\ send_bs_remain \in Nat
                        BY <1>2, <5>1
                    <6>3. ASSUME Live PROVE c + 0 < invited
                        <7>1. c + (send_bs_remain + 0) <= invited
                            BY <6>1, <6>3
                        <7>2. invited \in 0 .. 255
                            BY <1>2, <6>3
                        <7> QED BY <1>1, <6>2, <7>1, <7>2
                    <6> QED BY <6>3
                <5>2. CASE send_bs_remain = 0
                    <6>1. ~Holding /\ c = 0
                        BY <1>1, <2>2, <3>2, <5>2
                    <6> QED BY <1>2, <6>1 DEF Live
                <5> QED BY <5>1, <5>2
            <4>4. ASSUME Live' PROVE invited' \in Nat
                <5>1. invited \in 0 .. 255 /\ invited' = invited
                    BY <1>2, <4>2, <4>4
                <5>2. \A n \in 0 .. 255 : n \in Nat
                    OBVIOUS
                <5> QED BY <5>1, <5>2
            <4>5. Pending(c)' \in Nat
                BY <1>1, <4>1
            <4> QED BY <1>1, <2>1, <4>1, <4>2, <4>3, <4>4, <4>5, AccountsSlack
        <3> QED BY <3>1, <3>2
    <2>6. Turns'
        BY <1>4, <2>1, <2>3 DEF Turns
    <2> QED BY <2>4, <2>5, <2>6 DEF Joint
<1> QED BY <1>3, <1>6, <1>7

LEMMA InvitationTakenAgrees ==
    ASSUME NEW c, Agreed(c), SenderTakesFrame
    PROVE  /\ Turns' /\ Joint(c)'
           /\ c = 0 /\ to_sender' = << >> /\ Current /\ Current' /\ age_bs' = 0
           /\ ReceiverStays /\ UNCHANGED <<send_status, send_offset, to_receiver>>
           /\ Pending(c)' = Pending(c)
<1>0. Turns /\ Joint(c) /\ Prompt /\ NetworkInv /\ Rates
    BY DEF Agreed, BaseInv
<1>1. /\ Frames(to_receiver, sent) /\ Queue(to_receiver, c, message, Sending, Place)
      /\ to_receiver = << >> <=> Len(to_receiver) = 0
      /\ Current => c = Len(to_receiver)
    BY AgreedBus
<1>2. /\ held \in Nat /\ MaxTransit \in Nat
      /\ Coming \in 0 .. 255 /\ send_bs_remain \in 0 .. 255
    BY AgreedCounts
<1>3. /\ to_sender # << >> /\ Current /\ S!InProgress /\ message = sent
      /\ Len(to_sender) = 1 /\ to_receiver = << >> /\ send_bs_remain = 0 /\ c = 0
      /\ Len(to_receiver) = 0
    BY <1>0, <1>1 DEF SenderTakesFrame, Turns, Current
<1>4. to_sender' = << >>
    <2>1. Channel(to_sender)
        BY <1>0 DEF NetworkInv, BusInv
    <2>2. to_sender' = Tail(to_sender)
        BY DEF SenderTakesFrame
    <2>3. \E F : to_sender \in Seq(F)
        BY <2>1 DEF Channel
    <2> QED BY <1>3, <2>2, <2>3
<1>5. /\ S!OnFlowControl(Head(to_sender).frame) /\ ReceiverStays
      /\ UNCHANGED <<to_receiver, sent, held, faults>>
    BY <1>3, Staying DEF SenderTakesFrame
<1>6. PICK f \in Invitations : f = Head(to_sender).frame
    BY <1>0, <1>3, FirstInvitation DEF Answer
<1>7. f \in BuiltFlowControls /\ f.FS = CONTINUE /\ f.BS \in 1 .. 255
    BY <1>0, InvitationFields
<1>8. /\ age_bs' = 0 /\ UNCHANGED <<send_offset, send_sn, send_status>>
      /\ send_bs_remain' = f.BS
    <2>1. f.FS # OVERFLOW /\ f.BS # 0
        BY <1>7 DEF CONTINUE, OVERFLOW
    <2> QED BY <1>5, <1>6, <1>7, <2>1, ContinuesOrStops
<1>9. message' = message
    BY <1>5 DEF ReceiverStays
<1>10. S!InProgress' /\ Current' /\ Sending' = Sending /\ Place' = Place
    BY <1>3, <1>5, <1>8, <1>9 DEF S!InProgress, Current, Sending, Place
<1>11. Queue(to_receiver', c, message', Sending', Place')
    BY <1>1, <1>5, <1>9, <1>10
<1>12. Pending(c)' = Pending(c)
    <2>1. Coming = f.BS
        BY <1>3, <1>6 DEF Coming
    <2>2. Pending(c) = c + (send_bs_remain + Coming) /\ Pending(c)' = c + (send_bs_remain' + 0)
        BY <1>3, <1>4, <1>10, Counting
    <2>3. send_bs_remain + Coming = send_bs_remain' + 0
        <3>1. f.BS \in Nat
            BY <1>7
        <3>2. 0 + f.BS = f.BS + 0
            BY <3>1
        <3> QED BY <1>3, <1>8, <2>1, <3>2
    <2> QED BY <2>2, <2>3
<1>13. InStep(c) => InStep(c)'
    <2>1. UNCHANGED <<receive_offset, receive_size, receive_sn>>
        BY <1>5 DEF ReceiverStays
    <2> QED BY <1>3, <1>8, <1>10, <2>1 DEF InStep
<1>14. Accounts(c)'
    <2>1. (Live' => Live) /\ invited' = invited
        BY <1>5, Staying DEF ReceiverStays
    <2> QED BY <1>0, <1>3, <1>5, <1>12, <1>13, <2>1 DEF Joint, Accounts
<1>15. Turns'
    <2>1. age_bs' <= MaxTransit + held'
        <3>1. PICK h \in Nat, t \in Nat : h = held' /\ t = MaxTransit
            BY <1>2, <1>5
        <3>2. 0 <= t + h
            OBVIOUS
        <3> QED BY <1>8, <3>1, <3>2
    <2> QED BY <1>3, <1>4, <1>5, <1>9, <2>1 DEF Turns
<1> QED BY <1>3, <1>4, <1>5, <1>8, <1>10, <1>11, <1>12, <1>14, <1>15 DEF Joint


(* A frame leaves the bus: the sender has waited no longer than it was on   *)
(* its way, and no invitation is on its way back.                           *)
FrameGoes == ReceiverTakesFrame \/ DataLost

LEMMA GoingFrame ==
    ASSUME NEW c, Agreed(c), FrameGoes
    PROVE  /\ to_sender = << >> /\ SenderStays /\ 1 \in 1 .. Len(to_receiver)
           /\ Head(to_receiver).frame = to_receiver[1].frame /\ FrameOf(to_receiver[1].frame, sent)
           /\ to_receiver[1].frame.type = "CF" => c > 0 /\ to_receiver[1].frame.msg = message
           /\ to_receiver[1].frame.type # "CF" =>
                c = 0 /\ ~Current /\ message < to_receiver[1].frame.msg
           /\ to_receiver[1].frame.type = "FF" =>
                /\ S!InProgress /\ to_receiver[1].frame.msg = sent /\ Len(to_receiver) = 1
                /\ send_offset = to_receiver[1].frame.n /\ send_sn = 1
           /\ Len(to_receiver') = Len(to_receiver) - 1
           /\ \A i \in 1 .. Len(to_receiver) - 1 : to_receiver'[i] = to_receiver[i + 1]
           /\ to_receiver' = << >> <=> Len(to_receiver') = 0
           /\ S!InProgress => age_bs <= MaxTransit
           /\ S!InProgress' /\ to_receiver' # << >> =>
                age_bs' <= to_receiver'[Len(to_receiver')].age
           /\ c > 0 => Queue(to_receiver', c - 1, message, Sending', Place')
           /\ c = 0 => /\ Queue(to_receiver', 0, message, Sending', Place')
                       /\ Queue(to_receiver', 0, to_receiver[1].frame.msg, Sending', Place')
<1>0. /\ Turns /\ Channel(to_receiver)
      /\ \A i \in 1 .. Len(to_receiver) : FrameOf(to_receiver[i].frame, sent)
    BY DEF Agreed, BaseInv, NetworkInv, BusInv, Frame, DataFrame
<1>1. /\ to_receiver # << >> /\ to_receiver' = Tail(to_receiver) /\ SenderStays
    BY Staying DEF FrameGoes, ReceiverTakesFrame, DataLost
<1>2. to_sender = << >>
    BY <1>0, <1>1 DEF Turns
<1>3. /\ Frames(to_receiver, sent) /\ Queue(to_receiver, c, message, Sending, Place)
      /\ c \in 0 .. Len(to_receiver) /\ Len(to_receiver) \in Nat
      /\ Sending \in 0 .. sent /\ (Sending = 0 \/ Sending = sent)
      /\ Current => c = Len(to_receiver)
      /\ Place.at = send_offset /\ Place.SN = send_sn /\ sent \in Nat
    BY AgreedBus
<1>4. PICK sending, p : sending = Sending /\ p = Place /\ sending \in 0 .. sent
    BY <1>3
<1>5. /\ 1 \in 1 .. Len(to_receiver)
      /\ to_receiver[1].frame.type = "CF" => c > 0 /\ to_receiver[1].frame.msg = message
      /\ to_receiver[1].frame.type # "CF" => c = 0 /\ message < to_receiver[1].frame.msg
      /\ to_receiver[1].frame.type = "FF" =>
           /\ to_receiver[1].frame.msg = sending /\ Len(to_receiver) = 1
           /\ p.at = to_receiver[1].frame.n /\ p.SN = 1
    <2>1. Queue(to_receiver, c, message, sending, p) /\ (sending = 0 \/ sending = sent)
        BY <1>3, <1>4
    <2>2. Frames(to_receiver, sent) /\ to_receiver # << >>
        BY <1>1, <1>3
    <2> QED BY ONLY <2>1, <2>2, QueueFront
<1>6. /\ Len(to_receiver') = Len(to_receiver) - 1
      /\ \A i \in 1 .. Len(to_receiver) - 1 : to_receiver'[i] = to_receiver[i + 1]
      /\ Channel(to_receiver')
    BY <1>0, <1>1, ChannelTakes
<1>7. to_receiver' = << >> <=> Len(to_receiver') = 0
    BY <1>6, ChannelFrames
<1>8. S!InProgress => age_bs <= to_receiver[Len(to_receiver)].age /\ age_bs <= MaxTransit
    <2>1. Len(to_receiver) \in 1 .. Len(to_receiver)
        BY <1>3, <1>5
    <2>2. /\ age_bs \in Nat /\ MaxTransit \in Nat
          /\ to_receiver[Len(to_receiver)].age \in Nat
          /\ to_receiver[Len(to_receiver)].age <= MaxTransit
        BY <2>1, AgreedCounts
    <2>3. S!InProgress => age_bs <= to_receiver[Len(to_receiver)].age
        BY <1>0, <1>1 DEF Turns
    <2> QED BY <2>2, <2>3
<1>9. ASSUME S!InProgress', to_receiver' # << >>
      PROVE  age_bs' <= to_receiver'[Len(to_receiver')].age
    <2>1. /\ Len(to_receiver') \in 1 .. Len(to_receiver) - 1
          /\ Len(to_receiver') + 1 = Len(to_receiver)
        BY <1>3, <1>5, <1>6, <1>7, <1>9
    <2>2. to_receiver'[Len(to_receiver')] = to_receiver[Len(to_receiver)]
        BY <1>6, <2>1
    <2>3. S!InProgress /\ age_bs' = age_bs
        BY <1>1, <1>9, Staying DEF SenderStays
    <2> QED BY <1>8, <2>2, <2>3
<1>10. /\ c > 0 => Queue(to_receiver', c - 1, message, Sending', Place')
       /\ c = 0 => /\ Queue(to_receiver', 0, message, Sending', Place')
                   /\ Queue(to_receiver', 0, to_receiver[1].frame.msg, Sending', Place')
    <2>1. Sending' = sending /\ Place' = p
        BY <1>1, <1>4, Staying
    <2>2. Queue(to_receiver, c, message, sending, p)
        BY <1>3, <1>4
    <2>3. /\ c > 0 => Queue(Tail(to_receiver), c - 1, message, sending, p)
          /\ c = 0 => /\ Queue(Tail(to_receiver), 0, message, sending, p)
                      /\ Queue(Tail(to_receiver), 0, to_receiver[1].frame.msg, sending, p)
        BY <1>1, <1>3, <2>2, QueueShortens
    <2> QED BY <1>1, <2>1, <2>3
<1>11. Head(to_receiver).frame = to_receiver[1].frame
    BY <1>0, <1>1, ChannelFrames
<1>12. to_receiver[1].frame.type # "CF" => ~Current
    BY <1>3, <1>5
<1>13. to_receiver[1].frame.type = "FF" => S!InProgress /\ to_receiver[1].frame.msg = sent
    <2>1. to_receiver[1].frame.msg # 0
        BY <1>0, <1>3, <1>5 DEF FrameOf
    <2> QED BY <1>4, <1>5, <2>1 DEF Sending
<1> QED BY <1>0, <1>1, <1>2, <1>3, <1>4, <1>5, <1>6, <1>7, <1>8, <1>9, <1>10, <1>11, <1>12, <1>13

LEMMA LossAgrees ==
    ASSUME NEW c, Agreed(c), DataLost
    PROVE  \E d \in Nat : /\ Turns' /\ Joint(d)'
                          /\ d = IF to_receiver[1].frame.type = "CF" THEN c - 1 ELSE c
<1>0. Turns /\ Joint(c) /\ NetworkInv
    BY DEF Agreed, BaseInv
<1>1. /\ to_sender = << >> /\ SenderStays /\ 1 \in 1 .. Len(to_receiver)
      /\ to_receiver[1].frame.type = "CF" => c > 0
      /\ to_receiver[1].frame.type # "CF" => c = 0 /\ ~Current
      /\ S!InProgress' /\ to_receiver' # << >> =>
           age_bs' <= to_receiver'[Len(to_receiver')].age
      /\ c > 0 => Queue(to_receiver', c - 1, message, Sending', Place')
      /\ c = 0 => Queue(to_receiver', 0, message, Sending', Place')
    BY GoingFrame DEF FrameGoes
<1>2. /\ UNCHANGED <<to_sender, sent, held>> /\ ReceiverStays /\ faults' # << >>
    BY <1>0, Staying, FaultHappens DEF DataLost
<1>3. message' = message /\ (Current' <=> Current) /\ (S!InProgress' <=> S!InProgress)
      /\ (Holding' <=> Holding) /\ (Live' <=> Live)
      /\ UNCHANGED <<send_bs_remain, age_bs, invited>>
    BY <1>1, <1>2, Staying DEF ReceiverStays, SenderStays
<1>4. Turns'
    BY <1>0, <1>1, <1>2, <1>3 DEF Turns
<1>5. c \in Nat
    BY AgreedBus
<1>6. CASE to_receiver[1].frame.type = "CF"
    <2>1. c - 1 \in Nat
        BY <1>1, <1>5, <1>6
    <2>2. /\ send_bs_remain \in 0 .. 255 /\ Pending(c) \in Nat
          /\ Live => invited \in 0 .. 255
        BY AgreedCounts
    <2>3. Pending(c - 1)' = Pending(c) - 1
        <3>1. CASE Current
            BY <1>1, <1>2, <1>3, <1>5, <2>2, <3>1, Counting
        <3>2. CASE ~Current
            BY <1>3, <1>5, <3>2, Counting
        <3> QED BY <3>1, <3>2
    <2>4. Pending(c - 1)' \in Nat
        BY <1>1, <1>6, <2>3, AgreedCounts
    <2>5. ASSUME Live' PROVE Pending(c - 1)' < invited' /\ invited' \in Nat
        <3>1. invited' = invited /\ invited \in 0 .. 255 /\ Live
            BY <1>3, <2>2, <2>5
        <3>2. Pending(c) <= invited
            BY <1>0, <3>1 DEF Joint, Accounts
        <3> QED BY <2>2, <2>3, <3>1, <3>2
    <2>6. Accounts(c - 1)'
        BY <1>2, <2>1, <2>4, <2>5, AccountsSlack
    <2>7. Joint(c - 1)'
        BY <1>1, <1>3, <1>6, <2>6 DEF Joint
    <2> QED BY <1>4, <1>6, <2>1, <2>7
<1>7. CASE to_receiver[1].frame.type # "CF"
    <2>1. c = 0 /\ ~Current /\ \A i : i \notin 1 .. 0
        BY <1>1, <1>7
    <2>2. Accounts(c)'
        BY <1>0, <1>2, <1>3, <1>5, <2>1, AccountsKept DEF Joint
    <2>3. Joint(c)'
        BY <1>1, <1>3, <2>1, <2>2 DEF Joint
    <2> QED BY <1>4, <1>5, <1>7, <2>3
<1> QED BY <1>6, <1>7

LEMMA SingleFrameAgrees ==
    ASSUME NEW c, Agreed(c), ReceiverTakesFrame, R!ReceiveSingleFrame(to_receiver[1].frame)
    PROVE  Turns' /\ Joint(0)'
<1> DEFINE f == to_receiver[1].frame
<1>0. Turns /\ Joint(c) /\ ~rx_done_cb
    BY DEF Agreed, BaseInv, NetworkInv, ReceiverInv
<1>1. /\ f.type = "SF" /\ fc_tx' = NoFrame
      /\ \/ receive_status' = "FULL" /\ ~receive_streaming' /\ message' = f.msg
         \/ UNCHANGED <<receive_status, reception>>
    BY <1>0, TakesSingleFrame
<1> HIDE DEF f
<1>2. /\ to_sender = << >> /\ SenderStays /\ c = 0 /\ ~Current
      /\ S!InProgress' /\ to_receiver' # << >> =>
           age_bs' <= to_receiver'[Len(to_receiver')].age
      /\ Queue(to_receiver', 0, message, Sending', Place')
      /\ Queue(to_receiver', 0, f.msg, Sending', Place')
    BY <1>1, GoingFrame DEF FrameGoes, f
<1>3. to_sender' = << >> /\ UNCHANGED <<sent, faults>> /\ held' = 0
    BY <1>1, <1>2 DEF ReceiverTakesFrame, FlowControlSent
<1>4. (S!InProgress' <=> S!InProgress) /\ UNCHANGED <<send_bs_remain, age_bs>>
    BY <1>2, Staying DEF SenderStays
<1>5. S!InProgress => send_bs_remain = 0
    BY <1>0, <1>2 DEF Turns, Current
<1>6. CASE receive_status' = "FULL" /\ ~receive_streaming' /\ message' = f.msg
    <2>1. ~Live' /\ ~Holding'
        BY <1>6 DEF Live, Holding, R!Receiving
    <2>2. Joint(0)'
        BY <1>2, <1>6, <2>1 DEF Joint, Accounts
    <2>3. Turns'
        BY <1>2, <1>3, <1>4, <1>5, <2>1 DEF Turns
    <2> QED BY <2>2, <2>3
<1>7. CASE UNCHANGED <<receive_status, reception>>
    <2>1. ReceiverStays
        BY <1>7 DEF ReceiverStays, reception
    <2>2. message' = message /\ ~Current'
        BY <1>2, <2>1, Staying DEF ReceiverStays
    <2>3. \A i : i \notin 1 .. 0
        OBVIOUS
    <2>4. Accounts(0)'
        BY <1>0, <1>2, <1>3, <2>1, <2>2, <2>3, AccountsKept DEF Joint
    <2>5. Joint(0)'
        BY <1>2, <2>2, <2>4 DEF Joint
    <2>6. Turns'
        BY <1>2, <1>3, <1>4, <1>5, <2>2 DEF Turns
    <2> QED BY <2>5, <2>6
<1> QED BY <1>1, <1>6, <1>7


LEMMA InvitationSent ==
    ASSUME Prompt, to_sender = << >>, FlowControlSent, Invites(1) \/ Invites(BLOCK_SIZE)
    PROVE  /\ to_sender' # << >> /\ Len(to_sender') = 1 /\ to_sender'[1].age = 0
           /\ Coming' = invited' /\ invited' \in 1 .. 255
<1>1. PICK bs : bs \in {1, BLOCK_SIZE} /\ Invites(bs)
    OBVIOUS
<1>2. bs \in 1 .. 255
    BY <1>1, NetworkConstants DEF Prompt
<1>3. invited' = bs /\ fc_tx' = FlowControl(CONTINUE, bs, DEFAULT_ST_MIN_US)
    BY <1>1, <1>2 DEF Invites
<1>4. fc_tx'.type = "FC" /\ fc_tx'.BS = bs
    BY <1>3 DEF FlowControl
<1>5. fc_tx' # NoFrame
    BY <1>4 DEF NoFrame
<1>6. PICK g : g = OnBus(fc_tx')
    OBVIOUS
<1>7. to_sender' = <<g>>
    BY <1>5, <1>6 DEF FlowControlSent
<1>8. g.frame = fc_tx' /\ g.age = 0
    BY <1>6 DEF OnBus
<1>9. to_sender' # << >> /\ Len(to_sender') = 1 /\ to_sender'[1] = g /\ Head(to_sender') = g
    BY <1>7
<1>10. Coming' = Head(to_sender').frame.BS
    BY <1>9 DEF Coming
<1> QED BY <1>2, <1>3, <1>4, <1>8, <1>9, <1>10

LEMMA FirstFrameAgrees ==
    ASSUME NEW c, Agreed(c), ReceiverTakesFrame, R!ReceiveFirstFrame(to_receiver[1].frame, TRUE)
    PROVE  Turns' /\ Joint(0)'
<1> DEFINE f == to_receiver[1].frame
<1>0. /\ Turns /\ Prompt /\ ~rx_done_cb /\ RP!TypeOK /\ receive_buf_size # 0
    BY DEF Agreed, BaseInv, NetworkInv, ReceiverInv, RP!IInv, Prompt
<1>1. f.type = "FF"
    BY DEF R!ReceiveFirstFrame
<1> HIDE DEF f
<1>2. /\ to_sender = << >> /\ SenderStays /\ c = 0 /\ ~Current
      /\ FrameOf(f, sent)
      /\ S!InProgress /\ f.msg = sent /\ Len(to_receiver) = 1
      /\ send_offset = f.n /\ send_sn = 1
      /\ Len(to_receiver') = Len(to_receiver) - 1
      /\ to_receiver' = << >> <=> Len(to_receiver') = 0
      /\ age_bs <= MaxTransit
      /\ Queue(to_receiver', 0, f.msg, Sending', Place')
    BY <1>1, GoingFrame DEF FrameGoes, f
<1>3. /\ UNCHANGED <<sent, faults>> /\ held' = 0 /\ FlowControlSent /\ to_receiver' = << >>
    BY <1>2 DEF ReceiverTakesFrame
<1>4. FfAccepted(f) /\ FfReadLength(f) = f.n
    BY <1>1, <1>2 DEF FrameOf
<1>5. /\ message' = f.msg /\ receive_offset' = FfReadLength(f) /\ receive_sn' = 1
      /\ \/ /\ receive_status' = "FULL" /\ receive_streaming'
            /\ invited' = 0 /\ fc_tx' = NoFrame
         \/ /\ receive_status' = "INPROGRESS"
            /\ Invites(1) \/ Invites(BLOCK_SIZE)
    BY <1>0, <1>4, TakesFirstFrame DEF f
<1>6. S!InProgress' /\ UNCHANGED <<send_bs_remain, age_bs, send_offset, send_sn>>
    BY <1>2, Staying DEF SenderStays
<1>7. Current' /\ message' = sent' /\ send_bs_remain = 0
    <2>1. send_bs_remain = 0
        BY <1>0, <1>2 DEF Turns, Current
    <2> QED BY <1>2, <1>3, <1>5, <1>6, <2>1 DEF Current
<1>8. InStep(0)'
    BY <1>2, <1>4, <1>5, <1>6, <1>7 DEF InStep
<1>9. Pending(0)' = 0 + (send_bs_remain' + Coming')
    BY <1>7, Counting
<1>10. age_bs \in Nat /\ MaxTransit \in Nat /\ MaxHold \in Nat
    BY AgreedCounts
<1>11. age_bs' <= MaxTransit + held'
    BY <1>2, <1>3, <1>6, <1>10
<1>12. CASE invited' = 0 /\ fc_tx' = NoFrame
    <2>1. to_sender' = << >>
        BY <1>2, <1>3, <1>12 DEF FlowControlSent
    <2>2. Pending(0)' = 0
        BY <1>6, <1>7, <1>9, <2>1, Counting
    <2>3. Accounts(0)'
        BY <1>8, <1>12, <2>2 DEF Accounts
    <2>4. Turns'
        BY <1>3, <1>7, <1>11, <2>1 DEF Turns
    <2> QED BY <1>2, <1>5, <2>3, <2>4 DEF Joint
<1>13. CASE Invites(1) \/ Invites(BLOCK_SIZE)
    <2>1. /\ to_sender' # << >> /\ Len(to_sender') = 1 /\ to_sender'[1].age = 0
          /\ Coming' = invited' /\ invited' \in 1 .. 255
        BY <1>0, <1>2, <1>3, <1>13, InvitationSent
    <2>2. Pending(0)' = invited'
        BY <1>6, <1>7, <1>9, <2>1
    <2>3. Accounts(0)'
        BY <1>8, <2>1, <2>2 DEF Accounts
    <2>4. age_bs' <= MaxTransit + MaxHold + to_sender'[1].age
        BY <1>2, <1>6, <1>10, <2>1
    <2>5. Turns'
        BY <1>3, <1>6, <1>7, <1>11, <2>1, <2>4 DEF Turns
    <2> QED BY <1>2, <1>5, <2>3, <2>5 DEF Joint
<1> QED BY <1>5, <1>12, <1>13

(* The frame the receiver waits for: the next one is the one behind it.     *)
LEMMA NextInStep ==
    ASSUME NEW c, Agreed(c), ReceiverTakesFrame, InStep(c), Live,
           to_receiver[1].frame.type = "CF", message' = message, receive_size' = receive_size,
           receive_offset' =
               receive_offset + CfWanted(receive_size - receive_offset, rx_dl),
           receive_sn' = NextSn(receive_sn)
    PROVE  /\ InStep(c - 1)'
           /\ receive_offset' = to_receiver[1].frame.at + to_receiver[1].frame.n
<1> DEFINE f == to_receiver[1].frame
<1>1. /\ SenderStays /\ c > 0 /\ f.msg = message /\ FrameOf(f, sent)
      /\ \A i \in 1 .. Len(to_receiver) - 1 : to_receiver'[i] = to_receiver[i + 1]
    BY GoingFrame DEF FrameGoes
<1>2. /\ Queue(to_receiver, c, message, Sending, Place)
      /\ c \in 0 .. Len(to_receiver) /\ Len(to_receiver) \in Nat
      /\ S!InProgress => Sending = sent
      /\ Place.at = send_offset /\ Place.SN = send_sn
    BY AgreedBus
<1>3. receive_size = Payloads[message] /\ rx_dl = Dl
    BY AgreedCounts
<1>4. f.at = receive_offset /\ f.SN = receive_sn
    BY <1>1 DEF InStep
<1>5. f.n = CfWanted(receive_size - receive_offset, rx_dl)
    BY <1>1, <1>3, <1>4 DEF FrameOf
<1>6. receive_offset' = f.at + f.n /\ receive_sn' = NextSn(f.SN)
    BY <1>4, <1>5
<1>7. (Current' <=> Current) /\ UNCHANGED <<send_offset, send_sn>>
    BY <1>1, Staying DEF SenderStays
<1>8. InStep(c - 1)'
    <2>1. CASE c = 1
        <3>1. c - 1 = 0 /\ ~(0 > 0)
            BY <2>1
        <3>2. ASSUME Current PROVE receive_offset' = send_offset /\ receive_sn' = send_sn
            <4>1. Sending = message
                BY <1>2, <3>2 DEF Current
            <4>2. Follows(to_receiver[1].frame, Place)
                BY <1>1, <1>2, <2>1, <4>1 DEF Queue, Tip
            <4> QED BY <1>2, <1>6, <4>2 DEF Follows
        <3>3. ASSUME ~Current PROVE receive_offset' = receive_size
            BY <1>1, <1>6, <2>1, <3>3 DEF InStep
        <3> QED BY <1>7, <3>1, <3>2, <3>3 DEF InStep
    <2>2. CASE c # 1
        <3>1. /\ c - 1 > 0 /\ 1 \in 1 .. Len(to_receiver) - 1 /\ 1 \in 1 .. c - 1
              /\ c - 1 \in 1 .. Len(to_receiver) - 1
              /\ (c - 1) + 1 = c /\ 1 + 1 = 2 /\ c - 1 # 0
            <4>1. \A n \in Nat : n # 0 /\ n # 1 => n >= 2
                OBVIOUS
            <4>2. c \in Nat /\ c # 0
                BY <1>1, <1>2
            <4>3. c >= 2
                BY <2>2, <4>1, <4>2
            <4> QED BY <1>2, <4>3
        <3>2. to_receiver'[1] = to_receiver[2] /\ to_receiver'[c - 1] = to_receiver[c]
            BY <1>1, <3>1
        <3>3. Follows(to_receiver[1].frame, to_receiver[2].frame)
            BY <1>2, <3>1 DEF Queue, Line
        <3>4. /\ to_receiver'[1].frame.at = receive_offset'
              /\ to_receiver'[1].frame.SN = receive_sn'
            BY <1>6, <3>2, <3>3 DEF Follows
        <3>5. ~Current => to_receiver[c].frame.at + to_receiver[c].frame.n = receive_size
            BY <1>1 DEF InStep
        <3> QED BY <1>7, <3>1, <3>2, <3>4, <3>5 DEF InStep
    <2> QED BY <2>1, <2>2
<1> QED BY <1>6, <1>8


LEMMA FrameTakenAgrees ==
    ASSUME NEW c, Agreed(c), ReceiverTakesFrame, to_receiver[1].frame.type = "CF",
           Takes(to_receiver[1].frame)
    PROVE  Turns' /\ Joint(c - 1)'
<1> DEFINE f == to_receiver[1].frame
<1>0. Turns /\ Prompt /\ Joint(c)
    BY DEF Agreed, BaseInv
<1>1. /\ to_sender = << >> /\ SenderStays /\ c > 0 /\ f.msg = message
      /\ Len(to_receiver') = Len(to_receiver) - 1
      /\ to_receiver' = << >> <=> Len(to_receiver') = 0
      /\ S!InProgress => age_bs <= MaxTransit
      /\ S!InProgress' /\ to_receiver' # << >> =>
           age_bs' <= to_receiver'[Len(to_receiver')].age
      /\ Queue(to_receiver', c - 1, message, Sending', Place')
    BY GoingFrame DEF FrameGoes
<1>2. /\ UNCHANGED <<sent, faults>> /\ held' = 0 /\ FlowControlSent
    BY DEF ReceiverTakesFrame
<1>3. PICK n : n = CfWanted(receive_size - receive_offset, rx_dl)
    OBVIOUS
<1>4. /\ R!Receiving /\ receive_offset' = receive_offset + n
      /\ receive_sn' = NextSn(receive_sn)
      /\ UNCHANGED <<receive_size, receive_streaming, message>>
      /\ \/ /\ receive_status' = "FULL" /\ fc_tx' = NoFrame
            /\ invited' = IF invited = INVALID_BS THEN invited ELSE invited - 1
         \/ /\ receive_status' = "INPROGRESS" /\ receive_offset' < receive_size
            /\ \/ /\ fc_tx' = NoFrame
                  /\ invited' = IF invited = INVALID_BS THEN invited ELSE invited - 1
               \/ /\ (receive_bs_count - 1) % 256 = 0
                  /\ Invites(1) \/ Invites(BLOCK_SIZE)
    BY <1>3 DEF Takes
<1> HIDE DEF f
<1>5. (S!InProgress' <=> S!InProgress) /\ (Current' <=> Current)
      /\ UNCHANGED <<send_bs_remain, age_bs>>
    BY <1>1, <1>4, Staying DEF SenderStays
<1>6. Live
    BY <1>4 DEF Live
<1>7. /\ invited \in 0 .. 255 /\ invited > 0 /\ invited = receive_bs_count
      /\ send_bs_remain \in 0 .. 255
      /\ Pending(c) \in Nat /\ Pending(c) >= 1 /\ age_bs \in Nat
      /\ MaxTransit \in Nat /\ MaxHold \in Nat
    BY <1>1, <1>4, <1>6, AgreedCounts
<1>8. /\ Pending(c) <= invited /\ (Pending(c) = invited => InStep(c))
      /\ (faults = << >> /\ Current => Pending(c) = invited)
    BY <1>0, <1>6 DEF Joint, Accounts
<1>9. InStep(c) => InStep(c - 1)' /\ receive_offset' = f.at + f.n
    BY <1>3, <1>4, <1>6, NextInStep DEF f
<1>10. /\ c \in Nat /\ c - 1 \in Nat /\ c \in 0 .. Len(to_receiver) /\ Len(to_receiver) \in Nat
       /\ Current => c = Len(to_receiver)
    <2>1. /\ c \in Nat /\ c \in 0 .. Len(to_receiver) /\ Len(to_receiver) \in Nat
          /\ Current => c = Len(to_receiver)
        BY AgreedBus
    <2> QED BY <1>1, <2>1
<1>11. /\ S!InProgress' /\ message' # sent' => send_bs_remain' = 0
       /\ S!InProgress' => age_bs' <= MaxTransit + held'
    <2>1. S!InProgress /\ message # sent => send_bs_remain = 0
        BY <1>0 DEF Turns
    <2>2. ASSUME S!InProgress' PROVE age_bs' <= MaxTransit + held'
        <3>1. S!InProgress
            BY <1>5, <2>2
        <3>2. age_bs <= MaxTransit
            BY <1>1, <3>1
        <3>3. age_bs <= MaxTransit + 0
            BY <1>7, <3>2
        <3> QED BY <1>2, <1>5, <3>3
    <2> QED BY <1>2, <1>4, <1>5, <2>1, <2>2
<1>12. CASE /\ fc_tx' = NoFrame
            /\ invited' = IF invited = INVALID_BS THEN invited ELSE invited - 1
    <2>1. invited' = invited - 1
        BY <1>7, <1>12 DEF INVALID_BS
    <2>2. to_sender' = << >> /\ Coming' = 0 /\ Coming = 0
        BY <1>1, <1>2, <1>12, Counting DEF FlowControlSent
    <2>3. Pending(c - 1)' = Pending(c) - 1
        <3>1. CASE Current
            <4>1. /\ Pending(c) = c + (send_bs_remain + 0)
                  /\ Pending(c - 1)' = (c - 1) + (send_bs_remain + 0)
                BY <1>5, <2>2, <3>1, Counting
            <4> QED BY <1>7, <1>10, <4>1
        <3>2. CASE ~Current
            <4>1. Pending(c) = c + 0 /\ Pending(c - 1)' = (c - 1) + 0
                BY <1>5, <3>2, Counting
            <4> QED BY <1>10, <4>1
        <3> QED BY <3>1, <3>2
    <2>4. /\ Pending(c - 1)' <= invited'
          /\ Pending(c - 1)' = invited' <=> Pending(c) = invited
        BY <1>7, <1>8, <2>1, <2>3
    <2>5. Accounts(c - 1)'
        BY <1>2, <1>5, <1>8, <1>9, <2>4 DEF Accounts
    <2>6. Turns'
        BY <1>1, <1>11, <2>2 DEF Turns, Current
    <2> QED BY <1>1, <1>4, <2>5, <2>6 DEF Joint
<1>13. CASE /\ receive_offset' < receive_size /\ (receive_bs_count - 1) % 256 = 0
            /\ Invites(1) \/ Invites(BLOCK_SIZE)
    <2>1. /\ to_sender' # << >> /\ Len(to_sender') = 1 /\ to_sender'[1].age = 0
          /\ Coming' = invited' /\ invited' \in 1 .. 255
        BY <1>0, <1>1, <1>2, <1>13, InvitationSent
    <2>2. invited = 1
        <3>1. \A n_1 \in 1 .. 255 : (n_1 - 1) % 256 = 0 => n_1 = 1
            OBVIOUS
        <3>2. invited \in 1 .. 255 /\ (invited - 1) % 256 = 0
            BY <1>7, <1>13
        <3> QED BY <3>1, <3>2
    <2>3. Pending(c) = 1 /\ InStep(c)
        BY <1>7, <1>8, <2>2
    <2>4. c = 1
        <3>1. \/ Pending(c) = c + (send_bs_remain + Coming)
              \/ Pending(c) = c + 0
            BY Counting
        <3>2. Coming = 0
            BY <1>1, Counting
        <3> QED BY <1>1, <1>7, <1>10, <2>3, <3>1, <3>2
    <2>5. Current
        <3>1. ASSUME ~Current PROVE FALSE
            <4>1. receive_offset' = f.at + f.n /\ f.at + f.n = receive_size
                BY <1>9, <2>3, <2>4, <3>1 DEF InStep, f
            <4>2. receive_size \in Nat
                BY DEF Agreed, BaseInv, NetworkInv, ReceiverInv, RP!IInv, RP!TypeOK, RP!BufferType
            <4> QED BY <1>13, <4>1, <4>2
        <3> QED BY <3>1
    <2>6. to_receiver' = << >> /\ send_bs_remain = 0
        <3>1. Len(to_receiver) = 1
            BY <1>10, <2>4, <2>5
        <3>2. Pending(c) = c + (send_bs_remain + 0)
            BY <1>1, <2>5, Counting
        <3>3. send_bs_remain = 0
            BY <1>7, <2>3, <2>4, <3>2
        <3> QED BY <1>1, <3>1, <3>3
    <2>7. c - 1 = 0
        BY <2>4
    <2>8. Pending(0)' = invited'
        <3>1. Pending(0)' = 0 + (send_bs_remain' + Coming')
            BY <1>5, <2>5, Counting
        <3> QED BY <1>5, <2>1, <2>6, <3>1
    <2>9. Accounts(c - 1)'
        BY <1>9, <2>1, <2>3, <2>7, <2>8 DEF Accounts
    <2>10. S!InProgress /\ age_bs' <= MaxTransit + MaxHold + to_sender'[1].age
        <3>1. S!InProgress /\ age_bs <= MaxTransit
            BY <1>1, <2>5 DEF Current
        <3> QED BY <1>5, <1>7, <2>1, <3>1
    <2>11. Turns'
        BY <1>5, <1>11, <2>1, <2>5, <2>6, <2>10 DEF Turns
    <2> QED BY <1>1, <1>4, <2>9, <2>11 DEF Joint
<1> QED BY <1>4, <1>12, <1>13

LEMMA FrameRefusedAgrees ==
    ASSUME NEW c, Agreed(c), ReceiverTakesFrame, to_receiver[1].frame.type = "CF",
           Refuses(to_receiver[1].frame)
    PROVE  Turns' /\ Joint(c - 1)'
<1> DEFINE f == to_receiver[1].frame
<1>0. Turns /\ Prompt /\ Joint(c)
    BY DEF Agreed, BaseInv
<1>1. /\ to_sender = << >> /\ SenderStays /\ c > 0 /\ f.msg = message /\ FrameOf(f, sent)
      /\ S!InProgress => age_bs <= MaxTransit
      /\ S!InProgress' /\ to_receiver' # << >> =>
           age_bs' <= to_receiver'[Len(to_receiver')].age
      /\ Queue(to_receiver', c - 1, message, Sending', Place')
    BY GoingFrame DEF FrameGoes
<1>2. /\ fc_tx' = NoFrame /\ UNCHANGED reception
      /\ \/ receive_status' = "IDLE"
         \/ /\ R!Receiving /\ CfWanted(receive_size - receive_offset, rx_dl) > f.len - 1
            /\ UNCHANGED receive_status
         \/ ~R!Receiving /\ UNCHANGED receive_status
    BY DEF Refuses
<1>3. /\ UNCHANGED <<sent, faults>> /\ held' = 0 /\ to_sender' = << >> /\ message' = message
    BY <1>1, <1>2 DEF ReceiverTakesFrame, FlowControlSent, reception
<1>4. (S!InProgress' <=> S!InProgress) /\ (Current' <=> Current)
      /\ UNCHANGED <<send_bs_remain, age_bs>>
    BY <1>1, <1>3, Staying DEF SenderStays
<1>5. Turns'
    <2>1. S!InProgress /\ message # sent => send_bs_remain = 0
        BY <1>0 DEF Turns
    <2>2. ASSUME S!InProgress' PROVE age_bs' <= MaxTransit + held'
        <3>1. age_bs <= MaxTransit /\ MaxTransit \in Nat /\ age_bs \in Nat
            BY <1>1, <1>4, <2>2, AgreedCounts
        <3>2. age_bs <= MaxTransit + 0
            BY <3>1
        <3> QED BY <1>3, <1>4, <3>2
    <2> QED BY <1>1, <1>3, <1>4, <2>1, <2>2 DEF Turns, Current
<1>6. ASSUME Live'
      PROVE  Pending(c - 1)' < invited' /\ invited' \in Nat /\ ~(faults' = << >> /\ Current')
    <2>1. R!Receiving' \/ Holding'
        BY <1>6 DEF Live
    <2>2. UNCHANGED receive_status /\ Live /\ UNCHANGED <<invited, receive_streaming>>
        BY <1>2, <2>1 DEF Live, Holding, R!Receiving, reception
    <2>3. /\ invited \in 0 .. 255 /\ Pending(c) \in Nat /\ Pending(c) >= 1
          /\ Holding => invited = 0
          /\ receive_size = Payloads[message] /\ rx_dl = Dl
          /\ send_bs_remain \in 0 .. 255
        BY <1>1, <2>2, AgreedCounts
    <2>4. /\ Pending(c) <= invited /\ (Pending(c) = invited => InStep(c))
          /\ (faults = << >> /\ Current => Pending(c) = invited)
        BY <1>0, <2>2 DEF Joint, Accounts
    <2>5. R!Receiving /\ CfWanted(receive_size - receive_offset, rx_dl) > f.len - 1
        <3>1. ~Holding
            BY <2>3, <2>4
        <3>2. R!Receiving
            BY <2>2, <3>1 DEF Live
        <3>3. receive_status' # "IDLE"
            BY <2>2, <3>2 DEF R!Receiving
        <3> QED BY <1>2, <3>2, <3>3
    <2>6. ~InStep(c)
        <3>1. ASSUME InStep(c) PROVE FALSE
            <4>1. f.at = receive_offset
                BY <1>1, <3>1 DEF InStep
            <4>2. f.n = CfWanted(receive_size - receive_offset, rx_dl) /\ f.n <= f.len - 1
                BY <1>1, <2>3, <4>1 DEF FrameOf
            <4>3. f.n \in Nat /\ f.len \in Nat
                <5>1. f.n \in Nat /\ f.len \in 0 .. 255
                    BY <1>1 DEF FrameOf, R!FrameType
                <5>2. \A n \in 0 .. 255 : n \in Nat
                    OBVIOUS
                <5> QED BY <5>1, <5>2
            <4>4. f.n > f.len - 1
                BY <2>5, <4>2
            <4> QED BY <4>2, <4>3, <4>4
        <3> QED BY <3>1
    <2>7. Pending(c - 1)' = Pending(c) - 1
        <3>0. c \in Nat /\ Coming = 0 /\ Coming' = 0
            BY <1>1, <1>3, AgreedBus, Counting
        <3>1. CASE Current
            <4>1. /\ Pending(c) = c + (send_bs_remain + 0)
                  /\ Pending(c - 1)' = (c - 1) + (send_bs_remain + 0)
                BY <1>4, <3>0, <3>1, Counting
            <4> QED BY <2>3, <3>0, <4>1
        <3>2. CASE ~Current
            <4>1. Pending(c) = c + 0 /\ Pending(c - 1)' = (c - 1) + 0
                BY <1>4, <3>2, Counting
            <4> QED BY <3>0, <4>1
        <3> QED BY <3>1, <3>2
    <2>8. Pending(c - 1)' < invited'
        <3>1. Pending(c) <= invited /\ invited' = invited /\ invited \in 0 .. 255
              /\ Pending(c) \in Nat
            BY <2>2, <2>3, <2>4
        <3> QED BY <2>7, <3>1
    <2> QED BY <1>3, <1>4, <2>2, <2>3, <2>4, <2>6, <2>8
<1>7. Accounts(c - 1)'
    <2>1. Live' => Pending(c - 1)' <= invited' /\ Pending(c - 1)' # invited'
        <3>1. ASSUME Live' PROVE Pending(c - 1)' <= invited' /\ Pending(c - 1)' # invited'
            <4>0. Pending(c - 1)' < invited' /\ invited' \in Nat
                BY <1>6, <3>1
            <4>1. Pending(c - 1)' \in Int
                <5>0. c \in Nat /\ send_bs_remain' \in Nat /\ Coming' = 0
                    <6>1. c \in Nat /\ send_bs_remain \in 0 .. 255
                        BY AgreedBus, AgreedCounts
                    <6>2. \A n \in 0 .. 255 : n \in Nat
                        OBVIOUS
                    <6> QED BY <1>3, <1>4, <6>1, <6>2, Counting
                <5>1. \/ Pending(c - 1)' = (c - 1) + (send_bs_remain' + Coming')
                      \/ Pending(c - 1)' = (c - 1) + 0
                    BY Counting
                <5> QED BY <5>0, <5>1
            <4> QED BY <4>0, <4>1
        <3> QED BY <3>1
    <2> QED BY <1>6, <2>1 DEF Accounts
<1> QED BY <1>1, <1>3, <1>5, <1>7 DEF Joint


LEMMA FrameReceivedAgrees ==
    ASSUME NEW c, Agreed(c), ReceiverTakesFrame
    PROVE  \E d \in Nat : Turns' /\ Joint(d)'
<1> DEFINE f == to_receiver[1].frame
<1>1. /\ R!OnCanMessage(f, TRUE) /\ FrameOf(f, sent)
      /\ f.type = "CF" => c > 0
    <2>1. Head(to_receiver).frame = f /\ FrameOf(f, sent) /\ (f.type = "CF" => c > 0)
        BY GoingFrame DEF FrameGoes
    <2> QED BY <2>1 DEF ReceiverTakesFrame
<1>2. CASE R!ReceiveSingleFrame(f)
    BY <1>2, SingleFrameAgrees
<1>3. CASE R!ReceiveFirstFrame(f, TRUE)
    BY <1>3, FirstFrameAgrees
<1>4. CASE R!ReceiveConsecutiveFrame(f, TRUE)
    <2>1. /\ f.type = "CF"
          /\ Takes(f) \/ Refuses(f)
        <3>1. RP!IInv /\ ~rx_done_cb
            BY DEF Agreed, BaseInv, NetworkInv, ReceiverInv
        <3>2. R!FrameType(f)
            BY <1>1 DEF FrameOf
        <3> QED BY <1>4, <3>1, <3>2, TakesConsecutiveFrame
    <2>2. c \in Nat
        BY AgreedBus
    <2>3. c - 1 \in Nat
        BY <1>1, <2>1, <2>2
    <2>4. Turns' /\ Joint(c - 1)'
        BY <2>1, FrameTakenAgrees, FrameRefusedAgrees
    <2> QED BY <2>3, <2>4
<1> QED BY <1>1, <1>2, <1>3, <1>4 DEF R!OnCanMessage

LEMMA ReceptionGivenUpAgrees ==
    ASSUME NEW c, Agreed(c), ReceiverPolls
    PROVE  Turns' /\ Joint(c)'
<1>0. Turns /\ Joint(c)
    BY DEF Agreed, BaseInv
<1>1. /\ UNCHANGED <<bus, sent, held, faults>> /\ SenderStays
      /\ receive_status' = "IDLE" /\ UNCHANGED reception
    BY ReceiverTimesOut, Staying DEF ReceiverPolls
<1>2. ~Live' /\ ~Holding' /\ message' = message
    BY <1>1 DEF Live, Holding, R!Receiving, reception
<1>3. /\ (S!InProgress' <=> S!InProgress) /\ (Current' <=> Current)
      /\ Sending' = Sending /\ Place' = Place
      /\ UNCHANGED <<send_bs_remain, age_bs, to_receiver, to_sender>>
    BY <1>1, <1>2, Staying DEF SenderStays, bus
<1>4. Turns'
    BY <1>0, <1>1, <1>2, <1>3 DEF Turns
<1>5. Joint(c)'
    BY <1>0, <1>2, <1>3 DEF Joint, Accounts
<1> QED BY <1>4, <1>5

LEMMA DataTakenAgrees ==
    ASSUME NEW c, Agreed(c), ReceiverTakesData
    PROVE  Turns' /\ Joint(c)'
<1>0. Turns /\ Joint(c) /\ RP!IInv /\ Prompt
    BY DEF Agreed, BaseInv, NetworkInv, ReceiverInv
<1>1. /\ UNCHANGED <<to_receiver, sent, faults>> /\ SenderStays /\ FlowControlSent
      /\ held' = IF Holding' THEN held ELSE 0
    BY Staying DEF ReceiverTakesData
<1>2. /\ receive_status = "FULL"
      /\ \/ /\ receive_status' = "IDLE" /\ fc_tx' = NoFrame
         \/ /\ receive_status' = "FULL" /\ fc_tx' = NoFrame
            /\ receive_streaming /\ receive_streaming'
            /\ UNCHANGED invited
         \/ /\ receive_status' = "INPROGRESS" /\ Invites(1)
            /\ receive_streaming /\ receive_streaming'
            /\ receive_offset < receive_size
      /\ UNCHANGED <<receive_size, receive_offset, receive_sn, message>>
    BY <1>0, TakesData DEF ReceiverTakesData
<1>3. /\ (S!InProgress' <=> S!InProgress) /\ (Current' <=> Current)
      /\ Sending' = Sending /\ Place' = Place
      /\ UNCHANGED <<send_bs_remain, age_bs, send_offset, send_sn>>
    BY <1>1, <1>2, Staying DEF SenderStays
<1>4. Queue(to_receiver', c, message', Sending', Place')
    BY <1>0, <1>1, <1>2, <1>3 DEF Joint
<1>5. CASE receive_status' = "IDLE" /\ fc_tx' = NoFrame
    <2>1. ~Live' /\ ~Holding' /\ to_sender' = to_sender
        BY <1>1, <1>5 DEF Live, Holding, R!Receiving, FlowControlSent
    <2>2. Turns'
        BY <1>0, <1>1, <1>2, <1>3, <2>1 DEF Turns
    <2>3. Joint(c)'
        BY <1>4, <2>1 DEF Joint, Accounts
    <2> QED BY <2>2, <2>3
<1>6. CASE /\ receive_status' = "FULL" /\ fc_tx' = NoFrame
           /\ receive_streaming /\ receive_streaming' /\ UNCHANGED invited
    <2>1. Holding /\ Holding' /\ Live /\ to_sender' = to_sender /\ held' = held
        BY <1>1, <1>2, <1>6 DEF Live, Holding, FlowControlSent
    <2>2. Turns'
        BY <1>0, <1>1, <1>2, <1>3, <2>1 DEF Turns
    <2>3. Pending(c)' = Pending(c) /\ (InStep(c) => InStep(c)')
        BY <1>1, <1>2, <1>3, <2>1, Counting DEF Pending, InStep
    <2>4. Accounts(c)'
        BY <1>0, <1>1, <1>3, <1>6, <2>1, <2>3 DEF Joint, Accounts
    <2> QED BY <1>4, <2>2, <2>4 DEF Joint
<1>7. CASE /\ receive_status' = "INPROGRESS" /\ Invites(1)
           /\ receive_streaming /\ receive_offset < receive_size
    <2>1. Holding /\ Live
        BY <1>2, <1>7 DEF Holding, Live
    <2>2. /\ invited = 0 /\ held <= MaxHold /\ held \in Nat /\ age_bs \in Nat
          /\ send_bs_remain \in 0 .. 255 /\ Coming \in 0 .. 255
          /\ to_sender # << >> => Coming > 0
          /\ MaxTransit \in Nat /\ MaxHold \in Nat
          /\ Pending(c) \in Nat /\ (c > 0 => Pending(c) >= 1)
        BY <2>1, AgreedCounts
    <2>3. /\ c \in Nat /\ Len(to_receiver) \in Nat
          /\ to_receiver = << >> <=> Len(to_receiver) = 0
          /\ Current => c = Len(to_receiver)
        BY AgreedBus
    <2>4. Pending(c) = 0 /\ InStep(c) /\ c = 0
        <3>1. Pending(c) <= 0 /\ (Pending(c) = 0 => InStep(c))
            BY <1>0, <2>1, <2>2 DEF Joint, Accounts
        <3>2. Pending(c) = 0
            BY <2>2, <3>1
        <3>3. ~(c > 0)
            BY <2>2, <3>2
        <3> QED BY <2>3, <3>1, <3>2, <3>3
    <2>5. Current
        <3>1. ASSUME ~Current PROVE FALSE
            <4>1. receive_offset = receive_size
                BY <2>4, <3>1 DEF InStep
            <4>2. receive_size \in Nat
                BY <1>0 DEF RP!IInv, RP!TypeOK, RP!BufferType
            <4> QED BY <1>7, <4>1, <4>2
        <3> QED BY <3>1
    <2>6. send_bs_remain = 0 /\ to_sender = << >> /\ to_receiver = << >>
        <3>1. c + (send_bs_remain + Coming) = 0
            BY <2>4, <2>5, Counting
        <3>2. send_bs_remain = 0 /\ Coming = 0
            BY <2>2, <2>4, <3>1
        <3>3. to_sender = << >>
            BY <2>2, <3>2
        <3> QED BY <2>3, <2>4, <2>5, <3>2, <3>3
    <2>7. /\ to_sender' # << >> /\ Len(to_sender') = 1 /\ to_sender'[1].age = 0
          /\ Coming' = invited' /\ invited' \in 1 .. 255
        BY <1>0, <1>1, <1>7, <2>6, InvitationSent
    <2>8. Pending(c)' = invited'
        <3>1. Pending(c)' = c + (send_bs_remain' + Coming')
            BY <1>3, <2>5, Counting
        <3> QED BY <1>3, <2>4, <2>6, <2>7, <3>1
    <2>9. InStep(c)'
        BY <1>2, <1>3, <2>4, <2>5 DEF InStep
    <2>10. Accounts(c)'
        BY <2>7, <2>8, <2>9 DEF Accounts
    <2>11. age_bs' <= MaxTransit + MaxHold + to_sender'[1].age
        <3>1. age_bs <= MaxTransit + held
            BY <1>0, <2>1, <2>5 DEF Turns
        <3> QED BY <1>3, <2>2, <2>7, <3>1
    <2>12. ~Holding'
        BY <1>7 DEF Holding
    <2>13. Turns'
        BY <1>1, <1>2, <1>3, <2>5, <2>6, <2>7, <2>11, <2>12 DEF Turns, Current
    <2> QED BY <1>4, <2>10, <2>13 DEF Joint
<1> QED BY <1>2, <1>5, <1>6, <1>7

LEMMA InvitationLostAgrees ==
    ASSUME NEW c, Agreed(c), FlowControlLost
    PROVE  Turns' /\ Joint(c)'
<1>0. Turns /\ Joint(c) /\ NetworkInv
    BY DEF Agreed, BaseInv
<1>1. /\ UNCHANGED <<to_receiver, sent, held>> /\ SenderStays /\ ReceiverStays
      /\ faults' # << >> /\ to_sender # << >> /\ to_sender' = Tail(to_sender)
    BY <1>0, Staying, FaultHappens DEF FlowControlLost
<1>2. Current /\ Len(to_sender) = 1 /\ to_receiver = << >> /\ send_bs_remain = 0
    BY <1>0, <1>1 DEF Turns
<1>3. to_sender' = << >>
    <2>1. \E F : to_sender \in Seq(F)
        BY <1>0 DEF NetworkInv, BusInv, Channel
    <2> QED BY <1>1, <1>2, <2>1
<1>4. /\ (S!InProgress' <=> S!InProgress) /\ (Current' <=> Current) /\ (Live' <=> Live)
      /\ (Holding' <=> Holding)
      /\ Sending' = Sending /\ Place' = Place
      /\ UNCHANGED <<send_bs_remain, age_bs, message, invited>>
    BY <1>1, Staying DEF SenderStays, ReceiverStays
<1>5. Turns'
    BY <1>0, <1>1, <1>2, <1>3, <1>4 DEF Turns
<1>6. c \in Nat /\ c = 0
    BY <1>2, AgreedBus
<1>7. Coming > 0 /\ Coming \in 0 .. 255
    BY <1>1, AgreedCounts
<1>8. Pending(c) = 0 + (0 + Coming) /\ Pending(c)' = 0 + (0 + 0)
    BY <1>2, <1>3, <1>4, <1>6, Counting
<1>9. Pending(c)' = 0 /\ Pending(c) > 0 /\ Pending(c) \in Nat
    BY <1>7, <1>8
<1>10. ASSUME Live' PROVE Pending(c)' < invited' /\ invited' \in Nat
    <2>1. Live /\ invited' = invited
        BY <1>4, <1>10
    <2>2. invited \in 0 .. 255
        BY <2>1, AgreedCounts
    <2>3. Pending(c) <= invited
        BY <1>0, <2>1 DEF Joint, Accounts
    <2> QED BY <1>9, <2>1, <2>2, <2>3
<1>11. Accounts(c)'
    BY <1>1, <1>6, <1>9, <1>10, AccountsSlack
<1>12. Joint(c)'
    BY <1>0, <1>1, <1>4, <1>11 DEF Joint
<1> QED BY <1>5, <1>12


(* Everybody's time goes on by the same step. *)
LEMMA TimeGoesOn ==
    ASSUME NEW c, Agreed(c), Tick
    PROVE  /\ UNCHANGED <<send_status, send_offset, send_sn, send_bs_remain, sent, faults>>
           /\ S!InProgress => age_bs' = age_bs + ClockStep
           /\ held' = IF Holding THEN held + ClockStep ELSE 0
           /\ R!Receiving => age_cr' = age_cr + ClockStep
           /\ ReceiverStays /\ UNCHANGED receive_protocol_result
           /\ (S!InProgress' <=> S!InProgress) /\ (Current' <=> Current)
           /\ Sending' = Sending /\ Place' = Place
           /\ (Holding' <=> Holding) /\ message' = message
           /\ to_receiver' = Aged(to_receiver) /\ Len(to_receiver') = Len(to_receiver)
           /\ \A i \in 1 .. Len(to_receiver) :
                 /\ to_receiver'[i].frame = to_receiver[i].frame
                 /\ to_receiver'[i].age = to_receiver[i].age + ClockStep
           /\ to_receiver' = << >> <=> to_receiver = << >>
           /\ Len(to_sender') = Len(to_sender)
           /\ to_sender' = << >> <=> to_sender = << >>
           /\ to_sender # << >> => /\ to_sender'[1].age = to_sender[1].age + ClockStep
                                   /\ to_sender'[1].frame = to_sender[1].frame
                                   /\ Head(to_sender') = to_sender'[1]
                                   /\ Head(to_sender) = to_sender[1]
<1>0. NetworkInv
    BY DEF Agreed, BaseInv
<1>1. Len(to_receiver) \in Nat /\ (to_receiver = << >> <=> Len(to_receiver) = 0)
    BY AgreedBus
<1>2. /\ UNCHANGED <<send_status, send_offset, send_sn, send_bs_remain, sent, faults>>
      /\ S!InProgress => age_bs' = age_bs + ClockStep
      /\ held' = IF Holding THEN held + ClockStep ELSE 0
    BY DEF Tick, S!Tick, S!linkVars, S!segmentVars, S!creditVars, S!statusVars, SenderRests, sender
<1>3. /\ ReceiverStays /\ UNCHANGED receive_protocol_result
      /\ R!Receiving => age_cr' = age_cr + ClockStep
    <2>1. CASE R!Receiving
        BY <2>1 DEF Tick, R!Tick, R!bufferVars, R!streamVars, R!flowVars, R!recvStatusVars,
                    R!messageVars, ReceiverStays
    <2>2. CASE ~R!Receiving
        BY <2>2, Staying DEF Tick, ReceiverRests, receiver
    <2> QED BY <2>1, <2>2
<1>4. /\ S!InProgress' <=> S!InProgress
      /\ Current' <=> Current
      /\ Sending' = Sending /\ Place' = Place
    BY <1>2, <1>3 DEF ReceiverStays, S!InProgress, Current, Sending, Place
<1>5. (Holding' <=> Holding) /\ message' = message
    BY <1>3, Staying DEF ReceiverStays
<1>6. /\ to_receiver' = Aged(to_receiver) /\ Len(to_receiver') = Len(to_receiver)
      /\ \A i \in 1 .. Len(to_receiver) : /\ to_receiver'[i].frame = to_receiver[i].frame
                                          /\ to_receiver'[i].age = to_receiver[i].age + ClockStep
      /\ to_receiver' = << >> <=> to_receiver = << >>
    <2>1. Channel(to_receiver) /\ Channel(Aged(to_receiver)) /\ to_receiver' = Aged(to_receiver)
        BY <1>0, ChannelAges DEF NetworkInv, BusInv, Tick
    <2>2. /\ Len(Aged(to_receiver)) = Len(to_receiver)
          /\ \A i \in 1 .. Len(to_receiver) :
                /\ Aged(to_receiver)[i].frame = to_receiver[i].frame
                /\ Aged(to_receiver)[i].age = to_receiver[i].age + ClockStep
        BY <2>1, ChannelAges
    <2>3. Aged(to_receiver) = << >> <=> Len(Aged(to_receiver)) = 0
        BY <2>1, ChannelFrames
    <2> QED BY <1>1, <2>1, <2>2, <2>3
<1>7. /\ Len(to_sender') = Len(to_sender)
      /\ to_sender' = << >> <=> to_sender = << >>
      /\ to_sender # << >> => /\ to_sender'[1].age = to_sender[1].age + ClockStep
                              /\ to_sender'[1].frame = to_sender[1].frame
                              /\ Head(to_sender') = to_sender'[1] /\ Head(to_sender) = to_sender[1]
    <2>1. Channel(to_sender) /\ Channel(Aged(to_sender)) /\ to_sender' = Aged(to_sender)
        BY <1>0, ChannelAges DEF NetworkInv, BusInv, Tick
    <2>2. /\ Len(Aged(to_sender)) = Len(to_sender)
          /\ \A i \in 1 .. Len(to_sender) :
                /\ Aged(to_sender)[i].frame = to_sender[i].frame
                /\ Aged(to_sender)[i].age = to_sender[i].age + ClockStep
        BY <2>1, ChannelAges
    <2>3. /\ Aged(to_sender) = << >> <=> Len(Aged(to_sender)) = 0
          /\ to_sender = << >> <=> Len(to_sender) = 0
          /\ Len(to_sender) \in Nat
          /\ to_sender # << >> => Head(to_sender) = to_sender[1]
          /\ Aged(to_sender) # << >> => Head(Aged(to_sender)) = Aged(to_sender)[1]
        BY <2>1, ChannelFrames
    <2>4. to_sender # << >> => 1 \in 1 .. Len(to_sender)
        BY <2>3
    <2> QED BY <2>1, <2>2, <2>3, <2>4
<1> QED BY <1>2, <1>3, <1>4, <1>5, <1>6, <1>7

LEMMA TickAgrees ==
    ASSUME NEW c, Agreed(c), Tick
    PROVE  Turns' /\ Joint(c)'
<1>0. /\ Turns /\ Joint(c) /\ NetworkInv /\ ClockStep \in Nat
    BY NetworkConstants DEF Agreed, BaseInv
<1>1. /\ Frames(to_receiver, sent) /\ Queue(to_receiver, c, message, Sending, Place)
      /\ c \in 0 .. Len(to_receiver) /\ Len(to_receiver) \in Nat /\ c \in Nat
      /\ to_receiver = << >> <=> Len(to_receiver) = 0
    BY AgreedBus
<1>2. /\ age_bs \in Nat /\ held \in Nat /\ MaxTransit \in Nat /\ MaxHold \in Nat
      /\ \A i \in 1 .. Len(to_receiver) : to_receiver[i].age \in Nat
      /\ to_sender # << >> => to_sender[1].age \in Nat
    BY AgreedCounts
<1>3. /\ UNCHANGED <<send_status, send_offset, send_sn, send_bs_remain, sent, faults>>
      /\ S!InProgress => age_bs' = age_bs + ClockStep
      /\ held' = IF Holding THEN held + ClockStep ELSE 0
    BY TimeGoesOn
<1>4. ReceiverStays
    BY TimeGoesOn
<1>5. /\ S!InProgress' <=> S!InProgress
      /\ Current' <=> Current
      /\ Sending' = Sending /\ Place' = Place
    BY TimeGoesOn
<1>6. (Holding' <=> Holding) /\ message' = message
    BY TimeGoesOn
<1>7. /\ to_receiver' = Aged(to_receiver) /\ Len(to_receiver') = Len(to_receiver)
      /\ \A i \in 1 .. Len(to_receiver) : /\ to_receiver'[i].frame = to_receiver[i].frame
                                          /\ to_receiver'[i].age = to_receiver[i].age + ClockStep
      /\ to_receiver' = << >> <=> to_receiver = << >>
    BY TimeGoesOn
<1>8. /\ Len(to_sender') = Len(to_sender)
      /\ to_sender' = << >> <=> to_sender = << >>
      /\ to_sender # << >> => /\ to_sender'[1].age = to_sender[1].age + ClockStep
                              /\ to_sender'[1].frame = to_sender[1].frame
                              /\ Head(to_sender') = to_sender'[1] /\ Head(to_sender) = to_sender[1]
    BY TimeGoesOn
<1>9. Coming' = Coming
    BY <1>8 DEF Coming
<1>10. Queue(to_receiver', c, message', Sending', Place')
    <2>1. PICK m, g, p : m = message /\ g = Sending /\ p = Place
        OBVIOUS
    <2>2. Queue(Aged(to_receiver), c, m, g, p)
        BY <1>1, <2>1, QueueAges
    <2> QED BY <1>5, <1>6, <1>7, <2>1, <2>2
<1>11. Accounts(c)'
    <2>1. \A i \in 1 .. c : to_receiver'[i].frame = to_receiver[i].frame
        BY <1>1, <1>7
    <2> QED BY <1>0, <1>1, <1>3, <1>4, <1>5, <1>9, <2>1, AccountsKept DEF Joint
<1>12. Turns'
    <2>1. S!InProgress' /\ message' # sent' => send_bs_remain' = 0
        BY <1>0, <1>3, <1>5, <1>6 DEF Turns
    <2>2. ASSUME to_sender' # << >>
          PROVE  /\ Current' /\ Len(to_sender') = 1 /\ to_receiver' = << >> /\ send_bs_remain' = 0
                 /\ age_bs' <= MaxTransit + MaxHold + to_sender'[1].age
        <3>1. /\ Current /\ Len(to_sender) = 1 /\ to_receiver = << >> /\ send_bs_remain = 0
              /\ age_bs <= MaxTransit + MaxHold + to_sender[1].age
              /\ to_sender # << >>
            BY <1>0, <1>8, <2>2 DEF Turns
        <3>2. age_bs' = age_bs + ClockStep
            BY <1>3, <3>1 DEF Current
        <3>3. age_bs' <= MaxTransit + MaxHold + to_sender'[1].age
            BY <1>0, <1>2, <1>8, <3>1, <3>2
        <3> QED BY <1>3, <1>5, <1>7, <1>8, <3>1, <3>3
    <2>3. ASSUME S!InProgress', to_receiver' # << >>
          PROVE  age_bs' <= to_receiver'[Len(to_receiver')].age
        <3>1. /\ age_bs' = age_bs + ClockStep /\ to_receiver # << >>
              /\ age_bs <= to_receiver[Len(to_receiver)].age
            BY <1>0, <1>3, <1>5, <1>7, <2>3 DEF Turns
        <3>2. Len(to_receiver) \in 1 .. Len(to_receiver)
            BY <1>1, <3>1
        <3> QED BY <1>0, <1>2, <1>7, <3>1, <3>2
    <2>4. ASSUME Holding', Current' PROVE age_bs' <= MaxTransit + held'
        <3>1. /\ age_bs' = age_bs + ClockStep /\ held' = held + ClockStep
              /\ age_bs <= MaxTransit + held
            BY <1>0, <1>3, <1>5, <1>6, <2>4 DEF Turns, Current
        <3> QED BY <1>0, <1>2, <3>1
    <2> QED BY <2>1, <2>2, <2>3, <2>4 DEF Turns
<1> QED BY <1>10, <1>11, <1>12 DEF Joint


-----------------------------------------------------------------------------
(* The invariant, as long as no frame is repeated and nobody restarts.      *)

Benign   == \A kind \in Range(faults) : kind \in {"lost", "failed"}
JointInv == Benign => Turns /\ \E c \in Nat : Joint(c)

LEMMA BenignBefore ==
    ASSUME NetworkInv, Next, Benign'
    PROVE  Benign /\ ~ConsecutiveFrameRepeated /\ ~SenderRestarts /\ ~ReceiverRestarts
<1>1. ASSUME NEW kind \in FaultKinds, Fault(kind)
      PROVE  kind \in {"lost", "failed"} /\ Benign
    <2>1. kind \in Range(faults') /\ Range(faults) \subseteq Range(faults')
        BY <1>1, FaultHappens
    <2> QED BY <2>1 DEF Benign
<1>2. /\ {"lost", "failed", "repeated", "sender restarts", "receiver restarts"} \subseteq FaultKinds
      /\ {"repeated", "sender restarts", "receiver restarts"} \cap {"lost", "failed"} = {}
    BY DEF FaultKinds
<1>3. ~ConsecutiveFrameRepeated
    BY <1>1, <1>2 DEF ConsecutiveFrameRepeated
<1>4. ~SenderRestarts
    BY <1>1, <1>2 DEF SenderRestarts
<1>5. ~ReceiverRestarts
    BY <1>1, <1>2 DEF ReceiverRestarts
<1>6. Benign
    <2>1. CASE UNCHANGED faults
        BY <2>1 DEF Benign
    <2>2. CASE Fault("lost") \/ Fault("failed")
        BY <1>1, <1>2, <2>2
    <2> QED BY <1>3, <1>4, <1>5, <2>1, <2>2
            DEF Next, SendPayload, SenderPolls, SenderTakesFrame, ReceiverTakesFrame, ReceiverPolls,
                ReceiverTakesData, DataLost, FlowControlLost, DriverFails, Tick
<1> QED BY <1>3, <1>4, <1>5, <1>6

LEMMA JointStep == Prompt /\ BaseInv /\ JointInv /\ [Next]_vars => JointInv'
<1>1. ASSUME Prompt, BaseInv, JointInv, Next, Benign'
      PROVE  Turns' /\ \E d \in Nat : Joint(d)'
    <2>0. NetworkInv
        BY <1>1 DEF BaseInv
    <2>1. Benign /\ ~ConsecutiveFrameRepeated /\ ~SenderRestarts /\ ~ReceiverRestarts
        BY <1>1, <2>0, BenignBefore
    <2>2. PICK c \in Nat : Agreed(c)
        BY <1>1, <2>1 DEF JointInv, Agreed
    <2>3. CASE SendPayload
        BY <2>2, <2>3, PayloadAgrees
    <2>4. CASE SenderPolls
        <3>1. CASE S!PollAccepted(0)
            <4>1. Turns' /\ Joint(c + 1)'
                BY <2>2, <2>4, <3>1, FrameSentAgrees
            <4>2. PICK d \in Nat : d = c + 1
                BY <2>2
            <4> QED BY <4>1, <4>2
        <3>2. CASE S!PollNoSpace(0) \/ S!PollWaiting(0)
            BY <2>2, <2>4, <3>2, NothingSentAgrees
        <3> QED BY <2>4, <3>1, <3>2 DEF SenderPolls
    <2>5. CASE SenderTakesFrame
        BY <2>2, <2>5, InvitationTakenAgrees
    <2>6. CASE ReceiverTakesFrame
        BY <2>2, <2>6, FrameReceivedAgrees
    <2>7. CASE ReceiverPolls
        BY <2>2, <2>7, ReceptionGivenUpAgrees
    <2>8. CASE ReceiverTakesData
        BY <2>2, <2>8, DataTakenAgrees
    <2>9. CASE DataLost
        BY <2>2, <2>9, LossAgrees
    <2>10. CASE FlowControlLost
        BY <2>2, <2>10, InvitationLostAgrees
    <2>11. CASE DriverFails
        <3>1. S!PollFailed(0)
            BY <2>11 DEF DriverFails
        <3> QED BY <2>2, <2>11, <3>1, NothingSentAgrees
    <2>12. CASE Tick
        BY <2>2, <2>12, TickAgrees
    <2> QED BY <1>1, <2>1, <2>3, <2>4, <2>5, <2>6, <2>7, <2>8, <2>9, <2>10, <2>11, <2>12 DEF Next
<1>2. ASSUME JointInv, UNCHANGED vars PROVE JointInv'
    BY <1>2 DEF JointInv, Benign, Turns, Joint, Accounts, InStep, Pending, Current, Coming, Sending,
                Place, Live, Holding, S!InProgress, R!Receiving, vars, sender, receiver, bus
<1>3. JointInv' <=> (Benign' => Turns' /\ \E d \in Nat : Joint(d)')
    BY DEF JointInv
<1> QED BY <1>1, <1>2, <1>3

LEMMA JointStarts == Init => Turns /\ Joint(0)
<1> SUFFICES ASSUME Init PROVE Turns /\ Joint(0)
    OBVIOUS
<1>1. /\ to_receiver = << >> /\ to_sender = << >> /\ sent = 0 /\ message = 0
      /\ receive_status = "IDLE" /\ send_status = "IDLE"
    BY DEF Init, S!LinkInit, S!ClearedLink, R!LinkInit
<1>2. ~S!InProgress /\ ~Live /\ ~Holding /\ ~Current
    BY <1>1 DEF S!InProgress, Live, Holding, R!Receiving, Current
<1>3. Turns
    BY <1>1, <1>2 DEF Turns
<1>4. Accounts(0)
    BY <1>2 DEF Accounts
<1>5. /\ Len(to_receiver) = 0
      /\ \A i : i \notin 1 .. 0 /\ i \notin 0 + 1 .. 0 /\ i \notin 1 .. 0 - 1
    BY <1>1
<1>6. Line(to_receiver, 0, message)
    BY <1>5 DEF Line
<1>7. Tip(to_receiver, 0, message, Sending, Place)
    BY <1>5 DEF Tip
<1> QED BY <1>3, <1>4, <1>6, <1>7 DEF Joint, Queue

LEMMA JointInvariance == ASSUME Prompt PROVE Spec => [](BaseInv /\ JointInv)
<1>1. Init => JointInv
    BY JointStarts DEF JointInv
<1>2. BaseInv /\ JointInv /\ [Next]_vars => JointInv'
    BY JointStep
<1>3. Spec => []BaseInv
    BY BaseInvariance
<1> QED BY <1>1, <1>2, <1>3, PTL DEF Spec


-----------------------------------------------------------------------------
(* What is outstanding, counted in frames.                                  *)

LEMMA PairsOfOne ==
    ASSUME NEW n \in Nat
    PROVE  Cardinality({1} \X (1 .. n)) = n
<1>1. IsFiniteSet({1}) /\ Cardinality({1}) = 1
    BY FS_Singleton
<1>2. IsFiniteSet(1 .. n) /\ Cardinality(1 .. n) = n
    BY FS_Interval
<1>3. Cardinality({1} \X (1 .. n)) = 1 * n
    BY <1>1, <1>2, FS_Product
<1> QED BY <1>3

LEMMA OutstandingIsPending ==
    ASSUME NEW c \in Nat, Agreed(c), Current
    PROVE  Outstanding = Pending(c)
<1>1. /\ c = Len(to_receiver) /\ Len(to_receiver) \in Nat
      /\ Queue(to_receiver, c, message, Sending, Place)
    BY AgreedBus
<1>2. NetworkInv /\ Turns
    BY DEF Agreed, BaseInv
<1>3. DOMAIN to_receiver = 1 .. Len(to_receiver) /\ DOMAIN to_sender = 1 .. Len(to_sender)
      /\ (to_sender = << >> <=> Len(to_sender) = 0)
    BY <1>2, ChannelFrames DEF NetworkInv, BusInv
<1>4. /\ send_bs_remain \in Nat /\ Coming \in Nat
    <2>1. send_bs_remain \in 0 .. 255 /\ Coming \in 0 .. 255
        BY AgreedCounts
    <2> QED BY <2>1
<1>5. Cardinality(DataOnBus) = c
    <2>1. DataOnBus = 1 .. c
        BY <1>1, <1>3 DEF Queue, Line, DataOnBus
    <2>2. Cardinality(1 .. c) = c
        BY FS_Interval
    <2> QED BY <2>1, <2>2
<1>6. Cardinality(Invited) = Coming
    <2>1. CASE to_sender = << >>
        <3>1. DOMAIN to_sender = {}
            BY <1>3, <2>1
        <3>2. Invited = {}
            BY <3>1 DEF Invited
        <3>3. Cardinality({}) = 0
            BY FS_EmptySet
        <3> QED BY <2>1, <3>2, <3>3 DEF Coming
    <2>2. CASE to_sender # << >>
        <3>1. PICK n \in Nat : n = Coming
            BY <1>4
        <3>2. Head(to_sender) = to_sender[1]
            BY <2>2, AgreedCounts
        <3>3. n = to_sender[1].frame.BS
            BY <2>2, <3>1, <3>2 DEF Coming
        <3>4. Len(to_sender) = 1
            BY <1>2, <2>2 DEF Turns
        <3>5. DOMAIN to_sender = {1}
            BY <1>3, <3>4
        <3>6. Invited = {1} \X (1 .. n)
            BY <3>3, <3>5 DEF Invited
        <3> QED BY <3>1, <3>6, PairsOfOne
    <2> QED BY <2>1, <2>2
<1>7. Pending(c) = c + (send_bs_remain + Coming)
    BY Counting
<1> QED BY <1>4, <1>5, <1>6, <1>7 DEF Outstanding

(* Both sides count the same block.  With blocks counted, a receiver that   *)
(* has a buffer, and applications and a bus that need no longer than the    *)
(* sender waits, the frames the sender may still send, has on the bus or is *)
(* being invited to send are never more than the receiver has invited, and  *)
(* exactly as many when nothing was lost: for every length and order of     *)
(* payloads, every block size but 0, every buffer and every delay.          *)
THEOREM CreditAgreementHolds == ASSUME Prompt PROVE Spec => []CreditAgreement
<1>1. BaseInv /\ JointInv => CreditAgreement
    <2> SUFFICES ASSUME BaseInv, JointInv, Together, R!Receiving
                 PROVE  /\ Outstanding <= invited
                        /\ faults = << >> => Outstanding = invited
        BY DEF CreditAgreement
    <2>1. Benign /\ Current /\ Live
        BY DEF Together, Benign, Current, Live
    <2>2. PICK c \in Nat : Agreed(c)
        BY <2>1 DEF JointInv, Agreed
    <2>3. Outstanding = Pending(c)
        BY <2>1, <2>2, OutstandingIsPending
    <2>4. Accounts(c)
        BY <2>2 DEF Agreed, Joint
    <2> QED BY <2>1, <2>3, <2>4 DEF Accounts
<1>2. Spec => [](BaseInv /\ JointInv)
    BY JointInvariance
<1> QED BY <1>1, <1>2, PTL

(* A full streaming buffer stops the sender.  Under the same hypotheses,    *)
(* while it waits for the application no Consecutive Frame of the message   *)
(* is on the bus, the sender may send none, and no invitation is on its way.*)
THEOREM BackpressureHolds == ASSUME Prompt PROVE Spec => []Backpressure
<1>1. BaseInv /\ JointInv => Backpressure
    <2> SUFFICES ASSUME BaseInv, JointInv, Together, Holding
                 PROVE  Outstanding = 0
        BY DEF Backpressure
    <2>1. Benign /\ Current /\ Live
        BY DEF Together, Benign, Current, Live
    <2>2. PICK c \in Nat : Agreed(c)
        BY <2>1 DEF JointInv, Agreed
    <2>3. Outstanding = Pending(c)
        BY <2>1, <2>2, OutstandingIsPending
    <2>4. invited = 0 /\ Pending(c) \in Nat
        BY <2>2, AgreedCounts
    <2>5. Pending(c) <= invited
        BY <2>1, <2>2 DEF Agreed, Joint, Accounts
    <2> QED BY <2>3, <2>4, <2>5
<1>2. Spec => [](BaseInv /\ JointInv)
    BY JointInvariance
<1> QED BY <1>1, <1>2, PTL


-----------------------------------------------------------------------------
(* Without a fault nothing fails.                                           *)

(* The receiver has patience for a frame there, a sender polled late and a  *)
(* frame back, and room for what is sent in a Single Frame.                 *)
Patient ==
    /\ Prompt
    /\ 2 * MaxTransit + DEFAULT_ST_MIN_US + MaxDelay <= RESPONSE_TIMEOUT_US
    /\ \A m \in 1 .. Len(Payloads), size \in RECEIVE_BUF_SIZES :
           Payloads[m] <= SfMaxPayload(Dl) => Payloads[m] <= size

(* Everything that is on its way is awaited, and everything awaited is on   *)
(* its way.                                                                 *)
Complete(c) ==
    /\ send_status # "ERROR" /\ receive_protocol_result = "OK"
    /\ Current => Live
    /\ S!InProgress /\ ~Current =>
         to_receiver # << >> /\ to_receiver[Len(to_receiver)].frame.type = "FF"
    /\ c > 0 => R!Receiving /\ InStep(c)
    /\ R!Receiving /\ ~Current => c > 0

(* A receiver has waited no longer than for the invitation on its way to    *)
(* the sender, for the sender to be polled, or for the frame on its way.    *)
Waiting(c) ==
    R!Receiving =>
        /\ to_sender # << >> => age_cr <= to_sender[1].age
        /\ Current /\ send_bs_remain > 0 /\ c = 0 => age_cr <= MaxTransit + age_bs
        /\ c > 0 => age_cr <= MaxTransit + DEFAULT_ST_MIN_US + MaxDelay + to_receiver[1].age

Clean(c) == Complete(c) /\ Waiting(c)

Undisturbed(c) == Patient /\ faults = << >> /\ Agreed(c) /\ Clean(c)

LEMMA UndisturbedFacts ==
    ASSUME NEW c, Undisturbed(c)
    PROVE  /\ c \in Nat /\ age_cr \in Nat /\ age_bs \in Nat
           /\ MaxTransit \in Nat /\ MaxDelay \in Nat /\ DEFAULT_ST_MIN_US \in Nat
           /\ 2 * MaxTransit + DEFAULT_ST_MIN_US + MaxDelay <= RESPONSE_TIMEOUT_US
           /\ RESPONSE_TIMEOUT_US \in Nat
           /\ S!InProgress /\ send_bs_remain # 0 =>
                Current /\ to_sender = << >> /\ age_bs <= DEFAULT_ST_MIN_US + MaxDelay
           /\ Current => Live /\ Pending(c) = invited
           /\ R!Receiving /\ Current => c > 0 \/ send_bs_remain > 0 \/ to_sender # << >>
           /\ c > 0 => Live /\ R!Receiving /\ ~Holding
<1>0. /\ Patient /\ faults = << >> /\ Complete(c) /\ Turns /\ Joint(c) /\ Timing /\ Rates /\ RP!IInv
    BY DEF Undisturbed, Clean, Agreed, BaseInv, NetworkInv, ReceiverInv
<1>1. /\ c \in Nat /\ age_bs \in Nat /\ send_bs_remain \in 0 .. 255
      /\ RESPONSE_TIMEOUT_US \in Nat /\ Coming \in 0 .. 255
      /\ R!Receiving => invited > 0
      /\ ~S!InProgress => to_sender = << >>
    BY AgreedBus, AgreedCounts DEF Undisturbed
<1>2. age_cr \in Nat
    BY <1>0 DEF RP!IInv, RP!TypeOK, RP!ClockType
<1>3. MaxTransit \in Nat /\ MaxDelay \in Nat /\ DEFAULT_ST_MIN_US \in Nat
    BY NetworkConstants
<1>4. ASSUME S!InProgress, send_bs_remain # 0
      PROVE  Current /\ to_sender = << >> /\ age_bs <= DEFAULT_ST_MIN_US + MaxDelay
    <2>1. Current /\ to_sender = << >>
        BY <1>0, <1>4 DEF Turns, Current
    <2>2. age_bs <= send_st_min_us + MaxDelay /\ send_st_min_us \in 0 .. DEFAULT_ST_MIN_US
        BY <1>0, <1>4 DEF Timing, Rates
    <2> QED BY <1>1, <1>3, <2>1, <2>2
<1>5. Current => Live /\ Pending(c) = invited
    BY <1>0 DEF Complete, Joint, Accounts
<1>6. ASSUME R!Receiving, Current PROVE c > 0 \/ send_bs_remain > 0 \/ to_sender # << >>
    <2>1. Pending(c) = c + (send_bs_remain + Coming) /\ Pending(c) > 0
        BY <1>1, <1>5, <1>6, Counting
    <2>2. to_sender = << >> => Coming = 0
        BY Counting
    <2>3. CASE to_sender = << >>
        <3>1. c + (send_bs_remain + 0) > 0
            BY <2>1, <2>2, <2>3
        <3> QED BY <1>1, <3>1
    <2> QED BY <2>3
<1>7. c > 0 => Live /\ R!Receiving /\ ~Holding
    BY <1>0 DEF Complete, Live, Holding, R!Receiving
<1> QED BY <1>0, <1>1, <1>2, <1>3, <1>4, <1>5, <1>6, <1>7 DEF Patient

(* A step that neither moves a frame nor changes what the two wait for.     *)
LEMMA CleanStays ==
    ASSUME NEW c, Clean(c), SenderStays, ReceiverStays,
           UNCHANGED <<to_receiver, to_sender, receive_protocol_result, age_cr>>
    PROVE  Clean(c)'
<1>1. /\ (S!InProgress' <=> S!InProgress) /\ (R!Receiving' <=> R!Receiving) /\ (Live' <=> Live)
      /\ UNCHANGED <<send_status, send_offset, send_sn, send_bs_remain, age_bs,
                     receive_offset, receive_size, receive_sn>>
    BY Staying DEF SenderStays, ReceiverStays
<1>2. Current' <=> Current
    BY Staying DEF ReceiverStays
<1>3. (InStep(c) => InStep(c)') /\ Complete(c)'
    BY <1>1, <1>2 DEF Clean, Complete, InStep
<1>4. Waiting(c)'
    BY <1>1, <1>2 DEF Clean, Waiting
<1> QED BY <1>3, <1>4 DEF Clean

LEMMA PayloadClean ==
    ASSUME NEW c, Undisturbed(c), SendPayload
    PROVE  Clean(c)'
<1>0. Agreed(c) /\ Complete(c) /\ Waiting(c)
    BY DEF Undisturbed, Clean
<1>1. /\ Frames(to_receiver, sent) /\ c \in 0 .. Len(to_receiver) /\ Len(to_receiver) \in Nat
      /\ sent \in Nat /\ message \in 0 .. sent
      /\ ~S!InProgress => to_sender = << >>
    BY <1>0, AgreedBus
<1>2. /\ sent' = sent + 1 /\ ReceiverStays /\ UNCHANGED <<to_sender, receive_protocol_result, age_cr>>
    BY Staying DEF SendPayload, ReceiverRests, receiver
<1>3. ~S!InProgress /\ send_status' # "ERROR"
    BY <1>0, PayloadOnBus DEF Complete
<1>4. PICK f : /\ to_receiver' = Append(to_receiver, OnBus(f))
               /\ S!InProgress' => f.type = "FF"
    BY <1>0, PayloadOnBus
<1>5. /\ Len(to_receiver') = Len(to_receiver) + 1
      /\ \A i \in 1 .. Len(to_receiver) : to_receiver'[i] = to_receiver[i]
      /\ to_receiver'[Len(to_receiver')].frame = f
    BY <1>1, <1>4, ChannelSends DEF Frames
<1>6. to_receiver' # << >>
    <2>1. Len(to_receiver') # 0
        BY <1>1, <1>5
    <2> QED BY <2>1
<1>7. /\ (R!Receiving' <=> R!Receiving)
      /\ UNCHANGED <<message, receive_offset, receive_size, receive_sn>>
    BY <1>2, Staying DEF ReceiverStays
<1>8. ~Current /\ ~Current' /\ to_sender' = << >>
    BY <1>1, <1>2, <1>3, <1>7 DEF Current
<1>9. c > 0 => to_receiver'[1] = to_receiver[1] /\ to_receiver'[c] = to_receiver[c]
    <2>1. c > 0 => 1 \in 1 .. Len(to_receiver) /\ c \in 1 .. Len(to_receiver)
        BY <1>1
    <2> QED BY <1>5, <2>1
<1>10. Complete(c)'
    <2>1. ASSUME c > 0 PROVE R!Receiving' /\ InStep(c)'
        <3>1. c # 0 /\ R!Receiving /\ InStep(c)
            BY <1>0, <1>1, <2>1 DEF Complete
        <3> QED BY <1>7, <1>8, <1>9, <2>1, <3>1 DEF InStep
    <2> QED BY <1>0, <1>2, <1>3, <1>4, <1>5, <1>6, <1>7, <1>8, <2>1 DEF Complete
<1>11. Waiting(c)'
    BY <1>0, <1>2, <1>7, <1>8, <1>9 DEF Waiting
<1> QED BY <1>10, <1>11 DEF Clean

LEMMA FrameSentClean ==
    ASSUME NEW c, Undisturbed(c), SenderPolls, S!PollAccepted(0)
    PROVE  Clean(c + 1)'
<1>0. Agreed(c) /\ Complete(c) /\ Waiting(c)
    BY DEF Undisturbed, Clean
<1>1. /\ Live /\ InStep(c) => InStep(c + 1)'
      /\ Current /\ to_sender' = << >> /\ send_status' # "ERROR"
      /\ to_receiver'[c + 1].age = 0
      /\ c > 0 => to_receiver'[1] = to_receiver[1]
    BY <1>0, FrameSentAgrees
<1>2. /\ ReceiverStays /\ UNCHANGED <<sent, receive_protocol_result, age_cr>>
    BY Staying DEF SenderPolls, ReceiverRests, receiver
<1>3. /\ (R!Receiving' <=> R!Receiving) /\ (Live' <=> Live) /\ message' = message
    BY <1>2, Staying DEF ReceiverStays
<1>4. /\ S!InProgress /\ send_bs_remain # 0
    <2>1. tx_dl = DEFAULT_TX_DL /\ SP!IInv
        BY <1>0 DEF Agreed, BaseInv, NetworkInv, SenderInv
    <2> QED BY <2>1, SendsConsecutiveFrame
<1>5. /\ c \in Nat /\ age_cr \in Nat /\ age_bs \in Nat
      /\ MaxTransit \in Nat /\ MaxDelay \in Nat /\ DEFAULT_ST_MIN_US \in Nat
      /\ age_bs <= DEFAULT_ST_MIN_US + MaxDelay
      /\ Live /\ Pending(c) = invited
    BY <1>1, <1>4, UndisturbedFacts
<1>6. send_bs_remain \in 0 .. 255 /\ Coming \in 0 .. 255 /\ (Holding => invited = 0)
    BY <1>0, AgreedCounts
<1>7. R!Receiving
    <2>1. Pending(c) = c + (send_bs_remain + Coming)
        BY <1>1, Counting
    <2>2. invited # 0
        BY <1>4, <1>5, <1>6, <2>1
    <2> QED BY <1>5, <1>6, <2>2 DEF Live
<1>8. InStep(c)
    BY <1>0, <1>5 DEF Agreed, Joint, Accounts
<1>9. /\ S!InProgress' => Current'
      /\ c + 1 > 0 /\ c + 1 # 0 /\ c + 1 \in Nat
    BY <1>1, <1>2, <1>3, <1>5 DEF Current
<1>10. Complete(c + 1)'
    BY <1>0, <1>1, <1>2, <1>3, <1>5, <1>7, <1>8, <1>9 DEF Complete
<1>11. age_cr <= MaxTransit + DEFAULT_ST_MIN_US + MaxDelay + to_receiver'[1].age
    <2>1. CASE c = 0
        <3>1. send_bs_remain > 0
            BY <1>4, <1>6
        <3>2. age_cr <= MaxTransit + age_bs
            BY <1>0, <1>1, <1>7, <2>1, <3>1 DEF Waiting
        <3>3. to_receiver'[1].age = 0
            BY <1>1, <2>1
        <3> QED BY <1>5, <3>2, <3>3
    <2>2. CASE c # 0
        <3>1. c > 0
            BY <1>5, <2>2
        <3> QED BY <1>0, <1>1, <1>7, <3>1 DEF Waiting
    <2> QED BY <2>1, <2>2
<1>12. Waiting(c + 1)'
    BY <1>1, <1>2, <1>9, <1>11 DEF Waiting
<1> QED BY <1>10, <1>12 DEF Clean

LEMMA NothingSentClean ==
    ASSUME NEW c, Undisturbed(c), SenderPolls, S!PollNoSpace(0) \/ S!PollWaiting(0)
    PROVE  Clean(c)'
<1>0. Agreed(c) /\ Clean(c) /\ Complete(c) /\ SP!IInv /\ Next
    BY DEF Undisturbed, Clean, Agreed, BaseInv, NetworkInv, SenderInv, Next
<1>1. /\ S!InProgress /\ can_tx' = NoFrame /\ age_bs' = age_bs
      /\ \/ send_status' = "ERROR" /\ send_protocol_result' = "TIMEOUT_BS"
         \/ UNCHANGED <<send_status, send_protocol_result>>
         \/ S!PollFailed(0) /\ send_status' = "ERROR"
      /\ UNCHANGED <<send_offset, send_sn, send_bs_remain>>
    BY <1>0, SendsNothing
<1>2. ~(S!PollFailed(0) /\ send_status' = "ERROR") \/ send_protocol_result' = "TIMEOUT_BS"
    BY DEF S!PollNoSpace, S!PollWaiting, S!PollFailed, S!PollUnsent, S!CheckResponseTimeout
<1>3. /\ c \in Nat /\ age_bs \in Nat /\ RESPONSE_TIMEOUT_US \in Nat
      /\ MaxTransit \in Nat /\ MaxDelay \in Nat /\ DEFAULT_ST_MIN_US \in Nat
      /\ 2 * MaxTransit + DEFAULT_ST_MIN_US + MaxDelay <= RESPONSE_TIMEOUT_US
      /\ S!InProgress /\ send_bs_remain # 0 => age_bs <= DEFAULT_ST_MIN_US + MaxDelay
      /\ Current => Live
      /\ R!Receiving /\ Current => c > 0 \/ send_bs_remain > 0 \/ to_sender # << >>
    BY UndisturbedFacts
<1>4. ASSUME send_status' = "ERROR", send_protocol_result' = "TIMEOUT_BS" PROVE FALSE
    <2>1. age_bs > RESPONSE_TIMEOUT_US
        BY <1>0, <1>1, <1>4, NotEarly
    <2>2. send_bs_remain = 0
        <3>1. ~(age_bs <= DEFAULT_ST_MIN_US + MaxDelay)
            BY <1>3, <2>1
        <3> QED BY <1>1, <1>3, <3>1
    <2>3. to_receiver = << >> /\ to_sender = << >> /\ ~(Holding /\ Current)
        BY <1>0, <1>1, <2>1, LateSender
    <2>4. c = 0
        <3>1. c \in 0 .. Len(to_receiver) /\ Len(to_receiver) = 0
            BY <1>0, <2>3, AgreedBus
        <3> QED BY <3>1
    <2>5. Current
        BY <1>0, <1>1, <2>3 DEF Complete
    <2>6. R!Receiving
        BY <1>3, <2>3, <2>5 DEF Live
    <2> QED BY <1>3, <2>2, <2>3, <2>4, <2>5, <2>6
<1>5. UNCHANGED send_status
    BY <1>1, <1>2, <1>4
<1>6. UNCHANGED <<to_receiver, to_sender, sent, receive_protocol_result, age_cr>> /\ ReceiverStays
    BY <1>1, Staying DEF SenderPolls, DataSent, ReceiverRests, receiver
<1>7. SenderStays
    BY <1>1, <1>5, <1>6 DEF SenderStays
<1> QED BY <1>0, <1>6, <1>7, CleanStays

LEMMA InvitationTakenClean ==
    ASSUME NEW c, Undisturbed(c), SenderTakesFrame
    PROVE  Clean(c)'
<1>0. Agreed(c) /\ Complete(c) /\ Waiting(c) /\ to_sender # << >>
    BY DEF Undisturbed, Clean, SenderTakesFrame
<1>1. /\ c = 0 /\ to_sender' = << >> /\ Current /\ Current' /\ age_bs' = 0
      /\ ReceiverStays /\ UNCHANGED <<send_status, to_receiver>>
    BY <1>0, InvitationTakenAgrees
<1>2. UNCHANGED <<receive_protocol_result, age_cr>>
    BY DEF SenderTakesFrame, ReceiverRests, receiver
<1>3. (R!Receiving' <=> R!Receiving) /\ (Live' <=> Live)
    BY <1>1, Staying
<1>4. Complete(c)'
    BY <1>0, <1>1, <1>2, <1>3 DEF Complete
<1>5. ASSUME R!Receiving PROVE age_cr <= MaxTransit + 0
    <2>1. 1 \in 1 .. Len(to_sender)
        BY <1>0, FirstInvitation DEF Agreed, BaseInv
    <2>2. /\ to_sender[1].age <= MaxTransit /\ to_sender[1].age \in Nat
          /\ MaxTransit \in Nat /\ age_cr \in Nat
        BY <1>0, <2>1, AgreedCounts, UndisturbedFacts
    <2>3. age_cr <= to_sender[1].age
        BY <1>0, <1>5 DEF Waiting
    <2> QED BY <2>2, <2>3
<1>6. Waiting(c)'
    BY <1>1, <1>2, <1>3, <1>5 DEF Waiting
<1> QED BY <1>4, <1>6 DEF Clean


LEMMA SenderBehind ==
    ASSUME NEW c, Agreed(c), S!InProgress
    PROVE  /\ send_offset < Payloads[sent] /\ send_offset \in Nat
           /\ Payloads[sent] \in Nat
<1>1. /\ SP!IInv /\ sent \in 1 .. Len(Payloads) /\ send_size = Payloads[sent]
    BY AgreedBus DEF Agreed, BaseInv, NetworkInv, SenderInv
<1>2. SP!InProgress
    BY SameSendLife
<1>3. send_offset < send_size /\ send_offset \in Nat
    BY <1>1, <1>2 DEF SP!IInv, SP!TypeOK, SP!SegmentType, SP!Segmentation
<1> QED BY <1>1, <1>3, NetworkConstants

(* A receiver whose timer has just been started.                            *)
LEMMA JustStarted ==
    ASSUME NEW c, Undisturbed(c), Next, age_cr' = 0, NEW d \in Nat, Joint(d)'
    PROVE  Waiting(d)'
<1>0. Prompt /\ BaseInv
    BY DEF Undisturbed, Agreed
<1>1. BaseInv'
    BY <1>0, BaseStep
<1>2. /\ Channel(to_receiver)' /\ Channel(to_sender)' /\ SP!IInv'
    BY <1>1 DEF BaseInv, NetworkInv, BusInv, SenderInv
<1>3. age_bs' \in Nat
    BY <1>2 DEF SP!IInv, SP!TypeOK, SP!HistoryType
<1>4. /\ Len(to_receiver') \in Nat /\ \A i \in 1 .. Len(to_receiver') : to_receiver'[i].age \in Nat
      /\ Len(to_sender') \in Nat /\ \A i \in 1 .. Len(to_sender') : to_sender'[i].age \in Nat
      /\ to_sender' = << >> <=> Len(to_sender') = 0
    BY <1>2, ChannelFrames
<1>5. d \in 0 .. Len(to_receiver')
    BY DEF Joint, Queue, Line
<1>6. /\ d > 0 => to_receiver'[1].age \in Nat
      /\ to_sender' # << >> => to_sender'[1].age \in Nat
    <2>1. d > 0 => 1 \in 1 .. Len(to_receiver')
        BY <1>4, <1>5
    <2>2. to_sender' # << >> => 1 \in 1 .. Len(to_sender')
        BY <1>4
    <2> QED BY <1>4, <2>1, <2>2
<1>7. MaxTransit \in Nat /\ MaxDelay \in Nat /\ DEFAULT_ST_MIN_US \in Nat
    BY NetworkConstants
<1>8. /\ 0 <= MaxTransit + age_bs'
      /\ to_sender' # << >> => 0 <= to_sender'[1].age
      /\ d > 0 => 0 <= MaxTransit + DEFAULT_ST_MIN_US + MaxDelay + to_receiver'[1].age
    <2>1. 0 <= MaxTransit + age_bs'
        <3>1. PICK n \in Nat : n = age_bs'
            BY <1>3
        <3>2. 0 <= MaxTransit + n
            BY <1>7
        <3> QED BY <3>1, <3>2
    <2>2. ASSUME to_sender' # << >> PROVE 0 <= to_sender'[1].age
        <3>1. PICK n \in Nat : n = to_sender'[1].age
            BY <1>6, <2>2
        <3> QED BY <3>1
    <2>3. ASSUME d > 0
          PROVE  0 <= MaxTransit + DEFAULT_ST_MIN_US + MaxDelay + to_receiver'[1].age
        <3>1. PICK n \in Nat : n = to_receiver'[1].age
            BY <1>6, <2>3
        <3>2. 0 <= MaxTransit + DEFAULT_ST_MIN_US + MaxDelay + n
            BY <1>7
        <3> QED BY <3>1, <3>2
    <2> QED BY <2>1, <2>2, <2>3
<1> QED BY <1>8 DEF Waiting

(* A frame leaves the bus, and more are behind it if an opening frame is    *)
(* still to come.                                                           *)
LEMMA OthersBehind ==
    ASSUME NEW c, Undisturbed(c), ReceiverTakesFrame, S!InProgress, ~Current,
           to_receiver[1].frame.type # "FF"
    PROVE  /\ to_receiver' # << >> /\ to_receiver'[Len(to_receiver')].frame.type = "FF"
           /\ Len(to_receiver) \in 1 .. Len(to_receiver) /\ 1 < Len(to_receiver)
           /\ to_receiver'[Len(to_receiver')] = to_receiver[Len(to_receiver)]
<1>0. Agreed(c) /\ Complete(c)
    BY DEF Undisturbed, Clean
<1>1. /\ Len(to_receiver') = Len(to_receiver) - 1
      /\ \A i \in 1 .. Len(to_receiver) - 1 : to_receiver'[i] = to_receiver[i + 1]
      /\ to_receiver' = << >> <=> Len(to_receiver') = 0
      /\ 1 \in 1 .. Len(to_receiver)
    BY <1>0, GoingFrame DEF FrameGoes
<1>2. Len(to_receiver) \in Nat
    BY <1>0, AgreedBus
<1>3. to_receiver[Len(to_receiver)].frame.type = "FF"
    BY <1>0 DEF Complete
<1>4. Len(to_receiver) # 1
    BY <1>3
<1>5. /\ 1 < Len(to_receiver) /\ Len(to_receiver') # 0
      /\ Len(to_receiver') \in 1 .. Len(to_receiver) - 1
      /\ Len(to_receiver') + 1 = Len(to_receiver)
      /\ Len(to_receiver) \in 1 .. Len(to_receiver)
    BY <1>1, <1>2, <1>4
<1>6. to_receiver'[Len(to_receiver')] = to_receiver[Len(to_receiver)]
    BY <1>1, <1>5
<1> QED BY <1>1, <1>3, <1>5, <1>6

LEMMA SingleFrameClean ==
    ASSUME NEW c, Undisturbed(c), ReceiverTakesFrame, R!ReceiveSingleFrame(to_receiver[1].frame)
    PROVE  Clean(0)'
<1> DEFINE f == to_receiver[1].frame
<1>0. /\ Agreed(c) /\ Complete(c) /\ Patient /\ ~rx_done_cb /\ sent \in 0 .. Len(Payloads)
      /\ receive_buf_size \in RECEIVE_BUF_SIZES
      /\ Queue(to_receiver, c, message, Sending, Place)
    BY DEF Undisturbed, Clean, Agreed, BaseInv, NetworkInv, ReceiverInv, SenderInv, Joint
<1>1. /\ f.type = "SF"
      /\ \/ receive_protocol_result' = R!Interrupting
         \/ SfPayloadLength(f) > receive_buf_size
      /\ \/ receive_status' = "FULL" /\ ~receive_streaming' /\ message' = f.msg
         \/ UNCHANGED <<receive_status, reception>>
    BY <1>0, TakesSingleFrame
<1> HIDE DEF f
<1>2. /\ SenderStays /\ c = 0 /\ ~Current /\ FrameOf(f, sent)
    BY <1>0, <1>1, GoingFrame DEF FrameGoes, f
<1>3. ~R!Receiving
    BY <1>0, <1>2 DEF Complete
<1>4. receive_protocol_result' = "OK"
    <2>1. /\ SfPayloadLength(f) = Payloads[f.msg] /\ Payloads[f.msg] <= SfMaxPayload(Dl)
          /\ f.msg \in 1 .. sent
        BY <1>1, <1>2 DEF FrameOf
    <2>2. f.msg \in 1 .. Len(Payloads) /\ Len(Payloads) \in Nat
        BY <1>0, <2>1, NetworkConstants
    <2>3. Payloads[f.msg] <= receive_buf_size
        BY <1>0, <2>1, <2>2 DEF Patient
    <2>4. Payloads[f.msg] \in Nat /\ receive_buf_size \in Nat
        BY <1>0, <2>2, NetworkConstants
    <2>5. ~(SfPayloadLength(f) > receive_buf_size)
        BY <2>1, <2>3, <2>4
    <2> QED BY <1>1, <1>3, <2>5 DEF R!Interrupting
<1>5. ~R!Receiving'
    BY <1>1, <1>3 DEF R!Receiving
<1>6. (S!InProgress' <=> S!InProgress) /\ UNCHANGED <<sent, send_status>>
    BY <1>2, Staying DEF SenderStays
<1>7. ASSUME S!InProgress
      PROVE  /\ ~Current'
             /\ to_receiver' # << >> /\ to_receiver'[Len(to_receiver')].frame.type = "FF"
    <2>1. to_receiver[1].frame.type # "FF"
        BY <1>1 DEF f
    <2>2. /\ to_receiver' # << >> /\ to_receiver'[Len(to_receiver')].frame.type = "FF"
          /\ Len(to_receiver) \in 1 .. Len(to_receiver) /\ 1 < Len(to_receiver)
        BY <1>2, <1>7, <2>1, OthersBehind
    <2>3. /\ Len(to_receiver) \in Nat /\ sent \in Nat /\ Frames(to_receiver, sent)
        BY <1>0, AgreedBus
    <2>4. f.msg < to_receiver[Len(to_receiver)].frame.msg
        <3>1. 1 \in 0 + 1 .. Len(to_receiver) /\ Len(to_receiver) \in 0 + 1 .. Len(to_receiver)
            BY <2>2, <2>3
        <3> QED BY <1>0, <1>2, <2>2, <3>1 DEF Queue, Line, f
    <2>5. to_receiver[Len(to_receiver)].frame.msg \in 1 .. sent /\ f.msg \in 1 .. sent
        BY <1>2, <2>2, <2>3, FramesNumbered DEF FrameOf
    <2>6. f.msg # sent
        BY <2>3, <2>4, <2>5
    <2>7. message # sent
        BY <1>2, <1>7 DEF Current
    <2>8. message' # sent
        BY <1>1, <2>6, <2>7 DEF reception
    <2> QED BY <1>6, <2>2, <2>8 DEF Current
<1>8. Complete(0)'
    <2>1. ~Current'
        BY <1>6, <1>7 DEF Current
    <2> QED BY <1>0, <1>4, <1>5, <1>6, <1>7, <2>1 DEF Complete
<1>9. Waiting(0)'
    BY <1>5 DEF Waiting
<1> QED BY <1>8, <1>9 DEF Clean

LEMMA FirstFrameClean ==
    ASSUME NEW c, Undisturbed(c), ReceiverTakesFrame, R!ReceiveFirstFrame(to_receiver[1].frame, TRUE)
    PROVE  Clean(0)'
<1> DEFINE f == to_receiver[1].frame
<1>0. /\ Agreed(c) /\ Complete(c) /\ ~rx_done_cb /\ RP!TypeOK /\ receive_buf_size # 0
    BY DEF Undisturbed, Clean, Agreed, BaseInv, NetworkInv, ReceiverInv, RP!IInv, Prompt
<1>1. f.type = "FF"
    BY DEF R!ReceiveFirstFrame
<1> HIDE DEF f
<1>2. /\ SenderStays /\ c = 0 /\ ~Current /\ FrameOf(f, sent) /\ S!InProgress /\ f.msg = sent
    BY <1>0, <1>1, GoingFrame DEF FrameGoes, f
<1>3. FfAccepted(f)
    BY <1>1, <1>2 DEF FrameOf
<1>4. /\ message' = f.msg
      /\ receive_protocol_result' = R!Interrupting /\ age_cr' = 0
      /\ \/ receive_status' = "FULL" /\ receive_streaming'
         \/ receive_status' = "INPROGRESS"
    BY <1>0, <1>3, TakesFirstFrame DEF f
<1>5. ~R!Receiving
    BY <1>0, <1>2 DEF Complete
<1>6. S!InProgress' /\ UNCHANGED <<sent, send_status>>
    BY <1>2, Staying DEF SenderStays
<1>7. Current'
    BY <1>2, <1>4, <1>6 DEF Current
<1>8. Live'
    BY <1>4 DEF Live, Holding, R!Receiving
<1>9. receive_protocol_result' = "OK"
    BY <1>4, <1>5 DEF R!Interrupting
<1>10. Complete(0)'
    BY <1>0, <1>6, <1>7, <1>8, <1>9 DEF Complete
<1>11. Waiting(0)'
    <2>1. Joint(0)'
        BY <1>0, FirstFrameAgrees
    <2> QED BY <1>4, <2>1, JustStarted DEF Next
<1> QED BY <1>10, <1>11 DEF Clean

(* A Consecutive Frame is the expected one, and taken.                      *)
LEMMA FrameExpected ==
    ASSUME NEW c, Undisturbed(c), ReceiverTakesFrame,
           R!ReceiveConsecutiveFrame(to_receiver[1].frame, TRUE)
    PROVE  /\ to_receiver[1].frame.type = "CF" /\ c > 0 /\ c \in Nat
           /\ Takes(to_receiver[1].frame)
           /\ InStep(c) /\ R!Receiving
           /\ InStep(c - 1)'
           /\ receive_offset' = to_receiver[1].frame.at + to_receiver[1].frame.n
<1> DEFINE f == to_receiver[1].frame
<1>0. Agreed(c) /\ Complete(c) /\ RP!IInv /\ ~rx_done_cb
    BY DEF Undisturbed, Clean, Agreed, BaseInv, NetworkInv, ReceiverInv
<1>1. f.type = "CF"
    BY DEF R!ReceiveConsecutiveFrame
<1>2. c > 0 /\ f.msg = message /\ FrameOf(f, sent)
    BY <1>0, <1>1, GoingFrame DEF FrameGoes
<1> HIDE DEF f
<1>3. R!Receiving /\ InStep(c) /\ Live
    BY <1>0, <1>2 DEF Complete, Live
<1>4. f.SN = receive_sn /\ f.at = receive_offset
    BY <1>2, <1>3 DEF InStep, f
<1>5. receive_size = Payloads[message] /\ rx_dl = Dl
    BY <1>0, <1>3, AgreedCounts
<1>6. f.n = CfWanted(receive_size - receive_offset, rx_dl) /\ f.n <= f.len - 1
    BY <1>1, <1>2, <1>4, <1>5 DEF FrameOf
<1>7. f.n \in Nat /\ f.len \in Nat
    <2>1. f.n \in Nat /\ f.len \in 0 .. 255
        BY <1>2 DEF FrameOf, R!FrameType
    <2>2. \A n \in 0 .. 255 : n \in Nat
        OBVIOUS
    <2> QED BY <2>1, <2>2
<1>8. Takes(f)
    <2>1. R!FrameType(f)
        BY <1>2 DEF FrameOf
    <2>2. Takes(f) \/ Refuses(f)
        BY <1>0, <2>1, TakesConsecutiveFrame DEF f
    <2>3. ~(f.n > f.len - 1)
        BY <1>6, <1>7
    <2> QED BY <1>3, <1>4, <1>6, <2>2, <2>3 DEF Refuses
<1>9. InStep(c - 1)' /\ receive_offset' = f.at + f.n
    <2>1. /\ message' = message /\ receive_size' = receive_size
          /\ receive_offset' = receive_offset + CfWanted(receive_size - receive_offset, rx_dl)
          /\ receive_sn' = NextSn(receive_sn)
        BY <1>8 DEF Takes
    <2> QED BY <1>0, <1>1, <1>3, <2>1, NextInStep DEF f
<1>10. c \in Nat
    BY <1>0, AgreedBus
<1> QED BY <1>1, <1>2, <1>3, <1>8, <1>9, <1>10 DEF f

LEMMA FrameTakenClean ==
    ASSUME NEW c, Undisturbed(c), ReceiverTakesFrame,
           R!ReceiveConsecutiveFrame(to_receiver[1].frame, TRUE)
    PROVE  Joint(c - 1)' /\ Clean(c - 1)'
<1> DEFINE f == to_receiver[1].frame
<1>0. Agreed(c) /\ Complete(c) /\ faults = << >> /\ Joint(c)
    BY DEF Undisturbed, Clean, Agreed
<1>1. /\ f.type = "CF" /\ c > 0 /\ c \in Nat /\ Takes(f)
      /\ InStep(c) /\ R!Receiving /\ InStep(c - 1)'
      /\ receive_offset' = f.at + f.n
    BY FrameExpected
<1>2. Joint(c - 1)'
    BY <1>0, <1>1, FrameTakenAgrees
<1>3. /\ age_cr' = 0 /\ UNCHANGED <<receive_size, receive_streaming, message, receive_protocol_result>>
      /\ \/ receive_status' = "FULL" /\ (receive_offset' >= receive_size \/ receive_streaming)
         \/ receive_status' = "INPROGRESS" /\ receive_offset' < receive_size
    BY <1>1 DEF Takes
<1> HIDE DEF f
<1>4. /\ SenderStays /\ FrameOf(f, sent)
      /\ \A i \in 1 .. Len(to_receiver) - 1 : to_receiver'[i] = to_receiver[i + 1]
    BY <1>0, GoingFrame DEF FrameGoes, f
<1>5. /\ (S!InProgress' <=> S!InProgress) /\ (Current' <=> Current)
      /\ UNCHANGED <<sent, send_status, send_offset>>
    BY <1>3, <1>4, Staying DEF SenderStays
<1>6. c - 1 \in Nat /\ Live /\ (c - 1 = 0 \/ c - 1 > 0)
    <2>1. c - 1 \in Nat /\ (c - 1 = 0 \/ c - 1 > 0)
        BY <1>1
    <2> QED BY <1>1, <2>1 DEF Live
<1>7. /\ receive_size = Payloads[message] /\ message \in 1 .. sent
      /\ receive_streaming => invited = 1
      /\ invited \in 0 .. 255 /\ Pending(c) \in Nat
    BY <1>0, <1>1, <1>6, AgreedCounts
<1>8. /\ c \in 0 .. Len(to_receiver) /\ Len(to_receiver) \in Nat
      /\ Queue(to_receiver, c, message, Sending, Place) /\ Frames(to_receiver, sent)
      /\ sent \in Nat
    BY <1>0, AgreedBus
<1>9. receive_size \in Nat /\ receive_offset' \in Nat
    <2>1. f.at \in Nat /\ f.n \in Nat
        BY <1>4 DEF FrameOf, R!FrameType
    <2>2. sent \in 0 .. Len(Payloads) /\ Len(Payloads) \in Nat
        BY <1>0, NetworkConstants DEF Agreed, BaseInv, NetworkInv, SenderInv
    <2>3. message \in 1 .. Len(Payloads)
        BY <1>7, <2>2
    <2> QED BY <1>1, <1>7, <2>1, <2>3, NetworkConstants
\* More of the message is on its way
<1>10. ASSUME c - 1 > 0 PROVE receive_offset' < receive_size
    <2>1. /\ 1 \in 1 .. Len(to_receiver) - 1 /\ 2 \in 1 .. c /\ 2 \in 1 .. Len(to_receiver)
          /\ 1 + 1 = 2
        BY <1>1, <1>8, <1>10
    <2>2. to_receiver'[1] = to_receiver[2]
        BY <1>4, <2>1
    <2>3. to_receiver[2].frame.type = "CF" /\ to_receiver[2].frame.msg = message
        BY <1>8, <2>1 DEF Queue, Line
    <2>4. PICK g : g = to_receiver[2].frame
        OBVIOUS
    <2>5. FrameOf(g, sent)
        BY <1>8, <2>1, <2>4 DEF Frames
    <2>6. g.at = receive_offset'
        BY <1>1, <1>10, <2>2, <2>4 DEF InStep
    <2>7. g.n > 0 /\ g.at + g.n <= Payloads[message] /\ g.n \in Nat
        BY <2>3, <2>4, <2>5 DEF FrameOf, R!FrameType
    <2> QED BY <1>7, <1>9, <2>6, <2>7
<1>11. ASSUME Current PROVE receive_offset' < receive_size
    <2>1. CASE c - 1 = 0
        <3>1. receive_offset' = send_offset
            BY <1>1, <1>5, <1>11, <2>1 DEF InStep
        <3>2. send_offset < Payloads[sent] /\ message = sent
            BY <1>0, <1>11, SenderBehind DEF Current
        <3> QED BY <1>7, <3>1, <3>2
    <2>2. CASE c - 1 # 0
        <3>1. c - 1 > 0
            BY <1>6, <2>2
        <3> QED BY <1>10, <3>1
    <2> QED BY <2>1, <2>2
<1>12. ASSUME Current PROVE Live'
    <2>1. ~(receive_offset' >= receive_size)
        BY <1>9, <1>11, <1>12
    <2> QED BY <1>3, <2>1 DEF Live, Holding, R!Receiving
<1>13. ASSUME c - 1 > 0 PROVE R!Receiving'
    <2>1. ~(receive_offset' >= receive_size)
        BY <1>9, <1>10, <1>13
    <2>2. ~receive_streaming
        <3>1. ASSUME receive_streaming PROVE FALSE
            <4>1. Pending(c) <= 1
                BY <1>0, <1>6, <1>7, <3>1 DEF Joint, Accounts
            <4>2. /\ send_bs_remain \in 0 .. 255 /\ Coming \in 0 .. 255
                BY <1>0, AgreedCounts
            <4>3. Pending(c) = c + (send_bs_remain + Coming) \/ Pending(c) = c + 0
                BY Counting
            <4> QED BY <1>1, <1>13, <4>1, <4>2, <4>3
        <3> QED BY <3>1
    <2> QED BY <1>3, <2>1, <2>2 DEF R!Receiving
<1>14. ASSUME ~Current, R!Receiving' PROVE c - 1 > 0
    <2>1. ASSUME c - 1 = 0 PROVE FALSE
        <3>1. c = 1
            BY <1>1, <2>1
        <3>2. f.at + f.n = receive_size
            BY <1>1, <1>14, <3>1 DEF InStep, f
        <3>3. receive_offset' < receive_size
            BY <1>3, <1>14 DEF R!Receiving
        <3> QED BY <1>1, <1>9, <3>2, <3>3
    <2> QED BY <1>6, <2>1
<1>15. ASSUME S!InProgress, ~Current
       PROVE  to_receiver' # << >> /\ to_receiver'[Len(to_receiver')].frame.type = "FF"
    <2>1. to_receiver[1].frame.type # "FF"
        BY <1>1 DEF f
    <2> QED BY <1>15, <2>1, OthersBehind
<1>16. Complete(c - 1)'
    BY <1>0, <1>1, <1>3, <1>5, <1>12, <1>13, <1>14, <1>15 DEF Complete
<1>17. Waiting(c - 1)'
    BY <1>2, <1>3, <1>6, JustStarted DEF Next
<1> QED BY <1>2, <1>16, <1>17 DEF Clean

LEMMA FrameReceivedClean ==
    ASSUME NEW c, Undisturbed(c), ReceiverTakesFrame
    PROVE  \E d \in Nat : Joint(d)' /\ Clean(d)'
<1> DEFINE f == to_receiver[1].frame
<1>0. Agreed(c)
    BY DEF Undisturbed
<1>1. R!OnCanMessage(f, TRUE)
    <2>1. Head(to_receiver).frame = f
        BY <1>0, GoingFrame DEF FrameGoes
    <2> QED BY <2>1 DEF ReceiverTakesFrame
<1>2. CASE R!ReceiveSingleFrame(f)
    BY <1>0, <1>2, SingleFrameAgrees, SingleFrameClean
<1>3. CASE R!ReceiveFirstFrame(f, TRUE)
    BY <1>0, <1>3, FirstFrameAgrees, FirstFrameClean
<1>4. CASE R!ReceiveConsecutiveFrame(f, TRUE)
    <2>1. c > 0 /\ c \in Nat
        BY <1>4, FrameExpected
    <2>2. PICK d \in Nat : d = c - 1
        BY <2>1
    <2>3. Joint(c - 1)' /\ Clean(c - 1)'
        BY <1>4, FrameTakenClean
    <2> QED BY <2>2, <2>3
<1> QED BY <1>1, <1>2, <1>3, <1>4 DEF R!OnCanMessage

(* The receiver's timer never runs out: what it waits for comes in time.    *)
LEMMA NeverGivesUp ==
    ASSUME NEW c, Undisturbed(c), ReceiverPolls
    PROVE  FALSE
<1>0. /\ Agreed(c) /\ Complete(c) /\ Waiting(c) /\ Punctual /\ NetworkInv /\ RP!TimerInv
    BY DEF Undisturbed, Clean, Agreed, BaseInv, TimersInv, Patient, Prompt
<1>1. R!PollTimesOut /\ R!Receiving
    BY ReceiverTimesOut DEF ReceiverPolls
<1>2. age_cr > RESPONSE_TIMEOUT_US
    <2>1. ReceiverMoves
        BY <1>1 DEF ReceiverMoves
    <2> QED BY <1>0, <1>1, <2>1, ReceiverTimer
<1>3. /\ c \in Nat /\ age_cr \in Nat /\ age_bs \in Nat
      /\ MaxTransit \in Nat /\ MaxDelay \in Nat /\ DEFAULT_ST_MIN_US \in Nat
      /\ 2 * MaxTransit + DEFAULT_ST_MIN_US + MaxDelay <= RESPONSE_TIMEOUT_US
      /\ RESPONSE_TIMEOUT_US \in Nat
    BY UndisturbedFacts
<1>4. CASE c > 0
    <2>1. 1 \in 1 .. Len(to_receiver)
        <3>1. c \in 0 .. Len(to_receiver) /\ Len(to_receiver) \in Nat
            BY <1>0, AgreedBus
        <3> QED BY <1>4, <3>1
    <2>2. to_receiver[1].age \in Nat /\ to_receiver[1].age <= MaxTransit
        BY <1>0, <2>1, AgreedCounts
    <2>3. age_cr <= MaxTransit + DEFAULT_ST_MIN_US + MaxDelay + to_receiver[1].age
        BY <1>0, <1>1, <1>4 DEF Waiting
    <2> QED BY <1>2, <1>3, <2>2, <2>3
<1>5. CASE ~(c > 0) /\ to_sender # << >>
    <2>1. to_sender[1].age \in Nat /\ to_sender[1].age <= MaxTransit
        <3>1. 1 \in 1 .. Len(to_sender)
            BY <1>0, <1>5, FirstInvitation DEF Agreed, BaseInv
        <3> QED BY <1>0, <1>5, <3>1, AgreedCounts
    <2>2. age_cr <= to_sender[1].age
        BY <1>0, <1>1, <1>5 DEF Waiting
    <2> QED BY <1>2, <1>3, <2>1, <2>2
<1>6. CASE ~(c > 0) /\ to_sender = << >>
    <2>1. Current
        BY <1>0, <1>1, <1>6 DEF Complete
    <2>2. c = 0 /\ S!InProgress
        BY <1>3, <1>6, <2>1 DEF Current
    <2>3. send_bs_remain > 0
        BY <1>1, <1>6, <2>1, UndisturbedFacts
    <2>4. send_bs_remain # 0
        BY <2>3
    <2>5. age_bs <= DEFAULT_ST_MIN_US + MaxDelay
        BY <2>2, <2>4, UndisturbedFacts
    <2>6. age_cr <= MaxTransit + age_bs
        BY <1>0, <1>1, <2>1, <2>2, <2>3 DEF Waiting
    <2> QED BY <1>2, <1>3, <2>5, <2>6
<1> QED BY <1>4, <1>5, <1>6

LEMMA DataTakenClean ==
    ASSUME NEW c, Undisturbed(c), ReceiverTakesData
    PROVE  Clean(c)'
<1>0. Agreed(c) /\ Complete(c) /\ Joint(c) /\ RP!IInv
    BY DEF Undisturbed, Clean, Agreed, BaseInv, NetworkInv, ReceiverInv
<1>1. /\ receive_status = "FULL"
      /\ \/ receive_status' = "IDLE" /\ (~receive_streaming \/ receive_offset >= receive_size)
         \/ receive_status' = "FULL" /\ receive_streaming'
         \/ /\ receive_status' = "INPROGRESS" /\ receive_streaming
            /\ receive_offset < receive_size /\ age_cr' = 0
      /\ UNCHANGED <<receive_size, receive_offset, receive_sn, message, receive_protocol_result>>
    BY <1>0, TakesData DEF ReceiverTakesData
<1>2. SenderStays /\ UNCHANGED to_receiver
    BY Staying DEF ReceiverTakesData
<1>3. /\ (S!InProgress' <=> S!InProgress) /\ (Current' <=> Current)
      /\ UNCHANGED <<sent, send_status, send_offset, send_sn>>
    BY <1>1, <1>2, Staying DEF SenderStays
<1>4. ~R!Receiving
    BY <1>1 DEF R!Receiving
<1>5. c = 0 /\ c \in Nat
    <2>1. ~(c > 0) /\ c \in Nat
        BY <1>0, <1>4, AgreedBus DEF Complete
    <2> QED BY <2>1
<1>6. receive_size \in Nat /\ receive_offset \in Nat
    BY <1>0 DEF RP!IInv, RP!TypeOK, RP!BufferType
\* The next frame is the one that is missing
<1>7. ASSUME Holding PROVE InStep(0)
    <2>1. Live
        BY <1>7 DEF Live
    <2>2. invited = 0 /\ Pending(c) \in Nat
        BY <1>0, <1>7, AgreedCounts
    <2>3. Pending(c) <= 0 /\ (Pending(c) = 0 => InStep(c))
        BY <1>0, <2>1, <2>2 DEF Joint, Accounts
    <2> QED BY <1>5, <2>2, <2>3
<1>8. ASSUME Current PROVE Live'
    <2>1. Holding
        BY <1>0, <1>4, <1>8 DEF Complete, Live
    <2>2. receive_offset = send_offset
        BY <1>7, <1>8, <2>1 DEF InStep
    <2>3. send_offset < Payloads[sent] /\ message = sent
        BY <1>0, <1>8, SenderBehind DEF Current
    <2>4. receive_size = Payloads[message]
        BY <1>0, <2>1, AgreedCounts DEF Live
    <2>5. ~(receive_offset >= receive_size) /\ receive_streaming
        BY <1>6, <2>1, <2>2, <2>3, <2>4 DEF Holding
    <2> QED BY <1>1, <2>5 DEF Live, Holding, R!Receiving
<1>9. ASSUME R!Receiving' PROVE Current
    <2>1. receive_streaming /\ receive_offset < receive_size
        BY <1>1, <1>9 DEF R!Receiving
    <2>2. Holding
        BY <1>1, <2>1 DEF Holding
    <2>3. ~(receive_offset = receive_size)
        BY <1>6, <2>1
    <2> QED BY <1>7, <2>2, <2>3 DEF InStep
<1>10. Complete(c)'
    <2>1. ~(c > 0)
        BY <1>5
    <2> QED BY <1>0, <1>1, <1>2, <1>3, <1>8, <1>9, <2>1 DEF Complete
<1>11. Waiting(c)'
    <2>1. CASE R!Receiving'
        <3>1. age_cr' = 0
            BY <1>1, <2>1 DEF R!Receiving
        <3>2. Joint(c)'
            BY <1>0, DataTakenAgrees
        <3> QED BY <1>5, <3>1, <3>2, JustStarted DEF Next
    <2> QED BY <2>1 DEF Waiting
<1> QED BY <1>10, <1>11 DEF Clean

LEMMA TickClean ==
    ASSUME NEW c, Undisturbed(c), Tick
    PROVE  Clean(c)'
<1>0. Agreed(c) /\ Complete(c) /\ Waiting(c) /\ ClockStep \in Nat
    BY NetworkConstants DEF Undisturbed, Clean
<1>1. /\ UNCHANGED <<send_status, send_offset, send_sn, send_bs_remain>>
      /\ S!InProgress => age_bs' = age_bs + ClockStep
      /\ R!Receiving => age_cr' = age_cr + ClockStep
      /\ ReceiverStays /\ UNCHANGED receive_protocol_result
      /\ (S!InProgress' <=> S!InProgress) /\ (Current' <=> Current)
      /\ Len(to_receiver') = Len(to_receiver)
      /\ \A i \in 1 .. Len(to_receiver) :
            /\ to_receiver'[i].frame = to_receiver[i].frame
            /\ to_receiver'[i].age = to_receiver[i].age + ClockStep
      /\ to_receiver' = << >> <=> to_receiver = << >>
      /\ to_sender' = << >> <=> to_sender = << >>
      /\ to_sender # << >> => to_sender'[1].age = to_sender[1].age + ClockStep
    BY <1>0, TimeGoesOn
<1>2. /\ (R!Receiving' <=> R!Receiving) /\ (Live' <=> Live)
      /\ UNCHANGED <<receive_offset, receive_size, receive_sn>>
    BY <1>1, Staying DEF ReceiverStays
<1>3. /\ c \in 0 .. Len(to_receiver) /\ Len(to_receiver) \in Nat
      /\ to_receiver = << >> <=> Len(to_receiver) = 0
    BY <1>0, AgreedBus
<1>4. /\ c > 0 => 1 \in 1 .. Len(to_receiver) /\ c \in 1 .. Len(to_receiver)
      /\ to_receiver # << >> => Len(to_receiver) \in 1 .. Len(to_receiver)
    BY <1>3
<1>5. InStep(c) => InStep(c)'
    BY <1>1, <1>2, <1>4 DEF InStep
<1>6. S!InProgress /\ ~Current =>
          to_receiver' # << >> /\ to_receiver'[Len(to_receiver')].frame.type = "FF"
    BY <1>0, <1>1, <1>4 DEF Complete
<1>7. Complete(c)'
    BY <1>0, <1>1, <1>2, <1>5, <1>6 DEF Complete
<1>8. /\ age_cr \in Nat /\ age_bs \in Nat
      /\ MaxTransit \in Nat /\ MaxDelay \in Nat /\ DEFAULT_ST_MIN_US \in Nat
      /\ c > 0 => to_receiver[1].age \in Nat
      /\ to_sender # << >> => to_sender[1].age \in Nat
    BY <1>0, <1>4, UndisturbedFacts, AgreedCounts
<1>9. ASSUME R!Receiving
      PROVE  /\ to_sender # << >> => age_cr' <= to_sender'[1].age
             /\ Current /\ send_bs_remain > 0 /\ c = 0 => age_cr' <= MaxTransit + age_bs'
             /\ c > 0 => age_cr' <= MaxTransit + DEFAULT_ST_MIN_US + MaxDelay + to_receiver'[1].age
    <2>1. age_cr' = age_cr + ClockStep
        BY <1>1, <1>9
    <2>2. ASSUME to_sender # << >> PROVE age_cr' <= to_sender'[1].age
        <3>1. age_cr <= to_sender[1].age
            BY <1>0, <1>9, <2>2 DEF Waiting
        <3> QED BY <1>0, <1>1, <1>8, <2>1, <2>2, <3>1
    <2>3. ASSUME Current, send_bs_remain > 0, c = 0 PROVE age_cr' <= MaxTransit + age_bs'
        <3>1. age_cr <= MaxTransit + age_bs
            BY <1>0, <1>9, <2>3 DEF Waiting
        <3>2. age_bs' = age_bs + ClockStep
            BY <1>1, <2>3 DEF Current
        <3> QED BY <1>0, <1>8, <2>1, <3>1, <3>2
    <2>4. ASSUME c > 0
          PROVE  age_cr' <= MaxTransit + DEFAULT_ST_MIN_US + MaxDelay + to_receiver'[1].age
        <3>1. age_cr <= MaxTransit + DEFAULT_ST_MIN_US + MaxDelay + to_receiver[1].age
            BY <1>0, <1>9, <2>4 DEF Waiting
        <3>2. to_receiver'[1].age = to_receiver[1].age + ClockStep
            BY <1>1, <1>4, <2>4
        <3> QED BY <1>0, <1>8, <2>1, <2>4, <3>1, <3>2
    <2> QED BY <2>2, <2>3, <2>4
<1>10. Waiting(c)'
    BY <1>1, <1>2, <1>9 DEF Waiting
<1> QED BY <1>7, <1>10 DEF Clean

CleanInv == faults = << >> => \E c \in Nat : Joint(c) /\ Clean(c)

LEMMA CleanStep == Patient /\ BaseInv /\ JointInv /\ CleanInv /\ [Next]_vars => CleanInv'
<1>1. ASSUME Patient, BaseInv, JointInv, CleanInv, Next, faults' = << >>
      PROVE  \E d \in Nat : Joint(d)' /\ Clean(d)'
    <2>0. NetworkInv /\ Prompt
        BY <1>1 DEF BaseInv, Patient
    <2>1. /\ UNCHANGED faults
          /\ \/ SendPayload \/ SenderPolls \/ SenderTakesFrame
             \/ ReceiverTakesFrame \/ ReceiverPolls \/ ReceiverTakesData \/ Tick
        BY <1>1, <2>0, FaultHappens
        DEF Next, SendPayload, SenderPolls, SenderTakesFrame, ReceiverTakesFrame, ReceiverPolls,
            ReceiverTakesData, Tick, DataLost, FlowControlLost, ConsecutiveFrameRepeated,
            DriverFails, SenderRestarts, ReceiverRestarts
    <2>2. faults = << >>
        BY <1>1, <2>1
    <2>3. Turns
        <3>1. Range(faults) = {}
            BY <2>2 DEF Range
        <3> QED BY <1>1, <3>1 DEF JointInv, Benign
    <2>4. PICK c \in Nat : Undisturbed(c)
        BY <1>1, <2>0, <2>2, <2>3 DEF CleanInv, Undisturbed, Agreed
    <2>5. Agreed(c)
        BY <2>4 DEF Undisturbed
    <2>6. CASE SendPayload
        BY <2>4, <2>5, <2>6, PayloadAgrees, PayloadClean
    <2>7. CASE SenderPolls
        <3>1. CASE S!PollAccepted(0)
            <4>1. Joint(c + 1)' /\ Clean(c + 1)'
                BY <2>4, <2>5, <2>7, <3>1, FrameSentAgrees, FrameSentClean
            <4>2. PICK d \in Nat : d = c + 1
                BY <2>4
            <4> QED BY <4>1, <4>2
        <3>2. CASE S!PollNoSpace(0) \/ S!PollWaiting(0)
            BY <2>4, <2>5, <2>7, <3>2, NothingSentAgrees, NothingSentClean
        <3> QED BY <2>7, <3>1, <3>2 DEF SenderPolls
    <2>8. CASE SenderTakesFrame
        BY <2>4, <2>5, <2>8, InvitationTakenAgrees, InvitationTakenClean
    <2>9. CASE ReceiverTakesFrame
        BY <2>4, <2>9, FrameReceivedClean
    <2>10. CASE ReceiverPolls
        BY <2>4, <2>10, NeverGivesUp
    <2>11. CASE ReceiverTakesData
        BY <2>4, <2>5, <2>11, DataTakenAgrees, DataTakenClean
    <2>12. CASE Tick
        BY <2>4, <2>5, <2>12, TickAgrees, TickClean
    <2> QED BY <2>1, <2>6, <2>7, <2>8, <2>9, <2>10, <2>11, <2>12
<1>2. ASSUME CleanInv, UNCHANGED vars, faults' = << >>
      PROVE  \E d \in Nat : Joint(d)' /\ Clean(d)'
    <2>1. PICK c \in Nat : Joint(c) /\ Clean(c)
        BY <1>2 DEF CleanInv, vars
    <2>2. Clean(c)'
        BY <1>2, <2>1, CleanStays DEF SenderStays, ReceiverStays, vars, sender, receiver, bus
    <2>3. Joint(c)'
        BY <1>2, <2>1 DEF Joint, Accounts, InStep, Pending, Current, Coming, Sending,
                Place, Live, Holding, S!InProgress, R!Receiving, vars, sender, receiver, bus
    <2> QED BY <2>2, <2>3
<1>3. CleanInv' <=> (faults' = << >> => \E d \in Nat : Joint(d)' /\ Clean(d)')
    BY DEF CleanInv
<1> QED BY <1>1, <1>2, <1>3

LEMMA CleanStarts == Init => CleanInv
<1> SUFFICES ASSUME Init PROVE Joint(0) /\ Clean(0)
    BY DEF CleanInv
<1>1. Joint(0)
    BY JointStarts
<1>2. /\ receive_status = "IDLE" /\ send_status = "IDLE" /\ receive_protocol_result = "OK"
    BY DEF Init, S!LinkInit, S!ClearedLink, R!LinkInit
<1>3. ~S!InProgress /\ ~R!Receiving /\ ~Current /\ ~(0 > 0)
    BY <1>2 DEF S!InProgress, R!Receiving, Current
<1> QED BY <1>1, <1>2, <1>3 DEF Clean, Complete, Waiting

(* Nothing fails by itself.  If a frame there, a chunk left lying and a     *)
(* frame back take no longer than the sender waits, a frame back, the       *)
(* separation time, a late poll and a frame there no longer than the        *)
(* receiver waits, and every Single Frame fits into the buffer, then        *)
(* without a fault no transmission ends in an error and no reception in a   *)
(* timeout, with a wrong sequence number or because of an unexpected frame. *)
THEOREM NothingFailsByItself == ASSUME Patient PROVE Spec => []NoSpuriousFailure
<1>1. CleanInv => NoSpuriousFailure
    BY DEF CleanInv, Clean, Complete, NoSpuriousFailure
<1>2. BaseInv /\ JointInv /\ CleanInv /\ [Next]_vars => CleanInv'
    BY CleanStep
<1>3. Init => CleanInv
    BY CleanStarts
<1>4. Spec => [](BaseInv /\ JointInv)
    BY JointInvariance DEF Patient
<1> QED BY <1>1, <1>2, <1>3, <1>4, PTL DEF Spec

=============================================================================
