--------------------------- MODULE IsoTpLink_proofs ----------------------------
(***************************************************************************)
(* Proofs about one link with both halves at work.  What is proved of each  *)
(* half alone carries over: every step of the link is a step of the half, a *)
(* step that leaves the half alone, or the end of isotp_poll behind the     *)
(* transmit callback, which only the link has.                              *)
(***************************************************************************)
EXTENDS IsoTpLink, TLAPS

SP == INSTANCE IsoTpSend_proofs WITH TxDls <- {}, Preemptions <- {0}
RP == INSTANCE IsoTpReceive_proofs WITH ST_MIN_US <- DEFAULT_ST_MIN_US

-----------------------------------------------------------------------------
(* The link and the proofs instantiate the same two halves. *)

LEMMA SameLengths ==
    /\ \A d : S!TxDl(d) = SP!TxDl(d)
    /\ \A u : S!PadFrame(u) = SP!PadFrame(u)
BY DEF S!TxDl, S!LegalTxDl, S!PadFrame, S!IsValidCanDl, S!CeilCanDl, S!CanFdFrameSizes,
       S!CAN_DL_CLASSIC, SP!TxDl, SP!LegalTxDl, SP!PadFrame, SP!IsValidCanDl, SP!CeilCanDl,
       SP!CanFdFrameSizes, SP!CAN_DL_CLASSIC

LEMMA SameFrames ==
    /\ S!NoFrame = SP!NoFrame
    /\ \A d : S!SfMaxPayload(d) = SP!SfMaxPayload(d)
    /\ \A size, d : S!FfDataLength(size, d) = SP!FfDataLength(size, d)
    /\ \A size, d : S!FirstFrame(size, d) = SP!FirstFrame(size, d)
    /\ \A size : S!SingleFrame(size) = SP!SingleFrame(size)
    /\ \A sn, left, d : S!ConsecutiveFrame(sn, left, d) = SP!ConsecutiveFrame(sn, left, d)
    /\ \A sn : S!NextSn(sn) = SP!NextSn(sn)
    /\ \A c : S!StMinToUs(c) = SP!StMinToUs(c)
BY SameLengths
DEF S!NoFrame, S!SfMaxPayload, S!FfDataLength, S!FirstFrame, S!SingleFrame,
    S!ConsecutiveFrame, S!CfDataLength, S!NextSn, S!StMinToUs, S!CAN_DL_CLASSIC,
    SP!NoFrame, SP!SfMaxPayload, SP!FfDataLength, SP!FirstFrame, SP!SingleFrame,
    SP!ConsecutiveFrame, SP!CfDataLength, SP!NextSn, SP!StMinToUs, SP!CAN_DL_CLASSIC

LEMMA SameClock ==
    /\ \A t, d : S!WrapAdd(t, d) = SP!WrapAdd(t, d) /\ WrapAdd(t, d) = SP!WrapAdd(t, d)
    /\ \A a, b : S!TimeAfter(a, b) = SP!TimeAfter(a, b)
    /\ Ticks = SP!Ticks /\ Ticks = RP!Ticks
BY DEF S!WrapAdd, S!TimeAfter, S!AfterWrapping, S!AfterSigned, S!WrapSub, S!AsInt32,
       SP!WrapAdd, SP!TimeAfter, SP!AfterWrapping, SP!AfterSigned, SP!WrapSub, SP!AsInt32,
       WrapAdd, Ticks, SP!Ticks, RP!Ticks

LEMMA SameSendGroups ==
    /\ S!paramVars = SP!paramVars /\ S!paramVars' = SP!paramVars'
    /\ S!segmentVars = SP!segmentVars /\ S!segmentVars' = SP!segmentVars'
    /\ S!creditVars = SP!creditVars /\ S!creditVars' = SP!creditVars'
    /\ S!timerVars = SP!timerVars /\ S!timerVars' = SP!timerVars'
    /\ S!statusVars = SP!statusVars /\ S!statusVars' = SP!statusVars'
    /\ S!historyVars = SP!historyVars /\ S!historyVars' = SP!historyVars'
    /\ S!ageVars = SP!ageVars /\ S!ageVars' = SP!ageVars'
BY DEF S!paramVars, S!segmentVars, S!creditVars, S!timerVars, S!statusVars,
       S!historyVars, S!ageVars, SP!paramVars, SP!segmentVars, SP!creditVars, SP!timerVars,
       SP!statusVars, SP!historyVars, SP!ageVars

LEMMA SameSendLife ==
    /\ S!InProgress <=> SP!InProgress
    /\ S!LinkInit <=> SP!LinkInit
    /\ S!InitLink <=> SP!InitLink
    /\ \A registered : S!SetTxDoneCb(registered) <=> SP!SetTxDoneCb(registered)
    /\ S!Tick <=> SP!Tick
<1>1. S!InProgress <=> SP!InProgress
    BY DEF S!InProgress, SP!InProgress
<1>2. S!LinkInit <=> SP!LinkInit
    BY SameFrames DEF S!LinkInit, S!ClearedLink, SP!LinkInit, SP!ClearedLink
<1>3. S!InitLink <=> SP!InitLink
    BY SameFrames DEF S!InitLink, S!Clear, SP!InitLink, SP!Clear
<1>4. ASSUME NEW registered PROVE S!SetTxDoneCb(registered) <=> SP!SetTxDoneCb(registered)
    BY SameFrames, SameSendGroups DEF S!SetTxDoneCb, SP!SetTxDoneCb
<1>5. S!Tick <=> SP!Tick
    BY <1>1, SameFrames, SameClock, SameSendGroups
    DEF S!Tick, S!linkVars, SP!Tick, SP!linkVars
<1> QED BY <1>1, <1>2, <1>3, <1>4, <1>5

LEMMA SameSend == S!Send <=> SP!Send
<1>1. ASSUME NEW size PROVE S!Accepts(size) <=> SP!Accepts(size)
    BY SameSendLife DEF S!Accepts, SP!Accepts
<1>2. ASSUME NEW size, NEW answer
      PROVE  S!SendSingleFrame(size, answer) <=> SP!SendSingleFrame(size, answer)
    BY <1>1, SameLengths, SameFrames, SameSendGroups
    DEF S!SendSingleFrame, SP!SendSingleFrame
<1>3. ASSUME NEW size, NEW answer
      PROVE  S!SendFirstFrame(size, answer) <=> SP!SendFirstFrame(size, answer)
    BY <1>1, SameLengths, SameFrames, SameClock, SameSendGroups
    DEF S!SendFirstFrame, S!ResetFlow, SP!SendFirstFrame, SP!ResetFlow
<1> QED BY <1>2, <1>3 DEF S!Send, S!DriverAnswers, SP!Send, SP!DriverAnswers

LEMMA SameCheck ==
    \A status : S!CheckResponseTimeout(status) <=> SP!CheckResponseTimeout(status)
BY SameClock DEF S!CheckResponseTimeout, SP!CheckResponseTimeout

LEMMA SamePoll == S!Poll(0) <=> SP!Poll(0)
<1>1. (S!MayContinue <=> SP!MayContinue) /\ (S!MustWait <=> SP!MustWait)
    <2>1. S!TimeAfter(now, send_timer_st) = SP!TimeAfter(now, send_timer_st)
        BY SameClock
    <2>2. S!MayContinue <=> SP!MayContinue
        BY <2>1 DEF S!MayContinue, S!INVALID_BS, SP!MayContinue, SP!INVALID_BS
    <2>3. S!MustWait <=> SP!MustWait
        BY <2>1 DEF S!MustWait, SP!MustWait
    <2> QED BY <2>2, <2>3
<1>2. ASSUME NEW before PROVE S!PollUnsent(0, before) <=> SP!PollUnsent(0, before)
    BY SameCheck, SameClock, SameFrames, SameSendGroups DEF S!PollUnsent, SP!PollUnsent
<1>3. S!PollAccepted(0) <=> SP!PollAccepted(0)
    BY <1>1, SameLengths, SameFrames, SameClock, SameCheck, SameSendGroups, SameSendLife
    DEF S!PollAccepted, S!Finishes, S!INVALID_BS, SP!PollAccepted, SP!Finishes, SP!INVALID_BS
<1> QED BY <1>1, <1>2, <1>3, SameSendLife
        DEF S!Poll, S!PollNoSpace, S!PollFailed, S!PollWaiting,
            SP!Poll, SP!PollNoSpace, SP!PollFailed, SP!PollWaiting

LEMMA SameFlowControl == \A f : S!OnFlowControl(f) <=> SP!OnFlowControl(f)
<1>1. S!Overflowed <=> SP!Overflowed
    BY SameSendGroups DEF S!Overflowed, SP!Overflowed
<1>2. S!Waited <=> SP!Waited
    BY SameSendGroups DEF S!Waited, S!TooManyWaits, SP!Waited, SP!TooManyWaits
<1>3. ASSUME NEW f PROVE S!Continued(f) <=> SP!Continued(f)
    BY SameFrames, SameSendGroups
    DEF S!Continued, S!INVALID_BS, SP!Continued, SP!INVALID_BS
<1>4. ASSUME NEW f PROVE S!OnFlowControl(f) <=> SP!OnFlowControl(f)
    BY <1>1, <1>2, <1>3, SameFrames, SameClock, SameSendGroups, SameSendLife
    DEF S!OnFlowControl, S!CONTINUE, S!WAIT, S!OVERFLOW,
        SP!OnFlowControl, SP!CONTINUE, SP!WAIT, SP!OVERFLOW
<1> QED BY <1>4

LEMMA SameSendInvariants ==
    /\ S!Segmentation <=> SP!Segmentation
    /\ S!CreditRespected <=> SP!CreditRespected
BY SameLengths, SameFrames, SameSendLife
DEF S!Segmentation, S!CreditRespected, S!INVALID_BS,
    SP!Segmentation, SP!CreditRespected, SP!INVALID_BS

(* What the two halves ask of their parameters, in the words of the proofs. *)
LEMMA SendConstants ==
    /\ SP!FrameParameters /\ SP!LinkParameters /\ SP!TimeParameters /\ SP!PeerParameters
<1>1. SP!FrameParameters
    BY FrameAssumption
    DEF FrameParameters, CAN_DL_CLASSIC, CanFdFrameSizes,
        SP!FrameParameters, SP!CAN_DL_CLASSIC, SP!CanFdFrameSizes
<1>2. SP!LinkParameters
    BY LinkAssumption
    DEF S!LinkParameters, S!LegalTxDl, S!IsValidCanDl, S!CeilCanDl, S!CanFdFrameSizes,
        S!CAN_DL_CLASSIC, SP!LinkParameters, SP!LegalTxDl, SP!IsValidCanDl, SP!CeilCanDl,
        SP!CanFdFrameSizes, SP!CAN_DL_CLASSIC
<1>3. SP!TimeParameters
    BY LinkAssumption DEF S!TimeParameters, SP!TimeParameters
<1>4. SP!PeerParameters
    BY LinkAssumption, SameFrames DEF S!PeerParameters, SP!PeerParameters
<1> QED BY <1>1, <1>2, <1>3, <1>4

LEMMA ReceiveConstants == RP!FrameParameters /\ RP!ReceiveParameters
<1>1. RP!FrameParameters
    BY FrameAssumption
    DEF FrameParameters, CAN_DL_CLASSIC, CanFdFrameSizes,
        RP!FrameParameters, RP!CAN_DL_CLASSIC, RP!CanFdFrameSizes
<1>2. RP!ReceiveParameters
    BY LinkAssumption
    DEF R!ReceiveParameters, R!FrameType, R!Ticks, RP!ReceiveParameters, RP!FrameType, RP!Ticks
<1> QED BY <1>1, <1>2

-----------------------------------------------------------------------------
(* The transmit half in the link *)

(* Calls of the receive half read the clock and leave it alone.             *)
LEMMA ReceiveKeepsClock ==
    /\ \A f, accepted : R!OnCanMessage(f, accepted) => UNCHANGED now
    /\ R!TakeData \/ R!PollTimesOut \/ R!ReceiveOtherFrame => UNCHANGED now
    /\ \A registered : R!SetRxDoneCb(registered) => UNCHANGED now
<1>1. ASSUME NEW f, NEW accepted, R!OnCanMessage(f, accepted) PROVE UNCHANGED now
    BY <1>1 DEF R!OnCanMessage, R!ReceiveSingleFrame, R!ReceiveFirstFrame,
                R!ReceiveConsecutiveFrame
<1>2. R!TakeData \/ R!PollTimesOut \/ R!ReceiveOtherFrame => UNCHANGED now
    BY DEF R!TakeData, R!Receive, R!ReceiveStreaming, R!PollTimesOut, R!ReceiveOtherFrame
<1>3. ASSUME NEW registered, R!SetRxDoneCb(registered) PROVE UNCHANGED now
    BY <1>3 DEF R!SetRxDoneCb
<1> QED BY <1>1, <1>2, <1>3

(* A step that leaves the transmit half alone; time only passes over an     *)
(* idle one.                                                                *)
SendHalfIdles ==
    /\ UNCHANGED sendHalf
    /\ \/ UNCHANGED now
       \/ ~SP!InProgress /\ now' = SP!WrapAdd(now, ClockStep)

(* What a step of the link is to its transmit half.                         *)
LEMMA SendHalfSteps == [Next]_vars => SP!Next \/ SendHalfIdles \/ PollReturns
<1>1. InitLink => SP!Next
    BY SameSendLife DEF InitLink, SP!Next
<1>2. SetDoneCbs => SP!Next \/ SendHalfIdles
    <2>1. ASSUME NEW registered \in BOOLEAN, S!SetTxDoneCb(registered) PROVE SP!Next
        BY <2>1, SameSendLife DEF SP!Next
    <2>2. ASSUME NEW registered \in BOOLEAN, R!SetRxDoneCb(registered), SendHalfRests
          PROVE  SendHalfIdles
        BY <2>2, ReceiveKeepsClock DEF SendHalfRests, SendHalfIdles
    <2> QED BY <2>1, <2>2 DEF SetDoneCbs
<1>3. Send => SP!Next
    BY SameSend DEF Send, SP!Next
<1>4. PollSendHalf => SP!Next \/ SendHalfIdles
    <2>1. SP!Poll(0) => SP!PollAny
        BY DEF SP!PollAny
    <2>2. SP!PollAny => SP!Next
        BY DEF SP!Next
    <2>3. SendHalfRests /\ UNCHANGED now => SendHalfIdles
        BY DEF SendHalfRests, SendHalfIdles
    <2> QED BY <2>1, <2>2, <2>3, SamePoll DEF PollSendHalf
<1>5. OnCanMessage => SP!Next \/ SendHalfIdles
    <2>1. OnFlowControl => SP!FlowControlArrives
        BY SameFlowControl DEF OnFlowControl, SP!FlowControlArrives
    <2>2. SP!FlowControlArrives => SP!Next
        BY DEF SP!Next
    <2>3. OnDataFrame => SendHalfIdles
        BY ReceiveKeepsClock DEF OnDataFrame, SendHalfRests, SendHalfIdles
    <2> QED BY <2>1, <2>2, <2>3 DEF OnCanMessage
<1>6. TakeData => SendHalfIdles
    BY ReceiveKeepsClock DEF TakeData, SendHalfRests, SendHalfIdles
<1>7. Tick => SP!Next \/ SendHalfIdles
    <2>1. Tick /\ S!InProgress => SP!Next
        BY SameSendLife DEF Tick, SP!Next
    <2>2. Tick /\ ~S!InProgress => SendHalfIdles
        BY SameSendLife, SameClock DEF Tick, SendHalfRests, SendHalfIdles
    <2> QED BY <2>1, <2>2
<1>8. UNCHANGED vars => SendHalfIdles
    BY DEF vars, SendHalfIdles
<1> QED BY <1>1, <1>2, <1>3, <1>4, <1>5, <1>6, <1>7, <1>8 DEF Next, Poll

(* The rest of isotp_poll, behind the transmit callback: only the check of  *)
(* the response timeout is left of its transmit part.                       *)
LEMMA PollReturnsEffect ==
    ASSUME PollReturns
    PROVE  /\ in_tx_done_cb /\ ~in_tx_done_cb'
           /\ UNCHANGED <<now, tx_dl, send_buf_size, send_size, send_offset, send_sn,
                          send_bs_remain, send_st_min_us, send_wtf_count, send_timer_st,
                          send_timer_bs, tx_done_cb, cfs, grant, asked, block, waits,
                          completions, age_bs, age_st>>
           /\ SP!CheckResponseTimeout(send_status)
           /\ send_status' \in {send_status, "ERROR"}
<1>1. SP!CheckResponseTimeout(send_status)
    BY SameCheck DEF PollReturns
<1>2. send_status' \in {send_status, "ERROR"}
    BY <1>1 DEF SP!CheckResponseTimeout
<1> QED BY <1>1, <1>2 DEF PollReturns, Resume

LEMMA SendHalfInvariant == SP!IInv /\ [Next]_vars => SP!IInv'
<1> SUFFICES ASSUME SP!IInv, [Next]_vars PROVE SP!IInv'
    OBVIOUS
<1>0. SP!TypeOK /\ SP!Segmentation /\ SP!CreditRespected
    BY DEF SP!IInv
<1>1. CASE SP!Next
    <2>1. SP!TypeOK'
        BY <1>1, SendConstants, SP!TypeStep
    <2>2. SP!Segmentation' /\ SP!CreditRespected'
        BY <1>1, SendConstants, SP!InvariantStep
    <2> QED BY <2>1, <2>2 DEF SP!IInv
<1>2. CASE SendHalfIdles
    <2>1. now' \in SP!Ticks
        <3>1. now \in SP!Ticks
            BY <1>0 DEF SP!TypeOK
        <3>2. ClockStep \in SP!Ticks
            BY SendConstants, SP!PassingTime
        <3>3. SP!WrapAdd(now, ClockStep) \in SP!Ticks
            BY <3>1, <3>2, SendConstants, SP!WrapType
        <3> QED BY <1>2, <3>1, <3>3 DEF SendHalfIdles
    <2>2. UNCHANGED sendHalf
        BY <1>2 DEF SendHalfIdles
    <2>3. SP!TypeOK'
        BY <1>0, <2>1, <2>2
        DEF sendHalf, SP!TypeOK, SP!ParamType, SP!SegmentType, SP!CreditType, SP!TimerType,
            SP!StatusType, SP!HistoryType
    <2>4. SP!Segmentation' /\ SP!CreditRespected'
        BY <1>0, <2>2 DEF sendHalf, SP!Segmentation, SP!CreditRespected, SP!InProgress
    <2> QED BY <2>3, <2>4 DEF SP!IInv
<1>3. CASE PollReturns
    <2>1. send_status \in {"IDLE", "INPROGRESS", "ERROR"}
        BY <1>0 DEF SP!TypeOK, SP!StatusType
    <2>2. SP!StatusType'
        BY <1>0, <1>3, <2>1, PollReturnsEffect, SendConstants, SP!TimeoutCheckType
    <2>3. SP!TypeOK'
        BY <1>0, <1>3, <2>2, PollReturnsEffect
        DEF SP!TypeOK, SP!ParamType, SP!SegmentType, SP!CreditType, SP!TimerType,
            SP!HistoryType
    <2>4. SP!InProgress' => SP!InProgress
        BY <1>3, PollReturnsEffect DEF SP!InProgress
    <2>5. SP!Segmentation' /\ SP!CreditRespected'
        BY <1>0, <1>3, <2>4, PollReturnsEffect DEF SP!Segmentation, SP!CreditRespected
    <2> QED BY <2>3, <2>5 DEF SP!IInv
<1> QED BY <1>1, <1>2, <1>3, SendHalfSteps

LEMMA SendHalfInvariance == Spec => []SP!IInv
<1>1. Init => SP!IInv
    <2>1. StartTime \in SP!Ticks
        BY LinkAssumption, SameClock DEF R!ReceiveParameters, R!Ticks, SP!Ticks
    <2>2. Init => SP!LinkInit /\ now \in SP!Ticks
        BY <2>1, SameSendLife DEF Init
    <2> QED BY <2>2, SendConstants, SP!LinkInitIInv
<1> QED BY <1>1, SendHalfInvariant, PTL DEF Spec

-----------------------------------------------------------------------------
(* The response timeout of a transmission *)

Punctual == COMPARISONS = {"wrapping"} /\ MaxLateness < HALF_RANGE

LEMMA PunctualHalf == Punctual => SP!Punctual
<1>1. MaxLateness \in Nat /\ HALF_RANGE \in Nat
    BY SendConstants DEF SP!TimeParameters, SP!FrameParameters
<1> QED BY <1>1 DEF Punctual, SP!Punctual

LEMMA TimerInvStep ==
    ASSUME Punctual, SP!TypeOK, SP!TimerInv, [Next]_vars
    PROVE  SP!TimerInv' /\ (SP!TimedOut => age_bs' > RESPONSE_TIMEOUT_US)
<1>0. SP!Punctual
    BY PunctualHalf
<1>1. CASE SP!Next
    BY <1>0, <1>1, SendConstants, SP!TimerStep
<1>2. CASE SendHalfIdles
    <2>1. /\ UNCHANGED <<send_status, send_protocol_result, send_timer_bs, age_bs>>
          /\ UNCHANGED now \/ ~SP!InProgress
        BY <1>2 DEF SendHalfIdles, sendHalf
    <2>2. SP!TimerInv'
        BY <2>1 DEF SP!TimerInv, SP!StartedAt, SP!InProgress
    <2>3. ~SP!TimedOut
        BY <2>1 DEF SP!TimedOut, SP!InProgress
    <2> QED BY <2>2, <2>3
<1>3. CASE PollReturns
    <2>1. CASE ~SP!InProgress
        BY <1>3, <2>1, PollReturnsEffect DEF SP!TimerInv, SP!TimedOut, SP!InProgress
    <2>2. CASE SP!InProgress
        <3>1. /\ send_protocol_result = "OK"
              /\ age_bs <= RESPONSE_TIMEOUT_US + MaxLateness
              /\ \E t \in SP!Ticks : SP!StartedAt(t)
            BY <2>2 DEF SP!TimerInv
        <3>2. PICK t \in SP!Ticks : SP!StartedAt(t)
            BY <3>1
        <3>3. age_bs \in Nat /\ age_bs <= RESPONSE_TIMEOUT_US + HALF_RANGE
            BY <1>0, <3>1, SendConstants, SP!TimeTypes DEF SP!TypeOK, SP!HistoryType, SP!Punctual
        <3>4. /\ now' = SP!WrapAdd(t, age_bs)
              /\ send_timer_bs' = SP!WrapAdd(t, RESPONSE_TIMEOUT_US)
              /\ age_bs' = age_bs
              /\ SP!CheckResponseTimeout(send_status)
            BY <1>3, <3>2, PollReturnsEffect DEF SP!StartedAt
        <3>5. \/ /\ age_bs > RESPONSE_TIMEOUT_US
                 /\ send_status' = "ERROR" /\ send_protocol_result' = "TIMEOUT_BS"
              \/ /\ age_bs <= RESPONSE_TIMEOUT_US
                 /\ send_status' = send_status
                 /\ send_protocol_result' = send_protocol_result
            BY <1>0, <3>3, <3>4, SendConstants, SP!ResponseCheck
        <3>6. SP!TimerInv'
            BY <3>1, <3>2, <3>4, <3>5, <1>3, PollReturnsEffect
            DEF SP!TimerInv, SP!StartedAt, SP!InProgress
        <3>7. SP!TimedOut => age_bs' > RESPONSE_TIMEOUT_US
            BY <3>1, <3>4, <3>5 DEF SP!TimedOut
        <3> QED BY <3>6, <3>7
    <2> QED BY <2>1, <2>2
<1> QED BY <1>1, <1>2, <1>3, SendHalfSteps

LEMMA TimerInvariance == ASSUME Punctual PROVE Spec => []SP!TimerInv
<1>1. Init => SP!TimerInv
    BY SameSendLife DEF Init, SP!LinkInit, SP!ClearedLink, SP!TimerInv, SP!InProgress
<1>2. SP!TypeOK /\ SP!TimerInv /\ [Next]_vars => SP!TimerInv'
    BY TimerInvStep
<1>3. SP!IInv => SP!TypeOK
    BY DEF SP!IInv
<1> QED BY <1>1, <1>2, <1>3, SendHalfInvariance, PTL DEF Spec

(* A transmission has its whole response timeout whatever call it is        *)
(* started in, also when the transmit callback starts it in the middle of   *)
(* isotp_poll, and wherever the clock wraps.                                *)
THEOREM DuplexTimeoutIsHonest == ASSUME Punctual PROVE Spec => TimeoutHonestInDuplex
<1>1. SP!TypeOK /\ SP!TimerInv /\ [Next]_vars =>
          [(S!InProgress /\ send_status' = "ERROR" /\ send_protocol_result' = "TIMEOUT_BS")
               => age_bs' > RESPONSE_TIMEOUT_US]_vars
    BY TimerInvStep, SameSendLife DEF SP!TimedOut
<1>2. SP!IInv => SP!TypeOK
    BY DEF SP!IInv
<1> QED BY <1>1, <1>2, SendHalfInvariance, TimerInvariance, PTL
        DEF Spec, TimeoutHonestInDuplex

-----------------------------------------------------------------------------
(* The transmit callback *)

(* While the callback runs, the response timer is the one its transmission  *)
(* ended with, or that of a transmission begun since.                       *)
CallbackInv ==
    in_tx_done_cb =>
        /\ age_cb \in Nat /\ age_cb <= MaxCallback
        /\ SP!InProgress => age_bs <= age_cb
        /\ ~SP!InProgress => \E t \in SP!Ticks :
               /\ now = SP!WrapAdd(t, age_cb)
               /\ send_timer_bs = SP!WrapAdd(t, RESPONSE_TIMEOUT_US)

(* The poll that calls it has just sent the last frame.                     *)
LEMMA CallbackEntered ==
    ASSUME SP!TypeOK, Poll, in_tx_done_cb'
    PROVE  CallbackInv'
<1>1. PollSendHalf /\ completions' # completions /\ age_cb' = 0
    BY DEF Poll
<1>2. SP!PollAccepted(0)
    <2>1. ~SendHalfRests
        BY <1>1 DEF SendHalfRests, sendHalf
    <2>2. SP!Poll(0)
        BY <1>1, <2>1, SamePoll DEF PollSendHalf
    <2>3. \A before : ~SP!PollUnsent(0, before)
        BY <1>1 DEF SP!PollUnsent, SP!historyVars
    <2> QED BY <2>2, <2>3 DEF SP!Poll, SP!PollNoSpace, SP!PollFailed, SP!PollWaiting
<1>3. /\ age_bs' = 0 /\ now' = SP!WrapAdd(now, 0)
      /\ send_timer_bs' = SP!WrapAdd(now, RESPONSE_TIMEOUT_US)
    BY <1>2 DEF SP!PollAccepted
<1>4. now \in SP!Ticks
    BY DEF SP!TypeOK
<1>5. age_cb' \in Nat /\ age_cb' <= MaxCallback /\ age_bs' <= age_cb'
    BY <1>1, <1>3, LinkAssumption
<1>6. \E t \in SP!Ticks :
          /\ now' = SP!WrapAdd(t, age_cb')
          /\ send_timer_bs' = SP!WrapAdd(t, RESPONSE_TIMEOUT_US)
    BY <1>1, <1>3, <1>4
<1> QED BY <1>5, <1>6 DEF CallbackInv

(* What the application does inside the callback.                           *)
LEMMA CallbackSends ==
    ASSUME CallbackInv, Send
    PROVE  CallbackInv'
<1>1. SP!Send /\ UNCHANGED callback /\ ~SP!InProgress
    <2>1. SP!Send
        BY SameSend DEF Send
    <2> QED BY <2>1 DEF Send, SP!Send, SP!SendSingleFrame, SP!SendFirstFrame, SP!Accepts
<1>2. UNCHANGED now /\ age_bs' = 0
    BY <1>1 DEF SP!Send, SP!SendSingleFrame, SP!SendFirstFrame, SP!Accepts
<1>3. ~SP!InProgress' => UNCHANGED send_timer_bs
    BY <1>1 DEF SP!Send, SP!SendSingleFrame, SP!SendFirstFrame, SP!InProgress, SP!timerVars
<1>4. UNCHANGED <<in_tx_done_cb, age_cb>>
    BY <1>1 DEF callback
<1> QED BY <1>1, <1>2, <1>3, <1>4 DEF CallbackInv

(* Time goes by while it runs.                                              *)
LEMMA CallbackTakesTime ==
    ASSUME MaxCallback <= RESPONSE_TIMEOUT_US, SP!TypeOK, CallbackInv, Tick
    PROVE  CallbackInv'
<1> SUFFICES ASSUME in_tx_done_cb PROVE CallbackInv'
    BY DEF Tick, CallbackInv
<1>1. /\ age_cb' = age_cb + ClockStep /\ age_cb' <= MaxCallback
      /\ UNCHANGED in_tx_done_cb /\ now' = SP!WrapAdd(now, ClockStep)
    BY SameClock DEF Tick
<1>2. /\ age_cb \in Nat /\ ClockStep \in Nat /\ MaxCallback \in Nat /\ age_bs \in Nat
      /\ RESPONSE_TIMEOUT_US \in 1 .. HALF_RANGE - 1 /\ HALF_RANGE \in Nat
    BY SendConstants, SP!TimeTypes, LinkAssumption
    DEF CallbackInv, SP!TypeOK, SP!HistoryType
<1>3. age_cb + ClockStep \in Nat /\ age_cb + ClockStep < 2 * HALF_RANGE
    BY <1>1, <1>2
<1>4. CASE SP!InProgress
    <2>1. SP!Tick
        BY <1>4, SameSendLife DEF Tick
    <2>2. age_bs' = age_bs + ClockStep /\ UNCHANGED send_status
        BY <2>1 DEF SP!Tick, SP!linkVars, SP!statusVars
    <2>3. age_bs <= age_cb
        BY <1>4 DEF CallbackInv
    <2>4. age_bs + ClockStep <= age_cb + ClockStep
        BY <1>2, <2>3
    <2> QED BY <1>1, <1>3, <1>4, <2>2, <2>4 DEF CallbackInv, SP!InProgress
<1>5. CASE ~SP!InProgress
    <2>1. UNCHANGED <<send_status, send_timer_bs>>
        BY <1>5, SameSendLife DEF Tick, SendHalfRests, sendHalf
    <2>2. PICK t \in SP!Ticks :
              /\ now = SP!WrapAdd(t, age_cb)
              /\ send_timer_bs = SP!WrapAdd(t, RESPONSE_TIMEOUT_US)
        BY <1>5 DEF CallbackInv
    <2>3. SP!WrapAdd(SP!WrapAdd(t, age_cb), ClockStep) = SP!WrapAdd(t, age_cb + ClockStep)
        BY <1>2, <1>3, SendConstants, SP!WrapAddTwice
    <2>4. \E u \in SP!Ticks :
              /\ now' = SP!WrapAdd(u, age_cb')
              /\ send_timer_bs' = SP!WrapAdd(u, RESPONSE_TIMEOUT_US)
        BY <1>1, <2>1, <2>2, <2>3
    <2> QED BY <1>1, <1>3, <1>5, <2>1, <2>4 DEF CallbackInv, SP!InProgress
<1> QED BY <1>4, <1>5

LEMMA CallbackStep ==
    ASSUME MaxCallback <= RESPONSE_TIMEOUT_US, SP!TypeOK, CallbackInv, [Next]_vars
    PROVE  CallbackInv'
<1>1. InitLink \/ OnCanMessage \/ TakeData => ~in_tx_done_cb'
    BY DEF InitLink, OnCanMessage, TakeData, callback
<1>2. PollReturns => ~in_tx_done_cb'
    BY PollReturnsEffect
<1>3. SetDoneCbs \/ UNCHANGED vars => CallbackInv'
    <2>1. SetDoneCbs \/ UNCHANGED vars =>
              UNCHANGED <<now, send_status, send_timer_bs, age_bs, in_tx_done_cb, age_cb>>
        <3>1. ASSUME NEW registered, S!SetTxDoneCb(registered)
              PROVE  UNCHANGED <<now, send_status, send_timer_bs, age_bs>>
            BY <3>1, SameSendLife
            DEF SP!SetTxDoneCb, SP!statusVars, SP!timerVars, SP!ageVars
        <3>2. ASSUME NEW registered, R!SetRxDoneCb(registered), SendHalfRests
              PROVE  UNCHANGED <<now, send_status, send_timer_bs, age_bs>>
            BY <3>2, ReceiveKeepsClock DEF SendHalfRests, sendHalf
        <3> QED BY <3>1, <3>2 DEF SetDoneCbs, callback, vars, sendHalf
    <2> QED BY <2>1 DEF CallbackInv, SP!InProgress
<1>4. ~in_tx_done_cb' => CallbackInv'
    BY DEF CallbackInv
<1> QED BY <1>1, <1>2, <1>3, <1>4, CallbackEntered, CallbackSends, CallbackTakesTime DEF Next

(* The check behind a callback that was fast enough finds nothing.          *)
LEMMA CallbackReturns ==
    ASSUME Punctual, MaxCallback <= RESPONSE_TIMEOUT_US,
           SP!TypeOK, SP!TimerInv, CallbackInv, PollReturns
    PROVE  send_status' = send_status
<1>0. SP!Punctual
    BY PunctualHalf
<1>1. /\ in_tx_done_cb /\ UNCHANGED <<now, send_timer_bs>>
      /\ SP!CheckResponseTimeout(send_status)
    BY PollReturnsEffect
<1>2. \E t \in SP!Ticks, e \in Nat :
          /\ e <= RESPONSE_TIMEOUT_US
          /\ now = SP!WrapAdd(t, e)
          /\ send_timer_bs = SP!WrapAdd(t, RESPONSE_TIMEOUT_US)
    <2>1. /\ age_cb \in Nat /\ age_cb <= MaxCallback /\ MaxCallback \in Nat
          /\ RESPONSE_TIMEOUT_US \in Nat
        BY <1>1, SendConstants, SP!PassingTime, LinkAssumption DEF CallbackInv
    <2>2. age_cb <= RESPONSE_TIMEOUT_US
        BY <2>1
    <2>3. CASE SP!InProgress
        <3>1. PICK t \in SP!Ticks : SP!StartedAt(t)
            BY <2>3 DEF SP!TimerInv
        <3>2. age_bs \in Nat /\ age_bs <= RESPONSE_TIMEOUT_US
            BY <1>1, <2>1, <2>2, <2>3 DEF CallbackInv, SP!TypeOK, SP!HistoryType
        <3> QED BY <3>1, <3>2 DEF SP!StartedAt
    <2>4. CASE ~SP!InProgress
        BY <1>1, <2>1, <2>2, <2>4 DEF CallbackInv
    <2> QED BY <2>3, <2>4
<1>3. PICK t \in SP!Ticks, e \in Nat :
          /\ e <= RESPONSE_TIMEOUT_US
          /\ now = SP!WrapAdd(t, e)
          /\ send_timer_bs = SP!WrapAdd(t, RESPONSE_TIMEOUT_US)
    BY <1>2
<1>4. e <= RESPONSE_TIMEOUT_US + HALF_RANGE /\ ~(e > RESPONSE_TIMEOUT_US)
    BY <1>3, SendConstants, SP!TimeTypes
<1> QED BY <1>0, <1>1, <1>3, <1>4, SendConstants, SP!ResponseCheck

(* What the transmit callback leaves behind, the completed transmission or  *)
(* the next one it has started, is still so when isotp_poll goes on, for    *)
(* every callback that takes no longer than the response timeout.           *)
THEOREM CallbackOutcomeIsKept ==
    ASSUME Punctual, MaxCallback <= RESPONSE_TIMEOUT_US
    PROVE  Spec => CallbackOutcomeStands
<1>1. Init => CallbackInv
    BY DEF Init, CallbackInv
<1>2. SP!TypeOK /\ CallbackInv /\ [Next]_vars => CallbackInv'
    BY CallbackStep
<1>3. SP!TypeOK /\ SP!TimerInv /\ CallbackInv /\ [Next]_vars =>
          [in_tx_done_cb /\ ~in_tx_done_cb' => send_status' = send_status]_vars
    <2>1. in_tx_done_cb /\ ~in_tx_done_cb' /\ Next => PollReturns
        BY DEF Next, InitLink, SetDoneCbs, Send, Poll, OnCanMessage, TakeData, Tick, callback
    <2> QED BY <2>1, CallbackReturns
<1>4. SP!IInv => SP!TypeOK
    BY DEF SP!IInv
<1> QED BY <1>1, <1>2, <1>3, <1>4, SendHalfInvariance, TimerInvariance, PTL
        DEF Spec, CallbackOutcomeStands

-----------------------------------------------------------------------------
(* The receive half in the link *)

LEMMA SameReceiveLengths ==
    /\ \A f : R!SfPayloadLength(f) = RP!SfPayloadLength(f)
    /\ \A f : R!FfPayloadLength(f) = RP!FfPayloadLength(f)
    /\ \A f : R!FfReadLength(f) = RP!FfReadLength(f)
    /\ \A left, dl : R!CfWanted(left, dl) = RP!CfWanted(left, dl)
    /\ \A sn : R!NextSn(sn) = RP!NextSn(sn)
<1>1. \A f : R!FfIsLong(f) <=> RP!FfIsLong(f)
    BY DEF R!FfIsLong, RP!FfIsLong
<1> QED BY <1>1
    DEF R!SfPayloadLength, R!FfPayloadLength, R!FfReadLength, R!CfWanted, R!CfDataLength,
        R!NextSn, R!CAN_DL_CLASSIC, RP!SfPayloadLength, RP!FfPayloadLength, RP!FfReadLength,
        RP!CfWanted, RP!CfDataLength, RP!NextSn, RP!CAN_DL_CLASSIC

LEMMA SameReceiveFrames ==
    /\ R!NoFrame = RP!NoFrame /\ R!NoData = RP!NoData
    /\ \A f : R!SfAccepted(f) <=> RP!SfAccepted(f)
    /\ \A f : R!FfAccepted(f) <=> RP!FfAccepted(f)
    /\ \A f : R!Plausible(f) <=> RP!Plausible(f)
    /\ \A fs, bs, st : R!FlowControl(fs, bs, st) = RP!FlowControl(fs, bs, st)
<1>1. \A u : R!PadFrame(u) = RP!PadFrame(u)
    BY DEF R!PadFrame, R!CeilCanDl, R!CanFdFrameSizes, R!CAN_DL_CLASSIC,
           RP!PadFrame, RP!CeilCanDl, RP!CanFdFrameSizes, RP!CAN_DL_CLASSIC
<1>2. \A us : R!UsToStMin(us) = RP!UsToStMin(us)
    BY DEF R!UsToStMin, RP!UsToStMin
<1>3. \A fs, bs, st : R!FlowControl(fs, bs, st) = RP!FlowControl(fs, bs, st)
    BY <1>1, <1>2 DEF R!FlowControl, RP!FlowControl
<1>4. ASSUME NEW f PROVE R!SfAccepted(f) <=> RP!SfAccepted(f)
    BY SameReceiveLengths
    DEF R!SfAccepted, R!CAN_DL_CLASSIC, RP!SfAccepted, RP!CAN_DL_CLASSIC
<1>7. ASSUME NEW f PROVE R!FfAccepted(f) <=> RP!FfAccepted(f)
    <2>1. R!SfMaxPayload(f.len) = RP!SfMaxPayload(f.len)
        BY DEF R!SfMaxPayload, R!CAN_DL_CLASSIC, RP!SfMaxPayload, RP!CAN_DL_CLASSIC
    <2>2. R!IsValidCanDl(f.len) <=> RP!IsValidCanDl(f.len)
        BY DEF R!IsValidCanDl, R!CeilCanDl, R!CanFdFrameSizes, R!CAN_DL_CLASSIC,
               RP!IsValidCanDl, RP!CeilCanDl, RP!CanFdFrameSizes, RP!CAN_DL_CLASSIC
    <2> QED BY <2>1, <2>2, SameReceiveLengths
            DEF R!FfAccepted, R!CAN_DL_CLASSIC, RP!FfAccepted, RP!CAN_DL_CLASSIC
<1>5. R!NoFrame = RP!NoFrame /\ R!NoData = RP!NoData
    BY DEF R!NoFrame, R!NoData, RP!NoFrame, RP!NoData
<1>6. \A f : R!Plausible(f) <=> RP!Plausible(f)
    BY DEF R!Plausible, RP!Plausible
<1> QED BY <1>3, <1>4, <1>5, <1>6, <1>7

LEMMA SameReceiveGroups ==
    /\ R!paramVars = RP!paramVars /\ R!paramVars' = RP!paramVars'
    /\ R!bufferVars = RP!bufferVars /\ R!bufferVars' = RP!bufferVars'
    /\ R!streamVars = RP!streamVars /\ R!streamVars' = RP!streamVars'
    /\ R!flowVars = RP!flowVars /\ R!flowVars' = RP!flowVars'
    /\ R!timerVars = RP!timerVars /\ R!timerVars' = RP!timerVars'
    /\ R!recvStatusVars = RP!recvStatusVars /\ R!recvStatusVars' = RP!recvStatusVars'
    /\ R!messageVars = RP!messageVars /\ R!messageVars' = RP!messageVars'
BY DEF R!paramVars, R!bufferVars, R!streamVars, R!flowVars, R!timerVars, R!recvStatusVars,
       R!messageVars, RP!paramVars, RP!bufferVars, RP!streamVars, RP!flowVars,
       RP!timerVars, RP!recvStatusVars, RP!messageVars

LEMMA SameMemory ==
    /\ \A memory, at, bytes : R!Overwrite(memory, at, bytes) = RP!Overwrite(memory, at, bytes)
    /\ \A f, k : R!FrameData(f, k) = RP!FrameData(f, k)
    /\ \A size : R!Blank(size) = RP!Blank(size)
    /\ \A a, b : R!Smaller(a, b) = RP!Smaller(a, b)
BY DEF R!Overwrite, R!FrameData, R!Byte, R!NoByte, R!Blank, R!Smaller,
       RP!Overwrite, RP!FrameData, RP!Byte, RP!NoByte, RP!Blank, RP!Smaller

(* What the handlers share.                                                 *)
LEMMA SameHandling ==
    /\ R!Receiving <=> RP!Receiving
    /\ R!Interrupting = RP!Interrupting
    /\ R!Block = RP!Block
    /\ R!StartTimer <=> RP!StartTimer
    /\ R!NoFlowControl <=> RP!NoFlowControl
    /\ R!Used <=> RP!Used
    /\ \A status : R!Notify(status) <=> RP!Notify(status)
    /\ \A fs, bs, accepted :
           R!SendFlowControl(fs, bs, accepted) <=> RP!SendFlowControl(fs, bs, accepted)
<1>1. (R!Receiving <=> RP!Receiving) /\ R!Interrupting = RP!Interrupting /\ R!Block = RP!Block
    BY DEF R!Receiving, R!Interrupting, R!Block, RP!Receiving, RP!Interrupting, RP!Block
<1>2. R!StartTimer <=> RP!StartTimer
    BY DEF R!StartTimer, R!WrapAdd, RP!StartTimer, RP!WrapAdd
<1>3. (R!NoFlowControl <=> RP!NoFlowControl) /\ (R!Used <=> RP!Used)
    BY SameReceiveFrames DEF R!NoFlowControl, R!Used, R!INVALID_BS, RP!NoFlowControl, RP!Used,
                             RP!INVALID_BS
<1>4. ASSUME NEW status PROVE R!Notify(status) <=> RP!Notify(status)
    BY SameReceiveFrames DEF R!Notify, RP!Notify
<1>5. ASSUME NEW fs, NEW bs, NEW accepted
      PROVE  R!SendFlowControl(fs, bs, accepted) <=> RP!SendFlowControl(fs, bs, accepted)
    BY SameReceiveFrames
    DEF R!SendFlowControl, R!INVALID_BS, R!OVERFLOW, RP!SendFlowControl, RP!INVALID_BS,
        RP!OVERFLOW
<1> QED BY <1>1, <1>2, <1>3, <1>4, <1>5

LEMMA SameSingleFrame == \A f : R!ReceiveSingleFrame(f) <=> RP!ReceiveSingleFrame(f)
BY SameReceiveLengths, SameReceiveFrames, SameReceiveGroups, SameMemory, SameHandling
DEF R!ReceiveSingleFrame, RP!ReceiveSingleFrame

LEMMA SameFirstFrame ==
    \A f, accepted : R!ReceiveFirstFrame(f, accepted) <=> RP!ReceiveFirstFrame(f, accepted)
<1>1. \A f : R!FfOverflows(f) <=> RP!FfOverflows(f)
    BY SameReceiveLengths DEF R!FfOverflows, RP!FfOverflows
<1>2. ASSUME NEW f PROVE R!StoreFirstFrame(f) <=> RP!StoreFirstFrame(f)
    BY SameReceiveLengths, SameMemory DEF R!StoreFirstFrame, RP!StoreFirstFrame
<1> QED BY <1>1, <1>2, SameReceiveFrames, SameReceiveGroups, SameHandling
        DEF R!ReceiveFirstFrame, R!CONTINUE, R!OVERFLOW,
            RP!ReceiveFirstFrame, RP!CONTINUE, RP!OVERFLOW

LEMMA SameConsecutiveFrame ==
    \A f, accepted :
        R!ReceiveConsecutiveFrame(f, accepted) <=> RP!ReceiveConsecutiveFrame(f, accepted)
<1>1. ASSUME NEW data PROVE R!StoreStreamed(data) <=> RP!StoreStreamed(data)
    BY SameMemory DEF R!StoreStreamed, RP!StoreStreamed
<1>2. ASSUME NEW data PROVE R!StoreWhole(data) <=> RP!StoreWhole(data)
    BY SameMemory DEF R!StoreWhole, RP!StoreWhole
<1>3. ASSUME NEW accepted PROVE R!CountBlock(accepted) <=> RP!CountBlock(accepted)
    BY SameHandling DEF R!CountBlock, R!CONTINUE, RP!CountBlock, RP!CONTINUE
<1>4. (R!ChunkReady <=> RP!ChunkReady) /\ \A f : R!InSequence(f) <=> RP!InSequence(f)
    BY DEF R!ChunkReady, R!InSequence, RP!ChunkReady, RP!InSequence
<1> QED BY <1>1, <1>2, <1>3, <1>4, SameReceiveLengths, SameReceiveFrames,
           SameReceiveGroups, SameMemory, SameHandling
        DEF R!ReceiveConsecutiveFrame, RP!ReceiveConsecutiveFrame

LEMMA SameTakeData == R!TakeData <=> RP!TakeData
<1>1. ASSUME NEW size PROVE R!Receive(size) <=> RP!Receive(size)
    BY SameReceiveFrames, SameReceiveGroups, SameMemory DEF R!Receive, RP!Receive
<1>2. R!Refill <=> RP!Refill
    BY SameMemory DEF R!Refill, RP!Refill
<1>3. ASSUME NEW size, NEW accepted
      PROVE  R!ReceiveStreaming(size, accepted) <=> RP!ReceiveStreaming(size, accepted)
    BY <1>2, SameReceiveGroups, SameHandling
    DEF R!ReceiveStreaming, R!LastChunk, R!CONTINUE,
        RP!ReceiveStreaming, RP!LastChunk, RP!CONTINUE
<1> QED BY <1>1, <1>3 DEF R!TakeData, RP!TakeData

LEMMA SameReceiveLife ==
    /\ R!LinkInit <=> RP!LinkInit
    /\ \A size : R!InitLink(size) <=> RP!InitLink(size)
    /\ \A registered : R!SetRxDoneCb(registered) <=> RP!SetRxDoneCb(registered)
    /\ R!ReceiveOtherFrame <=> RP!ReceiveOtherFrame
    /\ R!PollTimesOut <=> RP!PollTimesOut
    /\ R!Tick <=> RP!Tick
<1>1. R!LinkInit <=> RP!LinkInit
    BY SameReceiveFrames, SameMemory
    DEF R!LinkInit, R!CAN_DL_CLASSIC, RP!LinkInit, RP!CAN_DL_CLASSIC
<1>2. ASSUME NEW size PROVE R!InitLink(size) <=> RP!InitLink(size)
    BY SameReceiveFrames, SameMemory
    DEF R!InitLink, R!Reset, R!CAN_DL_CLASSIC, RP!InitLink, RP!Reset, RP!CAN_DL_CLASSIC
<1>3. ASSUME NEW registered PROVE R!SetRxDoneCb(registered) <=> RP!SetRxDoneCb(registered)
    BY SameReceiveFrames, SameReceiveGroups DEF R!SetRxDoneCb, RP!SetRxDoneCb
<1>4. R!ReceiveOtherFrame <=> RP!ReceiveOtherFrame
    BY SameReceiveGroups, SameHandling DEF R!ReceiveOtherFrame, RP!ReceiveOtherFrame
<1>5. R!PollTimesOut <=> RP!PollTimesOut
    <2>1. R!DeadlinePassed <=> RP!DeadlinePassed
        BY DEF R!DeadlinePassed, R!TimeAfter, R!AfterWrapping, R!AfterSigned, R!WrapSub,
               R!AsInt32, RP!DeadlinePassed, RP!TimeAfter, RP!AfterWrapping, RP!AfterSigned,
               RP!WrapSub, RP!AsInt32
    <2> QED BY <2>1, SameReceiveFrames, SameReceiveGroups, SameHandling
            DEF R!PollTimesOut, RP!PollTimesOut
<1>6. R!Tick <=> RP!Tick
    BY SameReceiveFrames, SameReceiveGroups, SameHandling
    DEF R!Tick, R!WrapAdd, RP!Tick, RP!WrapAdd
<1> QED BY <1>1, <1>2, <1>3, <1>4, <1>5, <1>6

LEMMA SameReceiveInvariants ==
    /\ R!WithinBounds <=> RP!WithinBounds
    /\ R!NeverWaitsUninvited <=> RP!NeverWaitsUninvited
    /\ R!StreamBackpressure <=> RP!StreamBackpressure
BY SameHandling
DEF R!WithinBounds, R!NeverWaitsUninvited, R!StreamBackpressure,
    RP!WithinBounds, RP!NeverWaitsUninvited, RP!StreamBackpressure

(* A step of the transmit half, or time that passes over an idle receive    *)
(* half.                                                                    *)
ReceiveHalfIdles == UNCHANGED receiveHalf /\ now' \in RP!Ticks

(* Calls of the transmit half read the clock and leave it alone.            *)
LEMMA SendKeepsClock ==
    ASSUME now \in RP!Ticks,
           \/ S!Send \/ S!Poll(0) \/ \E registered \in BOOLEAN : S!SetTxDoneCb(registered)
    PROVE  now' \in RP!Ticks
<1>1. SP!Send => UNCHANGED now
    BY DEF SP!Send, SP!SendSingleFrame, SP!SendFirstFrame
<1>2. SP!Poll(0) => now' \in {now, SP!WrapAdd(now, 0)}
    BY DEF SP!Poll, SP!PollUnsent, SP!PollNoSpace, SP!PollFailed, SP!PollWaiting,
           SP!PollAccepted
<1>3. \A registered : SP!SetTxDoneCb(registered) => UNCHANGED now
    BY DEF SP!SetTxDoneCb
<1>4. now \in SP!Ticks
    BY SameClock
<1>5. SP!WrapAdd(now, 0) = now
    BY <1>4, SendConstants, SP!WrapAddZero
<1> QED BY <1>1, <1>2, <1>3, <1>5, SameSend, SamePoll, SameSendLife

(* What a step of the link is to its receive half.                          *)
LEMMA ReceiveHalfSteps ==
    ASSUME RP!TypeOK, receive_buf_size \in RECEIVE_BUF_SIZES, [Next]_vars
    PROVE  RP!Next \/ ReceiveHalfIdles
<1>0. now \in RP!Ticks
    BY DEF RP!TypeOK, RP!ClockType
<1>1. InitLink => RP!Next
    BY SameReceiveLife DEF InitLink, RP!Next
<1>2. SetDoneCbs => RP!Next \/ ReceiveHalfIdles
    BY <1>0, SameReceiveLife, SendKeepsClock
    DEF SetDoneCbs, ReceiveHalfRests, ReceiveHalfIdles, RP!Next
<1>3. Send => ReceiveHalfIdles
    BY <1>0, SendKeepsClock DEF Send, ReceiveHalfRests, ReceiveHalfIdles
<1>4. Poll => RP!Next \/ ReceiveHalfIdles
    <2>1. PollSendHalf => now' \in RP!Ticks
        BY <1>0, SendKeepsClock DEF PollSendHalf
    <2>2. PollReceiveHalf => RP!PollTimesOut \/ UNCHANGED receiveHalf
        BY SameReceiveLife DEF PollReceiveHalf, ReceiveHalfRests
    <2>3. ReceiveHalfRests => UNCHANGED receiveHalf
        BY DEF ReceiveHalfRests
    <2> QED BY <2>1, <2>2, <2>3 DEF Poll, ReceiveHalfIdles, RP!Next
<1>5. PollReturns => RP!Next \/ ReceiveHalfIdles
    <2>1. PollReturns => UNCHANGED now /\ PollReceiveHalf
        BY DEF PollReturns, Resume
    <2>2. PollReceiveHalf => RP!PollTimesOut \/ UNCHANGED receiveHalf
        BY SameReceiveLife DEF PollReceiveHalf, ReceiveHalfRests
    <2> QED BY <1>0, <2>1, <2>2 DEF ReceiveHalfIdles, RP!Next
<1>6. OnCanMessage => RP!Next
    <2>1. OnFlowControl => RP!FrameArrives
        BY SameReceiveLife DEF OnFlowControl, RP!FrameArrives
    <2>2. OnDataFrame => RP!FrameArrives
        BY SameSingleFrame, SameFirstFrame, SameConsecutiveFrame
        DEF OnDataFrame, R!OnCanMessage, RP!OnCanMessage, RP!FrameArrives
    <2> QED BY <2>1, <2>2 DEF OnCanMessage, RP!Next
<1>7. TakeData => RP!Next
    BY SameTakeData DEF TakeData, RP!Next
<1>8. Tick => RP!Next \/ ReceiveHalfIdles
    <2>1. Tick => now' \in RP!Ticks
        <3>1. now \in SP!Ticks /\ ClockStep \in SP!Ticks
            BY <1>0, SameClock, SendConstants, SP!PassingTime
        <3>2. SP!WrapAdd(now, ClockStep) \in SP!Ticks
            BY <3>1, SendConstants, SP!WrapType
        <3> QED BY <3>2, SameClock DEF Tick
    <2>2. Tick => RP!Tick \/ UNCHANGED receiveHalf
        BY SameReceiveLife DEF Tick, ReceiveHalfRests
    <2> QED BY <2>1, <2>2 DEF ReceiveHalfIdles, RP!Next
<1>9. UNCHANGED vars => ReceiveHalfIdles
    BY <1>0 DEF vars, ReceiveHalfIdles
<1> QED BY <1>1, <1>2, <1>3, <1>4, <1>5, <1>6, <1>7, <1>8, <1>9 DEF Next

LEMMA ReceiveBufferInvariance == Spec => [](receive_buf_size \in RECEIVE_BUF_SIZES)
<1>1. Init => receive_buf_size \in RECEIVE_BUF_SIZES
    BY DEF Init, R!LinkInit
<1>2. UNCHANGED receiveHalf => UNCHANGED receive_buf_size
    BY DEF receiveHalf
<1>3. [Next]_vars => UNCHANGED receive_buf_size
    <2>1. ASSUME NEW f, NEW accepted, R!OnCanMessage(f, accepted)
          PROVE  UNCHANGED receive_buf_size
        BY <2>1, SameReceiveGroups
        DEF R!OnCanMessage, R!ReceiveSingleFrame, R!ReceiveFirstFrame,
            R!ReceiveConsecutiveFrame, RP!paramVars
    <2>2. R!TakeData \/ R!PollTimesOut \/ R!ReceiveOtherFrame \/ R!Tick =>
              UNCHANGED receive_buf_size
        BY SameReceiveGroups
        DEF R!TakeData, R!Receive, R!ReceiveStreaming, R!PollTimesOut, R!ReceiveOtherFrame,
            R!Tick, RP!paramVars
    <2>3. ASSUME NEW registered, R!SetRxDoneCb(registered) PROVE UNCHANGED receive_buf_size
        BY <2>3 DEF R!SetRxDoneCb
    <2>4. R!InitLink(receive_buf_size) => UNCHANGED receive_buf_size
        BY DEF R!InitLink, R!Reset
    <2> QED BY <1>2, <2>1, <2>2, <2>3, <2>4
            DEF Next, InitLink, SetDoneCbs, Send, Poll, PollReturns, Resume, PollReceiveHalf,
                OnCanMessage, OnFlowControl, OnDataFrame, TakeData, Tick, ReceiveHalfRests,
                vars
<1>4. receive_buf_size \in RECEIVE_BUF_SIZES /\ [Next]_vars =>
          (receive_buf_size \in RECEIVE_BUF_SIZES)'
    BY <1>3
<1> QED BY <1>1, <1>4, PTL DEF Spec

LEMMA ReceiveHalfInvariant ==
    RP!IInv /\ receive_buf_size \in RECEIVE_BUF_SIZES /\ [Next]_vars => RP!IInv'
<1> SUFFICES ASSUME RP!IInv, receive_buf_size \in RECEIVE_BUF_SIZES, [Next]_vars
             PROVE  RP!IInv'
    OBVIOUS
<1>0. RP!TypeOK
    BY DEF RP!IInv
<1>1. CASE RP!Next
    BY <1>1, ReceiveConstants, RP!NextStep
<1>2. CASE ReceiveHalfIdles
    <2>1. UNCHANGED <<receive_buf_size, rx_done_cb, RP!bufferVars, RP!streamVars,
                      RP!flowVars, RP!timerVars, RP!recvStatusVars, RP!messageVars>>
        BY <1>2
        DEF ReceiveHalfIdles, receiveHalf, RP!bufferVars, RP!streamVars, RP!flowVars,
            RP!timerVars, RP!recvStatusVars, RP!messageVars
    <2>2. /\ RP!BufferType' /\ RP!StreamType' /\ RP!FlowType' /\ RP!StatusType'
          /\ RP!MessageType'
        BY <1>0, <2>1, ReceiveConstants, RP!Unchanged
    <2>3. RP!ClockType'
        BY <1>0, <1>2, <2>1 DEF ReceiveHalfIdles, RP!TypeOK, RP!ClockType, RP!timerVars
    <2>4. RP!TypeOK'
        BY <2>2, <2>3 DEF RP!TypeOK
    <2>5. RP!Resting
        BY <2>1 DEF RP!Resting, RP!recvStatusVars
    <2> QED BY <2>4, <2>5, ReceiveConstants, RP!RestingStep
<1> QED BY <1>0, <1>1, <1>2, ReceiveHalfSteps

LEMMA ReceiveHalfInvariance == Spec => []RP!IInv
<1>1. Init => RP!IInv
    <2>1. Init => RP!Init
        BY SameReceiveLife DEF Init, RP!Init
    <2> QED BY <2>1, ReceiveConstants, RP!InitIInv
<1> QED BY <1>1, ReceiveBufferInvariance, ReceiveHalfInvariant, PTL DEF Spec

(* What each half promises alone it promises when the other one is at work. *)
THEOREM HalvesKeepTheirPromises ==
    Spec => [](/\ S!Segmentation /\ S!CreditRespected
               /\ R!WithinBounds /\ R!NeverWaitsUninvited /\ R!StreamBackpressure)
<1>1. SP!IInv => S!Segmentation /\ S!CreditRespected
    BY SameSendInvariants DEF SP!IInv
<1>2. RP!IInv => R!WithinBounds /\ R!NeverWaitsUninvited /\ R!StreamBackpressure
    BY SameReceiveInvariants DEF RP!IInv, RP!Invitations
<1> QED BY <1>1, <1>2, SendHalfInvariance, ReceiveHalfInvariance, PTL


=============================================================================
