---------------------------- MODULE IsoTpSend_proofs ----------------------------
(***************************************************************************)
(* Proofs about the transmit half for every TX_DL, buffer size, timeout and *)
(* clock range.  IInv is inductive: the types need the segmentation         *)
(* invariant (an offset is a natural number because it lies below the size),*)
(* segmentation and credit need the types, and both need to know that a     *)
(* transmission in progress has its TX_DL fixed.                            *)
(***************************************************************************)
EXTENDS IsoTpSend, IsoTpFrame_proofs

IInv == TypeOK /\ Segmentation /\ CreditRespected

(* A Consecutive Frame of an unfinished payload carries at least one byte,  *)
(* no more than are left, and a full frame when it is not the last.         *)
LEMMA ConsecutiveFrameData ==
    ASSUME NEW left \in Nat \ {0}, NEW dl \in Nat, NEW sn
    PROVE  /\ CfDataLength(left, TxDl(dl)) \in 1 .. left
           /\ CfDataLength(left, TxDl(dl)) < left =>
                  CfDataLength(left, TxDl(dl)) = TxDl(dl) - 1
           /\ ConsecutiveFrame(sn, left, TxDl(dl)).n = CfDataLength(left, TxDl(dl))
BY TxDlRange DEF CfDataLength, ConsecutiveFrame

(* Sequence numbers run through 0 .. 15.                                    *)
LEMMA NextSnIsModulo ==
    ASSUME NEW k \in Nat
    PROVE  NextSn((k + 1) % 16) = (k + 2) % 16 /\ (k + 1) % 16 \in 0 .. 15
BY DEF NextSn

(* One more full frame moves the offset on by TX_DL - 1.                    *)
LEMMA OneMoreFrame ==
    ASSUME NEW c \in Nat, NEW d \in Nat
    PROVE  (c + 1) * d = c * d + d /\ c * d \in Nat
OBVIOUS

(* The times that pass between two calls, and inside one, fit the clock.    *)
LEMMA PassingTime ==
    /\ RESPONSE_TIMEOUT_US \in Nat /\ RESPONSE_TIMEOUT_US \in Ticks
    /\ DEFAULT_ST_MIN_US \in Nat /\ DEFAULT_ST_MIN_US \in Ticks
    /\ ClockStep \in Nat /\ ClockStep \in Ticks
    /\ \A elapse \in Preemptions : elapse \in Nat /\ elapse \in Ticks
BY SendAssumption, ZeroIsTick DEF TimeParameters

(* A decoded separation time is a number of microseconds.                   *)
LEMMA StMinType == ASSUME NEW c \in Nat PROVE StMinToUs(c) \in Nat
BY DEF StMinToUs

(* A link just initialised, whatever the clock shows. *)
LEMMA LinkInitIInv ==
    ASSUME now \in Ticks, LinkInit
    PROVE  IInv
<1>1. DEFAULT_TX_DL \in 0 .. 255
    BY SendAssumption, LegalTxDlRange DEF LinkParameters, CAN_DL_CLASSIC, CanFdFrameSizes
<1>2. TypeOK
    <2>1. now \in Ticks /\ TimerType
        BY ZeroIsTick DEF LinkInit, ClearedLink, TimerType
    <2>2. ParamType
        <3>1. tx_done_cb \in BOOLEAN
            BY DEF LinkInit, ClearedLink
        <3> QED BY <1>1, <3>1, SendAssumption DEF LinkParameters, LinkInit, ParamType
    <2>3. SegmentType /\ CreditType /\ HistoryType
        BY ZeroIsTick, InvalidBsRange
        DEF LinkInit, ClearedLink, SegmentType, CreditType, HistoryType
    <2>4. StatusType
        BY DEF LinkInit, ClearedLink, StatusType
    <2> QED BY <2>1, <2>2, <2>3, <2>4 DEF TypeOK
<1>3. ~InProgress
    BY DEF LinkInit, ClearedLink, InProgress
<1> QED BY <1>2, <1>3 DEF IInv, Segmentation, CreditRespected

LEMMA InitIInv == Init => IInv
BY LinkInitIInv, ZeroIsTick DEF Init

-----------------------------------------------------------------------------
(* What the response timeout check may leave behind. *)
LEMMA TimeoutCheckType ==
    ASSUME NEW status \in {"IDLE", "INPROGRESS", "ERROR"},
           TypeOK, CheckResponseTimeout(status)
    PROVE  StatusType' /\ send_status' \in {"ERROR", status}
BY DEF CheckResponseTimeout, StatusType, TypeOK

(* A call that starts a transmission. *)
LEMMA SendSingleFrameType ==
    ASSUME TypeOK, NEW size \in SendSizes, NEW answer, SendSingleFrame(size, answer)
    PROVE  TypeOK'
<1>1. UNCHANGED <<now, paramVars, send_sn, creditVars, timerVars, statusVars>>
    BY DEF SendSingleFrame
<1>2. send_size' = size /\ send_offset' = 0 /\ completions' \in {0, 1}
    BY DEF SendSingleFrame, Accepts
<1>3. /\ cfs' = 0 /\ grant' = 0 /\ asked' = 0 /\ block' = 0 /\ waits' = 0
      /\ age_bs' = 0 /\ age_st' = 0
    BY DEF SendSingleFrame, Accepts
<1>4. now' \in Ticks /\ ParamType' /\ CreditType' /\ TimerType' /\ StatusType'
    BY <1>1 DEF TypeOK, ParamType, CreditType, TimerType, StatusType,
                paramVars, creditVars, timerVars, statusVars
<1>5. SegmentType'
    BY <1>1, <1>2, SendAssumption DEF LinkParameters, TypeOK, SegmentType
<1>6. HistoryType'
    BY <1>2, <1>3, InvalidBsRange DEF HistoryType
<1> QED BY <1>4, <1>5, <1>6 DEF TypeOK

LEMMA SendFirstFrameType ==
    ASSUME TypeOK, NEW size \in SendSizes, NEW answer, SendFirstFrame(size, answer)
    PROVE  TypeOK'
<1>1. UNCHANGED <<now, paramVars>> /\ send_sn' = 1 /\ completions' = 0
    BY DEF SendFirstFrame
<1>2. /\ send_size' = size
      /\ cfs' = 0 /\ grant' = 0 /\ asked' = 0 /\ block' = 0 /\ waits' = 0
      /\ age_bs' = 0 /\ age_st' = 0
    BY DEF SendFirstFrame, Accepts
<1>3. now' \in Ticks /\ ParamType'
    BY <1>1 DEF TypeOK, ParamType, paramVars
<1>4. HistoryType'
    BY <1>1, <1>2, InvalidBsRange DEF HistoryType
<1>5. CASE answer = "OK"
    <2>1. /\ send_offset' = FfDataLength(size, TxDl(tx_dl))
          /\ send_timer_st' = now
          /\ send_timer_bs' = WrapAdd(now, RESPONSE_TIMEOUT_US)
          /\ send_protocol_result' = "OK" /\ send_status' = "INPROGRESS"
          /\ ResetFlow
        BY <1>5 DEF SendFirstFrame
    <2>2. StatusType'
        BY <2>1 DEF StatusType
    <2>3. CreditType'
        BY <2>1, ZeroIsTick, InvalidBsRange DEF ResetFlow, CreditType
    <2>4. TimerType'
        <3>1. now \in Ticks /\ RESPONSE_TIMEOUT_US \in Ticks
            BY PassingTime DEF TypeOK
        <3> QED BY <2>1, <3>1, WrapType DEF TimerType
    <2>5. SegmentType'
        <3>1. tx_dl \in Nat /\ size \in Nat
            BY SendAssumption DEF LinkParameters, TypeOK, ParamType
        <3>2. size > SfMaxPayload(TxDl(tx_dl))
            BY DEF SendFirstFrame
        <3>3. FfDataLength(size, TxDl(tx_dl)) \in Nat
            BY <3>1, <3>2, FirstFrameLeaves
        <3> QED BY <1>1, <1>2, <2>1, <3>1, <3>3 DEF SegmentType
    <2> QED BY <1>3, <1>4, <2>2, <2>3, <2>4, <2>5 DEF TypeOK
<1>6. CASE answer # "OK"
    <2>1. send_offset' = 0 /\ UNCHANGED <<creditVars, timerVars, statusVars>>
        BY <1>6 DEF SendFirstFrame
    <2>2. CreditType' /\ TimerType' /\ StatusType'
        BY <2>1 DEF TypeOK, CreditType, TimerType, StatusType,
                    creditVars, timerVars, statusVars
    <2>3. SegmentType'
        BY <1>1, <1>2, <2>1, SendAssumption DEF LinkParameters, SegmentType
    <2> QED BY <1>3, <1>4, <2>2, <2>3 DEF TypeOK
<1> QED BY <1>5, <1>6

(* The number of bytes in the next Consecutive Frame. *)
LEMMA NextFrameData ==
    ASSUME TypeOK, Segmentation, InProgress
    PROVE  /\ send_size - send_offset \in Nat \ {0}
           /\ CfDataLength(send_size - send_offset, TxDl(tx_dl))
                  \in 1 .. send_size - send_offset
           /\ CfDataLength(send_size - send_offset, TxDl(tx_dl)) < send_size - send_offset
                  => CfDataLength(send_size - send_offset, TxDl(tx_dl)) = TxDl(tx_dl) - 1
<1>1. send_size - send_offset \in Nat \ {0}
    BY DEF TypeOK, SegmentType, Segmentation
<1>2. tx_dl \in Nat
    BY DEF TypeOK, ParamType
<1> QED BY <1>1, <1>2, ConsecutiveFrameData

(* What isotp_poll changes when the driver takes a Consecutive Frame. *)
LEMMA PollAcceptedEffect ==
    ASSUME NEW elapse, PollAccepted(elapse)
    PROVE  LET n == CfDataLength(send_size - send_offset, TxDl(tx_dl))
           IN  /\ InProgress
               /\ send_offset' = send_offset + n
               /\ CheckResponseTimeout(IF Finishes(n) THEN "IDLE" ELSE "INPROGRESS")
BY DEF PollAccepted, ConsecutiveFrame

(* isotp_poll: one lemma for each way through its transmit part. *)
LEMMA PollAcceptedType ==
    ASSUME TypeOK, Segmentation, NEW elapse \in Preemptions, PollAccepted(elapse)
    PROVE  TypeOK'
<1> DEFINE n == CfDataLength(send_size - send_offset, TxDl(tx_dl))
<1>1. InProgress /\ MayContinue
    BY DEF PollAccepted
<1>2. UNCHANGED <<paramVars, send_size, send_st_min_us, send_wtf_count, grant, asked, waits>>
    BY DEF PollAccepted
<1>3. now' \in Ticks /\ TimerType'
    <2>1. /\ now' = WrapAdd(now, elapse)
          /\ send_timer_bs' = WrapAdd(now, RESPONSE_TIMEOUT_US)
          /\ send_timer_st' = WrapAdd(now, send_st_min_us)
        BY DEF PollAccepted
    <2>2. elapse \in Ticks /\ RESPONSE_TIMEOUT_US \in Ticks
        BY PassingTime
    <2>3. now \in Ticks /\ send_st_min_us \in Ticks
        BY DEF TypeOK, CreditType
    <2> QED BY <2>1, <2>2, <2>3, WrapType DEF TimerType
<1>4. ParamType'
    BY <1>2 DEF TypeOK, ParamType, paramVars
<1>5. SegmentType'
    <2>1. send_offset' = send_offset + n /\ n \in Nat
        BY <1>1, NextFrameData, PollAcceptedEffect
    <2>2. send_sn' \in 0 .. 15
        <3>1. send_sn' = NextSn(send_sn)
            BY DEF PollAccepted
        <3> QED BY <3>1 DEF TypeOK, SegmentType, NextSn
    <2> HIDE DEF n
    <2> QED BY <1>2, <2>1, <2>2 DEF TypeOK, SegmentType
<1>6. CreditType'
    <2>1. send_bs_remain' = IF send_bs_remain = INVALID_BS THEN INVALID_BS
                            ELSE send_bs_remain - 1
        BY DEF PollAccepted
    <2>2. send_bs_remain = INVALID_BS \/ send_bs_remain > 0
        BY <1>1 DEF MayContinue
    <2>3. send_bs_remain' \in 0 .. INVALID_BS
        <3>1. send_bs_remain \in 0 .. INVALID_BS
            BY DEF TypeOK, CreditType
        <3> QED BY <2>1, <2>2, <3>1, InvalidBsRange
    <2>4. send_st_min_us' = send_st_min_us /\ send_wtf_count' = send_wtf_count
        BY <1>2
    <2>5. send_st_min_us \in Ticks /\ send_wtf_count \in 0 .. 255
        BY DEF TypeOK, CreditType
    <2> QED BY <2>3, <2>4, <2>5 DEF CreditType
<1>7. StatusType'
    <2>1. CheckResponseTimeout(IF Finishes(n) THEN "IDLE" ELSE "INPROGRESS")
        BY PollAcceptedEffect
    <2> QED BY <2>1, TimeoutCheckType
<1>8. HistoryType'
    <2>1. completions' \in {completions, completions + 1}
        BY DEF PollAccepted
    <2>2. cfs' = cfs + 1 /\ block' = block + 1 /\ age_bs' = elapse /\ age_st' = elapse
        BY DEF PollAccepted
    <2>3. elapse \in Nat
        BY PassingTime
    <2> HIDE DEF n
    <2> QED BY <1>2, <2>1, <2>2, <2>3 DEF TypeOK, HistoryType
<1> QED BY <1>3, <1>4, <1>5, <1>6, <1>7, <1>8 DEF TypeOK

LEMMA PollUnsentType ==
    ASSUME TypeOK, NEW elapse \in Preemptions, NEW before \in {"INPROGRESS", "ERROR"},
           PollUnsent(elapse, before)
    PROVE  TypeOK'
<1>1. now' = WrapAdd(now, elapse) /\ age_bs' = age_bs + elapse /\ age_st' = age_st + elapse
    BY DEF PollUnsent
<1>2. UNCHANGED <<paramVars, segmentVars, creditVars, timerVars, historyVars>>
    BY DEF PollUnsent
<1>3. now' \in Ticks
    <2>1. now \in Ticks /\ elapse \in Ticks
        BY PassingTime DEF TypeOK
    <2> QED BY <1>1, <2>1, WrapType
<1>4. ParamType' /\ SegmentType' /\ CreditType' /\ TimerType'
    BY <1>2 DEF TypeOK, ParamType, SegmentType, CreditType, TimerType,
                paramVars, segmentVars, creditVars, timerVars
<1>5. StatusType'
    BY TimeoutCheckType DEF PollUnsent
<1>6. HistoryType'
    <2>1. elapse \in Nat
        BY PassingTime
    <2> QED BY <1>1, <1>2, <2>1 DEF TypeOK, HistoryType, historyVars
<1> QED BY <1>3, <1>4, <1>5, <1>6 DEF TypeOK

(* isotp_on_can_message: the block size and the separation time of a Flow   *)
(* Control frame are bytes.                                                 *)
LEMMA FlowControlType ==
    ASSUME NEW f \in FlowControls
    PROVE  f.BS \in 0 .. 255 /\ StMinToUs(f.STmin) \in Nat /\ StMinToUs(f.STmin) \in Ticks
<1>1. f.BS \in 0 .. 255 /\ f.STmin \in 0 .. 255
    BY SendAssumption DEF PeerParameters
<1>2. StMinToUs(f.STmin) < HALF_RANGE
    BY SendAssumption DEF PeerParameters
<1>3. StMinToUs(f.STmin) \in Nat
    BY <1>1, StMinType
<1>4. HALF_RANGE \in Nat
    BY FrameAssumption DEF FrameParameters
<1> QED BY <1>1, <1>2, <1>3, <1>4, ZeroIsTick

LEMMA ContinuedType ==
    ASSUME TypeOK, NEW f \in FlowControls, Continued(f)
    PROVE  /\ CreditType' /\ StatusType'
           /\ cfs' \in Nat /\ grant' \in 0 .. INVALID_BS /\ asked' \in Nat
           /\ block' \in Nat /\ waits' \in Nat /\ completions' \in Nat
<1>1. UNCHANGED <<statusVars, cfs, completions>> /\ block' = 0 /\ waits' = 0
    BY DEF Continued
<1>2. /\ send_bs_remain' \in {INVALID_BS, f.BS} /\ grant' \in {INVALID_BS, f.BS}
      /\ send_st_min_us' \in {StMinToUs(f.STmin), DEFAULT_ST_MIN_US}
      /\ send_wtf_count' = 0 /\ asked' = StMinToUs(f.STmin)
    BY DEF Continued
<1>3. /\ INVALID_BS \in 0 .. INVALID_BS /\ f.BS \in 0 .. INVALID_BS
      /\ asked' \in Nat /\ send_st_min_us' \in Ticks
    BY <1>2, FlowControlType, PassingTime, InvalidBsRange
<1>4. CreditType'
    BY <1>2, <1>3 DEF CreditType
<1>5. StatusType'
    BY <1>1 DEF TypeOK, StatusType, statusVars
<1> QED BY <1>1, <1>2, <1>3, <1>4, <1>5 DEF TypeOK, HistoryType

LEMMA WaitedType ==
    ASSUME TypeOK, Waited
    PROVE  /\ CreditType' /\ StatusType'
           /\ cfs' \in Nat /\ grant' \in 0 .. INVALID_BS /\ asked' \in Nat
           /\ block' \in Nat /\ waits' \in Nat /\ completions' \in Nat
<1>1. /\ UNCHANGED <<send_bs_remain, send_st_min_us, cfs, grant, asked, block, completions>>
      /\ waits' = waits + 1
    BY DEF Waited
<1>2. CreditType'
    <2>1. send_wtf_count' = (send_wtf_count + 1) % 256
        BY DEF Waited
    <2>2. send_wtf_count' \in 0 .. 255
        BY <2>1 DEF TypeOK, CreditType
    <2> QED BY <1>1, <2>2 DEF TypeOK, CreditType
<1>3. StatusType'
    <2>1. \/ UNCHANGED statusVars
          \/ send_protocol_result' = "WFT_OVRN" /\ send_status' = "ERROR"
        BY DEF Waited
    <2> QED BY <2>1 DEF TypeOK, StatusType, statusVars
<1> QED BY <1>1, <1>2, <1>3 DEF TypeOK, HistoryType

LEMMA OnFlowControlType ==
    ASSUME TypeOK, NEW f \in FlowControls, OnFlowControl(f)
    PROVE  TypeOK'
<1>1. UNCHANGED <<now, paramVars, segmentVars, send_timer_st, age_st>> /\ age_bs' = 0
    BY DEF OnFlowControl
<1>2. now' \in Ticks /\ ParamType' /\ SegmentType'
    BY <1>1 DEF TypeOK, ParamType, SegmentType, paramVars, segmentVars
<1>3. TimerType'
    <2>1. send_timer_bs' = WrapAdd(now, RESPONSE_TIMEOUT_US)
        BY DEF OnFlowControl
    <2> QED BY <1>1, <2>1, PassingTime, WrapType DEF TypeOK, TimerType
<1>4. age_bs' \in Nat /\ age_st' \in Nat
    BY <1>1 DEF TypeOK, HistoryType
<1>5. CASE Overflowed
    <2>1. UNCHANGED <<creditVars, historyVars>> /\ StatusType'
        BY <1>5 DEF Overflowed, StatusType
    <2>2. CreditType' /\ HistoryType'
        BY <1>4, <2>1 DEF TypeOK, CreditType, HistoryType, creditVars, historyVars
    <2> QED BY <1>2, <1>3, <2>1, <2>2 DEF TypeOK
<1>6. CASE Waited
    BY <1>2, <1>3, <1>4, <1>6, WaitedType DEF TypeOK, HistoryType
<1>7. CASE Continued(f)
    BY <1>2, <1>3, <1>4, <1>7, ContinuedType DEF TypeOK, HistoryType
<1>8. CASE UNCHANGED <<creditVars, statusVars, historyVars>>
    <2>1. CreditType' /\ HistoryType' /\ StatusType'
        BY <1>4, <1>8 DEF TypeOK, CreditType, HistoryType, StatusType,
                          creditVars, historyVars, statusVars
    <2> QED BY <1>2, <1>3, <2>1 DEF TypeOK
<1> QED BY <1>5, <1>6, <1>7, <1>8 DEF OnFlowControl

(* The calls that set a link up, and the passing of time.                   *)
LEMMA SetTxDlType ==
    ASSUME TypeOK, NEW dl \in TxDls, SetTxDl(dl)
    PROVE  TypeOK'
<1>1. /\ tx_dl' = dl
      /\ UNCHANGED <<now, send_buf_size, tx_done_cb, segmentVars, creditVars, timerVars,
                     statusVars, historyVars, ageVars>>
    BY DEF SetTxDl
<1>2. dl \in 0 .. 255
    BY SendAssumption DEF LinkParameters
<1>3. now' \in Ticks /\ ParamType' /\ SegmentType' /\ CreditType' /\ TimerType' /\ StatusType'
    BY <1>1, <1>2 DEF TypeOK, ParamType, SegmentType, CreditType, TimerType, StatusType,
                      segmentVars, creditVars, timerVars, statusVars
<1>4. HistoryType'
    BY <1>1 DEF TypeOK, HistoryType, historyVars, ageVars
<1> QED BY <1>3, <1>4 DEF TypeOK

LEMMA SetTxDoneCbType ==
    ASSUME TypeOK, NEW registered \in BOOLEAN, SetTxDoneCb(registered)
    PROVE  TypeOK'
<1>1. /\ tx_done_cb' = registered
      /\ UNCHANGED <<now, tx_dl, send_buf_size, segmentVars, creditVars, timerVars,
                     statusVars, historyVars, ageVars>>
    BY DEF SetTxDoneCb
<1>2. now' \in Ticks /\ ParamType' /\ SegmentType' /\ CreditType' /\ TimerType' /\ StatusType'
    BY <1>1 DEF TypeOK, ParamType, SegmentType, CreditType, TimerType, StatusType,
                segmentVars, creditVars, timerVars, statusVars
<1>3. HistoryType'
    BY <1>1 DEF TypeOK, HistoryType, historyVars, ageVars
<1> QED BY <1>2, <1>3 DEF TypeOK

LEMMA ClearType ==
    ASSUME TypeOK, Clear, UNCHANGED now,
           tx_dl' \in 0 .. 255, send_buf_size' \in Nat
    PROVE  TypeOK' /\ ~InProgress'
<1>1. tx_done_cb' \in BOOLEAN
    BY DEF Clear
<1>2. SegmentType' /\ CreditType' /\ HistoryType'
    BY ZeroIsTick, InvalidBsRange DEF Clear, SegmentType, CreditType, HistoryType
<1>3. now' \in Ticks /\ TimerType'
    BY ZeroIsTick DEF Clear, TypeOK, TimerType
<1>4. StatusType' /\ ~InProgress'
    BY DEF Clear, StatusType, InProgress
<1> QED BY <1>1, <1>2, <1>3, <1>4 DEF TypeOK, ParamType

LEMMA LifeType ==
    ASSUME TypeOK, InitLink \/ DestroyLink
    PROVE  TypeOK' /\ ~InProgress'
<1>1. DEFAULT_TX_DL \in 0 .. 255 /\ SEND_BUF_SIZE \in Nat
    BY SendAssumption, LegalTxDlRange DEF LinkParameters, CAN_DL_CLASSIC, CanFdFrameSizes
<1>2. Clear /\ UNCHANGED now
    BY DEF InitLink, DestroyLink
<1>3. /\ tx_dl' \in {0, DEFAULT_TX_DL}
      /\ send_buf_size' \in {0, SEND_BUF_SIZE}
    BY DEF InitLink, DestroyLink
<1> QED BY <1>1, <1>2, <1>3, ClearType

LEMMA TickType ==
    ASSUME TypeOK, Tick
    PROVE  TypeOK'
<1>1. /\ now' = WrapAdd(now, ClockStep)
      /\ age_bs' = age_bs + ClockStep /\ age_st' = age_st + ClockStep
      /\ UNCHANGED <<linkVars, historyVars>>
    BY DEF Tick
<1>2. now' \in Ticks
    BY <1>1, PassingTime, WrapType DEF TypeOK
<1>3. ParamType' /\ SegmentType' /\ CreditType' /\ TimerType' /\ StatusType'
    BY <1>1 DEF TypeOK, ParamType, SegmentType, CreditType, TimerType, StatusType,
                linkVars, paramVars, segmentVars, creditVars, timerVars, statusVars
<1>4. HistoryType'
    BY <1>1, PassingTime DEF TypeOK, HistoryType, historyVars
<1> QED BY <1>2, <1>3, <1>4 DEF TypeOK

LEMMA UnchangedType ==
    ASSUME TypeOK, UNCHANGED vars
    PROVE  TypeOK'
<1> USE DEF vars, linkVars, paramVars, segmentVars, creditVars, timerVars, statusVars,
            historyVars, ageVars
<1>1. now' \in Ticks /\ ParamType' /\ SegmentType' /\ CreditType'
    BY DEF TypeOK, ParamType, SegmentType, CreditType
<1>2. TimerType' /\ StatusType' /\ HistoryType'
    BY DEF TypeOK, TimerType, StatusType, HistoryType
<1> QED BY <1>1, <1>2 DEF TypeOK

LEMMA TypeStep == IInv /\ [Next]_vars => TypeOK'
<1> SUFFICES ASSUME IInv, [Next]_vars PROVE TypeOK'
    OBVIOUS
<1>0. TypeOK /\ Segmentation
    BY DEF IInv
<1>1. ASSUME NEW size \in SendSizes, NEW answer \in DriverAnswers,
             SendSingleFrame(size, answer) \/ SendFirstFrame(size, answer)
      PROVE  TypeOK'
    BY <1>0, <1>1, SendSingleFrameType, SendFirstFrameType
<1>2. ASSUME NEW elapse \in Preemptions, Poll(elapse)
      PROVE  TypeOK'
    <2>1. CASE PollAccepted(elapse)
        BY <1>0, <2>1, PollAcceptedType
    <2>2. CASE PollUnsent(elapse, "INPROGRESS") \/ PollUnsent(elapse, "ERROR")
        BY <1>0, <2>2, PollUnsentType
    <2> QED BY <1>2, <2>1, <2>2 DEF Poll, PollNoSpace, PollFailed, PollWaiting
<1>3. ASSUME NEW f \in FlowControls, OnFlowControl(f) PROVE TypeOK'
    BY <1>0, <1>3, OnFlowControlType
<1>4. ASSUME NEW dl \in TxDls, SetTxDl(dl) PROVE TypeOK'
    BY <1>0, <1>4, SetTxDlType
<1>5. ASSUME NEW registered \in BOOLEAN, SetTxDoneCb(registered) PROVE TypeOK'
    BY <1>0, <1>5, SetTxDoneCbType
<1>6. CASE InitLink \/ DestroyLink
    BY <1>0, <1>6, LifeType
<1>7. CASE Tick
    BY <1>0, <1>7, TickType
<1>8. CASE UNCHANGED vars
    BY <1>0, <1>8, UnchangedType
<1> QED BY <1>1, <1>2, <1>3, <1>4, <1>5, <1>6, <1>7, <1>8
        DEF Next, Send, PollAny, FlowControlArrives

-----------------------------------------------------------------------------
(* Segmentation and credit *)

(* Neither invariant is disturbed by a step that leaves what it reads alone *)
(* and starts no transmission.                                              *)
LEMMA SegmentationStable ==
    ASSUME Segmentation, InProgress' => InProgress,
           UNCHANGED <<tx_dl, send_buf_size, segmentVars, cfs>>
    PROVE  Segmentation'
<1> SUFFICES ASSUME InProgress' PROVE Segmentation'
    BY DEF Segmentation
<1>1. InProgress
    OBVIOUS
<1> QED BY <1>1 DEF Segmentation, segmentVars

LEMMA CreditStable ==
    ASSUME CreditRespected, InProgress' => InProgress,
           UNCHANGED <<send_bs_remain, cfs, grant, block>>
    PROVE  CreditRespected'
<1> SUFFICES ASSUME InProgress' PROVE CreditRespected'
    BY DEF CreditRespected
<1>1. InProgress
    OBVIOUS
<1> QED BY <1>1 DEF CreditRespected

LEMMA Idle == ~InProgress' => Segmentation' /\ CreditRespected'
BY DEF Segmentation, CreditRespected

(* A call that starts a transmission.                                       *)
LEMMA SendSingleFrameStep ==
    ASSUME NEW size \in SendSizes, NEW answer, SendSingleFrame(size, answer)
    PROVE  ~InProgress'
BY DEF SendSingleFrame, Accepts, InProgress, statusVars

LEMMA SendFirstFrameStep ==
    ASSUME TypeOK, NEW size \in SendSizes, NEW answer, SendFirstFrame(size, answer)
    PROVE  Segmentation' /\ CreditRespected'
<1>1. CASE answer = "OK"
    <2>1. /\ send_size' = size /\ send_sn' = 1 /\ cfs' = 0
          /\ send_offset' = FfDataLength(size, TxDl(tx_dl))
          /\ size > SfMaxPayload(TxDl(tx_dl)) /\ size <= send_buf_size
          /\ UNCHANGED <<tx_dl, send_buf_size>>
        BY <1>1 DEF SendFirstFrame, Accepts, paramVars
    <2>2. send_bs_remain' = 0 /\ grant' = 0 /\ block' = 0
        BY <1>1 DEF SendFirstFrame, Accepts, ResetFlow
    <2>3. tx_dl \in Nat /\ size \in Nat
        BY SendAssumption DEF LinkParameters, TypeOK, ParamType
    <2>4. TxDl(tx_dl) \in 8 .. 64
        BY <2>3, TxDlRange
    <2>5. /\ FfDataLength(size, TxDl(tx_dl)) \in Nat
          /\ FfDataLength(size, TxDl(tx_dl)) < size
        BY <2>1, <2>3, FirstFrameLeaves
    <2>6. 0 * (TxDl(tx_dl) - 1) = 0
        BY <2>4
    <2>7. SfMaxPayload(TxDl(tx_dl)) < size
        BY <2>1, <2>3, <2>4 DEF SfMaxPayload, CAN_DL_CLASSIC
    <2>8. /\ send_offset' = FfDataLength(send_size', TxDl(tx_dl'))
                               + cfs' * (TxDl(tx_dl') - 1)
          /\ send_sn' = (cfs' + 1) % 16
        BY <2>1, <2>5, <2>6
    <2>9. Segmentation'
        BY <2>1, <2>5, <2>7, <2>8 DEF Segmentation
    <2>10. CreditRespected'
        BY <2>1, <2>2, InvalidBsRange DEF CreditRespected
    <2> QED BY <2>9, <2>10
<1>2. CASE answer # "OK"
    <2>1. ~InProgress'
        BY <1>2 DEF SendFirstFrame, Accepts, InProgress, statusVars
    <2> QED BY <2>1, Idle
<1> QED BY <1>1, <1>2

(* A Consecutive Frame the driver took: unless it was the last, it was full.*)
LEMMA PollAcceptedSegmentation ==
    ASSUME TypeOK, Segmentation, NEW elapse \in Preemptions, PollAccepted(elapse)
    PROVE  Segmentation'
<1> DEFINE left == send_size - send_offset
           d    == TxDl(tx_dl) - 1
           n    == CfDataLength(left, TxDl(tx_dl))
<1> SUFFICES ASSUME InProgress' PROVE Segmentation'
    BY Idle
<1>1. InProgress
    BY PollAcceptedEffect
<1>2. send_offset' = send_offset + n
    BY PollAcceptedEffect
<1>3. /\ UNCHANGED <<tx_dl, send_buf_size, send_size>>
      /\ send_sn' = NextSn(send_sn) /\ cfs' = cfs + 1
    BY DEF PollAccepted, paramVars
<1>4. ~Finishes(n)
    <2>1. CheckResponseTimeout(IF Finishes(n) THEN "IDLE" ELSE "INPROGRESS")
        BY PollAcceptedEffect
    <2>2. send_status' \in {"ERROR", IF Finishes(n) THEN "IDLE" ELSE "INPROGRESS"}
        BY <2>1 DEF CheckResponseTimeout
    <2> QED BY <2>2 DEF InProgress
<1>5. /\ left \in Nat \ {0} /\ n \in 1 .. left /\ (n < left => n = d)
    BY <1>1, NextFrameData
<1>6. send_offset \in Nat /\ send_size \in Nat /\ cfs \in Nat
    BY DEF TypeOK, SegmentType, HistoryType
<1>7. send_offset + n < send_size /\ n = d
    <2>1. ~(send_offset + n >= send_size)
        BY <1>4 DEF Finishes
    <2> HIDE DEF n, d
    <2> QED BY <1>5, <1>6, <2>1
<1>8. d \in Nat
    <2>1. tx_dl \in Nat
        BY DEF TypeOK, ParamType
    <2> QED BY <2>1, TxDlRange
<1>9. send_offset' = FfDataLength(send_size, TxDl(tx_dl)) + (cfs + 1) * d
    <2>1. send_offset = FfDataLength(send_size, TxDl(tx_dl)) + cfs * d
        BY <1>1 DEF Segmentation
    <2>2. FfDataLength(send_size, TxDl(tx_dl)) \in Nat
        <3>1. tx_dl \in Nat /\ send_size > SfMaxPayload(TxDl(tx_dl))
            <4>1. tx_dl \in Nat /\ TxDl(tx_dl) \in 8 .. 64
                BY TxDlRange DEF TypeOK, ParamType
            <4>2. SfMaxPayload(TxDl(tx_dl)) < send_size
                BY <1>1 DEF Segmentation
            <4> QED BY <4>1, <4>2, <1>6 DEF SfMaxPayload, CAN_DL_CLASSIC
        <3> QED BY <1>6, <3>1, FirstFrameLeaves
    <2>3. (cfs + 1) * d = cfs * d + d /\ cfs * d \in Nat
        <3> HIDE DEF d
        <3> QED BY <1>6, <1>8, OneMoreFrame
    <2> HIDE DEF d, n
    <2> QED BY <1>2, <1>7, <1>8, <2>1, <2>2, <2>3
<1>10. send_sn' = (cfs' + 1) % 16
    <2>1. send_sn = (cfs + 1) % 16
        BY <1>1 DEF Segmentation
    <2>2. NextSn((cfs + 1) % 16) = (cfs + 2) % 16
        BY <1>6, NextSnIsModulo
    <2>3. cfs' + 1 = cfs + 2
        BY <1>3, <1>6
    <2> QED BY <1>3, <2>1, <2>2, <2>3
<1>11. SfMaxPayload(TxDl(tx_dl)) < send_size /\ send_size <= send_buf_size
    BY <1>1 DEF Segmentation
<1>12. send_offset' < send_size
    BY <1>2, <1>7
<1> QED BY <1>3, <1>9, <1>10, <1>11, <1>12 DEF Segmentation

LEMMA PollAcceptedCredit ==
    ASSUME TypeOK, CreditRespected, NEW elapse, PollAccepted(elapse)
    PROVE  CreditRespected'
<1>1. InProgress /\ MayContinue
    BY DEF PollAccepted
<1>2. /\ send_bs_remain' = IF send_bs_remain = INVALID_BS THEN INVALID_BS
                            ELSE send_bs_remain - 1
      /\ block' = block + 1 /\ grant' = grant
    BY DEF PollAccepted
<1>3. send_bs_remain = INVALID_BS \/ send_bs_remain > 0
    BY <1>1 DEF MayContinue
<1>4. /\ grant # INVALID_BS => block <= grant
      /\ send_bs_remain = IF grant = INVALID_BS THEN INVALID_BS ELSE grant - block
    BY <1>1 DEF CreditRespected
<1>5. block \in Nat /\ grant \in 0 .. INVALID_BS
    BY DEF TypeOK, HistoryType
<1>6. CASE grant = INVALID_BS
    BY <1>2, <1>4, <1>6, InvalidBsRange DEF CreditRespected
<1>7. CASE grant # INVALID_BS
    <2>1. send_bs_remain = grant - block /\ send_bs_remain # INVALID_BS /\ grant > block
        BY <1>3, <1>4, <1>5, <1>7, InvalidBsRange
    <2>2. send_bs_remain' = grant' - block' /\ block' <= grant' /\ grant' > 0
        BY <1>2, <1>5, <2>1, InvalidBsRange
    <2> QED BY <1>2, <1>7, <2>2 DEF CreditRespected
<1> QED BY <1>6, <1>7

(* A Flow Control frame moves no data, and gives a credit that replaces the *)
(* one before it.                                                           *)
LEMMA OnFlowControlStep ==
    ASSUME TypeOK, Segmentation, CreditRespected,
           NEW f \in FlowControls, OnFlowControl(f)
    PROVE  Segmentation' /\ CreditRespected'
<1>1. InProgress /\ UNCHANGED <<paramVars, segmentVars>>
    BY DEF OnFlowControl
<1>2. Overflowed \/ Waited \/ Continued(f) \/ UNCHANGED <<creditVars, statusVars, historyVars>>
    BY DEF OnFlowControl
<1>3. UNCHANGED cfs
    BY <1>2 DEF Overflowed, Waited, Continued, historyVars
<1>4. Segmentation'
    BY <1>1, <1>3, SegmentationStable DEF paramVars
<1>5. CASE Continued(f)
    <2>1. /\ send_bs_remain' = IF f.BS = 0 THEN INVALID_BS ELSE f.BS
          /\ grant' = IF f.BS = 0 THEN INVALID_BS ELSE f.BS
          /\ block' = 0
        BY <1>5 DEF Continued
    <2>2. f.BS \in 0 .. 255
        BY FlowControlType
    <2> QED BY <1>4, <2>1, <2>2, InvalidBsRange DEF CreditRespected
<1>6. CASE Overflowed \/ Waited \/ UNCHANGED <<creditVars, statusVars, historyVars>>
    <2>1. UNCHANGED <<send_bs_remain, cfs, grant, block>>
        BY <1>6 DEF Overflowed, Waited, creditVars, historyVars
    <2> QED BY <1>1, <1>4, <2>1, CreditStable
<1> QED BY <1>2, <1>5, <1>6

LEMMA InvariantStep == IInv /\ [Next]_vars => Segmentation' /\ CreditRespected'
<1> SUFFICES ASSUME IInv, [Next]_vars PROVE Segmentation' /\ CreditRespected'
    OBVIOUS
<1>0. TypeOK /\ Segmentation /\ CreditRespected
    BY DEF IInv
<1>1. ASSUME NEW size \in SendSizes, NEW answer \in DriverAnswers,
             SendSingleFrame(size, answer) \/ SendFirstFrame(size, answer)
      PROVE  Segmentation' /\ CreditRespected'
    BY <1>0, <1>1, SendSingleFrameStep, SendFirstFrameStep, Idle
<1>2. ASSUME NEW elapse \in Preemptions, Poll(elapse)
      PROVE  Segmentation' /\ CreditRespected'
    <2>1. CASE PollAccepted(elapse)
        BY <1>0, <2>1, PollAcceptedSegmentation, PollAcceptedCredit
    <2>2. ASSUME NEW before, PollUnsent(elapse, before), InProgress
          PROVE  Segmentation' /\ CreditRespected'
        <3>1. UNCHANGED <<paramVars, segmentVars, creditVars, historyVars>>
            BY <2>2 DEF PollUnsent
        <3>2. /\ UNCHANGED <<tx_dl, send_buf_size, segmentVars, cfs>>
              /\ UNCHANGED <<send_bs_remain, cfs, grant, block>>
            BY <3>1 DEF paramVars, creditVars, historyVars
        <3> QED BY <1>0, <2>2, <3>2, SegmentationStable, CreditStable
    <2> QED BY <1>2, <2>1, <2>2 DEF Poll, PollNoSpace, PollFailed, PollWaiting
<1>3. ASSUME NEW f \in FlowControls, OnFlowControl(f)
      PROVE  Segmentation' /\ CreditRespected'
    BY <1>0, <1>3, OnFlowControlStep
<1>4. ASSUME NEW dl \in TxDls, SetTxDl(dl)
      PROVE  Segmentation' /\ CreditRespected'
    <2>1. ~InProgress'
        BY <1>4 DEF SetTxDl, InProgress, statusVars
    <2> QED BY <2>1, Idle
<1>5. CASE UNCHANGED <<tx_dl, send_buf_size, segmentVars, creditVars, statusVars, historyVars>>
    <2>1. InProgress' => InProgress
        BY <1>5 DEF InProgress, statusVars
    <2>2. UNCHANGED <<send_bs_remain, cfs, grant, block>>
        BY <1>5 DEF creditVars, historyVars
    <2> QED BY <1>0, <1>5, <2>1, <2>2, SegmentationStable, CreditStable
<1>6. ASSUME NEW registered \in BOOLEAN, SetTxDoneCb(registered)
      PROVE  Segmentation' /\ CreditRespected'
    BY <1>5, <1>6 DEF SetTxDoneCb
<1>7. CASE InitLink \/ DestroyLink
    BY <1>0, <1>7, LifeType, Idle
<1>8. CASE Tick
    BY <1>5, <1>8 DEF Tick, linkVars, paramVars
<1>9. CASE UNCHANGED vars
    BY <1>5, <1>9 DEF vars, linkVars, paramVars
<1> QED BY <1>1, <1>2, <1>3, <1>4, <1>6, <1>7, <1>8, <1>9
        DEF Next, Send, PollAny, FlowControlArrives

(* IInv is an invariant of the transmit half.                               *)
THEOREM Invariance == Spec => []IInv
<1>1. Init => IInv
    BY InitIInv
<1>2. IInv /\ [Next]_vars => IInv'
    BY TypeStep, InvariantStep DEF IInv
<1> QED BY <1>1, <1>2, PTL DEF Spec

(* Every field of the transmit half keeps the range of its C type.          *)
THEOREM TypeCorrect == Spec => []TypeOK
<1>1. IInv => TypeOK
    BY DEF IInv
<1> QED BY <1>1, Invariance, PTL

(* isotp_send and isotp_poll together segment a payload of any size at any  *)
(* TX_DL without gap, overlap or an access behind it, however often the     *)
(* driver was full in between.                                              *)
THEOREM SegmentationHolds == Spec => []Segmentation
<1>1. IInv => Segmentation
    BY DEF IInv
<1> QED BY <1>1, Invariance, PTL

(* isotp_poll never sends more Consecutive Frames than the Continue frames  *)
(* of this transmission allow.                                              *)
THEOREM CreditHolds == Spec => []CreditRespected
<1>1. IInv => CreditRespected
    BY DEF IInv
<1> QED BY <1>1, Invariance, PTL

-----------------------------------------------------------------------------
(* The Wait frames of the peer *)

(* The count of the link is the number of Wait frames in a row.             *)
WaitInv == InProgress => send_wtf_count = waits /\ waits <= MAX_WFT_NUMBER

Overrun == send_protocol_result' = "WFT_OVRN" /\ send_protocol_result # "WFT_OVRN"

(* Steps that count nothing. *)
LEMMA UncountedStep ==
    ASSUME WaitInv,
           InProgress' => InProgress /\ UNCHANGED <<send_wtf_count, waits>>,
           send_protocol_result' \in
               {send_protocol_result, "OK", "TIMEOUT_BS", "BUFFER_OVFLW"}
    PROVE  WaitInv' /\ ~Overrun
BY DEF WaitInv, Overrun

(* The count is a uint8_t, and goes round behind a limit of 255.            *)
LEMMA WaitedStep ==
    ASSUME TypeOK, MAX_WFT_NUMBER < 255, InProgress, WaitInv, Waited
    PROVE  WaitInv' /\ (Overrun => waits' > MAX_WFT_NUMBER)
<1>1. /\ send_wtf_count' = (send_wtf_count + 1) % 256
      /\ waits' = waits + 1
      /\ IF TooManyWaits(send_wtf_count')
         THEN send_protocol_result' = "WFT_OVRN" /\ send_status' = "ERROR"
         ELSE UNCHANGED statusVars
    BY DEF Waited
<1>2. send_wtf_count = waits /\ waits <= MAX_WFT_NUMBER
    BY DEF WaitInv
<1>3. waits \in Nat /\ MAX_WFT_NUMBER \in 0 .. 255
    BY SendAssumption DEF LinkParameters, TypeOK, HistoryType
<1>4. send_wtf_count' = waits'
    <2>1. waits + 1 \in 0 .. 255
        BY <1>2, <1>3
    <2> QED BY <1>1, <1>2, <2>1
<1>5. CASE TooManyWaits(send_wtf_count')
    <2>1. ~InProgress' /\ waits' > MAX_WFT_NUMBER
        BY <1>1, <1>4, <1>5 DEF InProgress, TooManyWaits
    <2> QED BY <2>1 DEF WaitInv
<1>6. CASE ~TooManyWaits(send_wtf_count')
    <2>1. ~(waits' > MAX_WFT_NUMBER) /\ waits' \in Nat
        BY <1>1, <1>3, <1>4, <1>6 DEF TooManyWaits
    <2>2. waits' <= MAX_WFT_NUMBER
        BY <1>3, <2>1
    <2>3. ~Overrun
        BY <1>1, <1>6 DEF statusVars, Overrun
    <2> QED BY <1>4, <2>2, <2>3 DEF WaitInv
<1> QED BY <1>5, <1>6

LEMMA WaitStep ==
    ASSUME TypeOK, MAX_WFT_NUMBER < 255, WaitInv, [Next]_vars
    PROVE  WaitInv' /\ (Overrun => waits' > MAX_WFT_NUMBER)
<1>1. ASSUME NEW size \in SendSizes, NEW answer \in DriverAnswers,
             SendSingleFrame(size, answer) \/ SendFirstFrame(size, answer)
      PROVE  WaitInv' /\ ~Overrun
    <2>1. CASE SendSingleFrame(size, answer)
        <3>1. ~InProgress' /\ send_protocol_result' = send_protocol_result
            BY <2>1, SendSingleFrameStep DEF SendSingleFrame, statusVars
        <3> QED BY <3>1, UncountedStep
    <2>2. CASE SendFirstFrame(size, answer)
        <3>1. CASE answer = "OK"
            <4>1. /\ send_wtf_count' = 0 /\ waits' = 0 /\ send_protocol_result' = "OK"
                  /\ MAX_WFT_NUMBER >= 0
                BY <2>2, <3>1, SendAssumption
                DEF SendFirstFrame, Accepts, ResetFlow, LinkParameters
            <4> QED BY <4>1 DEF WaitInv, Overrun
        <3>2. CASE answer # "OK"
            <4>1. ~InProgress' /\ send_protocol_result' = send_protocol_result
                BY <2>2, <3>2 DEF SendFirstFrame, Accepts, InProgress, statusVars
            <4> QED BY <4>1, UncountedStep
        <3> QED BY <3>1, <3>2
    <2> QED BY <1>1, <2>1, <2>2
<1>2. ASSUME NEW elapse \in Preemptions, Poll(elapse) PROVE WaitInv' /\ ~Overrun
    <2>1. InProgress /\ UNCHANGED <<send_wtf_count, waits>>
        BY <1>2 DEF Poll, PollAccepted, PollNoSpace, PollFailed, PollWaiting, PollUnsent,
                    creditVars, historyVars
    <2>2. \E status : CheckResponseTimeout(status)
        BY <1>2 DEF Poll, PollAccepted, PollNoSpace, PollFailed, PollWaiting, PollUnsent
    <2>3. send_protocol_result' \in {send_protocol_result, "TIMEOUT_BS"}
        BY <2>2 DEF CheckResponseTimeout
    <2> QED BY <2>1, <2>3, UncountedStep
<1>3. ASSUME NEW f \in FlowControls, OnFlowControl(f)
      PROVE  WaitInv' /\ (Overrun => waits' > MAX_WFT_NUMBER)
    <2>1. InProgress
        BY <1>3 DEF OnFlowControl
    <2>2. CASE Waited
        BY <2>1, <2>2, WaitedStep
    <2>3. CASE Continued(f)
        <3>1. /\ send_wtf_count' = 0 /\ waits' = 0
              /\ send_protocol_result' = send_protocol_result
              /\ MAX_WFT_NUMBER >= 0
            BY <2>3, SendAssumption DEF Continued, statusVars, LinkParameters
        <3> QED BY <3>1 DEF WaitInv, Overrun
    <2>4. CASE Overflowed \/ UNCHANGED <<creditVars, statusVars, historyVars>>
        <3>1. /\ UNCHANGED <<send_wtf_count, waits>>
              /\ send_protocol_result' \in {send_protocol_result, "BUFFER_OVFLW"}
            BY <2>4 DEF Overflowed, creditVars, statusVars, historyVars
        <3> QED BY <2>1, <3>1, UncountedStep
    <2> QED BY <1>3, <2>2, <2>3, <2>4 DEF OnFlowControl
<1>4. ASSUME UNCHANGED <<creditVars, statusVars>>, UNCHANGED waits
      PROVE  WaitInv' /\ ~Overrun
    BY <1>4, UncountedStep DEF creditVars, statusVars, InProgress
<1>5. ASSUME NEW dl, NEW registered, SetTxDl(dl) \/ SetTxDoneCb(registered)
      PROVE  WaitInv' /\ ~Overrun
    BY <1>4, <1>5 DEF SetTxDl, SetTxDoneCb, historyVars
<1>6. CASE InitLink \/ DestroyLink
    <2>1. ~InProgress' /\ send_protocol_result' = "OK"
        BY <1>6 DEF InitLink, DestroyLink, Clear, InProgress
    <2> QED BY <2>1, UncountedStep
<1>7. CASE Tick \/ UNCHANGED vars
    BY <1>4, <1>7 DEF Tick, vars, linkVars, historyVars
<1> QED BY <1>1, <1>2, <1>3, <1>5, <1>6, <1>7 DEF Next, Send, PollAny, FlowControlArrives

(* isotp_on_can_message reports WFT_OVRN after more than MAX_WFT_NUMBER     *)
(* Wait frames in a row and not one later, for every limit a uint8_t can    *)
(* exceed: with ISO_TP_MAX_WFT_NUMBER 255 the count goes round unnoticed.   *)
THEOREM WaitLimitHolds == ASSUME MAX_WFT_NUMBER < 255 PROVE Spec => WaitLimit
<1>1. Init => WaitInv
    BY DEF Init, LinkInit, ClearedLink, WaitInv, InProgress
<1>2. TypeOK /\ WaitInv /\ [Next]_vars => WaitInv'
    BY WaitStep
<1>3. TypeOK /\ WaitInv /\ [Next]_vars => [Overrun => waits' > MAX_WFT_NUMBER]_vars
    BY WaitStep
<1>4. WaitInv => (InProgress => waits <= MAX_WFT_NUMBER)
    BY DEF WaitInv
<1> QED BY <1>1, <1>2, <1>3, <1>4, TypeCorrect, PTL DEF Spec, WaitLimit, Overrun

-----------------------------------------------------------------------------
(* The transmit callback *)

(* Division by what a Consecutive Frame carries at one of the CAN lengths.  *)
LEMMA QuotientOfFrames ==
    ASSUME NEW dl \in {CAN_DL_CLASSIC} \cup CanFdFrameSizes, NEW q \in Nat,
           NEW r \in 0 .. dl - 2
    PROVE  (q * (dl - 1) + r) \div (dl - 1) = q
<1>1. dl \in {8, 12, 16, 20, 24, 32, 48, 64}
    BY DEF CAN_DL_CLASSIC, CanFdFrameSizes
<1>2. CASE dl = 8
    BY <1>2
<1>3. CASE dl = 12
    BY <1>3
<1>4. CASE dl = 16
    BY <1>4
<1>5. CASE dl = 20
    BY <1>5
<1>6. CASE dl = 24
    BY <1>6
<1>7. CASE dl = 32
    BY <1>7
<1>8. CASE dl = 48
    BY <1>8
<1>9. CASE dl = 64
    BY <1>9
<1> QED BY <1>1, <1>2, <1>3, <1>4, <1>5, <1>6, <1>7, <1>8, <1>9

(* The frame that takes the last n bytes behind c full frames is the last   *)
(* one a payload of this size needs.                                        *)
LEMMA LastFrameCount ==
    ASSUME NEW tx \in Nat, NEW size \in Nat, NEW c \in Nat,
           NEW n \in 1 .. TxDl(tx) - 1,
           size > SfMaxPayload(TxDl(tx)),
           size = FfDataLength(size, TxDl(tx)) + c * (TxDl(tx) - 1) + n
    PROVE  c + 1 = CfsNeeded(size, TxDl(tx))
<1> DEFINE dl == TxDl(tx)
           ff == FfDataLength(size, dl)
<1>1. dl \in 8 .. 64 /\ dl \in {CAN_DL_CLASSIC} \cup CanFdFrameSizes
    BY TxDlRange, TxDlIsCanDl
<1>2. ff \in Nat
    BY FirstFrameLeaves
<1>3. CfsNeeded(size, dl) = (size - ff + dl - 2) \div (dl - 1)
    <2>1. ~(size <= SfMaxPayload(dl))
        BY <1>1 DEF SfMaxPayload, CAN_DL_CLASSIC
    <2> QED BY <2>1 DEF CfsNeeded
<1>4. size = ff + c * (dl - 1) + n /\ n \in 1 .. dl - 1
    OBVIOUS
<1> HIDE DEF dl, ff
<1>5. (c + 1) * (dl - 1) = c * (dl - 1) + (dl - 1) /\ c * (dl - 1) \in Nat
    BY <1>1, OneMoreFrame
<1>6. size - ff + dl - 2 = (c + 1) * (dl - 1) + (n - 1)
    BY <1>1, <1>2, <1>4, <1>5
<1>7. ((c + 1) * (dl - 1) + (n - 1)) \div (dl - 1) = c + 1
    <2>1. n - 1 \in 0 .. dl - 2 /\ c + 1 \in Nat
        BY <1>1, <1>4
    <2> QED BY ONLY <1>1, <2>1, QuotientOfFrames
<1>8. CfsNeeded(size, dl) = c + 1
    BY ONLY <1>3, <1>6, <1>7
<1> QED BY <1>8 DEF dl

(* With more than q frames' worth left, q frames are not enough.            *)
LEMMA FramesAreNotEnough ==
    ASSUME NEW dl \in {CAN_DL_CLASSIC} \cup CanFdFrameSizes, NEW q \in Nat,
           NEW rest \in Nat, rest > q * (dl - 1)
    PROVE  (rest + dl - 2) \div (dl - 1) # q
<1>1. dl \in {8, 12, 16, 20, 24, 32, 48, 64}
    BY DEF CAN_DL_CLASSIC, CanFdFrameSizes
<1>2. CASE dl = 8
    BY <1>2
<1>3. CASE dl = 12
    BY <1>3
<1>4. CASE dl = 16
    BY <1>4
<1>5. CASE dl = 20
    BY <1>5
<1>6. CASE dl = 24
    BY <1>6
<1>7. CASE dl = 32
    BY <1>7
<1>8. CASE dl = 48
    BY <1>8
<1>9. CASE dl = 64
    BY <1>9
<1> QED BY <1>1, <1>2, <1>3, <1>4, <1>5, <1>6, <1>7, <1>8, <1>9

(* A transmission in progress has not been reported complete. *)
DoneInv == completions \in {0, 1} /\ (InProgress => completions = 0)

Reported == completions' > completions

Idled == InProgress /\ send_status' = "IDLE" /\ send_size' > 0

(* What CompletionHonest says of one step. *)
HonestStep ==
    /\ Reported => LastFrameTaken /\ tx_done_cb
    /\ LastFrameTaken => completions' = IF tx_done_cb THEN 1 ELSE 0
    /\ Idled => LastFrameTaken
    /\ InProgress /\ LastFrameTaken => ~InProgress'

(* The last Consecutive Frame of a payload. *)
LEMMA LastFrame ==
    ASSUME TypeOK, Segmentation, NEW elapse \in Preemptions, PollAccepted(elapse),
           Finishes(CfDataLength(send_size - send_offset, TxDl(tx_dl)))
    PROVE  cfs' = CfsNeeded(send_size, TxDl(tx_dl))
<1> DEFINE d == TxDl(tx_dl) - 1
           n == CfDataLength(send_size - send_offset, TxDl(tx_dl))
<1>1. InProgress /\ cfs' = cfs + 1
    BY DEF PollAccepted
<1>2. n \in 1 .. send_size - send_offset
    BY <1>1, NextFrameData
<1>3. /\ SfMaxPayload(TxDl(tx_dl)) < send_size
      /\ send_offset = FfDataLength(send_size, TxDl(tx_dl)) + cfs * d
      /\ send_offset < send_size
    BY <1>1 DEF Segmentation
<1>4. send_size \in Nat /\ send_offset \in Nat /\ cfs \in Nat /\ tx_dl \in Nat
    BY DEF TypeOK, SegmentType, HistoryType, ParamType
<1>5. TxDl(tx_dl) \in 8 .. 64
    BY <1>4, TxDlRange
<1>6. n <= d
    BY <1>4, <1>5 DEF CfDataLength
<1>7. send_size > SfMaxPayload(TxDl(tx_dl))
    BY <1>3, <1>4, <1>5 DEF SfMaxPayload, CAN_DL_CLASSIC
<1>8. send_offset + n >= send_size
    BY DEF Finishes
<1>9. n \in 1 .. d /\ d \in Nat
    <2> HIDE DEF n
    <2> QED BY <1>2, <1>4, <1>5, <1>6
<1>10. send_size = send_offset + n
    <2> HIDE DEF n
    <2> QED BY <1>2, <1>4, <1>8, <1>9
<1> HIDE DEF n
<1>11. send_size = FfDataLength(send_size, TxDl(tx_dl)) + cfs * (TxDl(tx_dl) - 1) + n
    BY <1>3, <1>10
<1>12. n \in 1 .. TxDl(tx_dl) - 1
    BY <1>9
<1>13. cfs + 1 = CfsNeeded(send_size, TxDl(tx_dl))
    BY <1>4, <1>7, <1>11, <1>12, LastFrameCount
<1> QED BY <1>1, <1>13

(* Every other one leaves bytes to send. *)
LEMMA NotLastFrame ==
    ASSUME TypeOK, Segmentation, NEW elapse \in Preemptions, PollAccepted(elapse),
           ~Finishes(CfDataLength(send_size - send_offset, TxDl(tx_dl)))
    PROVE  cfs' # CfsNeeded(send_size, TxDl(tx_dl))
<1> DEFINE dl == TxDl(tx_dl)
           ff == FfDataLength(send_size, dl)
           n  == CfDataLength(send_size - send_offset, dl)
<1>1. InProgress /\ cfs' = cfs + 1
    BY DEF PollAccepted
<1>2. /\ send_size \in Nat /\ send_offset \in Nat /\ cfs \in Nat /\ tx_dl \in Nat
      /\ dl \in 8 .. 64 /\ dl \in {CAN_DL_CLASSIC} \cup CanFdFrameSizes
    BY TxDlRange, TxDlIsCanDl DEF TypeOK, SegmentType, HistoryType, ParamType
<1>3. /\ SfMaxPayload(dl) < send_size /\ send_offset = ff + cfs * (dl - 1)
      /\ send_offset < send_size
    BY <1>1 DEF Segmentation
<1>4. n \in 1 .. send_size - send_offset
      /\ (n < send_size - send_offset => n = dl - 1)
    BY <1>1, NextFrameData
<1>5. send_offset + n < send_size /\ n = dl - 1
    <2>1. ~(send_offset + n >= send_size)
        BY DEF Finishes
    <2> HIDE DEF n
    <2> QED BY <1>2, <1>4, <2>1
<1>6. ff \in Nat
    BY <1>2, <1>3, FirstFrameLeaves
<1>7. CfsNeeded(send_size, dl) = (send_size - ff + dl - 2) \div (dl - 1)
    <2>1. ~(send_size <= SfMaxPayload(dl))
        BY <1>2, <1>3 DEF SfMaxPayload, CAN_DL_CLASSIC
    <2> QED BY <2>1 DEF CfsNeeded
<1> HIDE DEF dl, ff, n
<1>8. (cfs + 1) * (dl - 1) = cfs * (dl - 1) + (dl - 1) /\ cfs * (dl - 1) \in Nat
    BY <1>2, OneMoreFrame
<1>9. send_size - ff \in Nat /\ send_size - ff > (cfs + 1) * (dl - 1)
    BY <1>2, <1>3, <1>5, <1>6, <1>8
<1>10. (send_size - ff + dl - 2) \div (dl - 1) # cfs + 1
    <2>1. cfs + 1 \in Nat
        BY <1>2
    <2> QED BY ONLY <1>2, <1>9, <2>1, FramesAreNotEnough
<1> QED BY <1>1, <1>7, <1>10 DEF dl

LEMMA SingleFrameCompletes ==
    ASSUME TypeOK, DoneInv, NEW size \in SendSizes, NEW answer,
           SendSingleFrame(size, answer)
    PROVE  DoneInv' /\ HonestStep
<1>1. /\ send_size' = size /\ cfs' = 0 /\ size <= SfMaxPayload(TxDl(tx_dl))
      /\ can_tx' = IF answer = "OK" THEN SingleFrame(size) ELSE NoFrame
      /\ completions' = IF answer = "OK" /\ tx_done_cb THEN 1 ELSE 0
      /\ ~InProgress /\ UNCHANGED statusVars
    BY DEF SendSingleFrame, Accepts
<1>2. DoneInv' /\ ~Idled
    BY <1>1 DEF DoneInv, Idled, InProgress, statusVars
<1>3. cfs' = CfsNeeded(send_size', TxDl(tx_dl))
    BY <1>1 DEF CfsNeeded
<1>4. LastFrameTaken <=> answer = "OK"
    <2>1. SingleFrame(size).type = "SF" /\ NoFrame.type = "none"
        BY DEF SingleFrame, NoFrame
    <2> QED BY <1>1, <1>3, <2>1 DEF LastFrameTaken
<1>5. Reported => answer = "OK" /\ tx_done_cb
    BY <1>1 DEF Reported, DoneInv
<1> QED BY <1>1, <1>2, <1>4, <1>5 DEF HonestStep

LEMMA PollAcceptedCompletes ==
    ASSUME TypeOK, Segmentation, DoneInv, NEW elapse \in Preemptions, PollAccepted(elapse)
    PROVE  DoneInv' /\ HonestStep
<1> DEFINE n == CfDataLength(send_size - send_offset, TxDl(tx_dl))
<1>1. /\ InProgress /\ completions = 0
      /\ can_tx' = ConsecutiveFrame(send_sn, send_size - send_offset, TxDl(tx_dl))
      /\ UNCHANGED send_size
    BY DEF PollAccepted, DoneInv
<1>2. can_tx'.type = "CF"
    BY <1>1 DEF ConsecutiveFrame
<1>3. completions' = IF Finishes(n) /\ tx_done_cb THEN completions + 1 ELSE completions
    BY DEF PollAccepted, ConsecutiveFrame
<1>4. send_status' \in {"ERROR", IF Finishes(n) THEN "IDLE" ELSE "INPROGRESS"}
    <2>1. CheckResponseTimeout(IF Finishes(n) THEN "IDLE" ELSE "INPROGRESS")
        BY PollAcceptedEffect
    <2> QED BY <2>1 DEF CheckResponseTimeout
<1>5. CASE Finishes(n)
    <2>1. cfs' = CfsNeeded(send_size, TxDl(tx_dl))
        BY <1>5, LastFrame
    <2>2. ~InProgress' /\ completions' = IF tx_done_cb THEN 1 ELSE 0
        BY <1>1, <1>3, <1>4, <1>5 DEF InProgress
    <2>3. LastFrameTaken
        BY <1>1, <1>2, <2>1 DEF LastFrameTaken
    <2>4. Reported => tx_done_cb
        BY <1>1, <2>2 DEF Reported
    <2> QED BY <2>2, <2>3, <2>4 DEF DoneInv, HonestStep
<1>6. CASE ~Finishes(n)
    <2>1. completions' = 0 /\ send_status' # "IDLE"
        BY <1>1, <1>3, <1>4, <1>6
    <2>2. ~LastFrameTaken
        BY <1>1, <1>6, NotLastFrame DEF LastFrameTaken
    <2> QED BY <1>1, <2>1, <2>2 DEF DoneInv, HonestStep, Reported, Idled
<1> QED BY <1>5, <1>6

(* Steps that complete nothing. *)
LEMMA NothingCompleted ==
    ASSUME DoneInv, completions' \in {0, completions},
           InProgress' => InProgress \/ completions' = 0,
           send_status' = "IDLE" => send_status = "IDLE" \/ send_size' = 0,
           can_tx'.type \in {"none", "FF"}
    PROVE  DoneInv' /\ HonestStep
<1>1. DoneInv'
    BY DEF DoneInv
<1>2. ~Reported
    BY DEF DoneInv, Reported
<1>3. ~Idled
    <2>1. send_size' = 0 => ~(send_size' > 0)
        OBVIOUS
    <2> QED BY <2>1 DEF Idled, InProgress
<1>4. ~LastFrameTaken
    BY DEF LastFrameTaken
<1> QED BY <1>1, <1>2, <1>3, <1>4 DEF HonestStep

LEMMA CompletionStep ==
    ASSUME TypeOK, Segmentation, DoneInv, Next
    PROVE  DoneInv' /\ HonestStep
<1>0. NoFrame.type = "none"
    BY DEF NoFrame
<1>1. ASSUME NEW size \in SendSizes, NEW answer \in DriverAnswers, SendFirstFrame(size, answer)
      PROVE  DoneInv' /\ HonestStep
    <2>1. completions' = 0 /\ (send_status' = "IDLE" => send_status = "IDLE")
        BY <1>1 DEF SendFirstFrame, statusVars
    <2>2. can_tx'.type \in {"none", "FF"}
        BY <1>0, <1>1 DEF SendFirstFrame, FirstFrame
    <2> QED BY <2>1, <2>2, NothingCompleted
<1>2. ASSUME NEW elapse \in Preemptions, Poll(elapse) PROVE DoneInv' /\ HonestStep
    <2>1. ASSUME NEW before \in {"INPROGRESS", "ERROR"}, PollUnsent(elapse, before), InProgress
          PROVE  DoneInv' /\ HonestStep
        <3>1. completions' = completions /\ send_status' # "IDLE" /\ can_tx' = NoFrame
            BY <2>1 DEF PollUnsent, CheckResponseTimeout, historyVars
        <3> QED BY <1>0, <2>1, <3>1, NothingCompleted
    <2> QED BY <1>2, <2>1, PollAcceptedCompletes
            DEF Poll, PollNoSpace, PollFailed, PollWaiting
<1>3. ASSUME NEW f \in FlowControls, OnFlowControl(f) PROVE DoneInv' /\ HonestStep
    <2>1. /\ InProgress /\ completions' = completions
          /\ send_status' \in {send_status, "ERROR"} /\ can_tx' = NoFrame
        BY <1>3 DEF OnFlowControl, Overflowed, Waited, Continued, statusVars, historyVars
    <2> QED BY <1>0, <2>1, NothingCompleted DEF InProgress
<1>4. ASSUME UNCHANGED <<completions, statusVars>>, can_tx' = NoFrame
      PROVE  DoneInv' /\ HonestStep
    BY <1>0, <1>4, NothingCompleted DEF statusVars, InProgress
<1>5. ASSUME NEW dl, NEW registered, SetTxDl(dl) \/ SetTxDoneCb(registered)
      PROVE  DoneInv' /\ HonestStep
    BY <1>4, <1>5 DEF SetTxDl, SetTxDoneCb, historyVars
<1>6. CASE InitLink \/ DestroyLink
    <2>1. ~InProgress' /\ completions' = 0 /\ send_size' = 0 /\ can_tx' = NoFrame
        BY <1>6 DEF InitLink, DestroyLink, Clear, InProgress
    <2> QED BY <1>0, <2>1, NothingCompleted
<1>7. CASE Tick
    BY <1>4, <1>7 DEF Tick, linkVars, historyVars
<1> QED BY <1>1, <1>2, <1>3, <1>5, <1>6, <1>7, SingleFrameCompletes
        DEF Next, Send, PollAny, FlowControlArrives

(* A registered transmit callback runs with the frame that carries the last *)
(* byte of the payload - always, once, and with no other frame -, and       *)
(* isotp_poll ends a transmission with that frame, for every payload, every *)
(* TX_DL and whatever the driver answered before.                           *)
THEOREM CompletionIsHonest == Spec => CompletionHonest
<1>1. Init => DoneInv
    BY DEF Init, LinkInit, ClearedLink, DoneInv, InProgress
<1>2. TypeOK /\ Segmentation /\ DoneInv /\ [Next]_vars => DoneInv'
    <2>1. DoneInv /\ UNCHANGED vars => DoneInv'
        BY DEF vars, linkVars, historyVars, statusVars, DoneInv, InProgress
    <2> QED BY <2>1, CompletionStep
<1>3. TypeOK /\ Segmentation /\ DoneInv /\ [Next]_vars =>
          /\ [completions' > completions => LastFrameTaken /\ tx_done_cb]_vars
          /\ [LastFrameTaken => completions' = IF tx_done_cb THEN 1 ELSE 0]_vars
          /\ [InProgress /\ send_status' = "IDLE" /\ send_size' > 0 => LastFrameTaken]_vars
          /\ [InProgress /\ LastFrameTaken => ~InProgress']_vars
    BY CompletionStep DEF HonestStep, Reported, Idled
<1>4. DoneInv => completions <= 1
    BY DEF DoneInv
<1> QED BY <1>1, <1>2, <1>3, <1>4, TypeCorrect, SegmentationHolds, PTL
        DEF Spec, CompletionHonest

-----------------------------------------------------------------------------
(* The response timeout, wherever the clock wraps.  What follows assumes    *)
(* that IsoTpTimeAfter is compiled to a wrapping subtraction and that       *)
(* isotp_poll is called often enough for a deadline never to lie half the   *)
(* range of the clock behind: without either the properties are false.      *)

Punctual ==
    /\ COMPARISONS = {"wrapping"}
    /\ MaxLateness < HALF_RANGE
    /\ \A elapse \in Preemptions : MaxLateness + elapse <= HALF_RANGE

(* The response timer was started at time t.                                *)
StartedAt(t) ==
    /\ now = WrapAdd(t, age_bs)
    /\ send_timer_bs = WrapAdd(t, RESPONSE_TIMEOUT_US)

(* While a transmission runs, its deadline is one timeout after the last    *)
(* frame or Flow Control, it is no later than the application is, and no    *)
(* result has been noted yet.                                               *)
TimerInv ==
    InProgress =>
        /\ send_protocol_result = "OK"
        /\ age_bs <= RESPONSE_TIMEOUT_US + MaxLateness
        /\ \E t \in Ticks : StartedAt(t)

LEMMA TimeTypes ==
    /\ HALF_RANGE \in Nat \ {0}
    /\ RESPONSE_TIMEOUT_US \in 1 .. HALF_RANGE - 1
    /\ MaxLateness \in Nat
    /\ ClockStep \in Nat
    /\ \A elapse \in Preemptions : elapse \in Nat
BY FrameAssumption, SendAssumption, PassingTime DEF FrameParameters, TimeParameters

(* The check that ends isotp_poll, e ticks after the timer was started.     *)
LEMMA ResponseCheck ==
    ASSUME Punctual, NEW t \in Ticks, NEW e \in Nat, e <= RESPONSE_TIMEOUT_US + HALF_RANGE,
           now' = WrapAdd(t, e), send_timer_bs' = WrapAdd(t, RESPONSE_TIMEOUT_US),
           NEW status, CheckResponseTimeout(status)
    PROVE  \/ /\ e > RESPONSE_TIMEOUT_US
              /\ send_status' = "ERROR" /\ send_protocol_result' = "TIMEOUT_BS"
           \/ /\ e <= RESPONSE_TIMEOUT_US
              /\ send_status' = status /\ send_protocol_result' = send_protocol_result
<1>1. AfterWrapping(now', send_timer_bs') <=> e > RESPONSE_TIMEOUT_US
    <2>1. RESPONSE_TIMEOUT_US \in 0 .. HALF_RANGE - 1
        BY TimeTypes
    <2> QED BY <2>1, DeadlineComparison
<1>2. PICK late \in TimeAfter(now', send_timer_bs') :
          /\ send_status' = IF late THEN "ERROR" ELSE status
          /\ send_protocol_result' = IF late THEN "TIMEOUT_BS" ELSE send_protocol_result
    BY DEF CheckResponseTimeout
<1>3. late = AfterWrapping(now', send_timer_bs')
    BY <1>2, TimeAfterWraps DEF Punctual
<1>4. CASE e > RESPONSE_TIMEOUT_US
    BY <1>1, <1>2, <1>3, <1>4
<1>5. CASE e <= RESPONSE_TIMEOUT_US
    <2>1. ~(e > RESPONSE_TIMEOUT_US)
        BY <1>5, TimeTypes
    <2> QED BY <1>1, <1>2, <1>3, <1>5, <2>1
<1> QED BY <1>4, <1>5, TimeTypes

-----------------------------------------------------------------------------
(* What holds of every step that can end a transmission or starts a timer   *)

TimedOut == InProgress /\ send_status' = "ERROR" /\ send_protocol_result' = "TIMEOUT_BS"

(* A poll: the timeout is reported when it has gone by, and not before.     *)
LEMMA PollStep ==
    ASSUME Punctual, TypeOK, TimerInv, NEW elapse \in Preemptions, Poll(elapse)
    PROVE  /\ TimerInv'
           /\ TimedOut => age_bs' > RESPONSE_TIMEOUT_US
           /\ InProgress' => age_bs' <= RESPONSE_TIMEOUT_US
<1>1. InProgress
    BY DEF Poll, PollAccepted, PollNoSpace, PollFailed, PollWaiting
<1>2. /\ send_protocol_result = "OK"
      /\ age_bs <= RESPONSE_TIMEOUT_US + MaxLateness
      /\ \E t \in Ticks : StartedAt(t)
    BY <1>1 DEF TimerInv
<1>3. elapse \in Nat /\ MaxLateness + elapse <= HALF_RANGE
    BY TimeTypes DEF Punctual
<1>4. now \in Ticks /\ age_bs \in Nat
    BY DEF TypeOK, HistoryType
<1> DEFINE Checked(t, e, status) ==
               /\ e <= RESPONSE_TIMEOUT_US + HALF_RANGE
               /\ age_bs' = e /\ now' = WrapAdd(t, e)
               /\ send_timer_bs' = WrapAdd(t, RESPONSE_TIMEOUT_US)
               /\ CheckResponseTimeout(status)
<1>5. \E t \in Ticks, e \in Nat : \E status : Checked(t, e, status)
    <2>1. CASE PollAccepted(elapse)
        <3>1. /\ age_bs' = elapse /\ now' = WrapAdd(now, elapse)
              /\ send_timer_bs' = WrapAdd(now, RESPONSE_TIMEOUT_US)
            BY <2>1 DEF PollAccepted
        <3>2. \E status : CheckResponseTimeout(status)
            BY <2>1, PollAcceptedEffect
        <3>3. elapse <= RESPONSE_TIMEOUT_US + HALF_RANGE
            BY <1>3, TimeTypes
        <3> QED BY <1>3, <1>4, <3>1, <3>2, <3>3
    <2>2. ASSUME NEW before, PollUnsent(elapse, before)
          PROVE  \E t \in Ticks, e \in Nat : \E status : Checked(t, e, status)
        <3>1. PICK t \in Ticks : StartedAt(t)
            BY <1>2
        <3>2. age_bs' = age_bs + elapse /\ now' = WrapAdd(now, elapse)
            BY <2>2 DEF PollUnsent
        <3>3. send_timer_bs' = send_timer_bs
            BY <2>2 DEF PollUnsent, timerVars
        <3>4. CheckResponseTimeout(before)
            BY <2>2 DEF PollUnsent
        <3>5. /\ age_bs + elapse \in Nat
              /\ age_bs + elapse <= RESPONSE_TIMEOUT_US + HALF_RANGE
              /\ age_bs + elapse < 2 * HALF_RANGE
            BY <1>2, <1>3, <1>4, TimeTypes
        <3>6. now' = WrapAdd(t, age_bs + elapse)
            BY <1>3, <1>4, <3>1, <3>2, <3>5, WrapAddTwice DEF StartedAt
        <3>7. send_timer_bs' = WrapAdd(t, RESPONSE_TIMEOUT_US)
            BY <3>1, <3>3 DEF StartedAt
        <3> QED BY <3>2, <3>4, <3>5, <3>6, <3>7
    <2> QED BY <2>1, <2>2 DEF Poll, PollNoSpace, PollFailed, PollWaiting
<1>6. PICK t \in Ticks, e \in Nat : \E status : Checked(t, e, status)
    BY <1>5
<1>7. CASE /\ e > RESPONSE_TIMEOUT_US
           /\ send_status' = "ERROR" /\ send_protocol_result' = "TIMEOUT_BS"
    <2>1. ~InProgress'
        BY <1>7 DEF InProgress
    <2> QED BY <1>6, <1>7, <2>1 DEF TimerInv
<1>8. CASE /\ e <= RESPONSE_TIMEOUT_US
           /\ send_protocol_result' = send_protocol_result
    <2>1. ~TimedOut
        BY <1>2, <1>8 DEF TimedOut
    <2>2. age_bs' <= RESPONSE_TIMEOUT_US + MaxLateness
        BY <1>6, <1>8, TimeTypes
    <2>3. StartedAt(t)'
        BY <1>6 DEF StartedAt
    <2>4. TimerInv'
        BY <1>2, <1>8, <2>2, <2>3 DEF TimerInv
    <2> QED BY <1>6, <1>8, <2>1, <2>4
<1> QED BY <1>6, <1>7, <1>8, ResponseCheck

(* A timer that has just been started.                                      *)
LEMMA FreshTimer ==
    ASSUME now \in Ticks, UNCHANGED now, age_bs' = 0,
           send_timer_bs' = WrapAdd(now, RESPONSE_TIMEOUT_US),
           InProgress' => send_protocol_result' = "OK"
    PROVE  TimerInv'
<1>1. now = WrapAdd(now, 0)
    BY WrapAddZero
<1>2. now' = WrapAdd(now, age_bs')
    BY <1>1
<1>3. StartedAt(now)'
    BY <1>2 DEF StartedAt
<1>4. age_bs' <= RESPONSE_TIMEOUT_US + MaxLateness
    BY TimeTypes
<1> QED BY <1>2, <1>4 DEF TimerInv, StartedAt

LEMMA SendStep ==
    ASSUME TypeOK, NEW size, NEW answer,
           SendSingleFrame(size, answer) \/ SendFirstFrame(size, answer)
    PROVE  TimerInv' /\ ~TimedOut
<1>1. ~InProgress
    BY DEF SendSingleFrame, SendFirstFrame, Accepts
<1>2. CASE ~InProgress'
    BY <1>1, <1>2 DEF TimerInv, TimedOut
<1>3. CASE InProgress'
    <2>1. SendFirstFrame(size, "OK") /\ answer = "OK"
        <3>1. ~SendSingleFrame(size, answer)
            BY <1>1, <1>3 DEF SendSingleFrame, InProgress, statusVars
        <3>2. answer = "OK"
            BY <1>1, <1>3, <3>1 DEF SendFirstFrame, InProgress, statusVars
        <3> QED BY <3>1, <3>2
    <2>2. /\ UNCHANGED now /\ age_bs' = 0
          /\ send_timer_bs' = WrapAdd(now, RESPONSE_TIMEOUT_US)
          /\ send_protocol_result' = "OK"
        BY <2>1 DEF SendFirstFrame, Accepts
    <2> QED BY <1>1, <2>2, FreshTimer DEF TypeOK, TimedOut
<1> QED BY <1>2, <1>3

LEMMA FlowControlStep ==
    ASSUME TypeOK, TimerInv, NEW f \in FlowControls, OnFlowControl(f)
    PROVE  TimerInv' /\ ~TimedOut
<1>1. InProgress /\ send_protocol_result = "OK"
    BY DEF OnFlowControl, TimerInv
<1>2. /\ UNCHANGED now /\ age_bs' = 0
      /\ send_timer_bs' = WrapAdd(now, RESPONSE_TIMEOUT_US)
    BY DEF OnFlowControl
<1>3. \/ UNCHANGED statusVars
      \/ send_status' = "ERROR" /\ send_protocol_result' \in {"WFT_OVRN", "BUFFER_OVFLW"}
    BY DEF OnFlowControl, Overflowed, Waited, Continued
<1>4. InProgress' => send_protocol_result' = "OK"
    BY <1>1, <1>3 DEF InProgress, statusVars
<1>5. ~TimedOut
    BY <1>1, <1>3 DEF TimedOut, statusVars
<1> QED BY <1>2, <1>4, <1>5, FreshTimer DEF TypeOK

LEMMA TickStep ==
    ASSUME Punctual, TypeOK, TimerInv, Tick
    PROVE  TimerInv' /\ ~TimedOut
<1>1. /\ InProgress /\ age_bs + ClockStep <= RESPONSE_TIMEOUT_US + MaxLateness
      /\ now' = WrapAdd(now, ClockStep) /\ age_bs' = age_bs + ClockStep
    BY DEF Tick
<1>2. UNCHANGED <<send_timer_bs, send_status, send_protocol_result>>
    BY DEF Tick, linkVars, timerVars, statusVars
<1>3. PICK t \in Ticks : StartedAt(t)
    BY <1>1 DEF TimerInv
<1>4. age_bs + ClockStep < 2 * HALF_RANGE /\ age_bs \in Nat
    BY <1>1, TimeTypes DEF Punctual, TypeOK, HistoryType
<1>5. now' = WrapAdd(t, age_bs')
    BY <1>1, <1>3, <1>4, TimeTypes, WrapAddTwice DEF StartedAt
<1>6. StartedAt(t)'
    BY <1>2, <1>3, <1>5 DEF StartedAt
<1>7. send_protocol_result = "OK"
    BY <1>1 DEF TimerInv
<1> QED BY <1>1, <1>2, <1>6, <1>7 DEF TimerInv, TimedOut

(* Steps that leave the timer, the clock and the status alone, or that end  *)
(* whatever was running.                                                    *)
LEMMA QuietStep ==
    ASSUME TimerInv,
           \/ UNCHANGED <<now, send_timer_bs, statusVars, age_bs>>
           \/ send_status' = "IDLE"
    PROVE  TimerInv' /\ ~TimedOut
<1>1. CASE send_status' = "IDLE"
    BY <1>1 DEF TimerInv, TimedOut, InProgress
<1>2. CASE UNCHANGED <<now, send_timer_bs, statusVars, age_bs>>
    BY <1>2 DEF TimerInv, TimedOut, InProgress, StartedAt, statusVars
<1> QED BY <1>1, <1>2

-----------------------------------------------------------------------------
LEMMA TimerStep ==
    ASSUME Punctual, TypeOK, TimerInv, [Next]_vars
    PROVE  /\ TimerInv'
           /\ TimedOut => age_bs' > RESPONSE_TIMEOUT_US
<1>1. ASSUME NEW size \in SendSizes, NEW answer \in DriverAnswers,
             SendSingleFrame(size, answer) \/ SendFirstFrame(size, answer)
      PROVE  TimerInv' /\ ~TimedOut
    BY <1>1, SendStep
<1>2. ASSUME NEW elapse \in Preemptions, Poll(elapse)
      PROVE  TimerInv' /\ (TimedOut => age_bs' > RESPONSE_TIMEOUT_US)
    BY <1>2, PollStep
<1>3. ASSUME NEW f \in FlowControls, OnFlowControl(f)
      PROVE  TimerInv' /\ ~TimedOut
    BY <1>3, FlowControlStep
<1>4. ASSUME NEW dl \in TxDls, SetTxDl(dl)
      PROVE  TimerInv' /\ ~TimedOut
    <2>1. UNCHANGED <<now, send_timer_bs, statusVars, age_bs>>
        BY <1>4 DEF SetTxDl, timerVars, ageVars
    <2> QED BY <2>1, QuietStep
<1>5. ASSUME NEW registered \in BOOLEAN, SetTxDoneCb(registered)
      PROVE  TimerInv' /\ ~TimedOut
    <2>1. UNCHANGED <<now, send_timer_bs, statusVars, age_bs>>
        BY <1>5 DEF SetTxDoneCb, timerVars, ageVars
    <2> QED BY <2>1, QuietStep
<1>6. CASE InitLink \/ DestroyLink
    <2>1. send_status' = "IDLE"
        BY <1>6 DEF InitLink, DestroyLink, Clear
    <2> QED BY <2>1, QuietStep
<1>7. CASE Tick
    BY <1>7, TickStep
<1>8. CASE UNCHANGED vars
    <2>1. UNCHANGED <<now, send_timer_bs, statusVars, age_bs>>
        BY <1>8 DEF vars, linkVars, timerVars, ageVars
    <2> QED BY <2>1, QuietStep
<1> QED BY <1>1, <1>2, <1>3, <1>4, <1>5, <1>6, <1>7, <1>8
        DEF Next, Send, PollAny, FlowControlArrives

LEMMA TimerInit == Init => TimerInv
BY DEF Init, LinkInit, ClearedLink, TimerInv, InProgress

LEMMA TimerInvariance == ASSUME Punctual PROVE Spec => []TimerInv
<1>1. Init => TimerInv
    BY TimerInit
<1>2. TypeOK /\ TimerInv /\ [Next]_vars => TimerInv'
    BY TimerStep
<1> QED BY <1>1, <1>2, TypeCorrect, PTL DEF Spec

(* isotp_poll never reports TIMEOUT_BS before the response timeout has gone *)
(* by, wherever the clock wraps, in a build that subtracts with wraparound. *)
THEOREM TimeoutIsHonest == ASSUME Punctual PROVE Spec => TimeoutHonest
<1>1. TypeOK /\ TimerInv /\ [Next]_vars =>
          [TimedOut => age_bs' > RESPONSE_TIMEOUT_US]_vars
    BY TimerStep
<1> QED BY <1>1, TypeCorrect, TimerInvariance, PTL DEF Spec, TimeoutHonest, TimedOut

(* After isotp_poll a transmission is over, or younger than its timeout.    *)
THEOREM TimeoutIsPrompt == ASSUME Punctual PROVE Spec => TimeoutPrompt
<1>1. TypeOK /\ TimerInv /\ [Next]_vars =>
          [PollAny /\ InProgress' => age_bs' <= RESPONSE_TIMEOUT_US]_vars
    BY PollStep DEF PollAny
<1> QED BY <1>1, TypeCorrect, TimerInvariance, PTL DEF Spec, TimeoutPrompt

-----------------------------------------------------------------------------
(* A transmission reported complete *)

(* The last frame restarts the response timer, so that only a preemption of *)
(* more than the whole timeout inside that very call could still report one.*)
LEMMA CompletedStep ==
    ASSUME Punctual, \A elapse \in Preemptions : elapse <= RESPONSE_TIMEOUT_US,
           TypeOK, Segmentation, [Next]_vars,
           InProgress, send_offset' >= send_size', send_size' > 0
    PROVE  send_status' = "IDLE" \/ UNCHANGED vars
<1>1. send_offset < send_size /\ send_offset \in Nat /\ send_size \in Nat
    BY DEF TypeOK, SegmentType, Segmentation
<1>2. ~UNCHANGED segmentVars
    BY <1>1 DEF segmentVars
<1>3. ASSUME NEW elapse \in Preemptions, PollAccepted(elapse)
      PROVE  send_status' = "IDLE"
    <2> DEFINE n == CfDataLength(send_size - send_offset, TxDl(tx_dl))
    <2>1. send_offset' = send_offset + n /\ UNCHANGED send_size
        BY <1>3, PollAcceptedEffect DEF PollAccepted
    <2>2. Finishes(n)
        BY <2>1 DEF Finishes
    <2>3. CheckResponseTimeout("IDLE")
        BY <1>3, <2>2, PollAcceptedEffect
    <2>4. now' = WrapAdd(now, elapse) /\ send_timer_bs' = WrapAdd(now, RESPONSE_TIMEOUT_US)
        BY <1>3 DEF PollAccepted
    <2>5. now \in Ticks /\ elapse \in Nat /\ elapse <= RESPONSE_TIMEOUT_US
        BY TimeTypes DEF TypeOK
    <2>6. elapse <= RESPONSE_TIMEOUT_US + HALF_RANGE /\ ~(elapse > RESPONSE_TIMEOUT_US)
        BY <2>5, TimeTypes
    <2> QED BY <2>3, <2>4, <2>5, <2>6, ResponseCheck
<1>4. ASSUME NEW elapse \in Preemptions, Poll(elapse) PROVE send_status' = "IDLE"
    BY <1>2, <1>3, <1>4 DEF Poll, PollNoSpace, PollFailed, PollWaiting, PollUnsent
<1>5. \A size, answer : ~SendSingleFrame(size, answer) /\ ~SendFirstFrame(size, answer)
    BY DEF SendSingleFrame, SendFirstFrame, Accepts
<1>6. \A f \in FlowControls : ~OnFlowControl(f)
    BY <1>2 DEF OnFlowControl
<1>7. \A dl, registered : ~SetTxDl(dl) /\ ~SetTxDoneCb(registered)
    BY <1>2 DEF SetTxDl, SetTxDoneCb
<1>8. ~InitLink /\ ~DestroyLink
    BY DEF InitLink, DestroyLink, Clear
<1>9. ~Tick
    BY <1>2 DEF Tick, linkVars
<1> QED BY <1>4, <1>5, <1>6, <1>7, <1>8, <1>9 DEF Next, Send, PollAny, FlowControlArrives

(* isotp_poll does not fail a transmission whose last frame it has just     *)
(* sent, as long as it is never preempted for a whole response timeout.     *)
THEOREM CompletionIsFinal ==
    ASSUME Punctual, \A elapse \in Preemptions : elapse <= RESPONSE_TIMEOUT_US
    PROVE  Spec => CompletionStands
<1>1. TypeOK /\ Segmentation /\ [Next]_vars =>
          [(InProgress /\ send_offset' >= send_size' /\ send_size' > 0)
               => send_status' = "IDLE"]_vars
    BY CompletedStep
<1> QED BY <1>1, TypeCorrect, SegmentationHolds, PTL DEF Spec, CompletionStands

-----------------------------------------------------------------------------
(* The separation time *)

(* The separation timer was started at time t.                              *)
SeparatedFrom(t) ==
    /\ now = WrapAdd(t, age_st)
    /\ send_timer_st = WrapAdd(t, send_st_min_us)

(* Within a block the link keeps at least the separation time asked for,    *)
(* and until that time is over its timer can be told from an expired one.   *)
SeparationInv ==
    /\ send_st_min_us \in 0 .. HALF_RANGE - 1
    /\ InProgress /\ grant # 0 =>
           send_st_min_us >= asked /\ send_st_min_us >= DEFAULT_ST_MIN_US
    /\ InProgress /\ block > 0 /\ age_st <= send_st_min_us =>
           \E t \in Ticks : SeparatedFrom(t)

TooEarly ==
    cfs' = cfs + 1 /\ block > 0 /\ ~(age_st >= asked /\ age_st >= DEFAULT_ST_MIN_US)

(* Steps that leave the link or the clock alone, or start a new block.      *)
LEMMA SeparationKept ==
    ASSUME SeparationInv, InProgress' => InProgress,
           UNCHANGED <<now, age_st, send_timer_st, send_st_min_us, grant, asked, block>>
    PROVE  SeparationInv'
BY DEF SeparationInv, SeparatedFrom

LEMMA SeparationReset ==
    ASSUME send_st_min_us' \in 0 .. HALF_RANGE - 1,
           InProgress' => grant' = 0 /\ block' = 0
    PROVE  SeparationInv'
BY DEF SeparationInv

(* Time passes during a transmission.                                       *)
LEMMA SeparationElapses ==
    ASSUME TypeOK, SeparationInv, InProgress, NEW e \in Nat,
           now' = WrapAdd(now, e), age_st' = age_st + e,
           UNCHANGED <<send_timer_st, send_st_min_us, grant, asked, block>>
    PROVE  SeparationInv'
<1>1. CASE age_st + e <= send_st_min_us
    <2>1. /\ age_st \in Nat /\ send_st_min_us \in 0 .. HALF_RANGE - 1
        BY DEF TypeOK, HistoryType, SeparationInv
    <2>2. age_st <= send_st_min_us /\ age_st + e < 2 * HALF_RANGE
        BY <1>1, <2>1, TimeTypes
    <2>3. block > 0 => \E t \in Ticks : SeparatedFrom(t)
        BY <2>2 DEF SeparationInv
    <2>4. ASSUME NEW t \in Ticks, SeparatedFrom(t) PROVE SeparatedFrom(t)'
        <3>1. WrapAdd(WrapAdd(t, age_st), e) = WrapAdd(t, age_st + e)
            BY <2>1, <2>2, WrapAddTwice
        <3> QED BY <2>4, <3>1 DEF SeparatedFrom
    <2> QED BY <2>3, <2>4 DEF SeparationInv
<1>2. CASE ~(age_st + e <= send_st_min_us)
    BY <1>2 DEF SeparationInv
<1> QED BY <1>1, <1>2

(* A Consecutive Frame restarts the separation timer, and is not sent       *)
(* before the one of the frame before it has run out.                       *)
LEMMA SeparationSpent ==
    ASSUME COMPARISONS = {"wrapping"}, TypeOK, CreditRespected, SeparationInv,
           NEW elapse \in Preemptions, PollAccepted(elapse)
    PROVE  SeparationInv' /\ ~TooEarly
<1>1. /\ InProgress /\ MayContinue
      /\ now' = WrapAdd(now, elapse) /\ send_timer_st' = WrapAdd(now, send_st_min_us)
      /\ age_st' = elapse /\ UNCHANGED <<send_st_min_us, grant, asked>>
    BY DEF PollAccepted
<1>2. block' = block + 1
    BY DEF PollAccepted
<1>3. /\ age_st \in Nat /\ block \in Nat /\ grant \in 0 .. INVALID_BS /\ asked \in Nat
      /\ now \in Ticks /\ send_st_min_us \in 0 .. HALF_RANGE - 1
    BY DEF TypeOK, HistoryType, SeparationInv
<1>4. SeparationInv'
    <2>1. \E t \in Ticks : SeparatedFrom(t)'
        <3>1. \A t \in Ticks : now' = WrapAdd(t, age_st')
                               /\ send_timer_st' = WrapAdd(t, send_st_min_us')
                               => SeparatedFrom(t)'
            BY DEF SeparatedFrom
        <3> QED BY <1>1, <1>3, <3>1
    <2>2. InProgress' /\ grant' # 0 =>
              send_st_min_us' >= asked' /\ send_st_min_us' >= DEFAULT_ST_MIN_US
        BY <1>1 DEF SeparationInv
    <2> QED BY <1>1, <1>3, <2>1, <2>2 DEF SeparationInv
<1>5. ASSUME block > 0 PROVE age_st >= asked /\ age_st >= DEFAULT_ST_MIN_US
    <2>1. grant # 0
        <3>1. grant # INVALID_BS => block <= grant
            BY <1>1 DEF CreditRespected
        <3> QED BY <1>3, <1>5, <3>1, InvalidBsRange
    <2>2. send_st_min_us >= asked /\ send_st_min_us >= DEFAULT_ST_MIN_US
        BY <1>1, <2>1 DEF SeparationInv
    <2>3. age_st >= send_st_min_us
        <3>1. CASE send_st_min_us = 0
            BY <1>3, <3>1
        <3>2. CASE TRUE \in TimeAfter(now, send_timer_st) /\ age_st <= send_st_min_us
            <4>1. PICK t \in Ticks : SeparatedFrom(t)
                BY <1>1, <1>5, <3>2 DEF SeparationInv
            <4>2. AfterWrapping(WrapAdd(t, age_st), WrapAdd(t, send_st_min_us))
                BY <3>2, <4>1, TimeAfterWraps DEF SeparatedFrom
            <4>3. age_st <= send_st_min_us + HALF_RANGE
                BY <1>3, <3>2, TimeTypes
            <4>4. age_st > send_st_min_us
                BY <1>3, <4>2, <4>3, DeadlineComparison
            <4> QED BY <1>3, <4>4
        <3>3. send_st_min_us = 0 \/ TRUE \in TimeAfter(now, send_timer_st)
            BY <1>1 DEF MayContinue
        <3>4. age_st <= send_st_min_us \/ age_st >= send_st_min_us
            BY <1>3, TimeTypes
        <3> QED BY <3>1, <3>2, <3>3, <3>4
    <2> QED BY <1>3, <2>2, <2>3, PassingTime
<1> QED BY <1>4, <1>5 DEF TooEarly

LEMMA SeparationGranted ==
    ASSUME SeparationInv, NEW f \in FlowControls, OnFlowControl(f)
    PROVE  SeparationInv'
<1>1. InProgress /\ UNCHANGED <<now, send_timer_st, age_st>>
    BY DEF OnFlowControl
<1>2. CASE Continued(f)
    <2>1. /\ send_st_min_us' = IF StMinToUs(f.STmin) > DEFAULT_ST_MIN_US
                               THEN StMinToUs(f.STmin) ELSE DEFAULT_ST_MIN_US
          /\ asked' = StMinToUs(f.STmin) /\ block' = 0
        BY <1>2 DEF Continued
    <2>2. /\ StMinToUs(f.STmin) \in Nat /\ StMinToUs(f.STmin) < HALF_RANGE
          /\ DEFAULT_ST_MIN_US \in 0 .. HALF_RANGE - 1
        BY FlowControlType, SendAssumption DEF PeerParameters, TimeParameters
    <2>3. /\ send_st_min_us' \in 0 .. HALF_RANGE - 1
          /\ send_st_min_us' >= asked' /\ send_st_min_us' >= DEFAULT_ST_MIN_US
        BY <2>1, <2>2, TimeTypes
    <2> QED BY <2>1, <2>3 DEF SeparationInv
<1>3. CASE Overflowed \/ Waited \/ UNCHANGED <<creditVars, statusVars, historyVars>>
    <2>1. UNCHANGED <<send_st_min_us, grant, asked, block>>
        BY <1>3 DEF Overflowed, Waited, creditVars, historyVars
    <2> QED BY <1>1, <2>1, SeparationKept
<1> QED BY <1>2, <1>3 DEF OnFlowControl

LEMMA SeparationStep ==
    ASSUME COMPARISONS = {"wrapping"}, TypeOK, CreditRespected, SeparationInv, [Next]_vars
    PROVE  SeparationInv' /\ ~TooEarly
<1>0. cfs \in Nat
    BY DEF TypeOK, HistoryType
<1>1. ASSUME NEW size \in SendSizes, NEW answer \in DriverAnswers,
             SendSingleFrame(size, answer) \/ SendFirstFrame(size, answer)
      PROVE  SeparationInv' /\ ~TooEarly
    <2>1. cfs' = 0 /\ grant' = 0 /\ block' = 0
        BY <1>1 DEF SendSingleFrame, SendFirstFrame, Accepts
    <2>2. send_st_min_us' \in {0, send_st_min_us}
        BY <1>1 DEF SendSingleFrame, SendFirstFrame, ResetFlow, creditVars
    <2>3. send_st_min_us' \in 0 .. HALF_RANGE - 1
        BY <2>2, TimeTypes DEF SeparationInv
    <2>4. cfs' # cfs + 1
        BY <1>0, <2>1
    <2> QED BY <2>1, <2>3, <2>4, SeparationReset DEF TooEarly
<1>2. ASSUME NEW elapse \in Preemptions, Poll(elapse)
      PROVE  SeparationInv' /\ ~TooEarly
    <2>1. ASSUME NEW before, PollUnsent(elapse, before), InProgress
          PROVE  SeparationInv' /\ ~TooEarly
        <3>1. /\ now' = WrapAdd(now, elapse) /\ age_st' = age_st + elapse /\ cfs' = cfs
              /\ UNCHANGED <<send_timer_st, send_st_min_us, grant, asked, block>>
            BY <2>1 DEF PollUnsent, timerVars, creditVars, historyVars
        <3>2. cfs' # cfs + 1
            BY <1>0, <3>1
        <3> QED BY <2>1, <3>1, <3>2, TimeTypes, SeparationElapses DEF TooEarly
    <2> QED BY <1>2, <2>1, SeparationSpent DEF Poll, PollNoSpace, PollFailed, PollWaiting
<1>3. ASSUME NEW f \in FlowControls, OnFlowControl(f)
      PROVE  SeparationInv' /\ ~TooEarly
    <2>1. cfs' = cfs
        BY <1>3 DEF OnFlowControl, Overflowed, Waited, Continued, historyVars
    <2>2. cfs' # cfs + 1
        BY <1>0, <2>1
    <2> QED BY <1>3, <2>2, SeparationGranted DEF TooEarly
<1>4. ASSUME UNCHANGED <<now, send_timer_st, creditVars, statusVars, historyVars, age_st>>
      PROVE  SeparationInv' /\ ~TooEarly
    <2>1. /\ UNCHANGED <<now, age_st, send_timer_st, send_st_min_us, grant, asked, block>>
          /\ (InProgress' => InProgress) /\ cfs' = cfs
        BY <1>4 DEF creditVars, statusVars, historyVars, InProgress
    <2>2. cfs' # cfs + 1
        BY <1>0, <2>1
    <2> QED BY <2>1, <2>2, SeparationKept DEF TooEarly
<1>5. ASSUME NEW dl, NEW registered, SetTxDl(dl) \/ SetTxDoneCb(registered)
      PROVE  SeparationInv' /\ ~TooEarly
    BY <1>4, <1>5 DEF SetTxDl, SetTxDoneCb, timerVars, ageVars
<1>6. CASE InitLink \/ DestroyLink
    <2>1. send_st_min_us' = 0 /\ ~InProgress' /\ cfs' = 0
        BY <1>6 DEF InitLink, DestroyLink, Clear, InProgress
    <2>2. cfs' # cfs + 1 /\ send_st_min_us' \in 0 .. HALF_RANGE - 1
        BY <1>0, <2>1, TimeTypes
    <2> QED BY <2>1, <2>2, SeparationReset DEF TooEarly
<1>7. CASE Tick
    <2>1. /\ InProgress /\ now' = WrapAdd(now, ClockStep) /\ age_st' = age_st + ClockStep
          /\ UNCHANGED <<send_timer_st, send_st_min_us, grant, asked, block>> /\ cfs' = cfs
        BY <1>7 DEF Tick, linkVars, timerVars, creditVars, historyVars
    <2>2. cfs' # cfs + 1
        BY <1>0, <2>1
    <2> QED BY <2>1, <2>2, TimeTypes, SeparationElapses DEF TooEarly
<1>8. CASE UNCHANGED vars
    BY <1>4, <1>8 DEF vars, linkVars, timerVars, ageVars
<1> QED BY <1>1, <1>2, <1>3, <1>5, <1>6, <1>7, <1>8
        DEF Next, Send, PollAny, FlowControlArrives

(* Two Consecutive Frames of a block are never closer than the separation   *)
(* time the peer asked for, nor than ISO_TP_DEFAULT_ST_MIN_US, wherever the *)
(* clock wraps and however late or preempted isotp_poll is called.          *)
THEOREM SeparationIsRespected ==
    ASSUME COMPARISONS = {"wrapping"} PROVE Spec => SeparationRespected
<1>1. Init => SeparationInv
    BY TimeTypes DEF Init, LinkInit, ClearedLink, SeparationInv, InProgress
<1>2. TypeOK /\ CreditRespected /\ SeparationInv /\ [Next]_vars => SeparationInv'
    BY SeparationStep
<1>3. TypeOK /\ CreditRespected /\ SeparationInv /\ [Next]_vars =>
          [(cfs' = cfs + 1 /\ block > 0) =>
              age_st >= asked /\ age_st >= DEFAULT_ST_MIN_US]_vars
    BY SeparationStep DEF TooEarly
<1> QED BY <1>1, <1>2, <1>3, TypeCorrect, CreditHolds, PTL DEF Spec, SeparationRespected

=============================================================================
