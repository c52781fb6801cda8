-------------------------- MODULE IsoTpNetwork_proofs --------------------------
(***************************************************************************)
(* Proofs about two links on a CAN bus, for all payloads, buffers, TX_DLs,  *)
(* timeouts and any number of faults: what is proved of each half alone     *)
(* holds of the sender and the receiver here, and the frames on the bus are *)
(* those that a sender and a receiver can have built.  What the two count   *)
(* together is the subject of IsoTpNetworkCredit_proofs.                    *)
(***************************************************************************)
EXTENDS IsoTpNetwork, IsoTpFrame_proofs, SequenceTheorems

(* The Flow Controls a receiver can build.                                  *)
BuiltFlowControls ==
    {FlowControl(CONTINUE, bs, DEFAULT_ST_MIN_US) : bs \in 0 .. 255}
        \cup {FlowControl(OVERFLOW, 0, 0)}

SP == INSTANCE IsoTpSend_proofs WITH
        SendSizes <- Range(Payloads), TxDls <- {}, FlowControls <- BuiltFlowControls,
        Preemptions <- {0}, MaxStall <- 0
RP == INSTANCE IsoTpReceive_proofs WITH
        ENABLE_STREAMING <- TRUE, ST_MIN_US <- DEFAULT_ST_MIN_US, Frames <- {},
        PayloadSizes <- {}

-----------------------------------------------------------------------------
(* The bus and the proofs instantiate the same two halves. *)

LEMMA SameLengths ==
    /\ \A d : S!TxDl(d) = SP!TxDl(d)
    /\ \A u : S!PadFrame(u) = SP!PadFrame(u)
BY DEF S!TxDl, S!LegalTxDl, S!PadFrame, S!IsValidCanDl, S!CeilCanDl, S!CanFdFrameSizes,
       S!CAN_DL_CLASSIC, SP!TxDl, SP!LegalTxDl, SP!PadFrame, SP!IsValidCanDl, SP!CeilCanDl,
       SP!CanFdFrameSizes, SP!CAN_DL_CLASSIC

LEMMA SameFrames ==
    /\ S!NoFrame = SP!NoFrame
    /\ \A d : S!SfMaxPayload(d) = SP!SfMaxPayload(d)
    /\ \A size, d : S!FfDataLength(size, d) = SP!FfDataLength(size, d)
    /\ \A size, d : S!FirstFrame(size, d) = SP!FirstFrame(size, d)
    /\ \A size : S!SingleFrame(size) = SP!SingleFrame(size)
    /\ \A sn, left, d : S!ConsecutiveFrame(sn, left, d) = SP!ConsecutiveFrame(sn, left, d)
    /\ \A sn : S!NextSn(sn) = SP!NextSn(sn)
    /\ \A c : S!StMinToUs(c) = SP!StMinToUs(c)
BY SameLengths
DEF S!NoFrame, S!SfMaxPayload, S!FfDataLength, S!FirstFrame, S!SingleFrame,
    S!ConsecutiveFrame, S!CfDataLength, S!NextSn, S!StMinToUs, S!CAN_DL_CLASSIC,
    SP!NoFrame, SP!SfMaxPayload, SP!FfDataLength, SP!FirstFrame, SP!SingleFrame,
    SP!ConsecutiveFrame, SP!CfDataLength, SP!NextSn, SP!StMinToUs, SP!CAN_DL_CLASSIC

LEMMA SameClock ==
    /\ \A t, d : S!WrapAdd(t, d) = SP!WrapAdd(t, d) /\ WrapAdd(t, d) = SP!WrapAdd(t, d)
    /\ \A a, b : S!TimeAfter(a, b) = SP!TimeAfter(a, b)
    /\ Ticks = SP!Ticks /\ Ticks = RP!Ticks
BY DEF S!WrapAdd, S!TimeAfter, S!AfterWrapping, S!AfterSigned, S!WrapSub, S!AsInt32,
       SP!WrapAdd, SP!TimeAfter, SP!AfterWrapping, SP!AfterSigned, SP!WrapSub, SP!AsInt32,
       WrapAdd, Ticks, SP!Ticks, RP!Ticks

LEMMA SameSendGroups ==
    /\ S!paramVars = SP!paramVars /\ S!paramVars' = SP!paramVars'
    /\ S!segmentVars = SP!segmentVars /\ S!segmentVars' = SP!segmentVars'
    /\ S!creditVars = SP!creditVars /\ S!creditVars' = SP!creditVars'
    /\ S!timerVars = SP!timerVars /\ S!timerVars' = SP!timerVars'
    /\ S!statusVars = SP!statusVars /\ S!statusVars' = SP!statusVars'
    /\ S!historyVars = SP!historyVars /\ S!historyVars' = SP!historyVars'
    /\ S!ageVars = SP!ageVars /\ S!ageVars' = SP!ageVars'
BY DEF S!paramVars, S!segmentVars, S!creditVars, S!timerVars, S!statusVars,
       S!historyVars, S!ageVars, SP!paramVars, SP!segmentVars, SP!creditVars, SP!timerVars,
       SP!statusVars, SP!historyVars, SP!ageVars

LEMMA SameSendLife ==
    /\ S!InProgress <=> SP!InProgress
    /\ S!LinkInit <=> SP!LinkInit
    /\ S!InitLink <=> SP!InitLink
    /\ S!Tick <=> SP!Tick
<1>1. S!InProgress <=> SP!InProgress
    BY DEF S!InProgress, SP!InProgress
<1>2. S!LinkInit <=> SP!LinkInit
    BY SameFrames DEF S!LinkInit, S!ClearedLink, SP!LinkInit, SP!ClearedLink
<1>3. S!InitLink <=> SP!InitLink
    BY SameFrames DEF S!InitLink, S!Clear, SP!InitLink, SP!Clear
<1>4. S!Tick <=> SP!Tick
    BY <1>1, SameFrames, SameClock, SameSendGroups
    DEF S!Tick, S!linkVars, SP!Tick, SP!linkVars
<1> QED BY <1>1, <1>2, <1>3, <1>4

LEMMA SameSend ==
    \A size, answer :
        /\ S!SendSingleFrame(size, answer) <=> SP!SendSingleFrame(size, answer)
        /\ S!SendFirstFrame(size, answer) <=> SP!SendFirstFrame(size, answer)
<1>1. ASSUME NEW size PROVE S!Accepts(size) <=> SP!Accepts(size)
    BY SameSendLife DEF S!Accepts, SP!Accepts
<1>2. ASSUME NEW size, NEW answer
      PROVE  S!SendSingleFrame(size, answer) <=> SP!SendSingleFrame(size, answer)
    BY <1>1, SameLengths, SameFrames, SameSendGroups
    DEF S!SendSingleFrame, SP!SendSingleFrame
<1>3. ASSUME NEW size, NEW answer
      PROVE  S!SendFirstFrame(size, answer) <=> SP!SendFirstFrame(size, answer)
    BY <1>1, SameLengths, SameFrames, SameClock, SameSendGroups
    DEF S!SendFirstFrame, S!ResetFlow, SP!SendFirstFrame, SP!ResetFlow
<1> QED BY <1>2, <1>3

LEMMA SameCheck ==
    \A status : S!CheckResponseTimeout(status) <=> SP!CheckResponseTimeout(status)
BY SameClock DEF S!CheckResponseTimeout, SP!CheckResponseTimeout

LEMMA SamePoll ==
    /\ S!PollAccepted(0) <=> SP!PollAccepted(0)
    /\ S!PollNoSpace(0) <=> SP!PollNoSpace(0)
    /\ S!PollFailed(0) <=> SP!PollFailed(0)
    /\ S!PollWaiting(0) <=> SP!PollWaiting(0)
<1>1. (S!MayContinue <=> SP!MayContinue) /\ (S!MustWait <=> SP!MustWait)
    <2>1. S!TimeAfter(now, send_timer_st) = SP!TimeAfter(now, send_timer_st)
        BY SameClock
    <2>2. S!MayContinue <=> SP!MayContinue
        BY <2>1 DEF S!MayContinue, S!INVALID_BS, SP!MayContinue, SP!INVALID_BS
    <2>3. S!MustWait <=> SP!MustWait
        BY <2>1 DEF S!MustWait, SP!MustWait
    <2> QED BY <2>2, <2>3
<1>2. ASSUME NEW before PROVE S!PollUnsent(0, before) <=> SP!PollUnsent(0, before)
    BY SameCheck, SameClock, SameFrames, SameSendGroups DEF S!PollUnsent, SP!PollUnsent
<1>3. S!PollAccepted(0) <=> SP!PollAccepted(0)
    BY <1>1, SameLengths, SameFrames, SameClock, SameCheck, SameSendGroups, SameSendLife
    DEF S!PollAccepted, S!Finishes, S!INVALID_BS, SP!PollAccepted, SP!Finishes, SP!INVALID_BS
<1> QED BY <1>1, <1>2, <1>3, SameSendLife
        DEF S!PollNoSpace, S!PollFailed, S!PollWaiting,
            SP!PollNoSpace, SP!PollFailed, SP!PollWaiting

LEMMA SameFlowControl == \A f : S!OnFlowControl(f) <=> SP!OnFlowControl(f)
<1>1. S!Overflowed <=> SP!Overflowed
    BY SameSendGroups DEF S!Overflowed, SP!Overflowed
<1>2. S!Waited <=> SP!Waited
    BY SameSendGroups DEF S!Waited, S!TooManyWaits, SP!Waited, SP!TooManyWaits
<1>3. ASSUME NEW f PROVE S!Continued(f) <=> SP!Continued(f)
    BY SameFrames, SameSendGroups
    DEF S!Continued, S!INVALID_BS, SP!Continued, SP!INVALID_BS
<1>4. ASSUME NEW f PROVE S!OnFlowControl(f) <=> SP!OnFlowControl(f)
    BY <1>1, <1>2, <1>3, SameFrames, SameClock, SameSendGroups, SameSendLife
    DEF S!OnFlowControl, S!CONTINUE, S!WAIT, S!OVERFLOW,
        SP!OnFlowControl, SP!CONTINUE, SP!WAIT, SP!OVERFLOW
<1> QED BY <1>4

LEMMA SameSendInvariants ==
    /\ S!Segmentation <=> SP!Segmentation
    /\ S!CreditRespected <=> SP!CreditRespected
BY SameLengths, SameFrames, SameSendLife
DEF S!Segmentation, S!CreditRespected, S!INVALID_BS,
    SP!Segmentation, SP!CreditRespected, SP!INVALID_BS

(* The fields of a Flow Control in their C types.                          *)
FlowControlType ==
    [type : {"FC"}, FS : 0 .. 15, BS : 0 .. 255, STmin : 0 .. 255, len : 0 .. 255]

(* A Flow Control has byte-sized fields, and asks for no longer a time than *)
(* the configured one.                                                      *)
LEMMA FlowControlBuilt ==
    ASSUME NEW fs \in 0 .. 15, NEW bs \in 0 .. 255, NEW us \in Nat
    PROVE  /\ FlowControl(fs, bs, us) \in FlowControlType
           /\ StMinToUs(FlowControl(fs, bs, us).STmin) <= us
           /\ FlowControl(fs, bs, us).len \in 3 .. MAX_CAN_FRAME_SIZE
<1>1. UsToStMin(us) \in 0 .. 255
    BY DEF UsToStMin
<1>2. PadFrame(3) \in 3 .. 8
    BY FrameAssumption DEF FrameParameters, PadFrame, CeilCanDl, CAN_DL_CLASSIC
<1>3. MAX_CAN_FRAME_SIZE \in Nat /\ MAX_CAN_FRAME_SIZE >= 8
    BY FrameAssumption DEF FrameParameters, CAN_DL_CLASSIC, CanFdFrameSizes
<1>4. StMinToUs(UsToStMin(us)) <= us
    BY StMinDecodes
<1> QED BY <1>1, <1>2, <1>3, <1>4 DEF FlowControl, FlowControlType

LEMMA SendConstants ==
    /\ SP!FrameParameters /\ SP!LinkParameters /\ SP!TimeParameters /\ SP!PeerParameters
<1>1. SP!FrameParameters
    BY FrameAssumption
    DEF FrameParameters, CAN_DL_CLASSIC, CanFdFrameSizes,
        SP!FrameParameters, SP!CAN_DL_CLASSIC, SP!CanFdFrameSizes
<1>2. SP!LinkParameters
    <2>1. Range(Payloads) \subseteq Nat
        BY NetworkAssumption DEF NetworkParameters, Range
    <2> QED BY <2>1, NetworkAssumption
            DEF NetworkParameters, S!LinkParameters, S!LegalTxDl, S!IsValidCanDl, S!CeilCanDl,
                S!CanFdFrameSizes, S!CAN_DL_CLASSIC, SP!LinkParameters, SP!LegalTxDl,
                SP!IsValidCanDl, SP!CeilCanDl, SP!CanFdFrameSizes, SP!CAN_DL_CLASSIC
<1>3. SP!TimeParameters
    BY NetworkAssumption DEF NetworkParameters, S!TimeParameters, SP!TimeParameters
<1>4. SP!PeerParameters
    <2>1. ASSUME NEW f \in BuiltFlowControls
          PROVE  /\ f \in FlowControlType
                 /\ SP!StMinToUs(f.STmin) < HALF_RANGE
        <3>1. /\ DEFAULT_ST_MIN_US \in Nat /\ DEFAULT_ST_MIN_US < HALF_RANGE /\ 0 < HALF_RANGE
              /\ CONTINUE \in 0 .. 15 /\ OVERFLOW \in 0 .. 15
            BY NetworkAssumption, FrameAssumption
            DEF NetworkParameters, S!TimeParameters, FrameParameters, CONTINUE, OVERFLOW
        <3>2. \A fs \in 0 .. 15, bs \in 0 .. 255, us \in 0 .. HALF_RANGE - 1 :
                 /\ FlowControl(fs, bs, us) \in FlowControlType
                 /\ StMinToUs(FlowControl(fs, bs, us).STmin) <= us
            <4> SUFFICES ASSUME NEW fs \in 0 .. 15, NEW bs \in 0 .. 255,
                                NEW us \in 0 .. HALF_RANGE - 1
                         PROVE  /\ FlowControl(fs, bs, us) \in FlowControlType
                                /\ StMinToUs(FlowControl(fs, bs, us).STmin) <= us
                OBVIOUS
            <4>1. us \in Nat
                BY <3>1
            <4> QED BY <4>1, FlowControlBuilt
        <3>3. PICK fs \in 0 .. 15, bs \in 0 .. 255, us \in 0 .. HALF_RANGE - 1 :
                f = FlowControl(fs, bs, us)
            <4>1. CASE \E bs \in 0 .. 255 : f = FlowControl(CONTINUE, bs, DEFAULT_ST_MIN_US)
                <5>1. DEFAULT_ST_MIN_US \in 0 .. HALF_RANGE - 1
                    BY <3>1, FrameAssumption DEF FrameParameters
                <5> QED BY <5>1, <4>1, <3>1
            <4>2. CASE f = FlowControl(OVERFLOW, 0, 0)
                <5>1. 0 \in 0 .. 255 /\ 0 \in 0 .. HALF_RANGE - 1
                    BY <3>1, FrameAssumption DEF FrameParameters
                <5> QED BY <5>1, <4>2, <3>1
            <4> QED BY <2>1, <4>1, <4>2 DEF BuiltFlowControls
        <3>4. StMinToUs(f.STmin) \in Nat
            <4>1. f.STmin \in 0 .. 255
                BY <3>2, <3>3 DEF FlowControlType
            <4> QED BY <4>1 DEF StMinToUs
        <3>5. SP!StMinToUs(f.STmin) = StMinToUs(f.STmin)
            BY DEF SP!StMinToUs, StMinToUs
        <3>6. StMinToUs(f.STmin) <= us
            BY <3>2, <3>3
        <3>7. SP!StMinToUs(f.STmin) < HALF_RANGE
            BY <3>1, <3>4, <3>5, <3>6, FrameAssumption DEF FrameParameters
        <3>8. f \in FlowControlType
            BY <3>2, <3>3
        <3> QED BY <3>7, <3>8
    <2> QED BY <2>1 DEF SP!PeerParameters, FlowControlType
<1> QED BY <1>1, <1>2, <1>3, <1>4

LEMMA ReceiveConstants == RP!FrameParameters /\ RP!ReceiveParameters
<1>1. RP!FrameParameters
    BY FrameAssumption
    DEF FrameParameters, CAN_DL_CLASSIC, CanFdFrameSizes,
        RP!FrameParameters, RP!CAN_DL_CLASSIC, RP!CanFdFrameSizes
<1>2. RP!ReceiveParameters
    BY NetworkAssumption
    DEF NetworkParameters, R!ReceiveParameters, R!Ticks, RP!ReceiveParameters, RP!Ticks
<1> QED BY <1>1, <1>2

LEMMA SameReceiveLengths ==
    /\ \A f : R!SfPayloadLength(f) = RP!SfPayloadLength(f)
    /\ \A f : R!FfPayloadLength(f) = RP!FfPayloadLength(f)
    /\ \A f : R!FfReadLength(f) = RP!FfReadLength(f)
    /\ \A left, dl : R!CfWanted(left, dl) = RP!CfWanted(left, dl)
    /\ \A sn : R!NextSn(sn) = RP!NextSn(sn)
<1>1. \A f : R!FfIsLong(f) <=> RP!FfIsLong(f)
    BY DEF R!FfIsLong, RP!FfIsLong
<1> QED BY <1>1
    DEF R!SfPayloadLength, R!FfPayloadLength, R!FfReadLength, R!CfWanted, R!CfDataLength,
        R!NextSn, R!CAN_DL_CLASSIC, RP!SfPayloadLength, RP!FfPayloadLength, RP!FfReadLength,
        RP!CfWanted, RP!CfDataLength, RP!NextSn, RP!CAN_DL_CLASSIC

LEMMA SameReceiveFrames ==
    /\ R!NoFrame = RP!NoFrame /\ R!NoData = RP!NoData
    /\ \A f : R!SfAccepted(f) <=> RP!SfAccepted(f)
    /\ \A f : R!FfAccepted(f) <=> RP!FfAccepted(f)
    /\ \A f : R!Plausible(f) <=> RP!Plausible(f)
    /\ \A fs, bs, st : R!FlowControl(fs, bs, st) = RP!FlowControl(fs, bs, st)
<1>1. \A u : R!PadFrame(u) = RP!PadFrame(u)
    BY DEF R!PadFrame, R!CeilCanDl, R!CanFdFrameSizes, R!CAN_DL_CLASSIC,
           RP!PadFrame, RP!CeilCanDl, RP!CanFdFrameSizes, RP!CAN_DL_CLASSIC
<1>2. \A us : R!UsToStMin(us) = RP!UsToStMin(us)
    BY DEF R!UsToStMin, RP!UsToStMin
<1>3. \A fs, bs, st : R!FlowControl(fs, bs, st) = RP!FlowControl(fs, bs, st)
    BY <1>1, <1>2 DEF R!FlowControl, RP!FlowControl
<1>4. ASSUME NEW f PROVE R!SfAccepted(f) <=> RP!SfAccepted(f)
    BY SameReceiveLengths
    DEF R!SfAccepted, R!CAN_DL_CLASSIC, RP!SfAccepted, RP!CAN_DL_CLASSIC
<1>7. ASSUME NEW f PROVE R!FfAccepted(f) <=> RP!FfAccepted(f)
    <2>1. R!SfMaxPayload(f.len) = RP!SfMaxPayload(f.len)
        BY DEF R!SfMaxPayload, R!CAN_DL_CLASSIC, RP!SfMaxPayload, RP!CAN_DL_CLASSIC
    <2>2. R!IsValidCanDl(f.len) <=> RP!IsValidCanDl(f.len)
        BY DEF R!IsValidCanDl, R!CeilCanDl, R!CanFdFrameSizes, R!CAN_DL_CLASSIC,
               RP!IsValidCanDl, RP!CeilCanDl, RP!CanFdFrameSizes, RP!CAN_DL_CLASSIC
    <2> QED BY <2>1, <2>2, SameReceiveLengths
            DEF R!FfAccepted, R!CAN_DL_CLASSIC, RP!FfAccepted, RP!CAN_DL_CLASSIC
<1>5. R!NoFrame = RP!NoFrame /\ R!NoData = RP!NoData
    BY DEF R!NoFrame, R!NoData, RP!NoFrame, RP!NoData
<1>6. \A f : R!Plausible(f) <=> RP!Plausible(f)
    BY DEF R!Plausible, RP!Plausible
<1> QED BY <1>3, <1>4, <1>5, <1>6, <1>7

LEMMA SameReceiveGroups ==
    /\ R!paramVars = RP!paramVars /\ R!paramVars' = RP!paramVars'
    /\ R!bufferVars = RP!bufferVars /\ R!bufferVars' = RP!bufferVars'
    /\ R!streamVars = RP!streamVars /\ R!streamVars' = RP!streamVars'
    /\ R!flowVars = RP!flowVars /\ R!flowVars' = RP!flowVars'
    /\ R!timerVars = RP!timerVars /\ R!timerVars' = RP!timerVars'
    /\ R!recvStatusVars = RP!recvStatusVars /\ R!recvStatusVars' = RP!recvStatusVars'
    /\ R!messageVars = RP!messageVars /\ R!messageVars' = RP!messageVars'
BY DEF R!paramVars, R!bufferVars, R!streamVars, R!flowVars, R!timerVars, R!recvStatusVars,
       R!messageVars, RP!paramVars, RP!bufferVars, RP!streamVars, RP!flowVars,
       RP!timerVars, RP!recvStatusVars, RP!messageVars

LEMMA SameMemory ==
    /\ \A memory, at, bytes : R!Overwrite(memory, at, bytes) = RP!Overwrite(memory, at, bytes)
    /\ \A f, k : R!FrameData(f, k) = RP!FrameData(f, k)
    /\ \A size : R!Blank(size) = RP!Blank(size)
    /\ \A a, b : R!Smaller(a, b) = RP!Smaller(a, b)
BY DEF R!Overwrite, R!FrameData, R!Byte, R!NoByte, R!Blank, R!Smaller,
       RP!Overwrite, RP!FrameData, RP!Byte, RP!NoByte, RP!Blank, RP!Smaller

LEMMA SameHandling ==
    /\ R!Receiving <=> RP!Receiving
    /\ R!Interrupting = RP!Interrupting
    /\ R!Block = RP!Block
    /\ R!StartTimer <=> RP!StartTimer
    /\ R!NoFlowControl <=> RP!NoFlowControl
    /\ R!Used <=> RP!Used
    /\ \A status : R!Notify(status) <=> RP!Notify(status)
    /\ \A fs, bs, accepted :
           R!SendFlowControl(fs, bs, accepted) <=> RP!SendFlowControl(fs, bs, accepted)
<1>1. (R!Receiving <=> RP!Receiving) /\ R!Interrupting = RP!Interrupting /\ R!Block = RP!Block
    BY DEF R!Receiving, R!Interrupting, R!Block, RP!Receiving, RP!Interrupting, RP!Block
<1>2. R!StartTimer <=> RP!StartTimer
    BY DEF R!StartTimer, R!WrapAdd, RP!StartTimer, RP!WrapAdd
<1>3. (R!NoFlowControl <=> RP!NoFlowControl) /\ (R!Used <=> RP!Used)
    BY SameReceiveFrames DEF R!NoFlowControl, R!Used, R!INVALID_BS, RP!NoFlowControl, RP!Used,
                             RP!INVALID_BS
<1>4. ASSUME NEW status PROVE R!Notify(status) <=> RP!Notify(status)
    BY SameReceiveFrames DEF R!Notify, RP!Notify
<1>5. ASSUME NEW fs, NEW bs, NEW accepted
      PROVE  R!SendFlowControl(fs, bs, accepted) <=> RP!SendFlowControl(fs, bs, accepted)
    BY SameReceiveFrames
    DEF R!SendFlowControl, R!INVALID_BS, R!OVERFLOW, RP!SendFlowControl, RP!INVALID_BS,
        RP!OVERFLOW
<1> QED BY <1>1, <1>2, <1>3, <1>4, <1>5

LEMMA SameSingleFrame == \A f : R!ReceiveSingleFrame(f) <=> RP!ReceiveSingleFrame(f)
BY SameReceiveLengths, SameReceiveFrames, SameReceiveGroups, SameMemory, SameHandling
DEF R!ReceiveSingleFrame, RP!ReceiveSingleFrame

LEMMA SameFirstFrame ==
    \A f, accepted : R!ReceiveFirstFrame(f, accepted) <=> RP!ReceiveFirstFrame(f, accepted)
<1>1. \A f : R!FfOverflows(f) <=> RP!FfOverflows(f)
    BY SameReceiveLengths DEF R!FfOverflows, RP!FfOverflows
<1>2. ASSUME NEW f PROVE R!StoreFirstFrame(f) <=> RP!StoreFirstFrame(f)
    BY SameReceiveLengths, SameMemory DEF R!StoreFirstFrame, RP!StoreFirstFrame
<1> QED BY <1>1, <1>2, SameReceiveFrames, SameReceiveGroups, SameHandling
        DEF R!ReceiveFirstFrame, R!CONTINUE, R!OVERFLOW,
            RP!ReceiveFirstFrame, RP!CONTINUE, RP!OVERFLOW

LEMMA SameConsecutiveFrame ==
    \A f, accepted :
        R!ReceiveConsecutiveFrame(f, accepted) <=> RP!ReceiveConsecutiveFrame(f, accepted)
<1>1. ASSUME NEW data PROVE R!StoreStreamed(data) <=> RP!StoreStreamed(data)
    BY SameMemory DEF R!StoreStreamed, RP!StoreStreamed
<1>2. ASSUME NEW data PROVE R!StoreWhole(data) <=> RP!StoreWhole(data)
    BY SameMemory DEF R!StoreWhole, RP!StoreWhole
<1>3. ASSUME NEW accepted PROVE R!CountBlock(accepted) <=> RP!CountBlock(accepted)
    BY SameHandling DEF R!CountBlock, R!CONTINUE, RP!CountBlock, RP!CONTINUE
<1>4. (R!ChunkReady <=> RP!ChunkReady) /\ \A f : R!InSequence(f) <=> RP!InSequence(f)
    BY DEF R!ChunkReady, R!InSequence, RP!ChunkReady, RP!InSequence
<1> QED BY <1>1, <1>2, <1>3, <1>4, SameReceiveLengths, SameReceiveFrames,
           SameReceiveGroups, SameMemory, SameHandling
        DEF R!ReceiveConsecutiveFrame, RP!ReceiveConsecutiveFrame

LEMMA SameTakeData ==
    \A size, accepted :
        /\ R!Receive(size) <=> RP!Receive(size)
        /\ R!ReceiveStreaming(size, accepted) <=> RP!ReceiveStreaming(size, accepted)
<1>1. ASSUME NEW size PROVE R!Receive(size) <=> RP!Receive(size)
    BY SameReceiveFrames, SameReceiveGroups, SameMemory DEF R!Receive, RP!Receive
<1>2. R!Refill <=> RP!Refill
    BY SameMemory DEF R!Refill, RP!Refill
<1>3. ASSUME NEW size, NEW accepted
      PROVE  R!ReceiveStreaming(size, accepted) <=> RP!ReceiveStreaming(size, accepted)
    BY <1>2, SameReceiveGroups, SameHandling
    DEF R!ReceiveStreaming, R!LastChunk, R!CONTINUE,
        RP!ReceiveStreaming, RP!LastChunk, RP!CONTINUE
<1> QED BY <1>1, <1>3

LEMMA SameReceiveLife ==
    /\ R!LinkInit <=> RP!LinkInit
    /\ \A size : R!InitLink(size) <=> RP!InitLink(size)
    /\ R!PollTimesOut <=> RP!PollTimesOut
    /\ R!Tick <=> RP!Tick
<1>1. R!LinkInit <=> RP!LinkInit
    BY SameReceiveFrames, SameMemory
    DEF R!LinkInit, R!CAN_DL_CLASSIC, RP!LinkInit, RP!CAN_DL_CLASSIC
<1>2. ASSUME NEW size PROVE R!InitLink(size) <=> RP!InitLink(size)
    BY SameReceiveFrames, SameMemory
    DEF R!InitLink, R!Reset, R!CAN_DL_CLASSIC, RP!InitLink, RP!Reset, RP!CAN_DL_CLASSIC
<1>3. R!PollTimesOut <=> RP!PollTimesOut
    <2>1. R!DeadlinePassed <=> RP!DeadlinePassed
        BY DEF R!DeadlinePassed, R!TimeAfter, R!AfterWrapping, R!AfterSigned, R!WrapSub,
               R!AsInt32, RP!DeadlinePassed, RP!TimeAfter, RP!AfterWrapping, RP!AfterSigned,
               RP!WrapSub, RP!AsInt32
    <2> QED BY <2>1, SameReceiveFrames, SameReceiveGroups, SameHandling
            DEF R!PollTimesOut, RP!PollTimesOut
<1>4. R!Tick <=> RP!Tick
    BY SameReceiveFrames, SameReceiveGroups, SameHandling
    DEF R!Tick, R!WrapAdd, RP!Tick, RP!WrapAdd
<1> QED BY <1>1, <1>2, <1>3, <1>4

LEMMA SameReceiveInvariants ==
    /\ R!WithinBounds <=> RP!WithinBounds
    /\ R!NeverWaitsUninvited <=> RP!NeverWaitsUninvited
    /\ R!StreamBackpressure <=> RP!StreamBackpressure
BY SameHandling
DEF R!WithinBounds, R!NeverWaitsUninvited, R!StreamBackpressure,
    RP!WithinBounds, RP!NeverWaitsUninvited, RP!StreamBackpressure

-----------------------------------------------------------------------------
(* Frames and channels.  The sender's frames carry what the model knows     *)
(* about their content besides the fields of the PCI.                       *)
LEMMA CarryingFields ==
    ASSUME NEW f, NEW msg, NEW at
    PROVE  /\ Carrying(f, msg, at).msg = msg /\ Carrying(f, msg, at).at = at
           /\ \A field \in DOMAIN f \ {"msg", "at"} :
                  Carrying(f, msg, at)[field] = f[field]
BY DEF Carrying

LEMMA CarryingFrames ==
    ASSUME NEW msg, NEW at
    PROVE  /\ \A size : LET f == SingleFrame(size)
                            g == Carrying(f, msg, at)
                        IN  /\ g.type = f.type /\ g.sf_dl = f.sf_dl
                            /\ g.escape = f.escape /\ g.n = f.n /\ g.len = f.len
           /\ \A size, dl : LET f == FirstFrame(size, dl)
                                g == Carrying(f, msg, at)
                            IN  /\ g.type = f.type /\ g.ff_dl_high = f.ff_dl_high
                                /\ g.ff_dl_low = f.ff_dl_low /\ g.ff_dl = f.ff_dl
                                /\ g.n = f.n /\ g.len = f.len
           /\ \A sn, left, dl : LET f == ConsecutiveFrame(sn, left, dl)
                                    g == Carrying(f, msg, at)
                                IN  /\ g.type = f.type /\ g.SN = f.SN
                                    /\ g.n = f.n /\ g.len = f.len
BY DEF Carrying, SingleFrame, FirstFrame, ConsecutiveFrame

(* A channel is a sequence of frames with their ages. *)
Channel(s) == \E F : s \in Seq([frame : F, age : Nat])

LEMMA ChannelFrames ==
    ASSUME NEW s, Channel(s)
    PROVE  /\ Len(s) \in Nat /\ DOMAIN s = 1 .. Len(s)
           /\ \A i \in 1 .. Len(s) : s[i].age \in Nat
           /\ s = << >> <=> Len(s) = 0
           /\ s # << >> => Head(s) = s[1]
<1>1. PICK F : s \in Seq([frame : F, age : Nat])
    BY DEF Channel
<1> DEFINE E == [frame : F, age : Nat]
<1>2. \A e \in E : e.age \in Nat
    OBVIOUS
<1>3. s \in Seq(E)
    BY <1>1
<1> HIDE DEF E
<1>4. /\ Len(s) \in Nat /\ DOMAIN s = 1 .. Len(s)
      /\ \A i \in 1 .. Len(s) : s[i] \in E
    BY <1>3, LenProperties
<1>5. s = << >> <=> Len(s) = 0
    BY <1>3, EmptySeq
<1>6. s # << >> => Head(s) = s[1]
    BY <1>3
<1> QED BY <1>2, <1>4, <1>5, <1>6

LEMMA ChannelSends ==
    ASSUME NEW s, Channel(s), NEW f
    PROVE  LET t == Append(s, OnBus(f))
           IN  /\ Channel(t)
               /\ Len(t) = Len(s) + 1
               /\ \A i \in 1 .. Len(s) : t[i] = s[i]
               /\ t[Len(s) + 1].frame = f /\ t[Len(s) + 1].age = 0
<1>1. PICK F : s \in Seq([frame : F, age : Nat])
    BY DEF Channel
<1> DEFINE E == [frame : F, age : Nat]
           G == [frame : F \cup {f}, age : Nat]
<1>2. E \subseteq G
    OBVIOUS
<1>3. OnBus(f) \in G /\ OnBus(f).frame = f /\ OnBus(f).age = 0
    BY DEF OnBus
<1>4. s \in Seq(E)
    BY <1>1
<1>5. Append(s, OnBus(f)) \in Seq(G) => Channel(Append(s, OnBus(f)))
    BY DEF Channel
<1> HIDE DEF E, G
<1>6. s \in Seq(G)
    BY <1>2, <1>4, SeqMonotonic
<1>7. /\ Append(s, OnBus(f)) \in Seq(G)
      /\ Len(Append(s, OnBus(f))) = Len(s) + 1
      /\ \A i \in 1 .. Len(s) : Append(s, OnBus(f))[i] = s[i]
      /\ Append(s, OnBus(f))[Len(s) + 1] = OnBus(f)
    BY <1>3, <1>6, AppendProperties
<1> QED BY <1>3, <1>5, <1>7

LEMMA ChannelTakes ==
    ASSUME NEW s, Channel(s), s # << >>
    PROVE  /\ Channel(Tail(s))
           /\ Len(Tail(s)) = Len(s) - 1
           /\ \A i \in 1 .. Len(s) - 1 : Tail(s)[i] = s[i + 1]
<1>1. PICK F : s \in Seq([frame : F, age : Nat])
    BY DEF Channel
<1> DEFINE E == [frame : F, age : Nat]
<1>2. s \in Seq(E)
    BY <1>1
<1>3. Tail(s) \in Seq(E) => Channel(Tail(s))
    BY DEF Channel
<1> HIDE DEF E
<1>4. /\ Tail(s) \in Seq(E) /\ Len(Tail(s)) = Len(s) - 1
      /\ \A i \in 1 .. Len(Tail(s)) : Tail(s)[i] = s[i + 1]
    BY <1>2, HeadTailProperties
<1> QED BY <1>3, <1>4

LEMMA ChannelRepeats ==
    ASSUME NEW s, Channel(s), s # << >>
    PROVE  /\ Channel(<<Head(s)>> \o s)
           /\ Len(<<Head(s)>> \o s) = Len(s) + 1
           /\ \A i \in 1 .. Len(s) + 1 :
                  (<<Head(s)>> \o s)[i] = IF i = 1 THEN s[1] ELSE s[i - 1]
<1>1. PICK F : s \in Seq([frame : F, age : Nat])
    BY DEF Channel
<1> DEFINE E == [frame : F, age : Nat]
           t == <<Head(s)>> \o s
<1>2. s \in Seq(E)
    BY <1>1
<1>3. t \in Seq(E) => Channel(t)
    BY DEF Channel
<1> HIDE DEF E
<1>4. Head(s) \in E /\ Head(s) = s[1] /\ Len(s) \in Nat
    BY <1>2, HeadTailProperties, LenProperties
<1>5. <<Head(s)>> \in Seq(E) /\ Len(<<Head(s)>>) = 1 /\ <<Head(s)>>[1] = s[1]
    BY <1>4
<1>6. /\ t \in Seq(E)
      /\ Len(t) = 1 + Len(s)
      /\ \A i \in 1 .. 1 + Len(s) : t[i] = IF i <= 1 THEN <<Head(s)>>[i] ELSE s[i - 1]
    BY <1>2, <1>5, ConcatProperties
<1> HIDE DEF t
<1>7. ASSUME NEW i \in 1 .. Len(s) + 1
      PROVE  t[i] = IF i = 1 THEN s[1] ELSE s[i - 1]
    <2>1. CASE i = 1
        BY <2>1, <1>4, <1>5, <1>6
    <2>2. CASE i # 1
        BY <2>2, <1>4, <1>6
    <2> QED BY <2>1, <2>2
<1>8. Len(t) = Len(s) + 1 /\ Channel(t)
    BY <1>3, <1>4, <1>6
<1> QED BY <1>7, <1>8 DEF t

LEMMA ChannelAges ==
    ASSUME NEW s, Channel(s)
    PROVE  /\ Channel(Aged(s))
           /\ Len(Aged(s)) = Len(s)
           /\ \A i \in 1 .. Len(s) : /\ Aged(s)[i].frame = s[i].frame
                                     /\ Aged(s)[i].age = s[i].age + ClockStep
<1>1. PICK F : s \in Seq([frame : F, age : Nat])
    BY DEF Channel
<1> DEFINE E == [frame : F, age : Nat]
           Older(e) == [e EXCEPT !.age = @ + ClockStep]
<1>2. ClockStep \in Nat
    BY NetworkAssumption, FrameAssumption
    DEF NetworkParameters, R!ReceiveParameters, FrameParameters
<1>3. ASSUME NEW e \in E
      PROVE  /\ Older(e) \in E
             /\ Older(e).frame = e.frame /\ Older(e).age = e.age + ClockStep
    BY <1>2
<1>4. s \in Seq(E)
    BY <1>1
<1>5. Aged(s) = [i \in DOMAIN s |-> Older(s[i])]
    BY DEF Aged
<1>6. Aged(s) \in Seq(E) => Channel(Aged(s))
    BY DEF Channel
<1> HIDE DEF E, Older
<1>7. /\ Len(s) \in Nat /\ DOMAIN s = 1 .. Len(s)
      /\ \A i \in 1 .. Len(s) : s[i] \in E
    BY <1>4, LenProperties
<1>8. /\ \A i \in 1 .. Len(s) : Aged(s)[i] = Older(s[i])
      /\ Aged(s) \in [1 .. Len(s) -> E]
    BY <1>3, <1>5, <1>7
<1>9. Aged(s) \in Seq(E) /\ Len(Aged(s)) = Len(s)
    BY <1>7, <1>8, SeqDef
<1> QED BY <1>3, <1>6, <1>7, <1>8, <1>9

-----------------------------------------------------------------------------
(* What the calls of the sender do.  Its TX_DL stays the default one. *)
Dl == TxDl(DEFAULT_TX_DL)

LEMMA SenderCodec ==
    /\ S!NoFrame = NoFrame
    /\ \A d : S!TxDl(d) = TxDl(d) /\ S!SfMaxPayload(d) = SfMaxPayload(d)
    /\ \A size, d : S!FfDataLength(size, d) = FfDataLength(size, d)
    /\ \A size, d : S!FirstFrame(size, d) = FirstFrame(size, d)
    /\ \A size : S!SingleFrame(size) = SingleFrame(size)
    /\ \A sn, left, d : S!ConsecutiveFrame(sn, left, d) = ConsecutiveFrame(sn, left, d)
    /\ \A sn : S!NextSn(sn) = NextSn(sn)
    /\ \A c : S!StMinToUs(c) = StMinToUs(c)
<1>1. (\A d : S!TxDl(d) = TxDl(d)) /\ \A u : S!PadFrame(u) = PadFrame(u)
    BY DEF S!TxDl, S!LegalTxDl, S!PadFrame, S!IsValidCanDl, S!CeilCanDl, S!CanFdFrameSizes,
           S!CAN_DL_CLASSIC, TxDl, LegalTxDl, PadFrame, IsValidCanDl, CeilCanDl,
           CanFdFrameSizes, CAN_DL_CLASSIC
<1> QED BY <1>1
        DEF S!NoFrame, S!SfMaxPayload, S!FfDataLength, S!FirstFrame, S!SingleFrame,
            S!ConsecutiveFrame, S!CfDataLength, S!NextSn, S!StMinToUs, S!CAN_DL_CLASSIC,
            NoFrame, SfMaxPayload, FfDataLength, FirstFrame, SingleFrame,
            ConsecutiveFrame, CfDataLength, NextSn, StMinToUs, CAN_DL_CLASSIC

LEMMA NetworkConstants ==
    /\ DEFAULT_TX_DL \in Nat /\ Dl \in 8 .. 64 /\ Dl <= MAX_CAN_FRAME_SIZE
    /\ MAX_CAN_FRAME_SIZE \in 8 .. 64
    /\ HALF_RANGE \in Nat \ {0}
    /\ RESPONSE_TIMEOUT_US \in Nat /\ RESPONSE_TIMEOUT_US > 0
    /\ DEFAULT_ST_MIN_US \in Nat
    /\ BLOCK_SIZE \in 0 .. 255
    /\ ClockStep \in Nat
    /\ MaxTransit \in Nat /\ MaxDelay \in Nat /\ MaxHold \in Nat /\ MaxFaults \in Nat
    /\ MaxLateness \in Nat
    /\ RECEIVE_BUF_SIZES \subseteq Nat
    /\ Payloads \in Seq(Nat) /\ Len(Payloads) \in Nat
    /\ \A m \in 1 .. Len(Payloads) : Payloads[m] \in Nat /\ Payloads[m] \in Range(Payloads)
<1>1. DEFAULT_TX_DL \in Nat
    BY NetworkAssumption DEF NetworkParameters, S!LinkParameters
<1>2. Dl \in 8 .. 64 /\ Dl <= MAX_CAN_FRAME_SIZE
    BY <1>1, TxDlRange DEF Dl
<1>3. HALF_RANGE \in Nat \ {0} /\ MAX_CAN_FRAME_SIZE \in 8 .. 64
    BY FrameAssumption DEF FrameParameters, CAN_DL_CLASSIC, CanFdFrameSizes
<1>4. /\ RESPONSE_TIMEOUT_US \in 1 .. HALF_RANGE - 1 /\ DEFAULT_ST_MIN_US \in Nat
      /\ BLOCK_SIZE \in 0 .. 255 /\ ClockStep \in 1 .. HALF_RANGE - 1
      /\ MaxLateness \in Nat /\ RECEIVE_BUF_SIZES \subseteq Nat
    BY NetworkAssumption DEF NetworkParameters, S!TimeParameters, R!ReceiveParameters
<1>5. Payloads \in Seq(Nat)
    BY NetworkAssumption DEF NetworkParameters
<1>6. Len(Payloads) \in Nat /\ DOMAIN Payloads = 1 .. Len(Payloads)
    BY <1>5, LenProperties
<1>7. \A m \in 1 .. Len(Payloads) : Payloads[m] \in Nat /\ Payloads[m] \in Range(Payloads)
    BY <1>5, <1>6, ElementOfSeq DEF Range
<1> QED BY <1>1, <1>2, <1>3, <1>4, <1>5, <1>6, <1>7, NetworkAssumption DEF NetworkParameters

LEMMA SendsSingleFrame ==
    ASSUME tx_dl = DEFAULT_TX_DL, NEW size, S!SendSingleFrame(size, "OK")
    PROVE  /\ size <= SfMaxPayload(Dl) /\ can_tx' = SingleFrame(size)
           /\ ~S!InProgress /\ ~S!InProgress'
           /\ UNCHANGED <<now, tx_dl, send_bs_remain, send_st_min_us, send_protocol_result,
                          send_status>>
BY SenderCodec
DEF S!SendSingleFrame, S!Accepts, S!InProgress, S!paramVars, S!creditVars, S!statusVars, Dl

LEMMA SendsFirstFrame ==
    ASSUME tx_dl = DEFAULT_TX_DL, NEW size \in Nat, S!SendFirstFrame(size, "OK")
    PROVE  /\ size > SfMaxPayload(Dl) /\ can_tx' = FirstFrame(size, Dl)
           /\ send_size' = size /\ send_offset' = can_tx'.n /\ send_sn' = 1
           /\ send_bs_remain' = 0 /\ send_st_min_us' = 0 /\ age_bs' = 0
           /\ send_protocol_result' = "OK" /\ send_status' = "INPROGRESS"
           /\ ~S!InProgress /\ S!InProgress'
           /\ UNCHANGED <<now, tx_dl>>
<1>1. /\ size > SfMaxPayload(Dl) /\ can_tx' = FirstFrame(size, Dl)
      /\ send_size' = size /\ send_offset' = FfDataLength(size, Dl) /\ send_sn' = 1
      /\ send_bs_remain' = 0 /\ send_st_min_us' = 0 /\ age_bs' = 0
      /\ send_protocol_result' = "OK" /\ send_status' = "INPROGRESS"
      /\ ~S!InProgress
      /\ UNCHANGED <<now, tx_dl>>
    BY SenderCodec
    DEF S!SendFirstFrame, S!Accepts, S!ResetFlow, S!paramVars, Dl
<1>2. can_tx'.n = FfDataLength(size, Dl)
    BY <1>1 DEF FirstFrame, FfDataLength
<1>3. S!InProgress'
    BY <1>1 DEF S!InProgress
<1> QED BY <1>1, <1>2, <1>3

(* A poll that sends a Consecutive Frame. *)
LEMMA SendsConsecutiveFrame ==
    ASSUME SP!IInv, tx_dl = DEFAULT_TX_DL, S!PollAccepted(0)
    PROVE  /\ S!InProgress /\ send_bs_remain # 0
           /\ send_size - send_offset \in Nat /\ send_size - send_offset > 0
           /\ can_tx' = ConsecutiveFrame(send_sn, send_size - send_offset, Dl)
           /\ send_offset' = send_offset + can_tx'.n /\ send_sn' = NextSn(send_sn)
           /\ send_bs_remain' = IF send_bs_remain = INVALID_BS THEN INVALID_BS
                                ELSE send_bs_remain - 1
           /\ age_bs' = 0
           /\ \/ send_status' = "ERROR" /\ send_protocol_result' = "TIMEOUT_BS"
              \/ /\ send_status' = IF send_offset' >= send_size THEN "IDLE" ELSE "INPROGRESS"
                 /\ UNCHANGED send_protocol_result
           /\ UNCHANGED <<now, tx_dl, send_size, send_st_min_us>>
<1>1. now \in Ticks /\ SP!TypeOK /\ SP!Segmentation
    BY SameClock DEF SP!IInv, SP!TypeOK
<1>2. now' = now
    <2>1. now' = WrapAdd(now, 0)
        BY SameClock DEF S!PollAccepted
    <2> QED BY <1>1, <2>1, WrapAddZero
<1>3. send_size - send_offset \in Nat /\ send_size - send_offset > 0
    <2>1. SP!InProgress
        BY SameSendLife DEF S!PollAccepted
    <2> QED BY <1>1, <2>1, SendConstants, SP!NextFrameData
<1>4. S!InProgress /\ send_bs_remain # 0
    <2>1. S!INVALID_BS # 0
        BY DEF S!INVALID_BS
    <2> QED BY <2>1 DEF S!PollAccepted, S!MayContinue
<1>5. /\ can_tx' = ConsecutiveFrame(send_sn, send_size - send_offset, Dl)
      /\ send_offset' = send_offset + can_tx'.n /\ send_sn' = NextSn(send_sn)
      /\ send_bs_remain' = IF send_bs_remain = INVALID_BS THEN INVALID_BS
                           ELSE send_bs_remain - 1
      /\ age_bs' = 0
      /\ UNCHANGED <<tx_dl, send_size, send_st_min_us>>
    BY SenderCodec DEF S!PollAccepted, S!paramVars, S!INVALID_BS, INVALID_BS, Dl
<1>6. \/ send_status' = "ERROR" /\ send_protocol_result' = "TIMEOUT_BS"
      \/ /\ send_status' = IF send_offset' >= send_size THEN "IDLE" ELSE "INPROGRESS"
         /\ UNCHANGED send_protocol_result
    BY DEF S!PollAccepted, S!CheckResponseTimeout, S!Finishes
<1> QED BY <1>2, <1>3, <1>4, <1>5, <1>6

(* A poll that sends nothing. *)
LEMMA SendsNothing ==
    ASSUME SP!IInv, S!PollNoSpace(0) \/ S!PollFailed(0) \/ S!PollWaiting(0)
    PROVE  /\ S!InProgress /\ can_tx' = NoFrame
           /\ ~S!PollWaiting(0) => send_bs_remain # 0
           /\ \/ send_status' = "ERROR" /\ send_protocol_result' = "TIMEOUT_BS"
              \/ UNCHANGED <<send_status, send_protocol_result>>
              \/ S!PollFailed(0) /\ send_status' = "ERROR"
           /\ age_bs' = age_bs
           /\ UNCHANGED <<now, tx_dl, send_size, send_offset, send_sn, send_bs_remain,
                          send_st_min_us>>
<1>1. now \in Ticks /\ age_bs \in Nat
    BY SameClock DEF SP!IInv, SP!TypeOK, SP!HistoryType
<1>2. PICK before \in {"INPROGRESS", "ERROR"} :
        /\ S!InProgress /\ S!PollUnsent(0, before)
        /\ before = "ERROR" => S!PollFailed(0)
        /\ ~S!PollWaiting(0) => S!MayContinue
    BY DEF S!PollNoSpace, S!PollFailed, S!PollWaiting
<1>3. now' = now
    <2>1. now' = WrapAdd(now, 0)
        BY <1>2, SameClock DEF S!PollUnsent
    <2> QED BY <1>1, <2>1, WrapAddZero
<1>4. S!MayContinue => send_bs_remain # 0
    <2>1. S!INVALID_BS # 0
        BY DEF S!INVALID_BS
    <2> QED BY <2>1 DEF S!MayContinue
<1>5. \/ send_status' = "ERROR" /\ send_protocol_result' = "TIMEOUT_BS"
      \/ send_status' = before /\ UNCHANGED send_protocol_result
    BY <1>2 DEF S!PollUnsent, S!CheckResponseTimeout
<1>6. /\ can_tx' = NoFrame /\ age_bs' = age_bs
      /\ UNCHANGED <<tx_dl, send_size, send_offset, send_sn, send_bs_remain, send_st_min_us>>
    BY <1>1, <1>2, SenderCodec
    DEF S!PollUnsent, S!paramVars, S!segmentVars, S!creditVars
<1> QED BY <1>2, <1>3, <1>4, <1>5, <1>6 DEF S!InProgress

(* A Flow Control of the receiver. *)
LEMMA ContinuesOrStops ==
    ASSUME NEW f \in BuiltFlowControls, S!OnFlowControl(f)
    PROVE  /\ S!InProgress /\ can_tx' = NoFrame /\ age_bs' = 0
           /\ UNCHANGED <<now, tx_dl, send_size, send_offset, send_sn>>
           /\ \/ f.FS = OVERFLOW /\ send_status' = "ERROR"
                 /\ UNCHANGED <<send_bs_remain, send_st_min_us>>
              \/ /\ f.FS = CONTINUE
                 /\ UNCHANGED <<send_status, send_protocol_result>>
                 /\ send_bs_remain' = IF f.BS = 0 THEN INVALID_BS ELSE f.BS
                 /\ send_st_min_us' = IF StMinToUs(f.STmin) > DEFAULT_ST_MIN_US
                                      THEN StMinToUs(f.STmin) ELSE DEFAULT_ST_MIN_US
<1>1. f.FS = CONTINUE \/ f.FS = OVERFLOW
    BY DEF BuiltFlowControls, FlowControl
<1>2. /\ S!InProgress /\ can_tx' = NoFrame /\ age_bs' = 0
      /\ UNCHANGED <<now, tx_dl, send_size, send_offset, send_sn>>
    BY SenderCodec DEF S!OnFlowControl, S!paramVars, S!segmentVars
<1>3. CASE f.FS = OVERFLOW
    <2>1. S!Overflowed
        BY <1>3 DEF S!OnFlowControl, OVERFLOW, S!OVERFLOW, S!WAIT, S!CONTINUE
    <2>2. send_status' = "ERROR" /\ UNCHANGED <<send_bs_remain, send_st_min_us>>
        BY <2>1 DEF S!Overflowed, S!creditVars
    <2> QED BY <1>2, <1>3, <2>2
<1>4. CASE f.FS = CONTINUE
    <2>1. S!Continued(f)
        BY <1>4 DEF S!OnFlowControl, CONTINUE, S!OVERFLOW, S!WAIT, S!CONTINUE
    <2>2. /\ UNCHANGED <<send_status, send_protocol_result>>
          /\ send_bs_remain' = IF f.BS = 0 THEN INVALID_BS ELSE f.BS
          /\ send_st_min_us' = IF StMinToUs(f.STmin) > DEFAULT_ST_MIN_US
                               THEN StMinToUs(f.STmin) ELSE DEFAULT_ST_MIN_US
        BY <2>1, SenderCodec DEF S!Continued, S!statusVars, S!INVALID_BS, INVALID_BS
    <2> QED BY <1>2, <1>4, <2>2
<1> QED BY <1>1, <1>3, <1>4


-----------------------------------------------------------------------------
(* What the calls of the receiver do.  It has no callback registered.       *)
LEMMA ReceiverCodec ==
    /\ R!NoFrame = NoFrame
    /\ \A f : R!SfPayloadLength(f) = SfPayloadLength(f)
    /\ \A f : R!FfPayloadLength(f) = FfPayloadLength(f)
    /\ \A f : R!FfReadLength(f) = FfReadLength(f)
    /\ \A left, dl : R!CfWanted(left, dl) = CfWanted(left, dl)
    /\ \A sn : R!NextSn(sn) = NextSn(sn)
    /\ \A f : R!FfAccepted(f) <=> FfAccepted(f)
    /\ \A fs, bs, st : R!FlowControl(fs, bs, st) = FlowControl(fs, bs, st)
<1>1. \A f : R!FfIsLong(f) <=> FfIsLong(f)
    BY DEF R!FfIsLong, FfIsLong
<1>2. \A f : R!FfPayloadLength(f) = FfPayloadLength(f)
    BY <1>1 DEF R!FfPayloadLength, FfPayloadLength
<1>3. \A u : R!PadFrame(u) = PadFrame(u)
    BY DEF R!PadFrame, R!CeilCanDl, R!CanFdFrameSizes, R!CAN_DL_CLASSIC,
           PadFrame, CeilCanDl, CanFdFrameSizes, CAN_DL_CLASSIC
<1>4. \A us : R!UsToStMin(us) = UsToStMin(us)
    BY DEF R!UsToStMin, UsToStMin
<1>5. \A fs, bs, st : R!FlowControl(fs, bs, st) = FlowControl(fs, bs, st)
    BY <1>3, <1>4 DEF R!FlowControl, FlowControl
<1>6. ASSUME NEW f PROVE R!FfAccepted(f) <=> FfAccepted(f)
    <2>1. R!SfMaxPayload(f.len) = SfMaxPayload(f.len)
        BY DEF R!SfMaxPayload, R!CAN_DL_CLASSIC, SfMaxPayload, CAN_DL_CLASSIC
    <2>2. R!IsValidCanDl(f.len) <=> IsValidCanDl(f.len)
        BY DEF R!IsValidCanDl, R!CeilCanDl, R!CanFdFrameSizes, R!CAN_DL_CLASSIC,
               IsValidCanDl, CeilCanDl, CanFdFrameSizes, CAN_DL_CLASSIC
    <2> QED BY <2>1, <2>2, <1>2 DEF R!FfAccepted, R!CAN_DL_CLASSIC, FfAccepted, CAN_DL_CLASSIC
<1> QED BY <1>1, <1>2, <1>5, <1>6
        DEF R!NoFrame, R!SfPayloadLength, R!FfReadLength, R!CfWanted, R!CfDataLength,
            R!NextSn, R!CAN_DL_CLASSIC, NoFrame, SfPayloadLength, FfReadLength, CfWanted,
            CfDataLength, NextSn, CAN_DL_CLASSIC

(* What the receiver knows about the message it is taking. *)
reception == <<rx_dl, receive_size, receive_offset, receive_sn, receive_streaming,
               message, invited, age_cr>>

(* It has just invited bs frames. *)
Invites(bs) ==
    /\ invited' = IF bs = 0 THEN INVALID_BS ELSE bs
    /\ fc_tx' = FlowControl(CONTINUE, bs, DEFAULT_ST_MIN_US)

LEMMA FlowControlInvites ==
    ASSUME NEW bs, R!SendFlowControl(R!CONTINUE, bs, TRUE)
    PROVE  Invites(bs)
<1>1. R!CONTINUE # R!OVERFLOW /\ R!CONTINUE = CONTINUE /\ R!INVALID_BS = INVALID_BS
    BY DEF R!CONTINUE, R!OVERFLOW, CONTINUE, R!INVALID_BS, INVALID_BS
<1> QED BY <1>1, ReceiverCodec DEF R!SendFlowControl, Invites

LEMMA NotifyStays ==
    ASSUME ~rx_done_cb, NEW status, R!Notify(status)
    PROVE  receive_status' = status
BY DEF R!Notify

LEMMA TakesSingleFrame ==
    ASSUME ~rx_done_cb, NEW f, R!ReceiveSingleFrame(f)
    PROVE  /\ f.type = "SF" /\ fc_tx' = NoFrame
           /\ \/ receive_protocol_result' = R!Interrupting
              \/ SfPayloadLength(f) > receive_buf_size
           /\ \/ receive_status' = "FULL" /\ ~receive_streaming' /\ message' = f.msg
              \/ UNCHANGED <<receive_status, reception>>
           /\ UNCHANGED <<now, receive_buf_size, rx_done_cb>>
<1>1. /\ f.type = "SF" /\ fc_tx' = NoFrame
      /\ UNCHANGED <<now, receive_buf_size, rx_done_cb, invited, age_cr>>
    BY ReceiverCodec
    DEF R!ReceiveSingleFrame, R!NoFlowControl, R!paramVars, R!flowVars, R!timerVars
<1>2. CASE /\ receive_streaming' = FALSE /\ message' = f.msg
           /\ receive_protocol_result' = R!Interrupting /\ R!Notify("FULL")
    BY <1>1, <1>2, NotifyStays
<1>3. CASE /\ \/ receive_protocol_result' = R!Interrupting
              \/ SfPayloadLength(f) > receive_buf_size
           /\ UNCHANGED <<R!bufferVars, R!streamVars, R!messageVars>>
           /\ R!Notify(receive_status)
    <2>1. receive_status' = receive_status
        BY <1>3, NotifyStays
    <2> QED BY <1>1, <1>3, <2>1 DEF R!bufferVars, R!streamVars, R!messageVars, reception
<1> QED BY <1>2, <1>3, ReceiverCodec DEF R!ReceiveSingleFrame

LEMMA TakesFirstFrame ==
    ASSUME RP!TypeOK, ~rx_done_cb, receive_buf_size # 0,
           NEW f, FfAccepted(f), R!ReceiveFirstFrame(f, TRUE)
    PROVE  /\ f.type = "FF" /\ message' = f.msg
           /\ receive_size' = FfPayloadLength(f) /\ receive_offset' = FfReadLength(f)
           /\ receive_sn' = 1 /\ rx_dl' = f.len
           /\ receive_protocol_result' = R!Interrupting /\ age_cr' = 0
           /\ \/ /\ receive_status' = "FULL" /\ receive_streaming'
                 /\ invited' = 0 /\ fc_tx' = NoFrame
              \/ /\ receive_status' = "INPROGRESS"
                 /\ Invites(1) \/ Invites(BLOCK_SIZE)
           /\ UNCHANGED <<now, receive_buf_size, rx_done_cb>>
<1>1. /\ f.type = "FF" /\ UNCHANGED <<now, receive_buf_size, rx_done_cb>>
    BY DEF R!ReceiveFirstFrame, R!paramVars
<1>2. R!FfAccepted(f) /\ ~R!FfOverflows(f)
    BY ReceiverCodec DEF R!FfOverflows
<1>3. /\ R!StoreFirstFrame(f)
      /\ receive_protocol_result' = R!Interrupting
      /\ message' = f.msg
      /\ R!StartTimer
      /\ IF receive_streaming' /\ receive_stream_size' >= receive_buf_size
         THEN R!NoFlowControl /\ invited' = 0 /\ R!Notify("FULL")
         ELSE /\ receive_bs_count' = R!Block
              /\ R!SendFlowControl(R!CONTINUE, receive_bs_count', TRUE)
              /\ R!Notify("INPROGRESS")
    BY <1>2 DEF R!ReceiveFirstFrame
<1>4. /\ receive_size' = FfPayloadLength(f) /\ receive_offset' = FfReadLength(f)
      /\ receive_sn' = 1 /\ rx_dl' = f.len
    BY <1>3, ReceiverCodec DEF R!StoreFirstFrame
<1>5. age_cr' = 0
    BY <1>3 DEF R!StartTimer
<1>6. CASE receive_streaming' /\ receive_stream_size' >= receive_buf_size
    <2>1. R!NoFlowControl /\ invited' = 0 /\ receive_status' = "FULL"
        BY <1>3, <1>6, NotifyStays
    <2>2. fc_tx' = NoFrame
        BY <2>1, ReceiverCodec DEF R!NoFlowControl
    <2> QED BY <1>1, <1>3, <1>4, <1>5, <1>6, <2>1, <2>2
<1>7. CASE ~(receive_streaming' /\ receive_stream_size' >= receive_buf_size)
    <2>1. receive_status' = "INPROGRESS" /\ Invites(receive_bs_count')
        BY <1>3, <1>7, NotifyStays, FlowControlInvites
    <2>2. receive_bs_count' = 1 \/ receive_bs_count' = BLOCK_SIZE
        BY <1>3, <1>7 DEF R!Block
    <2>3. Invites(1) \/ Invites(BLOCK_SIZE)
        BY <2>1, <2>2
    <2> QED BY <1>1, <1>3, <1>4, <1>5, <2>1, <2>3
<1> QED BY <1>6, <1>7


(* A Consecutive Frame that is the expected one. *)
Takes(f) ==
    LET n == CfWanted(receive_size - receive_offset, rx_dl)
    IN  /\ R!Receiving /\ receive_sn = f.SN /\ n <= f.len - 1
        /\ receive_offset' = receive_offset + n
        /\ receive_sn' = NextSn(receive_sn) /\ age_cr' = 0
        /\ UNCHANGED <<rx_dl, receive_size, receive_streaming, message, receive_protocol_result>>
        /\ \/ /\ receive_status' = "FULL" /\ fc_tx' = NoFrame
              /\ receive_offset' >= receive_size \/ receive_streaming
              /\ invited' = IF invited = INVALID_BS THEN invited ELSE invited - 1
           \/ /\ receive_status' = "INPROGRESS" /\ receive_offset' < receive_size
              /\ \/ /\ fc_tx' = NoFrame /\ receive_bs_count # 1
                    /\ invited' = IF invited = INVALID_BS THEN invited ELSE invited - 1
                 \/ /\ (receive_bs_count - 1) % 256 = 0
                    /\ Invites(1) \/ Invites(BLOCK_SIZE)

Refuses(f) ==
    /\ fc_tx' = NoFrame
    /\ UNCHANGED reception
    /\ \/ R!Receiving /\ receive_sn # f.SN /\ receive_status' = "IDLE"
       \/ /\ R!Receiving /\ CfWanted(receive_size - receive_offset, rx_dl) > f.len - 1
          /\ receive_sn = f.SN
          /\ UNCHANGED <<receive_status, receive_protocol_result>>
       \/ ~R!Receiving /\ UNCHANGED receive_status

LEMMA TakesConsecutiveFrame ==
    ASSUME RP!IInv, ~rx_done_cb, NEW f, R!FrameType(f), R!ReceiveConsecutiveFrame(f, TRUE)
    PROVE  /\ f.type = "CF" /\ (Takes(f) \/ Refuses(f))
           /\ UNCHANGED <<now, receive_buf_size, rx_done_cb>>
<1> DEFINE n == CfWanted(receive_size - receive_offset, rx_dl)
<1>0. /\ f.type = "CF" /\ UNCHANGED <<now, receive_buf_size, rx_done_cb>>
    BY DEF R!ReceiveConsecutiveFrame, R!paramVars
<1>t. /\ receive_bs_count \in 0 .. 255 /\ receive_size \in Nat /\ receive_offset \in Nat
      /\ rx_dl \in 0 .. 255 /\ f.len \in 0 .. 255
    BY DEF RP!IInv, RP!TypeOK, RP!FlowType, RP!BufferType, R!FrameType
<1>n. n \in Int
    BY <1>t DEF CfWanted, CfDataLength, CAN_DL_CLASSIC
<1>1. CASE /\ R!Receiving /\ R!InSequence(f) /\ n <= f.len - 1
           /\ receive_offset' = receive_offset + n
           /\ receive_sn' = NextSn(receive_sn)
           /\ R!StartTimer
           /\ UNCHANGED <<rx_dl, receive_size, receive_streaming, receive_protocol_result,
                          R!messageVars>>
           /\ IF R!ChunkReady
              THEN R!NoFlowControl /\ R!Used /\ R!Notify("FULL")
              ELSE R!CountBlock(TRUE) /\ R!Notify("INPROGRESS")
    <2>1. /\ R!Receiving /\ receive_sn = f.SN /\ n <= f.len - 1
          /\ receive_offset' = receive_offset + n
          /\ receive_sn' = NextSn(receive_sn) /\ age_cr' = 0
          /\ UNCHANGED <<rx_dl, receive_size, receive_streaming, message,
                         receive_protocol_result>>
        BY <1>1 DEF R!InSequence, R!StartTimer, R!messageVars
    <2>2. CASE R!ChunkReady
        <3>1. R!NoFlowControl /\ R!Used /\ receive_status' = "FULL"
            BY <1>1, <2>2, NotifyStays
        <3>2. /\ fc_tx' = NoFrame
              /\ invited' = IF invited = INVALID_BS THEN invited ELSE invited - 1
            BY <3>1, ReceiverCodec DEF R!NoFlowControl, R!Used, R!INVALID_BS, INVALID_BS
        <3>3. receive_offset' >= receive_size \/ receive_streaming
            BY <1>1, <2>2 DEF R!ChunkReady
        <3> QED BY <1>0, <2>1, <3>1, <3>2, <3>3 DEF Takes
    <2>3. CASE ~R!ChunkReady
        <3>1. R!CountBlock(TRUE) /\ receive_status' = "INPROGRESS"
            BY <1>1, <2>3, NotifyStays
        <3>2. receive_offset' < receive_size
            BY <2>1, <2>3, <1>t, <1>n DEF R!ChunkReady
        <3>3. CASE (receive_bs_count - 1) % 256 = 0
            <4>1. Invites(R!Block)
                BY <3>1, <3>3, FlowControlInvites DEF R!CountBlock
            <4>2. Invites(1) \/ Invites(BLOCK_SIZE)
                BY <4>1 DEF R!Block
            <4> QED BY <1>0, <2>1, <3>1, <3>2, <3>3, <4>2 DEF Takes
        <3>4. CASE (receive_bs_count - 1) % 256 # 0
            <4>1. R!NoFlowControl /\ R!Used
                BY <3>1, <3>4 DEF R!CountBlock
            <4>2. /\ fc_tx' = NoFrame
                  /\ invited' = IF invited = INVALID_BS THEN invited ELSE invited - 1
                BY <4>1, ReceiverCodec DEF R!NoFlowControl, R!Used, R!INVALID_BS, INVALID_BS
            <4>3. receive_bs_count # 1
                BY <3>4
            <4> QED BY <1>0, <2>1, <3>1, <3>2, <4>2, <4>3 DEF Takes
        <3> QED BY <3>3, <3>4
    <2> QED BY <2>2, <2>3
<1>2. CASE /\ R!NoFlowControl
           /\ UNCHANGED <<R!bufferVars, R!streamVars, R!messageVars, R!timerVars, R!flowVars>>
           /\ \/ /\ R!Receiving /\ R!InSequence(f) /\ n > f.len - 1
                 /\ UNCHANGED receive_protocol_result /\ R!Notify("INPROGRESS")
              \/ R!Receiving /\ ~R!InSequence(f) /\ R!Notify("IDLE")
              \/ ~R!Receiving /\ R!Notify(receive_status)
    <2>1. UNCHANGED reception /\ fc_tx' = NoFrame
        BY <1>2, ReceiverCodec
        DEF R!NoFlowControl, R!bufferVars, R!streamVars, R!messageVars, R!timerVars,
            R!flowVars, reception
    <2>2. \/ R!Receiving /\ receive_sn # f.SN /\ receive_status' = "IDLE"
          \/ /\ R!Receiving /\ n > f.len - 1 /\ receive_sn = f.SN
             /\ UNCHANGED <<receive_status, receive_protocol_result>>
          \/ ~R!Receiving /\ UNCHANGED receive_status
        BY <1>2, NotifyStays DEF R!InSequence, R!Receiving
    <2> QED BY <1>0, <2>1, <2>2 DEF Refuses
<1> QED BY <1>1, <1>2, ReceiverCodec DEF R!ReceiveConsecutiveFrame

(* The application takes a complete message, the last chunk of a streamed   *)
(* one, a chunk behind which the carry refills the buffer, or one after     *)
(* which the next frame is invited.                                         *)
LEMMA TakesData ==
    ASSUME RP!IInv, NEW size, R!Receive(size) \/ R!ReceiveStreaming(size, TRUE)
    PROVE  /\ receive_status = "FULL"
           /\ \/ /\ receive_status' = "IDLE" /\ fc_tx' = NoFrame
                 /\ ~receive_streaming \/ receive_offset >= receive_size
              \/ /\ receive_status' = "FULL" /\ fc_tx' = NoFrame
                 /\ receive_streaming /\ receive_streaming'
                 /\ UNCHANGED <<invited, age_cr>>
              \/ /\ receive_status' = "INPROGRESS" /\ Invites(1)
                 /\ receive_streaming /\ receive_streaming'
                 /\ receive_offset < receive_size /\ age_cr' = 0
           /\ UNCHANGED <<now, receive_buf_size, rx_done_cb, rx_dl, receive_size, receive_offset,
                          receive_sn, message, receive_protocol_result>>
<1>1. CASE R!Receive(size)
    BY <1>1, ReceiverCodec
    DEF R!Receive, R!paramVars, R!bufferVars, R!streamVars, R!flowVars, R!timerVars,
        R!messageVars
<1>2. CASE R!ReceiveStreaming(size, TRUE)
    <2>1. /\ receive_status = "FULL"
          /\ UNCHANGED <<now, receive_buf_size, rx_done_cb, rx_dl, receive_size, receive_offset,
                         receive_sn, receive_protocol_result>>
        BY <1>2 DEF R!ReceiveStreaming, R!paramVars
    <2>2. CASE ~receive_streaming \/ R!LastChunk
        <3>1. receive_status' = "IDLE" /\ R!NoFlowControl /\ UNCHANGED R!messageVars
            BY <1>2, <2>2 DEF R!ReceiveStreaming
        <3>2. ~receive_streaming \/ receive_offset >= receive_size
            BY <2>2 DEF R!LastChunk
        <3> QED BY <2>1, <3>1, <3>2, ReceiverCodec DEF R!NoFlowControl, R!messageVars
    <2>3. CASE receive_streaming /\ ~R!LastChunk
        <3>1. /\ IF receive_stream_carry_size' > 0 \/ receive_offset >= receive_size
                 THEN /\ receive_status' = "FULL"
                      /\ R!NoFlowControl
                      /\ UNCHANGED <<R!flowVars, R!timerVars>>
                 ELSE /\ receive_status' = "INPROGRESS"
                      /\ R!SendFlowControl(R!CONTINUE, 1, TRUE)
                      /\ R!StartTimer
              /\ UNCHANGED <<receive_streaming, message>>
            BY <1>2, <2>3 DEF R!ReceiveStreaming
        <3>2. CASE receive_stream_carry_size' > 0 \/ receive_offset >= receive_size
            BY <2>1, <2>3, <3>1, <3>2, ReceiverCodec
            DEF R!NoFlowControl, R!flowVars, R!timerVars
        <3>3. CASE ~(receive_stream_carry_size' > 0 \/ receive_offset >= receive_size)
            <4>1. receive_size \in Nat /\ receive_offset \in Nat
                BY DEF RP!IInv, RP!TypeOK, RP!BufferType
            <4>2. receive_offset < receive_size
                BY <3>3, <4>1
            <4>3. receive_status' = "INPROGRESS" /\ Invites(1) /\ age_cr' = 0
                BY <3>1, <3>3, FlowControlInvites DEF R!StartTimer
            <4> QED BY <2>1, <2>3, <3>1, <4>2, <4>3
        <3> QED BY <3>2, <3>3
    <2> QED BY <2>2, <2>3
<1> QED BY <1>1, <1>2

LEMMA ReceiverTimesOut ==
    ASSUME R!PollTimesOut
    PROVE  /\ R!Receiving /\ receive_status' = "IDLE" /\ fc_tx' = NoFrame
           /\ receive_protocol_result' = "TIMEOUT_CR"
           /\ UNCHANGED <<now, receive_buf_size, rx_done_cb, reception>>
BY ReceiverCodec
DEF R!PollTimesOut, R!paramVars, R!bufferVars, R!streamVars, R!flowVars, R!timerVars,
    R!messageVars, reception


-----------------------------------------------------------------------------
(* Whatever the faults: the inductive invariant of the two halves and of    *)
(* the frames between them.                                                 *)

(* A frame the sender has built for one of the first count payloads.        *)
FrameOf(f, count) ==
    /\ f.msg \in 1 .. count /\ R!FrameType(f) /\ f.type \in {"SF", "FF", "CF"}
    /\ f.type = "SF" => /\ SfPayloadLength(f) = Payloads[f.msg]
                        /\ Payloads[f.msg] <= SfMaxPayload(Dl)
                        /\ f.n = Payloads[f.msg] /\ f.at = 0
    /\ f.type = "FF" => /\ FfAccepted(f) /\ f.len = Dl
                        /\ FfPayloadLength(f) = Payloads[f.msg]
                        /\ FfReadLength(f) = f.n /\ f.at = 0
    /\ f.type = "CF" => /\ f.n = CfWanted(Payloads[f.msg] - f.at, Dl)
                        /\ f.n > 0 /\ f.n <= f.len - 1 /\ f.at + f.n <= Payloads[f.msg]

DataFrame(f) == FrameOf(f, sent)

Frame(i)  == to_receiver[i].frame
Answer(i) == to_sender[i].frame

BusInv ==
    /\ Channel(to_receiver) /\ Channel(to_sender)
    /\ \A i \in 1 .. Len(to_receiver) : DataFrame(Frame(i))
    /\ \A i \in 1 .. Len(to_sender) : Answer(i) \in BuiltFlowControls

SenderInv ==
    /\ SP!IInv
    /\ tx_dl = DEFAULT_TX_DL
    /\ sent \in 0 .. Len(Payloads)
    /\ S!InProgress => sent > 0 /\ send_size = Payloads[sent]

(* A message the receiver is not done with.                                 *)
Live == R!Receiving \/ Holding

ReceiverInv ==
    /\ RP!IInv
    /\ rx_done_cb = FALSE /\ receive_buf_size \in RECEIVE_BUF_SIZES
    /\ message \in 0 .. sent
    /\ Live => message > 0 /\ receive_size = Payloads[message] /\ rx_dl = Dl

FaultKinds == {"lost", "repeated", "failed", "sender restarts", "receiver restarts"}

NetworkInv == SenderInv /\ ReceiverInv /\ BusInv /\ faults \in Seq(FaultKinds)

(* The clock, whoever moves it.                                             *)
LEMMA TicksMove ==
    ASSUME now \in Ticks
    PROVE  WrapAdd(now, ClockStep) \in Ticks
<1>1. ClockStep \in Ticks
    BY NetworkAssumption, ZeroIsTick DEF NetworkParameters, S!TimeParameters
<1> QED BY <1>1, WrapType

LEMMA ReceiverKeepsClock ==
    ASSUME \/ \E f : R!OnCanMessage(f, TRUE)
           \/ \E size : R!Receive(size) \/ R!ReceiveStreaming(size, TRUE) \/ R!InitLink(size)
           \/ R!PollTimesOut
    PROVE  UNCHANGED now
<1>1. ASSUME NEW f, R!OnCanMessage(f, TRUE) PROVE UNCHANGED now
    BY <1>1 DEF R!OnCanMessage, R!ReceiveSingleFrame, R!ReceiveFirstFrame,
                R!ReceiveConsecutiveFrame
<1>2. ASSUME NEW size, R!Receive(size) \/ R!ReceiveStreaming(size, TRUE) \/ R!InitLink(size)
      PROVE  UNCHANGED now
    BY <1>2 DEF R!Receive, R!ReceiveStreaming, R!InitLink, R!Reset
<1> QED BY <1>1, <1>2 DEF R!PollTimesOut

(* What a step of the network is to the sender: one of its own, or time.    *)
SenderRestsInTime ==
    UNCHANGED sender /\ now' \in Ticks /\ (S!InProgress => UNCHANGED now)

SenderMoves ==
    \/ SendPayload
    \/ UNCHANGED sent /\ (S!PollAccepted(0) \/ S!PollNoSpace(0) \/ S!PollFailed(0)
                          \/ S!PollWaiting(0))
    \/ UNCHANGED sent /\ \E f \in BuiltFlowControls : S!OnFlowControl(f)
    \/ UNCHANGED sent /\ S!InitLink
    \/ UNCHANGED sent /\ S!Tick
    \/ UNCHANGED sent /\ SenderRestsInTime

LEMMA SenderSteps ==
    ASSUME NetworkInv, Next
    PROVE  SenderMoves
<1>0. now \in Ticks
    BY SameClock DEF NetworkInv, SenderInv, SP!IInv, SP!TypeOK
<1> USE DEF SenderMoves
<1>1. CASE SendPayload
    BY <1>1
<1>2. CASE SenderPolls
    BY <1>2 DEF SenderPolls
<1>3. CASE SenderTakesFrame
    <2>1. to_sender # << >> => Head(to_sender).frame \in BuiltFlowControls
        <3>1. to_sender # << >> => Head(to_sender) = to_sender[1] /\ 1 \in 1 .. Len(to_sender)
            BY ChannelFrames DEF NetworkInv, BusInv
        <3> QED BY <3>1 DEF NetworkInv, BusInv, Answer
    <2> QED BY <1>0, <1>3, <2>1 DEF SenderTakesFrame, SenderRests, SenderRestsInTime
<1>4. CASE ReceiverTakesFrame \/ ReceiverPolls \/ ReceiverTakesData \/ ReceiverRestarts
    <2>1. UNCHANGED now
        BY <1>4, ReceiverKeepsClock
        DEF ReceiverTakesFrame, ReceiverPolls, ReceiverTakesData, ReceiverRestarts
    <2> QED BY <1>0, <1>4, <2>1
            DEF ReceiverTakesFrame, ReceiverPolls, ReceiverTakesData, ReceiverRestarts,
                SenderRests, SenderRestsInTime
<1>5. CASE DataLost \/ FlowControlLost \/ ConsecutiveFrameRepeated
    BY <1>0, <1>5 DEF DataLost, FlowControlLost, ConsecutiveFrameRepeated, SenderRests,
                      SenderRestsInTime
<1>6. CASE DriverFails \/ SenderRestarts
    BY <1>6 DEF DriverFails, SenderRestarts
<1>7. CASE Tick
    <2>1. now' \in Ticks
        BY <1>0, <1>7, TicksMove DEF Tick
    <2> QED BY <1>7, <2>1 DEF Tick, SenderRests, SenderRestsInTime
<1> QED BY <1>1, <1>2, <1>3, <1>4, <1>5, <1>6, <1>7 DEF Next

LEMMA SenderResting ==
    ASSUME SP!IInv, SenderRestsInTime
    PROVE  SP!IInv'
<1>0. SP!TypeOK /\ SP!Segmentation /\ SP!CreditRespected
    BY DEF SP!IInv
<1>1. /\ UNCHANGED <<tx_dl, send_buf_size, tx_done_cb, send_size, send_offset, send_sn,
                     send_bs_remain, send_st_min_us, send_wtf_count, send_timer_st,
                     send_timer_bs, send_protocol_result, send_status>>
      /\ UNCHANGED <<cfs, grant, asked, block, waits, completions, age_bs, age_st>>
      /\ now' \in SP!Ticks
    BY SameClock DEF SenderRestsInTime, sender
<1>2. SP!ParamType' /\ SP!SegmentType' /\ SP!CreditType'
    BY <1>0, <1>1 DEF SP!TypeOK, SP!ParamType, SP!SegmentType, SP!CreditType, SP!Ticks
<1>3. SP!TimerType' /\ SP!StatusType' /\ SP!HistoryType'
    BY <1>0, <1>1 DEF SP!TypeOK, SP!TimerType, SP!StatusType, SP!HistoryType, SP!Ticks
<1>4. SP!InProgress' => SP!InProgress
    BY <1>1 DEF SP!InProgress
<1>5. SP!Segmentation'
    BY <1>0, <1>1, <1>4, SendConstants, SP!SegmentationStable DEF SP!segmentVars
<1>6. SP!CreditRespected'
    BY <1>0, <1>1, <1>4, SendConstants, SP!CreditStable
<1> QED BY <1>1, <1>2, <1>3, <1>5, <1>6 DEF SP!IInv, SP!TypeOK

LEMMA SenderStep ==
    ASSUME NetworkInv, SenderMoves
    PROVE  SenderInv'
<1>0. /\ SP!IInv /\ SP!TypeOK /\ SP!Segmentation /\ SP!CreditRespected
      /\ tx_dl = DEFAULT_TX_DL /\ sent \in 0 .. Len(Payloads)
      /\ S!InProgress => sent > 0 /\ send_size = Payloads[sent]
    BY DEF NetworkInv, SenderInv, SP!IInv
<1>1. CASE SendPayload
    <2>1. sent' = sent + 1 /\ sent' \in 1 .. Len(Payloads)
        BY <1>0, <1>1, NetworkConstants DEF SendPayload
    <2>2. PICK size : size = Payloads[sent'] /\ size \in Nat /\ size \in Range(Payloads)
        BY <2>1, NetworkConstants
    <2>3. CASE S!SendSingleFrame(size, "OK")
        <3>1. SP!SendSingleFrame(size, "OK")
            BY <2>3, SameSend
        <3>2. SP!TypeOK'
            BY <1>0, <2>2, <3>1, SendConstants, SP!SendSingleFrameType
        <3>3. ~SP!InProgress'
            BY <2>2, <3>1, SendConstants, SP!SendSingleFrameStep
        <3>4. SP!Segmentation' /\ SP!CreditRespected'
            BY <3>3, SendConstants, SP!Idle
        <3>5. tx_dl' = DEFAULT_TX_DL /\ ~S!InProgress'
            BY <1>0, <2>3, SendsSingleFrame
        <3> QED BY <2>1, <3>2, <3>4, <3>5 DEF SenderInv, SP!IInv
    <2>4. CASE S!SendFirstFrame(size, "OK")
        <3>1. SP!SendFirstFrame(size, "OK")
            BY <2>4, SameSend
        <3>2. SP!TypeOK'
            BY <1>0, <2>2, <3>1, SendConstants, SP!SendFirstFrameType
        <3>3. SP!Segmentation' /\ SP!CreditRespected'
            BY <1>0, <2>2, <3>1, SendConstants, SP!SendFirstFrameStep
        <3>4. tx_dl' = DEFAULT_TX_DL /\ send_size' = size
            BY <1>0, <2>2, <2>4, SendsFirstFrame
        <3> QED BY <2>1, <2>2, <3>2, <3>3, <3>4 DEF SenderInv, SP!IInv
    <2> QED BY <1>1, <2>2, <2>3, <2>4 DEF SendPayload
<1>2. CASE UNCHANGED sent /\ S!PollAccepted(0)
    <2>1. SP!PollAccepted(0) /\ 0 \in {0}
        BY <1>2, SamePoll
    <2>2. SP!TypeOK'
        BY <1>0, <2>1, SendConstants, SP!PollAcceptedType
    <2>3. SP!Segmentation'
        BY <1>0, <2>1, SendConstants, SP!PollAcceptedSegmentation
    <2>4. SP!CreditRespected'
        BY <1>0, <2>1, SendConstants, SP!PollAcceptedCredit
    <2>5. S!InProgress /\ tx_dl' = DEFAULT_TX_DL /\ send_size' = send_size
        BY <1>0, <1>2, SendsConsecutiveFrame
    <2> QED BY <1>0, <1>2, <2>2, <2>3, <2>4, <2>5 DEF SenderInv, SP!IInv
<1>3. CASE UNCHANGED sent /\ (S!PollNoSpace(0) \/ S!PollFailed(0) \/ S!PollWaiting(0))
    <2>1. PICK before \in {"INPROGRESS", "ERROR"} : SP!PollUnsent(0, before)
        BY <1>3, SamePoll DEF SP!PollNoSpace, SP!PollFailed, SP!PollWaiting
    <2>2. SP!TypeOK'
        BY <1>0, <2>1, SendConstants, SP!PollUnsentType
    <2>3. S!InProgress /\ UNCHANGED <<tx_dl, send_size>>
        BY <1>0, <1>3, SendsNothing
    <2>4. SP!InProgress
        BY <2>3, SameSendLife
    <2>5. UNCHANGED <<tx_dl, send_buf_size, SP!segmentVars, send_bs_remain, cfs, grant, block>>
        BY <2>1 DEF SP!PollUnsent, SP!paramVars, SP!creditVars, SP!historyVars
    <2>6. SP!Segmentation'
        BY <1>0, <2>4, <2>5, SendConstants, SP!SegmentationStable
    <2>7. SP!CreditRespected'
        BY <1>0, <2>4, <2>5, SendConstants, SP!CreditStable
    <2> QED BY <1>0, <1>3, <2>2, <2>3, <2>6, <2>7 DEF SenderInv, SP!IInv
<1>4. CASE UNCHANGED sent /\ \E f \in BuiltFlowControls : S!OnFlowControl(f)
    <2>1. PICK f \in BuiltFlowControls : S!OnFlowControl(f)
        BY <1>4
    <2>2. SP!OnFlowControl(f)
        BY <2>1, SameFlowControl
    <2>3. SP!TypeOK'
        BY <1>0, <2>2, SendConstants, SP!OnFlowControlType
    <2>4. SP!Segmentation' /\ SP!CreditRespected'
        BY <1>0, <2>2, SendConstants, SP!OnFlowControlStep
    <2>5. S!InProgress /\ UNCHANGED <<tx_dl, send_size>>
        BY <2>1, ContinuesOrStops
    <2> QED BY <1>0, <1>4, <2>3, <2>4, <2>5 DEF SenderInv, SP!IInv
<1>5. CASE UNCHANGED sent /\ S!InitLink
    <2>1. SP!TypeOK' /\ ~SP!InProgress'
        BY <1>0, <1>5, SameSendLife, SendConstants, SP!LifeType
    <2>2. SP!Segmentation' /\ SP!CreditRespected'
        BY <2>1, SendConstants, SP!Idle
    <2>3. tx_dl' = DEFAULT_TX_DL /\ ~S!InProgress'
        BY <1>5 DEF S!InitLink, S!Clear, S!InProgress
    <2> QED BY <1>0, <1>5, <2>1, <2>2, <2>3 DEF SenderInv, SP!IInv
<1>6. CASE UNCHANGED sent /\ S!Tick
    <2>1. SP!Tick
        BY <1>6, SameSendLife
    <2>2. SP!TypeOK'
        BY <1>0, <2>1, SendConstants, SP!TickType
    <2>3. /\ UNCHANGED <<tx_dl, send_buf_size, SP!segmentVars, send_bs_remain, cfs, grant, block,
                         send_status>>
          /\ UNCHANGED send_size
        BY <2>1 DEF SP!Tick, SP!linkVars, SP!paramVars, SP!segmentVars, SP!creditVars,
                    SP!historyVars, SP!statusVars
    <2>4. (SP!InProgress' => SP!InProgress) /\ (S!InProgress' => S!InProgress)
        BY <2>3 DEF SP!InProgress, S!InProgress
    <2>5. SP!Segmentation'
        BY <1>0, <2>3, <2>4, SendConstants, SP!SegmentationStable
    <2>6. SP!CreditRespected'
        BY <1>0, <2>3, <2>4, SendConstants, SP!CreditStable
    <2> QED BY <1>0, <1>6, <2>2, <2>3, <2>4, <2>5, <2>6 DEF SenderInv, SP!IInv
<1>7. CASE UNCHANGED sent /\ SenderRestsInTime
    <2>1. SP!IInv'
        BY <1>0, <1>7, SenderResting
    <2>2. UNCHANGED <<tx_dl, send_size, send_status>>
        BY <1>7 DEF SenderRestsInTime, sender
    <2> QED BY <1>0, <1>7, <2>1, <2>2 DEF SenderInv, S!InProgress
<1> QED BY <1>1, <1>2, <1>3, <1>4, <1>5, <1>6, <1>7 DEF SenderMoves


(* What a step of the network is to the receiver.                           *)
ReceiverRestsInTime ==
    UNCHANGED receiver /\ now' \in Ticks /\ (R!Receiving => UNCHANGED now)

ReceiverMoves ==
    \/ \E f : DataFrame(f) /\ R!OnCanMessage(f, TRUE)
    \/ \E size : R!Receive(size) \/ R!ReceiveStreaming(size, TRUE)
    \/ R!PollTimesOut
    \/ R!InitLink(receive_buf_size)
    \/ R!Tick
    \/ ReceiverRestsInTime /\ fc_tx' = NoFrame

(* Calls of the sender read the clock and leave it alone.                   *)
LEMMA SenderKeepsClock ==
    ASSUME NetworkInv, SendPayload \/ SenderPolls \/ SenderTakesFrame \/ DriverFails
                       \/ SenderRestarts
    PROVE  UNCHANGED now
<1>1. SP!IInv /\ tx_dl = DEFAULT_TX_DL
    BY DEF NetworkInv, SenderInv
<1>2. S!PollAccepted(0) => UNCHANGED now
    BY <1>1, SendsConsecutiveFrame
<1>3. S!PollNoSpace(0) \/ S!PollFailed(0) \/ S!PollWaiting(0) => UNCHANGED now
    BY <1>1, SendsNothing
<1> QED BY <1>2, <1>3
        DEF SendPayload, SenderPolls, SenderTakesFrame, DriverFails, SenderRestarts,
            S!SendSingleFrame, S!SendFirstFrame, S!OnFlowControl, S!InitLink

LEMMA ReceiverSteps ==
    ASSUME NetworkInv, Next
    PROVE  ReceiverMoves
<1>0. now \in Ticks
    BY SameClock DEF NetworkInv, SenderInv, SP!IInv, SP!TypeOK
<1>r. ReceiverRests /\ now' \in Ticks /\ (R!Receiving => UNCHANGED now) =>
          ReceiverRestsInTime /\ fc_tx' = NoFrame
    BY ReceiverCodec DEF ReceiverRests, ReceiverRestsInTime
<1> USE DEF ReceiverMoves
<1>1. CASE SendPayload \/ SenderPolls \/ SenderTakesFrame \/ DriverFails \/ SenderRestarts
    <2>1. UNCHANGED now
        BY <1>1, SenderKeepsClock
    <2>2. ReceiverRests
        BY <1>1 DEF SendPayload, SenderPolls, SenderTakesFrame, DriverFails, SenderRestarts
    <2> QED BY <1>0, <1>r, <2>1, <2>2
<1>2. CASE ReceiverTakesFrame
    <2>1. to_receiver # << >> /\ R!OnCanMessage(Head(to_receiver).frame, TRUE)
        BY <1>2 DEF ReceiverTakesFrame
    <2>2. Head(to_receiver) = to_receiver[1] /\ 1 \in 1 .. Len(to_receiver)
        BY <2>1, ChannelFrames DEF NetworkInv, BusInv
    <2>3. DataFrame(Head(to_receiver).frame)
        BY <2>2 DEF NetworkInv, BusInv, Frame
    <2> QED BY <2>1, <2>3
<1>3. CASE ReceiverPolls
    BY <1>3 DEF ReceiverPolls
<1>4. CASE ReceiverTakesData
    BY <1>4 DEF ReceiverTakesData
<1>5. CASE DataLost \/ FlowControlLost \/ ConsecutiveFrameRepeated
    BY <1>0, <1>5, <1>r DEF DataLost, FlowControlLost, ConsecutiveFrameRepeated
<1>6. CASE ReceiverRestarts
    BY <1>6 DEF ReceiverRestarts
<1>7. CASE Tick
    <2>1. now' \in Ticks
        BY <1>0, <1>7, TicksMove DEF Tick
    <2> QED BY <1>7, <1>r, <2>1 DEF Tick
<1> QED BY <1>1, <1>2, <1>3, <1>4, <1>5, <1>6, <1>7 DEF Next

LEMMA ReceiverResting ==
    ASSUME RP!IInv, ReceiverRestsInTime
    PROVE  RP!IInv'
<1>0. RP!TypeOK
    BY DEF RP!IInv
<1>1. UNCHANGED <<receive_buf_size, rx_done_cb, RP!bufferVars, RP!streamVars,
                  RP!flowVars, RP!timerVars, RP!recvStatusVars, RP!messageVars>>
    BY DEF ReceiverRestsInTime, receiver, RP!bufferVars, RP!streamVars, RP!flowVars,
           RP!timerVars, RP!recvStatusVars, RP!messageVars
<1>2. /\ RP!BufferType' /\ RP!StreamType' /\ RP!FlowType' /\ RP!StatusType'
      /\ RP!MessageType'
    BY <1>0, <1>1, ReceiveConstants, RP!Unchanged
<1>3. now' \in RP!Ticks
    BY SameClock DEF ReceiverRestsInTime, Ticks, RP!Ticks
<1>4. RP!ClockType'
    BY <1>0, <1>1, <1>3 DEF RP!TypeOK, RP!ClockType, RP!timerVars, RP!Ticks
<1>5. RP!TypeOK'
    BY <1>2, <1>4 DEF RP!TypeOK
<1>6. RP!Resting
    BY <1>1 DEF RP!Resting, RP!recvStatusVars
<1> QED BY <1>5, <1>6, ReceiveConstants, RP!RestingStep

(* A link without a receive buffer refuses every segmented message.         *)
LEMMA OverflowsFirstFrame ==
    ASSUME ~rx_done_cb, receive_buf_size = 0, NEW f, FfAccepted(f), R!ReceiveFirstFrame(f, TRUE)
    PROVE  /\ receive_status' = "IDLE" /\ fc_tx' = FlowControl(OVERFLOW, 0, 0)
           /\ UNCHANGED <<receive_buf_size, rx_done_cb, message>>
<1>1. R!FfAccepted(f) /\ R!FfOverflows(f)
    BY ReceiverCodec DEF R!FfOverflows
<1>2. /\ R!SendFlowControl(R!OVERFLOW, 0, TRUE) /\ UNCHANGED R!messageVars
      /\ R!Notify("IDLE") /\ UNCHANGED R!paramVars
    BY <1>1 DEF R!ReceiveFirstFrame
<1>3. receive_status' = "IDLE"
    BY <1>2, NotifyStays
<1>4. fc_tx' = FlowControl(OVERFLOW, 0, 0)
    <2>1. R!OVERFLOW = OVERFLOW
        BY DEF R!OVERFLOW, OVERFLOW
    <2> QED BY <1>2, <2>1, ReceiverCodec DEF R!SendFlowControl
<1> QED BY <1>2, <1>3, <1>4 DEF R!messageVars, R!paramVars

(* The Flow Control a step may send.                                        *)
LEMMA InvitesBuilt ==
    /\ Invites(1) \/ Invites(BLOCK_SIZE) => fc_tx' \in BuiltFlowControls
    /\ FlowControl(OVERFLOW, 0, 0) \in BuiltFlowControls
<1>1. BLOCK_SIZE \in 0 .. 255
    BY NetworkConstants
<1> QED BY <1>1 DEF Invites, BuiltFlowControls

LEMMA ReceiverStep ==
    ASSUME NetworkInv, ReceiverMoves, sent' \in Nat, sent <= sent'
    PROVE  ReceiverInv' /\ (fc_tx' = NoFrame \/ fc_tx' \in BuiltFlowControls)
<1> DEFINE Outcome ==
        /\ UNCHANGED <<receive_buf_size, rx_done_cb>>
        /\ message' \in 0 .. sent'
        /\ Live' => message' > 0 /\ receive_size' = Payloads[message'] /\ rx_dl' = Dl
        /\ fc_tx' = NoFrame \/ fc_tx' \in BuiltFlowControls
<1>0. /\ RP!IInv /\ RP!TypeOK
      /\ rx_done_cb = FALSE /\ receive_buf_size \in RECEIVE_BUF_SIZES
      /\ message \in 0 .. sent /\ sent \in Nat
      /\ Live => message > 0 /\ receive_size = Payloads[message] /\ rx_dl = Dl
    <2>1. sent \in Nat
        BY NetworkConstants DEF NetworkInv, SenderInv
    <2> QED BY <2>1 DEF NetworkInv, ReceiverInv, RP!IInv
<1>i. receive_status' = "IDLE" => ~Live'
    BY DEF Live, Holding, R!Receiving
<1>d. UNCHANGED <<receive_status, receive_streaming, message, receive_size, rx_dl>> =>
          /\ message' \in 0 .. sent'
          /\ Live' => message' > 0 /\ receive_size' = Payloads[message'] /\ rx_dl' = Dl
    BY <1>0 DEF Live, Holding, R!Receiving
<1>1. CASE \E f : DataFrame(f) /\ R!OnCanMessage(f, TRUE)
    <2>1. PICK f : DataFrame(f) /\ R!OnCanMessage(f, TRUE)
        BY <1>1
    <2>2. f.msg \in 1 .. sent /\ R!FrameType(f)
        BY <2>1 DEF DataFrame, FrameOf
    <2>3. RP!IInv'
        <3>1. RP!FrameType(f)
            BY <2>2 DEF R!FrameType, RP!FrameType
        <3>2. RP!OnCanMessage(f, TRUE)
            BY <2>1, SameSingleFrame, SameFirstFrame, SameConsecutiveFrame
            DEF R!OnCanMessage, RP!OnCanMessage
        <3> QED BY <1>0, <3>1, <3>2, ReceiveConstants, RP!OnCanMessageStep
    <2>4. CASE R!ReceiveSingleFrame(f)
        <3>1. /\ fc_tx' = NoFrame
              /\ \/ receive_status' = "FULL" /\ ~receive_streaming' /\ message' = f.msg
                 \/ UNCHANGED <<receive_status, reception>>
              /\ UNCHANGED <<receive_buf_size, rx_done_cb>>
            BY <1>0, <2>4, TakesSingleFrame
        <3>2. Outcome
            <4>1. CASE receive_status' = "FULL" /\ ~receive_streaming' /\ message' = f.msg
                <5>1. ~Live'
                    BY <4>1 DEF Live, Holding, R!Receiving
                <5> QED BY <1>0, <2>2, <3>1, <4>1, <5>1
            <4>2. CASE UNCHANGED <<receive_status, reception>>
                BY <1>d, <3>1, <4>2 DEF reception
            <4> QED BY <3>1, <4>1, <4>2
        <3> QED BY <1>0, <2>3, <3>2 DEF ReceiverInv
    <2>5. CASE R!ReceiveFirstFrame(f, TRUE)
        <3>1. f.type = "FF"
            BY <2>5 DEF R!ReceiveFirstFrame
        <3>2. FfAccepted(f) /\ f.len = Dl /\ FfPayloadLength(f) = Payloads[f.msg]
            BY <2>1, <3>1 DEF DataFrame, FrameOf
        <3>3. Outcome
            <4>1. CASE receive_buf_size = 0
                <5>1. /\ receive_status' = "IDLE" /\ fc_tx' = FlowControl(OVERFLOW, 0, 0)
                      /\ UNCHANGED <<receive_buf_size, rx_done_cb, message>>
                    BY <1>0, <2>5, <3>2, <4>1, OverflowsFirstFrame
                <5> QED BY <1>0, <1>i, <5>1, InvitesBuilt
            <4>2. CASE receive_buf_size # 0
                <5>1. /\ message' = f.msg /\ receive_size' = FfPayloadLength(f) /\ rx_dl' = f.len
                      /\ fc_tx' = NoFrame \/ Invites(1) \/ Invites(BLOCK_SIZE)
                      /\ UNCHANGED <<receive_buf_size, rx_done_cb>>
                    BY <1>0, <2>5, <3>2, <4>2, TakesFirstFrame
                <5> QED BY <1>0, <2>2, <3>2, <5>1, InvitesBuilt
            <4> QED BY <4>1, <4>2
        <3> QED BY <1>0, <2>3, <3>3 DEF ReceiverInv
    <2>6. CASE R!ReceiveConsecutiveFrame(f, TRUE)
        <3>1. /\ Takes(f) \/ Refuses(f)
              /\ UNCHANGED <<receive_buf_size, rx_done_cb>>
            BY <1>0, <2>2, <2>6, TakesConsecutiveFrame
        <3>2. Outcome
            <4>1. CASE Takes(f)
                <5>1. Live /\ UNCHANGED <<message, receive_size, rx_dl>>
                    BY <4>1 DEF Takes, Live
                <5>2. fc_tx' = NoFrame \/ Invites(1) \/ Invites(BLOCK_SIZE)
                    BY <4>1 DEF Takes
                <5> QED BY <1>0, <3>1, <5>1, <5>2, InvitesBuilt
            <4>2. CASE Refuses(f)
                <5>1. /\ fc_tx' = NoFrame
                      /\ UNCHANGED <<receive_streaming, message, receive_size, rx_dl>>
                      /\ receive_status' = "IDLE" \/ UNCHANGED receive_status
                    BY <4>2 DEF Refuses, reception
                <5> QED BY <1>0, <1>i, <1>d, <3>1, <5>1
            <4> QED BY <3>1, <4>1, <4>2
        <3> QED BY <1>0, <2>3, <3>2 DEF ReceiverInv
    <2> QED BY <2>1, <2>4, <2>5, <2>6 DEF R!OnCanMessage
<1>2. CASE \E size : R!Receive(size) \/ R!ReceiveStreaming(size, TRUE)
    <2>1. PICK size : R!Receive(size) \/ R!ReceiveStreaming(size, TRUE)
        BY <1>2
    <2>2. RP!IInv'
        <3>1. RP!Receive(size) \/ RP!ReceiveStreaming(size, TRUE)
            BY <2>1, SameTakeData
        <3> QED BY <1>0, <3>1, ReceiveConstants, RP!TakeDataStep
    <2>3. /\ receive_status = "FULL"
          /\ \/ receive_status' = "IDLE" /\ fc_tx' = NoFrame
             \/ receive_streaming /\ (fc_tx' = NoFrame \/ Invites(1))
          /\ UNCHANGED <<receive_buf_size, rx_done_cb, rx_dl, receive_size, message>>
        BY <1>0, <2>1, TakesData
    <2>4. Outcome
        <3>1. receive_streaming => Live
            BY <2>3 DEF Live, Holding
        <3> QED BY <1>0, <1>i, <2>3, <3>1, InvitesBuilt
    <2> QED BY <1>0, <2>2, <2>4 DEF ReceiverInv
<1>3. CASE R!PollTimesOut
    <2>1. RP!PollTimesOut
        BY <1>3, SameReceiveLife
    <2>2. RP!TypeOK' /\ RP!Resting
        BY <1>0, <2>1, ReceiveConstants, RP!PollTimesOutRests
    <2>3. RP!IInv'
        BY <1>0, <2>2, ReceiveConstants, RP!RestingStep
    <2>4. /\ receive_status' = "IDLE" /\ fc_tx' = NoFrame
          /\ UNCHANGED <<receive_buf_size, rx_done_cb, message>>
        BY <1>3, ReceiverTimesOut DEF reception
    <2> QED BY <1>0, <1>i, <2>3, <2>4 DEF ReceiverInv
<1>4. CASE R!InitLink(receive_buf_size)
    <2>1. RP!InitLink(receive_buf_size)
        BY <1>4, SameReceiveLife
    <2>2. RP!IInv'
        BY <1>0, <2>1, ReceiveConstants, RP!LifeStep
    <2>3. /\ receive_status' = "IDLE" /\ fc_tx' = NoFrame /\ message' = 0
          /\ UNCHANGED receive_buf_size /\ rx_done_cb' = FALSE
        BY <1>4, ReceiverCodec DEF R!InitLink, R!Reset
    <2> QED BY <1>0, <1>i, <2>2, <2>3 DEF ReceiverInv
<1>5. CASE R!Tick
    <2>1. RP!Tick
        BY <1>5, SameReceiveLife
    <2>2. RP!TypeOK' /\ RP!Resting
        BY <1>0, <2>1, ReceiveConstants, RP!TickRests
    <2>3. RP!IInv'
        BY <1>0, <2>2, ReceiveConstants, RP!RestingStep
    <2>4. /\ fc_tx' = NoFrame
          /\ UNCHANGED <<receive_buf_size, rx_done_cb, message, receive_status,
                         receive_streaming, receive_size, rx_dl>>
        BY <1>5, ReceiverCodec
        DEF R!Tick, R!paramVars, R!bufferVars, R!streamVars, R!recvStatusVars, R!messageVars
    <2> QED BY <1>0, <1>d, <2>3, <2>4 DEF ReceiverInv
<1>6. CASE ReceiverRestsInTime /\ fc_tx' = NoFrame
    <2>1. RP!IInv'
        BY <1>0, <1>6, ReceiverResting
    <2>2. /\ fc_tx' = NoFrame
          /\ UNCHANGED <<receive_buf_size, rx_done_cb, message, receive_status,
                         receive_streaming, receive_size, rx_dl>>
        BY <1>6 DEF ReceiverRestsInTime, receiver
    <2> QED BY <1>0, <1>d, <2>1, <2>2 DEF ReceiverInv
<1> QED BY <1>1, <1>2, <1>3, <1>4, <1>5, <1>6 DEF ReceiverMoves


-----------------------------------------------------------------------------
(* What the sender puts on the bus are such frames. *)
LEMMA MoreSent ==
    ASSUME NEW f, NEW count \in Nat, NEW more \in Nat, count <= more, FrameOf(f, count)
    PROVE  FrameOf(f, more)
BY DEF FrameOf

LEMMA FrameBytes == \A n \in 0 .. Dl : n \in 0 .. 255
BY NetworkConstants

LEMMA FramesOfDl ==
    ASSUME NEW size \in Nat
    PROVE  /\ size <= SfMaxPayload(Dl) =>
                /\ SfPayloadLength(SingleFrame(size)) = size
                /\ SingleFrame(size).len \in 0 .. Dl
                /\ SingleFrame(size).type = "SF" /\ SingleFrame(size).n = size
                /\ SingleFrame(size).sf_dl \in 0 .. 15 /\ SingleFrame(size).escape \in 0 .. 255
           /\ size > SfMaxPayload(Dl) =>
                LET f == FirstFrame(size, Dl)
                IN  /\ FfAccepted(f) /\ FfPayloadLength(f) = size
                    /\ FfReadLength(f) = f.n /\ f.n \in Nat /\ f.n < size
                    /\ f.type = "FF" /\ f.len = Dl
                    /\ f.ff_dl_high \in 0 .. 15 /\ f.ff_dl_low \in 0 .. 255 /\ f.ff_dl \in Nat
<1>1. DEFAULT_TX_DL \in Nat /\ Dl \in Nat /\ Dl >= 8
    BY NetworkConstants
<1>2. PICK tx : tx = DEFAULT_TX_DL
    OBVIOUS
<1>3. tx \in Nat /\ Dl = TxDl(tx)
    BY <1>1, <1>2 DEF Dl
<1>4. size <= SfMaxPayload(Dl) <=> ~(size > SfMaxPayload(Dl))
    BY <1>1 DEF SfMaxPayload
<1>5. CASE size <= SfMaxPayload(TxDl(tx))
    <2>1. /\ SfPayloadLength(SingleFrame(size)) = size
          /\ SingleFrame(size).len \in 0 .. TxDl(tx)
          /\ SingleFrame(size).type = "SF" /\ SingleFrame(size).n = size
          /\ SingleFrame(size).sf_dl \in 0 .. 15 /\ SingleFrame(size).escape \in 0 .. 255
        BY <1>3, <1>5, SingleFrameRead
    <2> QED BY <1>3, <1>4, <1>5, <2>1
<1>6. CASE size > SfMaxPayload(TxDl(tx))
    <2>1. LET f == FirstFrame(size, TxDl(tx))
          IN  /\ FfAccepted(f)
              /\ FfPayloadLength(f) = size
              /\ FfReadLength(f) = FfDataLength(size, TxDl(tx))
              /\ FfReadLength(f) = f.n
              /\ f.n < size
              /\ f.type = "FF" /\ f.len = TxDl(tx)
              /\ f.ff_dl_high \in 0 .. 15 /\ f.ff_dl_low \in 0 .. 255 /\ f.ff_dl \in Nat
        BY ONLY <1>3, <1>6, size \in Nat, FirstFrameRead
    <2>2. FfDataLength(size, TxDl(tx)) \in Nat
        BY <1>1, <1>3 DEF FfDataLength
    <2>3. PICK f : f = FirstFrame(size, TxDl(tx))
        OBVIOUS
    <2>4. f.n \in Nat /\ ~(size <= SfMaxPayload(Dl))
        BY <1>3, <1>4, <1>6, <2>1, <2>2, <2>3
    <2> QED BY <1>3, <2>1, <2>3, <2>4
<1> QED BY <1>3, <1>4, <1>5, <1>6

LEMMA SingleFrameOf ==
    ASSUME NEW m \in 1 .. Len(Payloads), NEW size, size = Payloads[m],
           size <= SfMaxPayload(Dl)
    PROVE  FrameOf(Carrying(SingleFrame(size), m, 0), m)
<1> DEFINE f == SingleFrame(size)
           g == Carrying(f, m, 0)
<1>1. size = Payloads[m] /\ size \in Nat /\ m \in Nat
    BY NetworkConstants
<1>2. /\ SfPayloadLength(f) = size /\ f.len \in 0 .. Dl /\ f.type = "SF"
      /\ f.n = size /\ f.sf_dl \in 0 .. 15 /\ f.escape \in 0 .. 255
    BY <1>1, FramesOfDl
<1>3. /\ g.type = f.type /\ g.sf_dl = f.sf_dl /\ g.escape = f.escape /\ g.n = f.n
      /\ g.len = f.len /\ g.msg = m /\ g.at = 0
    BY CarryingFields, CarryingFrames
<1> HIDE DEF f, g
<1>4. f.len \in 0 .. 255
    BY <1>2, FrameBytes
<1>5. R!FrameType(g)
    BY <1>1, <1>2, <1>3, <1>4 DEF R!FrameType
<1>6. SfPayloadLength(g) = size
    BY <1>2, <1>3 DEF SfPayloadLength
<1>7. FrameOf(g, m)
    BY <1>1, <1>2, <1>3, <1>5, <1>6 DEF FrameOf
<1> QED BY <1>7 DEF f, g

LEMMA FirstFrameOf ==
    ASSUME NEW m \in 1 .. Len(Payloads), NEW size, size = Payloads[m],
           size > SfMaxPayload(Dl)
    PROVE  FrameOf(Carrying(FirstFrame(size, Dl), m, 0), m)
<1> DEFINE f == FirstFrame(size, Dl)
           g == Carrying(f, m, 0)
<1>1. size = Payloads[m] /\ size \in Nat /\ m \in Nat
    BY NetworkConstants
<1>2. /\ FfAccepted(f) /\ FfPayloadLength(f) = size /\ FfReadLength(f) = f.n
      /\ f.n \in Nat
      /\ f.type = "FF" /\ f.len = Dl
      /\ f.ff_dl_high \in 0 .. 15 /\ f.ff_dl_low \in 0 .. 255 /\ f.ff_dl \in Nat
    BY <1>1, FramesOfDl
<1>3. /\ g.type = f.type /\ g.ff_dl_high = f.ff_dl_high /\ g.ff_dl_low = f.ff_dl_low
      /\ g.ff_dl = f.ff_dl /\ g.n = f.n /\ g.len = f.len /\ g.msg = m /\ g.at = 0
    BY CarryingFields, CarryingFrames
<1> HIDE DEF f, g
<1>4. f.len \in 0 .. 255
    BY <1>2, NetworkConstants
<1>5. R!FrameType(g)
    <2>1. g.len \in 0 .. 255 /\ g.n \in Nat /\ g.msg \in Nat /\ g.at \in Nat
        BY <1>1, <1>2, <1>3, <1>4
    <2>2. g.ff_dl_high \in 0 .. 15 /\ g.ff_dl_low \in 0 .. 255 /\ g.ff_dl \in Nat
        BY <1>2, <1>3
    <2>3. g.type # "SF" /\ g.type # "CF"
        BY <1>2, <1>3
    <2> QED BY ONLY <2>1, <2>2, <2>3 DEF R!FrameType
<1>6. FfAccepted(g) /\ FfPayloadLength(g) = size /\ FfReadLength(g) = g.n
    BY <1>2, <1>3 DEF FfAccepted, FfPayloadLength, FfReadLength, FfIsLong
<1>7. FrameOf(g, m)
    BY <1>1, <1>2, <1>3, <1>5, <1>6 DEF FrameOf
<1> QED BY <1>7 DEF f, g

LEMMA ConsecutiveFrameOf ==
    ASSUME NEW m \in 1 .. Len(Payloads), NEW at \in Nat, at < Payloads[m], NEW sn \in 0 .. 15
    PROVE  FrameOf(Carrying(ConsecutiveFrame(sn, Payloads[m] - at, Dl), m, at), m)
<1> DEFINE left == Payloads[m] - at
           f == ConsecutiveFrame(sn, left, Dl)
           g == Carrying(f, m, at)
<1>1. Payloads[m] \in Nat /\ m \in Nat /\ left \in Nat /\ left > 0 /\ at + left = Payloads[m]
    BY NetworkConstants
<1> HIDE DEF left
<1>2. /\ CfWanted(left, Dl) = f.n /\ f.n \in 1 .. left /\ f.n <= f.len - 1
      /\ f.len \in 0 .. Dl /\ f.type = "CF" /\ f.SN = sn
    BY <1>1, NetworkConstants, ConsecutiveFrameRead DEF Dl
<1>3. /\ g.type = f.type /\ g.SN = f.SN /\ g.n = f.n /\ g.len = f.len
      /\ g.msg = m /\ g.at = at
    BY CarryingFields, CarryingFrames
<1> HIDE DEF f, g
<1>4. f.len \in 0 .. 255
    BY <1>2, FrameBytes
<1>5. R!FrameType(g)
    BY <1>1, <1>2, <1>3, <1>4 DEF R!FrameType
<1>6. g.n = CfWanted(Payloads[m] - at, Dl)
    BY <1>2, <1>3 DEF left
<1>7. FrameOf(g, m)
    BY <1>1, <1>2, <1>3, <1>5, <1>6 DEF FrameOf
<1> QED BY <1>7 DEF f, g, left

(* A call of the sender adds a frame for the payload it works on, or none.  *)
LEMMA SenderAddsFrame ==
    ASSUME NetworkInv, SendPayload \/ SenderPolls
    PROVE  \/ UNCHANGED to_receiver
           \/ \E f : FrameOf(f, sent') /\ to_receiver' = Append(to_receiver, OnBus(f))
<1>0. SP!IInv /\ tx_dl = DEFAULT_TX_DL /\ sent \in 0 .. Len(Payloads)
    BY DEF NetworkInv, SenderInv
<1>1. CASE SendPayload
    <2>1. sent' = sent + 1 /\ sent' \in 1 .. Len(Payloads) /\ DataSent(sent', 0)
        BY <1>0, <1>1, NetworkConstants DEF SendPayload
    <2>2. PICK m \in 1 .. Len(Payloads) : m = sent'
        BY <2>1
    <2>s. PICK size : size = Payloads[m]
        OBVIOUS
    <2>3. CASE S!SendSingleFrame(size, "OK")
        <3>1. size <= SfMaxPayload(Dl) /\ can_tx' = SingleFrame(size)
            BY <1>0, <2>3, SendsSingleFrame
        <3>2. FrameOf(Carrying(SingleFrame(size), m, 0), m)
            BY <2>s, <3>1, SingleFrameOf
        <3> QED BY <2>1, <2>2, <3>1, <3>2 DEF DataSent
    <2>4. CASE S!SendFirstFrame(size, "OK")
        <3>1. size \in Nat
            BY <2>s, NetworkConstants
        <3>2. size > SfMaxPayload(Dl) /\ can_tx' = FirstFrame(size, Dl)
            BY <1>0, <2>4, <3>1, SendsFirstFrame
        <3>3. FrameOf(Carrying(FirstFrame(size, Dl), m, 0), m)
            BY <2>s, <3>2, FirstFrameOf
        <3> QED BY <2>1, <2>2, <3>2, <3>3 DEF DataSent
    <2> QED BY <1>1, <2>2, <2>s, <2>3, <2>4 DEF SendPayload
<1>2. CASE SenderPolls
    <2>1. UNCHANGED sent /\ DataSent(sent, send_offset)
        BY <1>2 DEF SenderPolls
    <2>2. CASE S!PollAccepted(0)
        <3>1. /\ S!InProgress /\ send_size - send_offset \in Nat /\ send_size - send_offset > 0
              /\ can_tx' = ConsecutiveFrame(send_sn, send_size - send_offset, Dl)
            BY <1>0, <2>2, SendsConsecutiveFrame
        <3>2. /\ sent \in 1 .. Len(Payloads) /\ send_size = Payloads[sent]
              /\ send_size \in Nat /\ send_offset \in Nat /\ send_sn \in 0 .. 15
            BY <1>0, <3>1, NetworkConstants
            DEF NetworkInv, SenderInv, SP!IInv, SP!TypeOK, SP!SegmentType
        <3>3. send_offset < Payloads[sent]
            BY <3>1, <3>2
        <3>4. FrameOf(Carrying(ConsecutiveFrame(send_sn, Payloads[sent] - send_offset, Dl),
                               sent, send_offset), sent)
            BY <3>2, <3>3, ConsecutiveFrameOf
        <3> QED BY <2>1, <3>1, <3>2, <3>4 DEF DataSent
    <2>3. CASE S!PollNoSpace(0) \/ S!PollWaiting(0)
        <3>1. can_tx' = NoFrame
            BY <1>0, <2>3, SendsNothing
        <3> QED BY <2>1, <3>1 DEF DataSent
    <2> QED BY <1>2, <2>2, <2>3 DEF SenderPolls
<1> QED BY <1>1, <1>2

(* What a step does to the frames on their way to the receiver.             *)
DataMoves ==
    \/ UNCHANGED to_receiver
    \/ \E f : FrameOf(f, sent') /\ to_receiver' = Append(to_receiver, OnBus(f))
    \/ to_receiver # << >> /\ to_receiver' = Tail(to_receiver)
    \/ to_receiver # << >> /\ to_receiver' = <<Head(to_receiver)>> \o to_receiver
    \/ Timely /\ to_receiver' = Aged(to_receiver)

LEMMA SentGrows ==
    ASSUME NetworkInv, Next
    PROVE  sent \in Nat /\ sent' \in Nat /\ sent <= sent' /\ DataMoves
<1>1. sent \in 0 .. Len(Payloads)
    BY DEF NetworkInv, SenderInv
<1>2. sent' = sent \/ sent' = sent + 1
    BY DEF Next, SendPayload, SenderPolls, SenderTakesFrame, ReceiverTakesFrame,
           ReceiverPolls, ReceiverTakesData, DataLost, FlowControlLost,
           ConsecutiveFrameRepeated, DriverFails, SenderRestarts, ReceiverRestarts, Tick
<1>3. CASE SendPayload \/ SenderPolls
    <2>1. UNCHANGED to_receiver
          \/ \E f : FrameOf(f, sent') /\ to_receiver' = Append(to_receiver, OnBus(f))
        BY <1>3, SenderAddsFrame
    <2>2. DataMoves
        BY <2>1 DEF DataMoves
    <2> QED BY <1>1, <1>2, <2>2, NetworkConstants
<1>4. ~(SendPayload \/ SenderPolls) => DataMoves
    BY
    DEF Next, SenderTakesFrame, ReceiverTakesFrame,
        ReceiverPolls, ReceiverTakesData, DataLost, FlowControlLost, bus,
        ConsecutiveFrameRepeated, DriverFails, SenderRestarts, ReceiverRestarts, Tick,
        DataMoves
<1> QED BY <1>1, <1>2, <1>3, <1>4, NetworkConstants

LEMMA DataBusStep ==
    ASSUME NetworkInv, DataMoves, sent \in Nat, sent' \in Nat, sent <= sent'
    PROVE  /\ Channel(to_receiver')
           /\ \A i \in 1 .. Len(to_receiver') : FrameOf(to_receiver'[i].frame, sent')
<1> DEFINE n == Len(to_receiver)
<1>0. /\ Channel(to_receiver) /\ n \in Nat
      /\ \A i \in 1 .. n : FrameOf(to_receiver[i].frame, sent')
    <2>1. ASSUME NEW i \in 1 .. n PROVE FrameOf(to_receiver[i].frame, sent')
        <3>1. FrameOf(to_receiver[i].frame, sent)
            BY DEF NetworkInv, BusInv, Frame, DataFrame
        <3> QED BY <3>1, MoreSent
    <2> QED BY <2>1, ChannelFrames DEF NetworkInv, BusInv
<1>1. CASE UNCHANGED to_receiver
    BY <1>0, <1>1
<1>2. CASE \E f : FrameOf(f, sent') /\ to_receiver' = Append(to_receiver, OnBus(f))
    <2>1. PICK f : FrameOf(f, sent') /\ to_receiver' = Append(to_receiver, OnBus(f))
        BY <1>2
    <2>2. /\ Channel(to_receiver') /\ Len(to_receiver') = n + 1
          /\ \A i \in 1 .. n : to_receiver'[i] = to_receiver[i]
          /\ to_receiver'[n + 1].frame = f
        BY <1>0, <2>1, ChannelSends
    <2>3. ASSUME NEW i \in 1 .. n + 1 PROVE FrameOf(to_receiver'[i].frame, sent')
        <3>1. i \in 1 .. n \/ i = n + 1
            BY <1>0
        <3> QED BY <1>0, <2>1, <2>2, <3>1
    <2> QED BY <2>2, <2>3
<1>3. CASE to_receiver # << >> /\ to_receiver' = Tail(to_receiver)
    <2>1. /\ Channel(to_receiver') /\ Len(to_receiver') = n - 1
          /\ \A i \in 1 .. n - 1 : to_receiver'[i] = to_receiver[i + 1]
        BY <1>0, <1>3, ChannelTakes
    <2>2. ASSUME NEW i \in 1 .. n - 1 PROVE FrameOf(to_receiver'[i].frame, sent')
        <3>1. i + 1 \in 1 .. n
            BY <1>0
        <3> QED BY <1>0, <2>1, <3>1
    <2> QED BY <2>1, <2>2
<1>4. CASE to_receiver # << >> /\ to_receiver' = <<Head(to_receiver)>> \o to_receiver
    <2>1. /\ Channel(to_receiver') /\ Len(to_receiver') = n + 1
          /\ \A i \in 1 .. n + 1 :
                 to_receiver'[i] = IF i = 1 THEN to_receiver[1] ELSE to_receiver[i - 1]
        BY <1>0, <1>4, ChannelRepeats
    <2>2. n > 0
        BY <1>0, <1>4, ChannelFrames
    <2>3. ASSUME NEW i \in 1 .. n + 1 PROVE FrameOf(to_receiver'[i].frame, sent')
        <3>1. CASE i = 1
            BY <1>0, <2>1, <2>2, <3>1
        <3>2. CASE i # 1
            <4>1. i - 1 \in 1 .. n
                BY <1>0, <3>2
            <4> QED BY <1>0, <2>1, <3>2, <4>1
        <3> QED BY <3>1, <3>2
    <2> QED BY <2>1, <2>3
<1>5. CASE Timely /\ to_receiver' = Aged(to_receiver)
    <2>1. /\ Channel(to_receiver') /\ Len(to_receiver') = n
          /\ \A i \in 1 .. n : to_receiver'[i].frame = to_receiver[i].frame
        BY <1>0, <1>5, ChannelAges
    <2> QED BY <1>0, <2>1
<1> QED BY <1>1, <1>2, <1>3, <1>4, <1>5 DEF DataMoves

(* ... and to the Flow Controls on their way back.                          *)
FlowControlMoves ==
    \/ UNCHANGED to_sender
    \/ fc_tx' # NoFrame /\ to_sender' = Append(to_sender, OnBus(fc_tx'))
    \/ to_sender # << >> /\ to_sender' = Tail(to_sender)
    \/ Timely /\ to_sender' = Aged(to_sender)

LEMMA FlowControlSteps == Next => FlowControlMoves
BY DEF Next, SendPayload, SenderPolls, SenderTakesFrame, ReceiverTakesFrame,
       ReceiverPolls, ReceiverTakesData, DataLost, FlowControlLost,
       ConsecutiveFrameRepeated, DriverFails, SenderRestarts, ReceiverRestarts, Tick,
       FlowControlSent, bus, FlowControlMoves

LEMMA FlowControlBusStep ==
    ASSUME NetworkInv, FlowControlMoves, fc_tx' = NoFrame \/ fc_tx' \in BuiltFlowControls
    PROVE  /\ Channel(to_sender')
           /\ \A i \in 1 .. Len(to_sender') : to_sender'[i].frame \in BuiltFlowControls
<1> DEFINE n == Len(to_sender)
<1>0. /\ Channel(to_sender) /\ n \in Nat
      /\ \A i \in 1 .. n : to_sender[i].frame \in BuiltFlowControls
    BY ChannelFrames DEF NetworkInv, BusInv, Answer
<1>1. CASE UNCHANGED to_sender
    BY <1>0, <1>1
<1>2. CASE fc_tx' # NoFrame /\ to_sender' = Append(to_sender, OnBus(fc_tx'))
    <2>1. PICK f \in BuiltFlowControls : f = fc_tx'
        BY <1>2
    <2>2. /\ Channel(to_sender') /\ Len(to_sender') = n + 1
          /\ \A i \in 1 .. n : to_sender'[i] = to_sender[i]
          /\ to_sender'[n + 1].frame = f
        BY <1>0, <1>2, <2>1, ChannelSends
    <2>3. ASSUME NEW i \in 1 .. n + 1 PROVE to_sender'[i].frame \in BuiltFlowControls
        <3>1. i \in 1 .. n \/ i = n + 1
            BY <1>0
        <3> QED BY <1>0, <2>1, <2>2, <3>1
    <2> QED BY <2>2, <2>3
<1>3. CASE to_sender # << >> /\ to_sender' = Tail(to_sender)
    <2>1. /\ Channel(to_sender') /\ Len(to_sender') = n - 1
          /\ \A i \in 1 .. n - 1 : to_sender'[i] = to_sender[i + 1]
        BY <1>0, <1>3, ChannelTakes
    <2>2. ASSUME NEW i \in 1 .. n - 1 PROVE to_sender'[i].frame \in BuiltFlowControls
        <3>1. i + 1 \in 1 .. n
            BY <1>0
        <3> QED BY <1>0, <2>1, <3>1
    <2> QED BY <2>1, <2>2
<1>4. CASE Timely /\ to_sender' = Aged(to_sender)
    <2>1. /\ Channel(to_sender') /\ Len(to_sender') = n
          /\ \A i \in 1 .. n : to_sender'[i].frame = to_sender[i].frame
        BY <1>0, <1>4, ChannelAges
    <2> QED BY <1>0, <2>1
<1> QED BY <1>1, <1>2, <1>3, <1>4 DEF FlowControlMoves

LEMMA FaultsStep == NetworkInv /\ Next => faults' \in Seq(FaultKinds)
<1>1. ASSUME faults \in Seq(FaultKinds), NEW kind \in FaultKinds, Fault(kind)
      PROVE  faults' \in Seq(FaultKinds)
    BY <1>1, AppendProperties DEF Fault
<1>2. {"lost", "repeated", "failed", "sender restarts", "receiver restarts"} = FaultKinds
    BY DEF FaultKinds
<1>3. NetworkInv => faults \in Seq(FaultKinds)
    BY DEF NetworkInv
<1>4. Next => UNCHANGED faults \/ \E kind \in FaultKinds : Fault(kind)
    BY <1>2
    DEF Next, SendPayload, SenderPolls, SenderTakesFrame, ReceiverTakesFrame,
        ReceiverPolls, ReceiverTakesData, DataLost, FlowControlLost,
        ConsecutiveFrameRepeated, DriverFails, SenderRestarts, ReceiverRestarts, Tick
<1> QED BY <1>1, <1>3, <1>4

LEMMA NetworkStep == NetworkInv /\ [Next]_vars => NetworkInv'
<1>1. ASSUME NetworkInv, Next PROVE NetworkInv'
    <2>1. SenderInv'
        BY <1>1, SenderSteps, SenderStep
    <2>2. sent \in Nat /\ sent' \in Nat /\ sent <= sent' /\ DataMoves
        BY <1>1, SentGrows
    <2>3. ReceiverInv' /\ (fc_tx' = NoFrame \/ fc_tx' \in BuiltFlowControls)
        BY <1>1, <2>2, ReceiverSteps, ReceiverStep
    <2>4. /\ Channel(to_receiver')
          /\ \A i \in 1 .. Len(to_receiver') : FrameOf(to_receiver'[i].frame, sent')
        BY <1>1, <2>2, DataBusStep
    <2>5. /\ Channel(to_sender')
          /\ \A i \in 1 .. Len(to_sender') : to_sender'[i].frame \in BuiltFlowControls
        BY <1>1, <2>3, FlowControlSteps, FlowControlBusStep
    <2>6. Channel(to_receiver)' /\ Channel(to_sender)'
        BY <2>4, <2>5 DEF Channel
    <2>7. BusInv'
        BY <2>4, <2>5, <2>6 DEF BusInv, Frame, Answer, DataFrame
    <2>8. faults' \in Seq(FaultKinds)
        BY <1>1, FaultsStep
    <2> QED BY <2>1, <2>3, <2>7, <2>8 DEF NetworkInv
<1>2. ASSUME NetworkInv, UNCHANGED vars PROVE NetworkInv'
    <2>1. UNCHANGED <<sender, receiver, now, sent, to_receiver, to_sender, faults>>
        BY <1>2 DEF vars, bus
    <2>2. SenderRestsInTime /\ ReceiverRestsInTime
        BY <1>2, <2>1, SameClock
        DEF NetworkInv, SenderInv, SP!IInv, SP!TypeOK, SenderRestsInTime, ReceiverRestsInTime
    <2>3. SenderInv'
        BY <1>2, <2>1, <2>2, SenderStep DEF SenderMoves
    <2>4. RP!IInv'
        BY <1>2, <2>2, ReceiverResting DEF NetworkInv, ReceiverInv
    <2>5. ReceiverInv'
        BY <1>2, <2>1, <2>4
        DEF NetworkInv, ReceiverInv, receiver, Live, Holding, R!Receiving
    <2>6. BusInv'
        BY <1>2, <2>1 DEF NetworkInv, BusInv, Frame, Answer, DataFrame, Channel
    <2> QED BY <1>2, <2>1, <2>3, <2>5, <2>6 DEF NetworkInv
<1> QED BY <1>1, <1>2

LEMMA NetworkStarts == Init => NetworkInv
<1> SUFFICES ASSUME Init PROVE NetworkInv
    OBVIOUS
<1>1. now = StartTime /\ S!LinkInit /\ R!LinkInit
    BY DEF Init
<1>2. SenderInv
    <2>1. SP!LinkInit /\ StartTime \in SP!Ticks
        BY <1>1, SameSendLife, SameClock, NetworkAssumption
        DEF NetworkParameters, R!ReceiveParameters, R!Ticks, SP!Ticks
    <2>2. SP!IInv
        BY <1>1, <2>1, SendConstants, SP!LinkInitIInv
    <2>3. tx_dl = DEFAULT_TX_DL /\ ~S!InProgress /\ sent = 0
        BY DEF Init, S!LinkInit, S!ClearedLink, S!InProgress
    <2> QED BY <2>2, <2>3, NetworkConstants DEF SenderInv
<1>3. ReceiverInv
    <2>1. RP!Init
        BY <1>1, SameReceiveLife DEF RP!Init
    <2>2. RP!IInv
        BY <2>1, ReceiveConstants, RP!InitIInv
    <2>3. /\ rx_done_cb = FALSE /\ receive_buf_size \in RECEIVE_BUF_SIZES
          /\ message = 0 /\ sent = 0 /\ receive_status = "IDLE"
        BY DEF Init, R!LinkInit
    <2> QED BY <2>2, <2>3 DEF ReceiverInv, Live, Holding, R!Receiving
<1>4. BusInv
    <2>1. \A F : << >> \in Seq(F) /\ Len(<< >>) = 0
        OBVIOUS
    <2>2. Channel(<< >>)
        BY <2>1 DEF Channel
    <2> QED BY <2>1, <2>2 DEF Init, BusInv
<1>5. faults \in Seq(FaultKinds)
    BY DEF Init
<1> QED BY <1>2, <1>3, <1>4, <1>5 DEF NetworkInv

(* The two halves and the frames between them are in order whatever frames  *)
(* the bus loses or repeats, whatever the drivers refuse, and whoever       *)
(* restarts.                                                                *)
THEOREM NetworkInvariance == Spec => []NetworkInv
BY NetworkStarts, NetworkStep, PTL DEF Spec

(* What the transmit half and the receive half promise alone they promise   *)
(* to each other: the sender cuts every payload right and never exceeds a   *)
(* block; the receiver copies within its memory, waits for nobody it has    *)
(* not invited, and invites nobody while its streaming buffer is full.      *)
THEOREM LinksKeepTheirPromises ==
    Spec => [](/\ S!Segmentation /\ S!CreditRespected
               /\ R!WithinBounds /\ R!NeverWaitsUninvited /\ R!StreamBackpressure)
<1>1. SP!IInv => S!Segmentation /\ S!CreditRespected
    BY SameSendInvariants DEF SP!IInv
<1>2. RP!IInv => R!WithinBounds /\ R!NeverWaitsUninvited /\ R!StreamBackpressure
    BY SameReceiveInvariants DEF RP!IInv, RP!Invitations
<1>3. NetworkInv => SP!IInv /\ RP!IInv
    BY DEF NetworkInv, SenderInv, ReceiverInv
<1> QED BY <1>1, <1>2, <1>3, NetworkInvariance, PTL


-----------------------------------------------------------------------------
(* The timers of the two, wherever the clock wraps: for a build that        *)
(* compares deadlines with wraparound, and applications that poll before a  *)
(* deadline lies half the range of the clock behind.                        *)
Punctual == COMPARISONS = {"wrapping"} /\ MaxLateness < HALF_RANGE

TimersInv == SP!TimerInv /\ RP!TimerInv

LEMMA PunctualHalves == Punctual => SP!Punctual /\ RP!Punctual
<1>1. MaxLateness \in Nat /\ HALF_RANGE \in Nat
    BY NetworkConstants
<1>2. Punctual => MaxLateness + 0 <= HALF_RANGE /\ MaxLateness <= HALF_RANGE
    BY <1>1 DEF Punctual
<1> QED BY <1>2 DEF Punctual, SP!Punctual, RP!Punctual

LEMMA SenderTimer ==
    ASSUME Punctual, NetworkInv, SP!TimerInv, SenderMoves
    PROVE  /\ SP!TimerInv'
           /\ SP!TimedOut => age_bs' > RESPONSE_TIMEOUT_US
<1>0. SP!Punctual /\ SP!IInv /\ SP!TypeOK
    BY PunctualHalves DEF NetworkInv, SenderInv, SP!IInv
<1>1. CASE SendPayload
    <2>1. \E size : S!SendSingleFrame(size, "OK") \/ S!SendFirstFrame(size, "OK")
        BY <1>1 DEF SendPayload
    <2>2. PICK size : SP!SendSingleFrame(size, "OK") \/ SP!SendFirstFrame(size, "OK")
        BY <2>1, SameSend
    <2> QED BY <1>0, <2>2, SendConstants, SP!SendStep
<1>2. CASE S!PollAccepted(0) \/ S!PollNoSpace(0) \/ S!PollFailed(0) \/ S!PollWaiting(0)
    <2>1. SP!Poll(0) /\ 0 \in {0}
        BY <1>2, SamePoll DEF SP!Poll
    <2> QED BY <1>0, <2>1, SendConstants, SP!PollStep
<1>3. CASE \E f \in BuiltFlowControls : S!OnFlowControl(f)
    <2>1. PICK f \in BuiltFlowControls : SP!OnFlowControl(f)
        BY <1>3, SameFlowControl
    <2> QED BY <1>0, <2>1, SendConstants, SP!FlowControlStep
<1>4. CASE S!InitLink
    <2>1. send_status' = "IDLE"
        BY <1>4 DEF S!InitLink, S!Clear
    <2> QED BY <2>1, SendConstants, SP!QuietStep
<1>5. CASE S!Tick
    <2>1. SP!Tick
        BY <1>5, SameSendLife
    <2> QED BY <1>0, <2>1, SendConstants, SP!TickStep
<1>6. CASE SenderRestsInTime
    <2>1. UNCHANGED <<send_timer_bs, send_status, send_protocol_result, age_bs>>
        BY <1>6 DEF SenderRestsInTime, sender
    <2>2. CASE S!InProgress
        <3>1. UNCHANGED <<now, send_timer_bs, SP!statusVars, age_bs>>
            BY <1>6, <2>1, <2>2 DEF SenderRestsInTime, SP!statusVars
        <3> QED BY <3>1, SendConstants, SP!QuietStep
    <2>3. CASE ~S!InProgress
        BY <2>1, <2>3, SameSendLife DEF SP!TimerInv, SP!TimedOut, SP!InProgress
    <2> QED BY <2>2, <2>3
<1> QED BY <1>1, <1>2, <1>3, <1>4, <1>5, <1>6 DEF SenderMoves

LEMMA ReceiverTimer ==
    ASSUME Punctual, NetworkInv, RP!TimerInv, ReceiverMoves
    PROVE  /\ RP!TimerInv'
           /\ R!PollTimesOut => age_cr > RESPONSE_TIMEOUT_US
<1>0. RP!Punctual /\ RP!IInv /\ RP!TypeOK
    BY PunctualHalves DEF NetworkInv, ReceiverInv, RP!IInv
<1>3. R!PollTimesOut => RP!TimerInv' /\ age_cr > RESPONSE_TIMEOUT_US
    <2>1. R!PollTimesOut => RP!PollTimesOut
        BY SameReceiveLife
    <2> QED BY <1>0, <2>1, ReceiveConstants, RP!PollTimer
<1>1. CASE \E f : DataFrame(f) /\ R!OnCanMessage(f, TRUE)
    <2>1. PICK f : DataFrame(f) /\ R!OnCanMessage(f, TRUE)
        BY <1>1
    <2>2. RP!FrameType(f)
        BY <2>1 DEF DataFrame, FrameOf, R!FrameType, RP!FrameType
    <2>3. RP!OnCanMessage(f, TRUE)
        BY <2>1, SameSingleFrame, SameFirstFrame, SameConsecutiveFrame
        DEF R!OnCanMessage, RP!OnCanMessage
    <2>4. RP!TimerInv'
        BY <1>0, <2>2, <2>3, ReceiveConstants, RP!OnCanMessageTimer
    <2> QED BY <1>3, <2>4
<1>2. CASE \E size : R!Receive(size) \/ R!ReceiveStreaming(size, TRUE)
    <2>1. PICK size : RP!Receive(size) \/ RP!ReceiveStreaming(size, TRUE)
        BY <1>2, SameTakeData
    <2>2. RP!TimerInv'
        BY <1>0, <2>1, ReceiveConstants, RP!TakeDataTimer
    <2> QED BY <1>3, <2>2
<1>4. CASE R!InitLink(receive_buf_size)
    <2>1. ~RP!Receiving'
        BY <1>4 DEF R!InitLink, R!Reset, RP!Receiving
    <2>2. RP!TimerInv'
        BY <2>1, ReceiveConstants, RP!QuietStep
    <2> QED BY <1>3, <2>2
<1>5. CASE R!Tick
    <2>1. RP!Tick
        BY <1>5, SameReceiveLife
    <2>2. RP!TimerInv'
        BY <1>0, <2>1, ReceiveConstants, RP!TickTimer
    <2> QED BY <1>3, <2>2
<1>6. CASE ReceiverRestsInTime
    <2>1. UNCHANGED <<receive_timer_cr, receive_status, age_cr>>
        BY <1>6 DEF ReceiverRestsInTime, receiver
    <2>2. CASE R!Receiving
        <3>1. UNCHANGED <<now, RP!timerVars>> /\ (RP!Receiving' => RP!Receiving)
            BY <1>6, <2>1, <2>2 DEF ReceiverRestsInTime, RP!timerVars, RP!Receiving
        <3>2. RP!TimerInv'
            BY <3>1, ReceiveConstants, RP!QuietStep
        <3> QED BY <1>3, <3>2
    <2>3. CASE ~R!Receiving
        <3>1. ~RP!Receiving'
            BY <2>1, <2>3 DEF R!Receiving, RP!Receiving
        <3>2. RP!TimerInv'
            BY <3>1, ReceiveConstants, RP!QuietStep
        <3> QED BY <1>3, <3>2
    <2> QED BY <2>2, <2>3
<1> QED BY <1>1, <1>2, <1>3, <1>4, <1>5, <1>6 DEF ReceiverMoves

LEMMA TimersStep == Punctual /\ NetworkInv /\ TimersInv /\ [Next]_vars => TimersInv'
<1>1. ASSUME Punctual, NetworkInv, TimersInv, Next PROVE TimersInv'
    BY <1>1, SenderSteps, SenderTimer, ReceiverSteps, ReceiverTimer DEF TimersInv
<1>2. ASSUME Punctual, NetworkInv, TimersInv, UNCHANGED vars PROVE TimersInv'
    BY <1>2 DEF TimersInv, SP!TimerInv, SP!StartedAt, SP!InProgress, RP!TimerInv,
                RP!StartedAt, RP!Receiving, vars, sender, receiver
<1> QED BY <1>1, <1>2

(* Both deadlines of the two links are right while one or both wait.        *)
LEMMA TimersInvariance == ASSUME Punctual PROVE Spec => []TimersInv
<1>1. Init => TimersInv
    BY DEF Init, S!LinkInit, S!ClearedLink, R!LinkInit, TimersInv, SP!TimerInv, SP!InProgress,
           RP!TimerInv, RP!Receiving
<1>2. NetworkInv /\ TimersInv /\ [Next]_vars => TimersInv'
    BY TimersStep
<1> QED BY <1>1, <1>2, NetworkInvariance, PTL DEF Spec


=============================================================================
