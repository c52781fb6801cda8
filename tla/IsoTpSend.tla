------------------------------ MODULE IsoTpSend ------------------------------
(***************************************************************************)
(* The transmit half of one IsoTpLink: isotp_send(), the transmit part of  *)
(* isotp_poll(), the handling of received Flow Control frames,             *)
(* isotp_set_tx_dl() and the life of the link.  Calls on one link are      *)
(* serialised by the application, so each call is one action; the driver's *)
(* answer, the frames of the peer and the passing of time are chosen by    *)
(* the environment.                                                        *)
(***************************************************************************)
EXTENDS IsoTpFrame

CONSTANTS
    SEND_BUF_SIZE,         \* sendbufsize given to isotp_init_link
    DEFAULT_TX_DL,         \* ISO_TP_DEFAULT_TX_DL
    DEFAULT_ST_MIN_US,     \* ISO_TP_DEFAULT_ST_MIN_US
    MAX_WFT_NUMBER,        \* ISO_TP_MAX_WFT_NUMBER
    RESPONSE_TIMEOUT_US,   \* ISO_TP_DEFAULT_RESPONSE_TIMEOUT_US
    \* The environment
    SendSizes,             \* payload sizes the application asks to send
    TxDls,                 \* values it passes to isotp_set_tx_dl
    FlowControls,          \* Flow Control frames the peer may send
    ClockStep,             \* microseconds by which the clock advances at once
    Preemptions,           \* time isotp_poll may lose before its timeout check
    MaxLateness,           \* how late after a deadline isotp_poll is still called
    MaxStall               \* how long a peer keeps a sender waiting between frames

(* What the build and isotp_init_link may set. *)
LinkParameters ==
    /\ SEND_BUF_SIZE \in Nat
    /\ DEFAULT_TX_DL \in Nat /\ LegalTxDl(DEFAULT_TX_DL)
    /\ MAX_WFT_NUMBER \in 0 .. 255
    /\ SendSizes \subseteq Nat
    /\ TxDls \subseteq 0 .. 255

(* All times stay below half the range of the clock: a separation time has  *)
(* at most 127 ms.                                                          *)
TimeParameters ==
    /\ RESPONSE_TIMEOUT_US \in 1 .. HALF_RANGE - 1
    /\ DEFAULT_ST_MIN_US \in 0 .. HALF_RANGE - 1
    /\ ClockStep \in 1 .. HALF_RANGE - 1
    /\ Preemptions \subseteq 0 .. HALF_RANGE - 1
    /\ MaxLateness \in Nat /\ MaxStall \in Nat

PeerParameters ==
    /\ FlowControls \subseteq
         [type : {"FC"}, FS : 0 .. 15, BS : 0 .. 255, STmin : 0 .. 255, len : 0 .. 255]
    /\ \A f \in FlowControls : StMinToUs(f.STmin) < HALF_RANGE

ASSUME SendAssumption == LinkParameters /\ TimeParameters /\ PeerParameters

VARIABLES
    now,                   \* isotp_user_get_us()
    can_tx,                \* the frame the driver accepted in the last step
    tx_dl, send_buf_size, send_size, send_offset, send_sn,
    send_bs_remain, send_st_min_us, send_wtf_count, send_timer_st, send_timer_bs,
    send_protocol_result, send_status,
    tx_done_cb,            \* TRUE iff a transmit callback is registered
    \* History of the current transmission, read by properties only
    cfs,                   \* Consecutive Frames the driver accepted
    grant,                 \* frames the last Continue allowed, 0 before the first
    asked,                 \* the separation time that Continue asked for
    block,                 \* Consecutive Frames accepted since that Continue
    waits,                 \* Wait frames since the First Frame or that Continue
    completions,           \* calls of the transmit callback
    age_bs,                \* time since a frame or Flow Control was last accepted
    age_st                 \* time since the last data frame was accepted

paramVars   == <<tx_dl, send_buf_size, tx_done_cb>>
segmentVars == <<send_size, send_offset, send_sn>>
creditVars  == <<send_bs_remain, send_st_min_us, send_wtf_count>>
timerVars   == <<send_timer_st, send_timer_bs>>
statusVars  == <<send_protocol_result, send_status>>
linkVars    == <<paramVars, segmentVars, creditVars, timerVars, statusVars>>
historyVars == <<cfs, grant, asked, block, waits, completions>>
ageVars     == <<age_bs, age_st>>
vars        == <<now, can_tx, linkVars, historyVars, ageVars>>

InProgress == send_status = "INPROGRESS"

-----------------------------------------------------------------------------
(* Life of the link *)

ClearedLink ==
    /\ send_size = 0 /\ send_offset = 0 /\ send_sn = 0
    /\ send_bs_remain = 0 /\ send_st_min_us = 0 /\ send_wtf_count = 0
    /\ send_timer_st = 0 /\ send_timer_bs = 0
    /\ send_protocol_result = "OK" /\ send_status = "IDLE"
    /\ tx_done_cb = FALSE
    /\ cfs = 0 /\ grant = 0 /\ asked = 0 /\ block = 0 /\ waits = 0 /\ completions = 0
    /\ age_bs = 0 /\ age_st = 0

LinkInit ==
    /\ can_tx = NoFrame
    /\ ClearedLink
    /\ tx_dl = DEFAULT_TX_DL
    /\ send_buf_size = SEND_BUF_SIZE

Init == now = 0 /\ LinkInit

(* The memset that starts both calls. *)
Clear ==
    /\ send_size' = 0 /\ send_offset' = 0 /\ send_sn' = 0
    /\ send_bs_remain' = 0 /\ send_st_min_us' = 0 /\ send_wtf_count' = 0
    /\ send_timer_st' = 0 /\ send_timer_bs' = 0
    /\ send_protocol_result' = "OK" /\ send_status' = "IDLE"
    /\ tx_done_cb' = FALSE
    /\ cfs' = 0 /\ grant' = 0 /\ asked' = 0 /\ block' = 0 /\ waits' = 0 /\ completions' = 0
    /\ age_bs' = 0 /\ age_st' = 0

(* isotp_init_link, between any two other calls. *)
InitLink ==
    /\ Clear
    /\ tx_dl' = DEFAULT_TX_DL
    /\ send_buf_size' = SEND_BUF_SIZE
    /\ can_tx' = NoFrame
    /\ UNCHANGED now

DestroyLink ==
    /\ Clear
    /\ tx_dl' = 0
    /\ send_buf_size' = 0
    /\ can_tx' = NoFrame
    /\ UNCHANGED now

(* Mutant: TX_DL may change under a transmission. *)
MutantSetTxDl(dl) ==
    /\ LegalTxDl(dl)
    /\ tx_dl' = dl
    /\ can_tx' = NoFrame
    /\ UNCHANGED <<now, send_buf_size, tx_done_cb, segmentVars, creditVars, timerVars,
                   statusVars, historyVars, ageVars>>

(* isotp_set_tx_dl answering ISOTP_RET_OK; it refuses without any effect. *)
SetTxDl(dl) ==
    /\ LegalTxDl(dl)
    /\ ~InProgress
    /\ tx_dl' = dl
    /\ can_tx' = NoFrame
    /\ UNCHANGED <<now, send_buf_size, tx_done_cb, segmentVars, creditVars, timerVars,
                   statusVars, historyVars, ageVars>>

SetTxDoneCb(registered) ==
    /\ tx_done_cb' = registered
    /\ can_tx' = NoFrame
    /\ UNCHANGED <<now, tx_dl, send_buf_size, segmentVars, creditVars, timerVars,
                   statusVars, historyVars, ageVars>>

-----------------------------------------------------------------------------
(* isotp_send and isotp_send_with_id *)

(* The payload is copied: a size above the buffer, or a transmission in     *)
(* progress, is refused without any effect.                                 *)
Accepts(size) ==
    /\ size <= send_buf_size
    /\ ~InProgress
    /\ send_size' = size
    /\ cfs' = 0 /\ grant' = 0 /\ asked' = 0 /\ block' = 0 /\ waits' = 0
    /\ age_bs' = 0 /\ age_st' = 0

SendSingleFrame(size, answer) ==
    /\ Accepts(size)
    /\ size <= SfMaxPayload(TxDl(tx_dl))
    /\ send_offset' = 0
    /\ can_tx' = IF answer = "OK" THEN SingleFrame(size) ELSE NoFrame
    /\ completions' = IF answer = "OK" /\ tx_done_cb THEN 1 ELSE 0
    /\ UNCHANGED <<now, paramVars, send_sn, creditVars, timerVars, statusVars>>

(* Mutant: what the last transmission was allowed is not taken back. *)
MutantResetFlow ==
    /\ send_st_min_us' = 0
    /\ UNCHANGED <<send_bs_remain, send_wtf_count>>

ResetFlow ==
    /\ send_bs_remain' = 0
    /\ send_st_min_us' = 0
    /\ send_wtf_count' = 0

SendFirstFrame(size, answer) ==
    /\ Accepts(size)
    /\ size > SfMaxPayload(TxDl(tx_dl))
    /\ send_sn' = 1
    /\ completions' = 0
    /\ \/ /\ answer = "OK"
          /\ can_tx' = FirstFrame(size, TxDl(tx_dl))
          /\ send_offset' = FfDataLength(size, TxDl(tx_dl))
          /\ ResetFlow
          /\ send_timer_st' = now
          /\ send_timer_bs' = WrapAdd(now, RESPONSE_TIMEOUT_US)
          /\ send_protocol_result' = "OK"
          /\ send_status' = "INPROGRESS"
       \/ /\ answer # "OK"
          /\ can_tx' = NoFrame
          /\ send_offset' = 0
          /\ UNCHANGED <<creditVars, timerVars, statusVars>>
    /\ UNCHANGED <<now, paramVars>>

-----------------------------------------------------------------------------
(* isotp_poll, transmit part; elapse is the time that passes inside it      *)
(* before the response timeout is checked                                   *)

MayContinue ==
    /\ send_bs_remain = INVALID_BS \/ send_bs_remain > 0
    /\ \/ send_st_min_us = 0
       \/ TRUE \in TimeAfter(now, send_timer_st)

MustWait ==
    \/ send_bs_remain = 0
    \/ send_st_min_us # 0 /\ FALSE \in TimeAfter(now, send_timer_st)

(* Mutant: the check looks at the deadline before it was refreshed. *)
MutantCheckResponseTimeout(status) ==
    \E late \in TimeAfter(now', send_timer_bs) :
        /\ send_status' = IF late THEN "ERROR" ELSE status
        /\ send_protocol_result' = IF late THEN "TIMEOUT_BS" ELSE send_protocol_result

(* The check that ends every call made while a transmission was in progress,*)
(* on top of the status the first half of the call left.                    *)
CheckResponseTimeout(status) ==
    \E late \in TimeAfter(now', send_timer_bs') :
        /\ send_status' = IF late THEN "ERROR" ELSE status
        /\ send_protocol_result' = IF late THEN "TIMEOUT_BS" ELSE send_protocol_result

(* Mutant: the offset has to pass the end of the payload. *)
MutantFinishes(n) == send_offset + n > send_size

Finishes(n) == send_offset + n >= send_size

PollAccepted(elapse) ==
    LET f == ConsecutiveFrame(send_sn, send_size - send_offset, TxDl(tx_dl))
    IN  /\ InProgress
        /\ MayContinue
        /\ can_tx' = f
        /\ send_offset' = send_offset + f.n
        /\ send_sn' = NextSn(send_sn)
        /\ send_bs_remain' = IF send_bs_remain = INVALID_BS THEN INVALID_BS
                             ELSE send_bs_remain - 1
        /\ send_timer_bs' = WrapAdd(now, RESPONSE_TIMEOUT_US)
        /\ send_timer_st' = WrapAdd(now, send_st_min_us)
        /\ now' = WrapAdd(now, elapse)
        /\ CheckResponseTimeout(IF Finishes(f.n) THEN "IDLE" ELSE "INPROGRESS")
        /\ completions' = IF Finishes(f.n) /\ tx_done_cb THEN completions + 1 ELSE completions
        /\ cfs' = cfs + 1 /\ block' = block + 1
        /\ age_bs' = elapse /\ age_st' = elapse
        /\ UNCHANGED <<paramVars, send_size, send_st_min_us, send_wtf_count, grant, asked, waits>>

(* Nothing left the driver; before is the status when the timeout is checked. *)
PollUnsent(elapse, before) ==
    /\ now' = WrapAdd(now, elapse)
    /\ can_tx' = NoFrame
    /\ UNCHANGED <<paramVars, segmentVars, creditVars, timerVars, historyVars>>
    /\ CheckResponseTimeout(before)
    /\ age_bs' = age_bs + elapse /\ age_st' = age_st + elapse

(* Mutant: a full driver queue ends the call, and with it the timeout. *)
MutantPollNoSpace(elapse) ==
    /\ InProgress
    /\ MayContinue
    /\ now' = WrapAdd(now, elapse)
    /\ can_tx' = NoFrame
    /\ age_bs' = age_bs + elapse /\ age_st' = age_st + elapse
    /\ UNCHANGED <<linkVars, historyVars>>

PollNoSpace(elapse) ==
    /\ InProgress
    /\ MayContinue
    /\ PollUnsent(elapse, "INPROGRESS")

PollFailed(elapse) ==
    /\ InProgress
    /\ MayContinue
    /\ PollUnsent(elapse, "ERROR")

(* Mutant: without credit the call returns before the timeout is checked. *)
MutantPollWaiting(elapse) ==
    /\ InProgress
    /\ MustWait
    /\ now' = WrapAdd(now, elapse)
    /\ can_tx' = NoFrame
    /\ age_bs' = age_bs + elapse /\ age_st' = age_st + elapse
    /\ UNCHANGED <<linkVars, historyVars>>

PollWaiting(elapse) ==
    /\ InProgress
    /\ MustWait
    /\ PollUnsent(elapse, "INPROGRESS")

Poll(elapse) ==
    \/ PollAccepted(elapse)
    \/ PollNoSpace(elapse)
    \/ PollFailed(elapse)
    \/ PollWaiting(elapse)

-----------------------------------------------------------------------------
(* isotp_on_can_message, Flow Control frames *)

(* Mutant: the peer's separation time is ignored. *)
MutantContinued(f) ==
    /\ send_bs_remain' = IF f.BS = 0 THEN INVALID_BS ELSE f.BS
    /\ send_st_min_us' = DEFAULT_ST_MIN_US
    /\ send_wtf_count' = 0
    /\ grant' = IF f.BS = 0 THEN INVALID_BS ELSE f.BS
    /\ asked' = StMinToUs(f.STmin)
    /\ block' = 0 /\ waits' = 0
    /\ UNCHANGED <<statusVars, cfs, completions>>

Continued(f) ==
    /\ send_bs_remain' = IF f.BS = 0 THEN INVALID_BS ELSE f.BS
    /\ send_st_min_us' = IF StMinToUs(f.STmin) > DEFAULT_ST_MIN_US
                         THEN StMinToUs(f.STmin) ELSE DEFAULT_ST_MIN_US
    /\ send_wtf_count' = 0
    /\ grant' = IF f.BS = 0 THEN INVALID_BS ELSE f.BS
    /\ asked' = StMinToUs(f.STmin)
    /\ block' = 0 /\ waits' = 0
    /\ UNCHANGED <<statusVars, cfs, completions>>

(* Mutant: the last Wait frame that is allowed already ends the call. *)
MutantTooManyWaits(count) == count >= MAX_WFT_NUMBER

TooManyWaits(count) == count > MAX_WFT_NUMBER

Waited ==
    /\ send_wtf_count' = (send_wtf_count + 1) % 256
    /\ IF TooManyWaits(send_wtf_count')
       THEN send_protocol_result' = "WFT_OVRN" /\ send_status' = "ERROR"
       ELSE UNCHANGED statusVars
    /\ waits' = waits + 1
    /\ UNCHANGED <<send_bs_remain, send_st_min_us, cfs, grant, asked, block, completions>>

Overflowed ==
    /\ send_protocol_result' = "BUFFER_OVFLW"
    /\ send_status' = "ERROR"
    /\ UNCHANGED <<creditVars, historyVars>>

(* A reserved flow status has no effect but on the response timer. *)
OnFlowControl(f) ==
    /\ InProgress
    /\ f.len \in 3 .. MAX_CAN_FRAME_SIZE
    /\ send_timer_bs' = WrapAdd(now, RESPONSE_TIMEOUT_US)
    /\ age_bs' = 0
    /\ \/ f.FS = OVERFLOW /\ Overflowed
       \/ f.FS = WAIT     /\ Waited
       \/ f.FS = CONTINUE /\ Continued(f)
       \/ f.FS \notin {OVERFLOW, WAIT, CONTINUE}
          /\ UNCHANGED <<creditVars, statusVars, historyVars>>
    /\ can_tx' = NoFrame
    /\ UNCHANGED <<now, paramVars, segmentVars, send_timer_st, age_st>>

-----------------------------------------------------------------------------
(* Time passes; while no transmission is running nothing reads the clock.   *)
(* MaxLateness is what "call this regularly" asks of the application: an    *)
(* overdue link is polled before more time goes by.                         *)
Tick ==
    /\ InProgress
    /\ age_bs + ClockStep <= RESPONSE_TIMEOUT_US + MaxLateness
    /\ now' = WrapAdd(now, ClockStep)
    /\ age_bs' = age_bs + ClockStep
    /\ age_st' = age_st + ClockStep
    /\ can_tx' = NoFrame
    /\ UNCHANGED <<linkVars, historyVars>>

Send == \E size \in SendSizes, answer \in DriverAnswers :
            SendSingleFrame(size, answer) \/ SendFirstFrame(size, answer)

(* A link that is already overdue is not preempted any further.             *)
PollAny == \E elapse \in Preemptions :
               /\ elapse = 0 \/ age_bs <= RESPONSE_TIMEOUT_US + MaxLateness
               /\ Poll(elapse)

(* A peer does not keep a sender waiting for more than MaxStall.            *)
FlowControlArrives ==
    /\ age_st <= MaxStall
    /\ \E f \in FlowControls : OnFlowControl(f)

Next ==
    \/ Send
    \/ PollAny
    \/ FlowControlArrives
    \/ \E dl \in TxDls : SetTxDl(dl)
    \/ \E registered \in BOOLEAN : SetTxDoneCb(registered)
    \/ InitLink
    \/ DestroyLink
    \/ Tick

Spec == Init /\ [][Next]_vars

(* The clock advances by itself and the application keeps polling. *)
LiveSpec == Spec /\ WF_vars(Tick) /\ WF_vars(PollAny)

-----------------------------------------------------------------------------
(* Properties *)

ParamType ==
    tx_dl \in 0 .. 255 /\ send_buf_size \in Nat /\ tx_done_cb \in BOOLEAN

SegmentType == send_size \in Nat /\ send_offset \in Nat /\ send_sn \in 0 .. 15

CreditType ==
    /\ send_bs_remain \in 0 .. INVALID_BS
    /\ send_st_min_us \in Ticks
    /\ send_wtf_count \in 0 .. 255

TimerType == send_timer_st \in Ticks /\ send_timer_bs \in Ticks

StatusType ==
    /\ send_protocol_result \in {"OK", "TIMEOUT_BS", "WFT_OVRN", "BUFFER_OVFLW"}
    /\ send_status \in {"IDLE", "INPROGRESS", "ERROR"}

HistoryType ==
    /\ cfs \in Nat /\ grant \in 0 .. INVALID_BS /\ asked \in Nat /\ block \in Nat
    /\ waits \in Nat /\ completions \in Nat
    /\ age_bs \in Nat /\ age_st \in Nat

(* Every field keeps the range of its C type or enumeration.                *)
TypeOK ==
    /\ now \in Ticks
    /\ ParamType
    /\ SegmentType
    /\ CreditType
    /\ TimerType
    /\ StatusType
    /\ HistoryType

(* During a transmission, however often the driver was full, the offset and *)
(* the sequence number are those of exactly the frames the driver accepted, *)
(* the assertions of the three framing functions hold, and no memcpy reads  *)
(* behind the payload or the send buffer.                                   *)
Segmentation ==
    InProgress =>
        /\ SfMaxPayload(TxDl(tx_dl)) < send_size
        /\ send_offset = FfDataLength(send_size, TxDl(tx_dl)) + cfs * (TxDl(tx_dl) - 1)
        /\ send_sn = (cfs + 1) % 16
        /\ send_offset < send_size
        /\ send_size <= send_buf_size

(* A Consecutive Frame is only ever sent on the credit of a Continue frame  *)
(* received during this very transmission, and no more of them than it      *)
(* allowed: credit left over from an aborted transmission is not spent.     *)
CreditRespected ==
    InProgress =>
        /\ grant # INVALID_BS => block <= grant
        /\ grant = 0 => cfs = 0
        /\ send_bs_remain = IF grant = INVALID_BS THEN INVALID_BS ELSE grant - block

(* Two Consecutive Frames of one block are at least the separation time the *)
(* peer asked for apart, and never less than the configured one.            *)
SeparationRespected ==
    [][(cfs' = cfs + 1 /\ block > 0) =>
           age_st >= asked /\ age_st >= DEFAULT_ST_MIN_US]_vars

(* A transmission is given up for lack of an answer only when the response  *)
(* timeout has really gone by since the last frame it sent or the last Flow *)
(* Control it got, also where the clock wraps in between.                   *)
TimeoutHonest ==
    [][(InProgress /\ send_status' = "ERROR" /\ send_protocol_result' = "TIMEOUT_BS")
           => age_bs' > RESPONSE_TIMEOUT_US]_vars

(* After any poll the transmission is over, or younger than its timeout.    *)
TimeoutPrompt ==
    [][PollAny /\ InProgress' => age_bs' <= RESPONSE_TIMEOUT_US]_vars

(* WFT_OVRN is reported after more than MAX_WFT_NUMBER Wait frames in a row,*)
(* and not one of them later.                                               *)
WaitLimit ==
    /\ [](InProgress => waits <= MAX_WFT_NUMBER)
    /\ [][(send_protocol_result' = "WFT_OVRN" /\ send_protocol_result # "WFT_OVRN")
              => waits' > MAX_WFT_NUMBER]_vars

(* Consecutive Frames a payload takes. *)
CfsNeeded(size, dl) ==
    IF size <= SfMaxPayload(dl) THEN 0
    ELSE (size - FfDataLength(size, dl) + dl - 2) \div (dl - 1)

(* The driver takes the frame with the last byte of the payload. *)
LastFrameTaken ==
    /\ can_tx'.type \in {"SF", "CF"}
    /\ cfs' = CfsNeeded(send_size', TxDl(tx_dl))

(* A transmit callback that is registered runs when the driver takes the    *)
(* last frame of the payload, then only, and once.  A segmented transmission*)
(* does not go on behind that frame, and becomes idle with no other.        *)
CompletionHonest ==
    /\ [](completions <= 1)
    /\ [][completions' > completions => LastFrameTaken /\ tx_done_cb]_vars
    /\ [][LastFrameTaken => completions' = IF tx_done_cb THEN 1 ELSE 0]_vars
    /\ [][InProgress /\ send_status' = "IDLE" /\ send_size' > 0 => LastFrameTaken]_vars
    /\ [][InProgress /\ LastFrameTaken => ~InProgress']_vars

(* A transmission reported complete is not turned into a failed one.        *)
CompletionStands ==
    [][(InProgress /\ send_offset' >= send_size' /\ send_size' > 0)
           => send_status' = "IDLE"]_vars

(* Once the peer falls silent every transmission ends, whatever the driver  *)
(* answers and whatever credit is left.                                     *)
SilenceEnds == []<><<FlowControlArrives>>_vars \/ []<>~InProgress

-----------------------------------------------------------------------------
(* What the documentation says and the code does not do *)

(* isotp_defines.h: TIMEOUT_BS is a timeout waiting for a Flow Control.     *)
TimeoutAwaitsFlowControl ==
    [][(InProgress /\ send_status' = "ERROR" /\ send_protocol_result' = "TIMEOUT_BS")
           => send_bs_remain = 0]_vars

(* isotp_defines.h: a transmission in status ERROR has a result to inspect. *)
ErrorExplained == send_status = "ERROR" => send_protocol_result # "OK"

=============================================================================
