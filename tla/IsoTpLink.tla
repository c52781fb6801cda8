------------------------------ MODULE IsoTpLink -------------------------------
(***************************************************************************)
(* One link with both halves at work.  isotp_poll() serves the transmit     *)
(* half, then the receive half; between the two it may run the transmit     *)
(* callback, which is application code: it takes time and may make the next *)
(* calls on the link.  isotp_on_can_message() sends Flow Control to the     *)
(* transmit half and ends with the receive callback, whatever the frame was.*)
(***************************************************************************)
EXTENDS IsoTpFrame, Sequences

CONSTANTS
    \* The build and the call of isotp_init_link
    RESPONSE_TIMEOUT_US, DEFAULT_ST_MIN_US, MAX_WFT_NUMBER, BLOCK_SIZE, ENABLE_STREAMING,
    SEND_BUF_SIZE, DEFAULT_TX_DL, RECEIVE_BUF_SIZES,
    \* The application and the peer
    SendSizes, FlowControls, Frames, PayloadSizes,
    StartTime, ClockStep,
    MaxCallback,           \* how long the transmit callback takes
    MaxStall, MaxLateness

VARIABLES
    now,
    \* The transmit half: see IsoTpSend
    can_tx, tx_dl, send_buf_size, send_size, send_offset, send_sn,
    send_bs_remain, send_st_min_us, send_wtf_count, send_timer_st, send_timer_bs,
    send_protocol_result, send_status, tx_done_cb,
    cfs, grant, asked, block, waits, completions, age_bs, age_st,
    \* The receive half: see IsoTpReceive
    fc_tx, out, rx_dl, receive_buf_size, receive_buffer, receive_size, receive_offset,
    receive_sn, receive_bs_count, receive_timer_cr, receive_protocol_result,
    receive_status, receive_stream_size, receive_streaming, receive_stream_carry_size,
    receive_stream_carry, rx_done_cb, message, consumed, invited, age_cr,
    \* isotp_poll is in the transmit callback, and for how long
    in_tx_done_cb, age_cb

S == INSTANCE IsoTpSend WITH TxDls <- {}, Preemptions <- {0}
R == INSTANCE IsoTpReceive WITH ST_MIN_US <- DEFAULT_ST_MIN_US

(* What the two halves ask of their parameters.                             *)
ASSUME LinkAssumption ==
    /\ S!LinkParameters /\ S!TimeParameters /\ S!PeerParameters
    /\ R!ReceiveParameters
    /\ MaxCallback \in Nat

sendHalf == <<tx_dl, send_buf_size, send_size, send_offset, send_sn, send_bs_remain,
              send_st_min_us, send_wtf_count, send_timer_st, send_timer_bs,
              send_protocol_result, send_status, tx_done_cb,
              cfs, grant, asked, block, waits, completions, age_bs, age_st>>
receiveHalf == <<rx_dl, receive_buf_size, receive_buffer, receive_size, receive_offset,
              receive_sn, receive_bs_count, receive_timer_cr, receive_protocol_result,
              receive_status, receive_stream_size, receive_streaming,
              receive_stream_carry_size, receive_stream_carry, rx_done_cb,
              message, consumed, invited, age_cr>>
callback == <<in_tx_done_cb, age_cb>>
vars == <<now, can_tx, sendHalf, fc_tx, out, receiveHalf, callback>>

SendHalfRests    == can_tx' = NoFrame /\ UNCHANGED sendHalf
ReceiveHalfRests == fc_tx' = NoFrame /\ out' = R!NoData /\ UNCHANGED receiveHalf

Init ==
    /\ now = StartTime
    /\ S!LinkInit /\ R!LinkInit
    /\ in_tx_done_cb = FALSE /\ age_cb = 0

-----------------------------------------------------------------------------
(* Life of the link.  isotp_init_link asks for a link that no other call    *)
(* uses, so not in a callback.                                              *)

InitLink ==
    /\ ~in_tx_done_cb
    /\ S!InitLink
    /\ R!InitLink(receive_buf_size)
    /\ UNCHANGED callback

SetDoneCbs ==
    /\ \/ \E registered \in BOOLEAN : S!SetTxDoneCb(registered) /\ ReceiveHalfRests
       \/ \E registered \in BOOLEAN : R!SetRxDoneCb(registered) /\ SendHalfRests
    /\ UNCHANGED callback

-----------------------------------------------------------------------------
(* isotp_send, called by the application or by one of its callbacks         *)

Send == S!Send /\ ReceiveHalfRests /\ UNCHANGED callback

-----------------------------------------------------------------------------
(* isotp_poll *)

PollSendHalf ==
    \/ S!Poll(0)
    \/ ~S!InProgress /\ SendHalfRests /\ UNCHANGED now

(* Mutant: a transmission in progress ends the call. *)
MutantPollReceiveHalf ==
    \/ ~S!InProgress /\ R!PollTimesOut
    \/ /\ S!InProgress \/ ~R!Receiving \/ ~R!DeadlinePassed
       /\ ReceiveHalfRests

PollReceiveHalf ==
    \/ R!PollTimesOut
    \/ /\ R!Receiving => receive_timer_cr = 0 \/ FALSE \in TimeAfter(now, receive_timer_cr)
       /\ ReceiveHalfRests

(* The whole call, or the part of it before the transmit callback.  The code*)
(* checks the timeout behind the callback only; S!Poll checks it here too,  *)
(* against the deadline this step sets, which by a wrapping comparison has  *)
(* never passed.                                                            *)
Poll ==
    /\ ~in_tx_done_cb
    /\ PollSendHalf
    /\ in_tx_done_cb' = (completions' # completions)
    /\ age_cb' = 0
    /\ IF in_tx_done_cb' THEN ReceiveHalfRests ELSE PollReceiveHalf

(* The callback returns to the rest of the call, ... *)
Resume ==
    /\ in_tx_done_cb
    /\ in_tx_done_cb' = FALSE /\ age_cb' = 0
    /\ can_tx' = NoFrame
    /\ UNCHANGED <<now, tx_dl, send_buf_size, send_size, send_offset, send_sn, send_bs_remain,
                   send_st_min_us, send_wtf_count, send_timer_st, send_timer_bs,
                   tx_done_cb, cfs, grant, asked, block, waits, completions, age_bs, age_st>>
    /\ PollReceiveHalf

(* Mutant: the status is only written behind the callback. *)
MutantPollReturns == Resume /\ send_status' = "IDLE" /\ UNCHANGED send_protocol_result

(* ... which reads what it has left behind, a later clock and maybe another *)
(* transmission.                                                            *)
PollReturns == Resume /\ S!CheckResponseTimeout(send_status)

-----------------------------------------------------------------------------
(* isotp_on_can_message.  A receive callback that calls isotp_send makes a  *)
(* call like any other: nothing behind it in the function reads the         *)
(* transmit half, and isotp_send reads nothing of the receive half.         *)

OnFlowControl ==
    /\ age_st <= MaxStall
    /\ \E f \in FlowControls : S!OnFlowControl(f)
    /\ R!ReceiveOtherFrame

OnDataFrame ==
    /\ \E f \in Frames, accepted \in BOOLEAN : R!OnCanMessage(f, accepted)
    /\ SendHalfRests

OnCanMessage == ~in_tx_done_cb /\ (OnFlowControl \/ OnDataFrame) /\ UNCHANGED callback

TakeData == ~in_tx_done_cb /\ R!TakeData /\ SendHalfRests /\ UNCHANGED callback

-----------------------------------------------------------------------------
Tick ==
    /\ S!InProgress \/ R!Receiving \/ in_tx_done_cb
    /\ now' = WrapAdd(now, ClockStep)
    /\ IF S!InProgress THEN S!Tick ELSE SendHalfRests
    /\ IF R!Receiving THEN R!Tick ELSE ReceiveHalfRests
    /\ IF in_tx_done_cb THEN age_cb' = age_cb + ClockStep ELSE age_cb' = 0
    /\ age_cb' <= MaxCallback
    /\ UNCHANGED in_tx_done_cb

Next ==
    \/ InitLink \/ SetDoneCbs
    \/ Send \/ Poll \/ PollReturns
    \/ OnCanMessage \/ TakeData
    \/ Tick

Spec == Init /\ [][Next]_vars

(* The clock advances, the application keeps polling, its callbacks return. *)
LiveSpec == Spec /\ WF_vars(Tick) /\ WF_vars(Poll) /\ WF_vars(PollReturns)

-----------------------------------------------------------------------------
(* Properties *)

(* A transmission reported to the transmit callback stays complete when the *)
(* callback returns, and one the callback has started goes on; only a       *)
(* callback slower than the response timeout could change that.             *)
CallbackOutcomeStands ==
    [][in_tx_done_cb /\ ~in_tx_done_cb' => send_status' = send_status]_vars

(* A transmission that the callback or the application starts has its whole *)
(* response timeout, whatever call it is started in.                        *)
TimeoutHonestInDuplex ==
    [][(S!InProgress /\ send_status' = "ERROR" /\ send_protocol_result' = "TIMEOUT_BS")
           => age_bs' > RESPONSE_TIMEOUT_US]_vars

(* Reception is bounded while a transmission keeps the link busy, and the   *)
(* other way round: if nothing arrives any more both halves come to rest.   *)
SilenceEndsBoth ==
    []<><<OnCanMessage>>_vars \/ ([]<>~S!InProgress /\ []<>~R!Receiving)
=============================================================================
