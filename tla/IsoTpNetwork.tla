----------------------------- MODULE IsoTpNetwork -----------------------------
(***************************************************************************)
(* Two links on a CAN bus: the transmit half of one (S) sends payloads to   *)
(* the receive half of the other (R), each driven by an application loop    *)
(* like the ones in the examples: take a frame, poll, take the data.  Frames*)
(* of one identifier stay in order on the bus, where a budget of faults may *)
(* hit them.                                                                *)
(***************************************************************************)
EXTENDS IsoTpFrame, SequencesExt

CONSTANTS
    \* The build and the two calls of isotp_init_link
    RESPONSE_TIMEOUT_US, DEFAULT_ST_MIN_US, MAX_WFT_NUMBER, BLOCK_SIZE,
    SEND_BUF_SIZE, DEFAULT_TX_DL, RECEIVE_BUF_SIZES,
    \* The applications and the bus
    Payloads,              \* sizes of the payloads sent, in this order
    StartTime, ClockStep,
    MaxTransit,            \* how long a frame may take
    MaxDelay,              \* how long a sender that may continue is not polled, or
                           \* finds no room in the driver
    MaxHold,               \* how long a full streaming buffer is not taken
    MaxLateness,           \* how late after a deadline isotp_poll is still called
    MaxFaults              \* how many faults a behaviour may have

VARIABLES
    now,
    \* The sender: see IsoTpSend
    can_tx, tx_dl, send_buf_size, send_size, send_offset, send_sn,
    send_bs_remain, send_st_min_us, send_wtf_count, send_timer_st, send_timer_bs,
    send_protocol_result, send_status, tx_done_cb,
    cfs, grant, asked, block, waits, completions, age_bs, age_st,
    \* The receiver: see IsoTpReceive
    fc_tx, out, rx_dl, receive_buf_size, receive_buffer, receive_size, receive_offset,
    receive_sn, receive_bs_count, receive_timer_cr, receive_protocol_result,
    receive_status, receive_stream_size, receive_streaming, receive_stream_carry_size,
    receive_stream_carry, rx_done_cb, message, consumed, invited, age_cr,
    \* The bus and the applications
    to_receiver, to_sender,   \* frames on their way, each with its age
    sent,                     \* payloads isotp_send has accepted
    held,                     \* how long the full streaming buffer has not been taken
    handed,                   \* the last piece handed to the receiving application
    faults                    \* kinds of the faults so far

S == INSTANCE IsoTpSend WITH
        SendSizes <- {}, TxDls <- {}, FlowControls <- {}, Preemptions <- {0}, MaxStall <- 0
R == INSTANCE IsoTpReceive WITH
        ENABLE_STREAMING <- TRUE, ST_MIN_US <- DEFAULT_ST_MIN_US, Frames <- {}, PayloadSizes <- {}
Transfer == INSTANCE IsoTpTransfer WITH sending <- S!InProgress

sender   == <<tx_dl, send_buf_size, send_size, send_offset, send_sn, send_bs_remain,
              send_st_min_us, send_wtf_count, send_timer_st, send_timer_bs,
              send_protocol_result, send_status, tx_done_cb,
              cfs, grant, asked, block, waits, completions, age_bs, age_st>>
receiver == <<rx_dl, receive_buf_size, receive_buffer, receive_size, receive_offset,
              receive_sn, receive_bs_count, receive_timer_cr, receive_protocol_result,
              receive_status, receive_stream_size, receive_streaming,
              receive_stream_carry_size, receive_stream_carry, rx_done_cb,
              message, consumed, invited, age_cr>>
bus      == <<to_receiver, to_sender>>
vars     == <<now, can_tx, sender, fc_tx, out, receiver, bus, sent, held, handed, faults>>

SenderRests   == can_tx' = NoFrame /\ UNCHANGED sender
ReceiverRests == fc_tx' = NoFrame /\ out' = R!NoData /\ UNCHANGED receiver

Init ==
    /\ now = StartTime
    /\ S!LinkInit /\ R!LinkInit
    /\ to_receiver = << >> /\ to_sender = << >>
    /\ sent = 0 /\ held = 0 /\ handed = Transfer!NoPiece /\ faults = << >>

(* What both links are built and initialised with, and what the bus and the *)
(* two applications keep to.                                                *)
NetworkParameters ==
    /\ S!LinkParameters /\ S!TimeParameters
    /\ R!ReceiveParameters
    /\ Payloads \in Seq(Nat)
    /\ MaxTransit \in Nat /\ MaxDelay \in Nat /\ MaxHold \in Nat /\ MaxFaults \in Nat

ASSUME NetworkAssumption == NetworkParameters

-----------------------------------------------------------------------------
(* What the drivers take is on the bus. *)

OnBus(frame) == [frame |-> frame, age |-> 0]

(* A frame, and what it carries: bytes of which message, from where on.     *)
Carrying(frame, msg, at) ==
    [field \in DOMAIN frame \cup {"msg", "at"} |->
        IF field = "msg" THEN msg ELSE IF field = "at" THEN at ELSE frame[field]]

DataSent(msg, at) ==
    to_receiver' = IF can_tx' = NoFrame THEN to_receiver
                   ELSE Append(to_receiver, OnBus(Carrying(can_tx', msg, at)))

FlowControlSent == IF fc_tx' = NoFrame THEN UNCHANGED to_sender
                   ELSE to_sender' = Append(to_sender, OnBus(fc_tx'))

(* The bytes a call handed over, found out from the bytes themselves.       *)
Piece(bytes) ==
    LET msg  == bytes[1] \div R!Byte(1, 0)
        from == bytes[1] - R!Byte(msg, 1)
    IN  IF \A i \in 1 .. Len(bytes) : bytes[i] = R!Byte(msg, from + i)
        THEN [msg |-> msg, from |-> from, to |-> from + Len(bytes), complete |-> out'.complete]
        ELSE [Transfer!NoPiece EXCEPT !.to = Len(bytes)]

Handed == IF out' = R!NoData THEN UNCHANGED handed ELSE handed' = Piece(out'.bytes)

Holding == receive_status = "FULL" /\ receive_streaming

-----------------------------------------------------------------------------
(* The sender's application *)

SendPayload ==
    /\ sent < Len(Payloads)
    /\ sent' = sent + 1
    /\ \/ S!SendSingleFrame(Payloads[sent'], "OK")
       \/ S!SendFirstFrame(Payloads[sent'], "OK")
    /\ DataSent(sent', 0)
    /\ ReceiverRests
    /\ UNCHANGED <<to_sender, held, handed, faults>>

SenderPolls ==
    /\ S!PollAccepted(0) \/ S!PollNoSpace(0) \/ S!PollWaiting(0)
    /\ DataSent(sent, send_offset)
    /\ ReceiverRests
    /\ UNCHANGED <<to_sender, sent, held, handed, faults>>

SenderTakesFrame ==
    /\ to_sender # << >>
    /\ to_sender' = Tail(to_sender)
    /\ \/ S!OnFlowControl(Head(to_sender).frame)
       \/ ~S!InProgress /\ SenderRests /\ UNCHANGED now
    /\ ReceiverRests
    /\ UNCHANGED <<to_receiver, sent, held, handed, faults>>

-----------------------------------------------------------------------------
(* The receiver's application *)

ReceiverTakesFrame ==
    /\ to_receiver # << >>
    /\ to_receiver' = Tail(to_receiver)
    /\ R!OnCanMessage(Head(to_receiver).frame, TRUE)
    /\ FlowControlSent
    /\ Handed
    /\ held' = 0
    /\ SenderRests
    /\ UNCHANGED <<sent, faults>>

ReceiverPolls ==
    /\ R!PollTimesOut
    /\ SenderRests
    /\ UNCHANGED <<bus, sent, held, handed, faults>>

(* Its memory for data is as large as the receive buffer.                   *)
ReceiverTakesData ==
    /\ R!Receive(receive_buf_size) \/ R!ReceiveStreaming(receive_buf_size, TRUE)
    /\ FlowControlSent
    /\ Handed
    /\ held' = IF Holding' THEN held ELSE 0
    /\ SenderRests
    /\ UNCHANGED <<to_receiver, sent, faults>>

-----------------------------------------------------------------------------
(* Faults.  A Flow Control that the receiver's driver refuses is one that   *)
(* is lost: nobody looks at the result of sending it.                       *)

(* A sender that restarts is the last fault of a behaviour.  The invitation *)
(* to its old message also serves the new one; were the new First Frame     *)
(* lost as well, the receiver would take the new Consecutive Frames for the *)
(* rest of the old message, which nothing in a frame contradicts.           *)
Fault(kind) ==
    /\ Len(faults) < MaxFaults
    /\ "sender restarts" \notin Range(faults)
    /\ faults' = Append(faults, kind)

DataLost ==
    /\ to_receiver # << >>
    /\ to_receiver' = Tail(to_receiver)
    /\ Fault("lost")
    /\ SenderRests /\ ReceiverRests
    /\ UNCHANGED <<now, to_sender, sent, held, handed>>

FlowControlLost ==
    /\ to_sender # << >>
    /\ to_sender' = Tail(to_sender)
    /\ Fault("lost")
    /\ SenderRests /\ ReceiverRests
    /\ UNCHANGED <<now, to_receiver, sent, held, handed>>

(* A repeated First or Single Frame begins its message again, by design.    *)
ConsecutiveFrameRepeated ==
    /\ to_receiver # << >> /\ Head(to_receiver).frame.type = "CF"
    /\ to_receiver' = <<Head(to_receiver)>> \o to_receiver
    /\ Fault("repeated")
    /\ SenderRests /\ ReceiverRests
    /\ UNCHANGED <<now, to_sender, sent, held, handed>>

DriverFails ==
    /\ S!PollFailed(0)
    /\ Fault("failed")
    /\ ReceiverRests
    /\ UNCHANGED <<bus, sent, held, handed>>

SenderRestarts ==
    /\ S!InitLink
    /\ Fault("sender restarts")
    /\ ReceiverRests
    /\ UNCHANGED <<bus, sent, held, handed>>

ReceiverRestarts ==
    /\ R!InitLink(receive_buf_size)
    /\ Fault("receiver restarts")
    /\ held' = 0
    /\ SenderRests
    /\ UNCHANGED <<bus, sent, handed>>

-----------------------------------------------------------------------------
(* Time, which stands still while both links are idle.  Nothing is left     *)
(* undone for longer than its bound.                                        *)

Timely ==
    /\ \A i \in DOMAIN to_receiver : to_receiver[i].age + ClockStep <= MaxTransit
    /\ \A i \in DOMAIN to_sender : to_sender[i].age + ClockStep <= MaxTransit
    /\ S!InProgress /\ send_bs_remain # 0 => age_bs + ClockStep <= send_st_min_us + MaxDelay
    /\ Holding => held + ClockStep <= MaxHold

Aged(channel) ==
    [i \in DOMAIN channel |-> [channel[i] EXCEPT !.age = @ + ClockStep]]

Tick ==
    /\ S!InProgress \/ R!Receiving
    /\ Timely
    /\ now' = WrapAdd(now, ClockStep)
    /\ IF S!InProgress THEN S!Tick ELSE SenderRests
    /\ IF R!Receiving THEN R!Tick ELSE ReceiverRests
    /\ to_receiver' = Aged(to_receiver)
    /\ to_sender' = Aged(to_sender)
    /\ held' = IF Holding THEN held + ClockStep ELSE 0
    /\ UNCHANGED <<sent, handed, faults>>

Next ==
    \/ SendPayload \/ SenderPolls \/ SenderTakesFrame
    \/ ReceiverTakesFrame \/ ReceiverPolls \/ ReceiverTakesData
    \/ DataLost \/ FlowControlLost \/ ConsecutiveFrameRepeated \/ DriverFails
    \/ SenderRestarts \/ ReceiverRestarts
    \/ Tick

Spec == Init /\ [][Next]_vars

(* The two loops, the bus and the clock go on as long as one of them can.   *)
(* More need not be assumed: none of them can go on for ever while another  *)
(* one waits, because nothing is left undone for longer than its bound.     *)
SenderLoop   == SenderPolls \/ SenderTakesFrame
ReceiverLoop == ReceiverTakesFrame \/ ReceiverPolls \/ ReceiverTakesData

LiveSpec == Spec /\ WF_vars(Tick \/ SenderLoop \/ ReceiverLoop)

-----------------------------------------------------------------------------
(* Properties *)

(* The two links keep the promise of IsoTpTransfer, whatever fault hits     *)
(* them: no piece is handed over twice, with a gap, or mixed with another   *)
(* message, and every transmission ends.                                    *)
Transfers == Transfer!LiveSpec

(* The Consecutive Frames on the bus, and the frames that the Flow Controls *)
(* on the bus invite.                                                       *)
DataOnBus == {i \in DOMAIN to_receiver : to_receiver[i].frame.type = "CF"}
Invited   == UNION {{i} \X (1 .. to_sender[i].frame.BS) : i \in DOMAIN to_sender}

(* Consecutive Frames the sender may still send, has on the bus, or is just *)
(* being invited to send.                                                   *)
Outstanding == send_bs_remain + Cardinality(DataOnBus) + Cardinality(Invited)

(* The receiver has the First Frame of what is being sent, and neither the  *)
(* sender's memory nor the bus has mixed an earlier invitation in.          *)
Together ==
    /\ S!InProgress /\ message = sent
    /\ \A kind \in Range(faults) : kind \in {"lost", "failed"}

(* Both sides count the same block: what the sender may still send is never *)
(* more than what the receiver has invited, and without a fault it is not   *)
(* less either, so that neither waits for the other.                        *)
CreditAgreement ==
    Together /\ R!Receiving /\ invited # INVALID_BS =>
        /\ Outstanding <= invited
        /\ faults = << >> => Outstanding = invited

(* While a full streaming buffer waits for the application the sender has   *)
(* no credit, nothing is on its way, and nobody is about to invite it.      *)
Backpressure == Together /\ Holding => Outstanding = 0

(* As long as everybody keeps its bounds and no fault occurs, no transfer   *)
(* fails: no timeout, no unexpected or misnumbered frame.                   *)
NoSpuriousFailure ==
    faults = << >> => send_status # "ERROR" /\ receive_protocol_result = "OK"

(* Without a fault the payload sent last reaches the application, to its    *)
(* last byte; an earlier one may be overwritten before it is taken.         *)
Delivered ==
    <>[](faults = << >> /\ sent > 0 => handed.msg = sent /\ handed.to = Payloads[sent])

(* Whatever happened, both links come to rest.                              *)
Settles == <>[](~S!InProgress /\ ~R!Receiving)
=============================================================================
