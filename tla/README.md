# isotp-c: models, checks and proofs

This directory holds TLA+ specifications of isotp-c, an ISO 15765-2 (ISO-TP)
transport for CAN and CAN FD written in C: `src/isotp.c` with its headers. They
are translated from the code, function by function; `PROJECT.json` names the
lines each definition stands for. TLC checks them on small instances, and TLAPS
proves the safety properties of the codec, of each half of a link, of a link with
both halves at work and of two links on a bus for every parameter value.

Run things in this directory:

    tlc -config SendFlow.cfg MCIsoTpSend        # any run below
    tlapm IsoTpSend_proofs.tla                  # any *_proofs module


## 1. The system

### 1.1 Components

| Component | Code | State | Operations |
|---|---|---|---|
| Frame codec | `isotp_ceil_can_dl` .. `isotp_st_min_to_us`, the three `isotp_send_*_frame`, the length checks of `isotp_receive_*_frame`, `IsoTpTimeAfter` | none | data length rounding, padding, PCI headers, STmin code, deadline comparison |
| Transmit half of a link | `isotp_send_with_id`, first half of `isotp_poll`, Flow Control case of `isotp_on_can_message` | `send_*`, `tx_dl` | start a payload, send the next Consecutive Frame, take Flow Control, time out |
| Receive half of a link | other cases of `isotp_on_can_message`, `isotp_receive`, `isotp_receive_streaming`, second half of `isotp_poll` | `receive_*`, `rx_dl`, the carry buffer | reassemble, answer with Flow Control, hand over whole messages or chunks, time out |
| Life of a link | `isotp_init_link`, `isotp_destroy_link`, `isotp_set_tx_dl`, the two `isotp_set_*_done_cb` | all of them | reset, configure |
| Platform hooks | `isotp_user_send_can`, `isotp_user_get_us`, `isotp_user_debug` (application code) | the driver's queue, the clock | accept, postpone or fail a frame; read the clock |
| Application | examples, fuzz harness, tests | its own | makes the calls, one at a time per link |

The two halves of a link share no field: they share the driver, the clock, the
call `isotp_poll`, which serves the transmit half first, and the call
`isotp_on_can_message`, which sends Flow Control frames to the transmit half and
everything else to the receive half, and ends with the receive callback whatever
the frame was. Two links talk through CAN frames alone: the First Frame
announces the size, every Flow Control grants a block of Consecutive Frames and a
separation time, a four bit sequence number is all that tells a lost frame.

### 1.2 What is hard

- *Nothing is atomic between two calls.* The driver may refuse any frame, for a
  while or for good; offset, sequence number, credit and timers must move with
  the frames it took and with no others.
- *Two sides count blocks.* The sender's `send_bs_remain` and the receiver's
  `receive_bs_count` have to agree, or both wait until their timeouts.
- *A clock that wraps.* Deadlines are `uint32_t` sums compared by the sign of a
  difference, and 0 doubles as "no deadline".
- *Messages interrupt each other.* A Single or First Frame may arrive in the
  middle of a reassembly, valid, malformed or too large.
- *Streaming.* A message above the buffer is handed over in chunks whose borders
  are not frame borders; what does not fit waits in a carry of one frame.
- *Two clocks of patience.* Sender and receiver both run a response timer, and
  everything that takes time on the way from one refresh to the next - the bus, a
  late poll, an application that takes its data late - counts against both.
- *Callbacks in the middle of a call.* The transmit callback runs inside
  `isotp_poll`, which goes on with whatever the callback has left behind.
- *Frames name no message.* An invitation or a Consecutive Frame of an abandoned
  message looks like one of the next.
- *Stale fields.* An aborted transmission or reception leaves its fields behind,
  and the next one has to reset exactly those it reads.

`PROJECT.json` lists these as hazards, each at its line with the properties that
watch it, or the reason why none does yet.

### 1.3 What makes each component correct

- Codec: what one side builds the other accepts and reads alike; every frame
  length is one the bus knows; deadlines are exact across every wrap.
- Transmit half: offset and sequence number are functions of the frames the
  driver took; no Consecutive Frame without credit given to this transmission;
  separation kept; a timeout neither early nor missing; completion reported once,
  with the last byte; a silent peer cannot hold the link.
- Receive half: no copy leaves its array; what the application gets continues
  the message it belongs to, and its end is reported with its last byte; bytes
  taken, buffered and carried are together the bytes received; a receiver that
  waits has invited a frame, and one that cannot take a frame has not.
- A full link: neither half starves the other of its timeouts, and what a callback
  has begun or seen completed is not undone behind its back.
- Two links: both count the same block; a full buffer stops the sender with nothing
  left on the way; whatever is lost, what is handed over is a part of one message,
  in order, without a gap, and complete exactly when it says so; and both sides come
  to rest.


## 2. The modules

| Module | What it holds |
|---|---|
| `IsoTpFrame` | the codec and the clock arithmetic, as operators |
| `IsoTpSend` | the transmit half of one link, its environment and its properties |
| `IsoTpReceive` | the receive half of one link, its environment and its properties |
| `IsoTpLink` | one link with both halves, and calls from the transmit callback |
| `IsoTpTransfer` | what two links promise to their applications, abstractly |
| `IsoTpNetwork` | a sending and a receiving link on a bus with faults; implements `IsoTpTransfer` |
| `MCIsoTpFrame`, `MCIsoTpSend`, `MCIsoTpReceive`, `MCIsoTpLink`, `MCIsoTpNetwork` | the instances TLC checks |
| `IsoTpFrame_proofs` | facts about data lengths and the wrapping clock |
| `MCIsoTpFrame_proofs` | the codec's properties |
| `IsoTpSend_proofs` | types, segmentation, credit, Wait frames, completion, response timeout and separation time of the transmit half |
| `IsoTpReceive_proofs` | types, bounds of the copies, invitations and response timeout of the receive half, the bytes in its buffers and those it hands over |
| `IsoTpLink_proofs` | what carries over to a link with both halves, and its callbacks |
| `IsoTpNetwork_proofs` | what carries over to two links on a bus: the frames on it, the halves' promises, their timers |
| `IsoTpNetworkCredit_proofs` | what the two links count together, through the queues of the bus, and how long they wait for each other |
| `IsoTpNetworkTransfer_proofs` | that they implement `IsoTpTransfer` when frames are lost |

Variables carry the names of the fields of `IsoTpLink`. Calls on one link must be
serialised (`src/README.md:102`), so a call is one atomic action; its guard is the
conjunction of the conditions that lead to that branch, and a call that is
refused without any effect (a payload above the buffer, `isotp_set_tx_dl` during a
transmission) is the absence of the action.

Operators called `Mutant...` are never part of a behaviour. Each is a plausible
mistake in the definition that follows it; the project's properties are only
kept where exchanging the two makes TLC find a violation.

### 2.1 IsoTpFrame

A frame is a record: its header fields, the number `n` of payload bytes and the
length `len` given to the driver. Header *fields* are split as the code splits
them (the 12 bit length in 4 and 8 bits, the escape of a CAN FD Single Frame);
the order of bits in a byte, the byte swap of `ff_dl`, the padding value and the
bit-rate-switch flag are layout and left out.

The clock is a ring of `2 * HALF_RANGE` readings, 2^32 in the code.
`IsoTpTimeAfter(a, b)` casts both readings to `int32_t` and asks whether `b - a`
is negative. Where that difference does not fit, C leaves the outcome undefined:
an unoptimised build wraps, and an optimising compiler may compare `b < a`
instead (gcc does at -O2, which is what the Release build asks for). The constant
`COMPARISONS` says which of the two the build may contain, and `TimeAfter` is the
set of answers it can give.

### 2.2 IsoTpSend

| Action | Code |
|---|---|
| `SendSingleFrame`, `SendFirstFrame` | `isotp_send_with_id`, both branches, for each answer of the driver |
| `PollAccepted`, `PollNoSpace`, `PollFailed`, `PollWaiting` | the transmit part of `isotp_poll`: a Consecutive Frame taken, postponed or failed, or nothing to send yet; each ends with `CheckResponseTimeout`, as the call does |
| `OnFlowControl` | the Flow Control case of `isotp_on_can_message`: `Continued`, `Waited`, `Overflowed`, or a reserved status that refreshes the timer only |
| `SetTxDl`, `SetTxDoneCb`, `InitLink`, `DestroyLink` | the calls of those names |
| `Tick` | time passes between two calls |

`elapse` is the time `isotp_poll` loses between refreshing its timers and
checking the timeout; the transmit callback runs in that gap. The history
variables (`cfs`, `grant`, `asked`, `block`, `waits`, `completions`, and the two
ages) are read by properties and by the environment's guards only: they count what
the driver took, what the peer granted, and how much time has really gone by.

Environment: the driver answers `OK`, `NOSPACE` or `ERROR` to any frame; the peer
sends any of `FlowControls` at any time; the clock moves in steps of `ClockStep`.
It stands still while no transmission runs, because nothing reads it then: every
reading that matters is relative to the start of a transmission, and since a
transmission may begin at any reading the last one stopped at, every multiple of
the step is met.

### 2.3 IsoTpReceive

| Action | Code |
|---|---|
| `ReceiveSingleFrame`, `ReceiveFirstFrame`, `ReceiveConsecutiveFrame`, `ReceiveOtherFrame` | `isotp_on_can_message` with what it calls; each ends in `Notify`, the receive callback at the end of the function |
| `Receive`, `ReceiveStreaming` | `isotp_receive`, `isotp_receive_streaming` |
| `PollTimesOut` | the receive part of `isotp_poll` |
| `InitLink`, `DestroyLink`, `SetRxDoneCb` | the calls of those names |
| `Tick` | time passes between two calls |

A payload byte is a token that knows its message and position (`Byte(m, i)`);
`receive_buffer` and `receive_stream_carry` are arrays of tokens and every
`memcpy` and `memmove` of the code is an `Overwrite` at the offset the code
computes. `out` is what a step hands to the application, `message` and `consumed`
say which message that is and how much of it was taken before. `invited` counts
the Consecutive Frames the last Flow Control still invites. A Flow Control the
driver refuses counts as sent for `invited`, as it does for the code, which
ignores the result: the property is about what the receiver has offered.

Frames arrive in any order and number, which is a bus that loses, repeats and
reorders at will; `Frames` also holds malformed ones.

### 2.4 IsoTpLink

`IsoTpSend` and `IsoTpReceive`, instantiated over one clock; an action of one half
leaves the other as it is.

| Action | Code |
|---|---|
| `Poll` | `isotp_poll`: the transmit half, then the receive half, or up to the transmit callback if there is one to run |
| `PollReturns` | the rest of that call, after the callback |
| `OnCanMessage` | `isotp_on_can_message`, with the receive callback at its end also when the frame was a Flow Control |
| `Send`, `SetDoneCbs` | the calls of those names, by the application or in the transmit callback |
| `TakeData`, `InitLink` | the calls of those names, outside callbacks: `isotp_init_link` asks for a link that no other call uses (`src/isotp.h:141`) |
| `Tick` | time passes between two calls or in the callback |

`in_tx_done_cb` is the program counter of a poll, `age_cb` the time its callback
has taken. `IsoTpSend` alone abstracts the callback to the time it takes; here it
acts. A receive callback that calls `isotp_send` needs no action of its own:
`isotp_send` neither reads nor writes the receive half, and nothing after the
callback looks at the transmit half, so the call could as well come right after.
The same holds for the transmit callback of a Single Frame, the last thing that
`isotp_send` does.

### 2.5 IsoTpTransfer

Three variables: how many payloads were offered, whether the last is still being
sent, and the piece handed over last. `HandOver` says all that a receiving
application may rely on: the piece continues the message it belongs to, or begins
a later one, and it is announced as the end exactly when it is. A message may be
cut short or not arrive at all - the protocol acknowledges nothing -, and
every transmission ends (`LiveSpec`).

### 2.6 IsoTpNetwork

| Action | Code |
|---|---|
| `SendPayload`, `SenderPolls`, `SenderTakesFrame` | a sending application like `example_isotp_process` of `isotp_example_polling.c` |
| `ReceiverTakesFrame`, `ReceiverPolls`, `ReceiverTakesData` | a receiving one like `example_streaming_process` of `isotp_example_streaming.c`, or one that uses `isotp_receive` |
| `DataLost`, `FlowControlLost`, `ConsecutiveFrameRepeated` | the bus loses or repeats a frame; a Flow Control the receiver's driver refuses is a lost one |
| `DriverFails` | the sender's driver fails for good |
| `SenderRestarts`, `ReceiverRestarts` | `isotp_init_link` in the middle of anything |
| `Tick` | time passes on both sides and on the bus |

The parts of a loop are separate actions, so that they interleave with the other
side and with each other; this contains every order in which the two loops can run.
Frames of one identifier keep their order on CAN. A frame carries the message
and position of its bytes in two fields the receiver copies and never reads; `handed`
is what the bytes handed over say of themselves, so a mixed piece shows.

The refinement is direct: `sent` and `handed` are variables of the network, and
`sending` is "the sender is in progress". `Transfer!LiveSpec` is checked as a
property of `LiveSpec`.

Two faults are restricted. A repeated First or Single Frame is left out, because the
standard has it begin its message again, and the receiver does. The restart of the
sender is the last fault of a behaviour: the invitation to its old message also
serves the new one, and if the new First Frame is lost as well, the receiver takes
the new Consecutive Frames for the rest of the old message. TLC shows that
splice when the restriction is lifted; no field of a frame could prevent it.


## 3. The runs

### 3.1 Runs that pass

**FrameCodec** walks the codec through payload sizes 0 to 4200 for every legal
TX_DL and several illegal ones (the code falls back to 8 for these), separation
times in steps of 50 us up to 210 ms, and a clock of 12 readings. 4200 lies above
the 4095/4096 border between the two First Frame forms and above every frame
length; the codec has no other case distinction in the size. STmin distinguishes
100 us steps to 900 us and 1 ms steps to 127 ms: 50 us steps hit each border and
both sides of it. `DeadlineExact` is about the ring structure and not its size. Theorems
cover all sizes.

- `SingleFrameRoundTrip`, `FirstFrameRoundTrip`, `ConsecutiveFrameRoundTrip`: what
  the sender builds the receiver accepts, with the same length and the same number
  of bytes. An empty payload is the exception the property states: it is sent, and
  no receiver accepts it.
- `PaddingTransmittable`, `DeadlineExact`.
- `StMinExact`: a configured separation time that STmin can express is what the peer
  decodes, and no value is requested with a reserved code. Of the other values
  it says no more, see the end of 3.2.

**SendFlow** is the transmit half against a peer that sends every flow status,
bounded and unbounded blocks, no separation, 100 us and 300 us, a reserved
status and a frame that is too short, with a response timeout of 200 us. Sizes 7,
21 and 22 with frame lengths 8, 9 (illegal) and the default 12 give a Single Frame,
a payload that ends on a frame border (21 in frames of 12), one whose last frame
carries a single byte (21 in four frames of 8), and one too large for the buffer. A clock
of 1400 readings in steps of 100 wraps during transmissions begun late.
`MaxLateness = 100` is one step beyond the deadline, enough to time out;
`Preemptions` of 0 and 100 put a deadline in between the two halves of a poll.
`MaxStall = 300` lets a Flow Control come before, at and after the deadline of a
sender that was not polled in time; it stops a peer from holding the sender for ever
with reserved statuses, which the code allows, and keeps `send_timer_st` within half
the range of the clock, which the code does not guarantee (listed as a hazard).

All but `SilenceEnds` are also proved.

- `Segmentation`, `CreditRespected`: the two central invariants.
- `SeparationRespected`: two frames of a block are never closer than the peer
  asked for. (The configured minimum, the other half of the property, is 0 here: for
  other values the theorem speaks.)
- `TimeoutHonest`, `TimeoutPrompt`: no TIMEOUT_BS before its time, also across the
  wrap, and no transmission that outlives its timeout past a poll.
- `WaitLimit`: WFT_OVRN after more than `MAX_WFT_NUMBER` Wait frames in a row, no
  earlier and no later.
- `CompletionHonest`: a registered callback runs with the last byte, always, once and
  not before; the transmission goes on behind no last byte, and idle means complete. `CompletionStands`: a transmission reported complete stays so - here,
  where a poll never loses more than the response timeout.
- `SilenceEnds` (liveness): if the peer falls silent, the transmission ends,
  whatever the driver answers and whatever credit is left.

**SendLong** sends 200 and 4100 bytes in frames of 48 and 64 bytes (63 is refused)
to a peer that grants everything or blocks of 15: both First Frame forms, up to 87
Consecutive Frames, so the sequence number wraps five times and an offset that
drifts by one byte is seen. Both compilations of the comparison are allowed.

**ReceiveAnyOrder** gives a receiver every frame of a 35 byte message of five
Consecutive Frames, a Single Frame of another message, one with a payload that the
smallest buffer cannot hold, a Consecutive Frame cut short and two malformed First
Frames, in any order. Buffers of 2, 9 and 35 bytes are smaller than one
frame (several chunks per frame, the carry is used over and over), between one and
two frames (chunk and frame borders drift apart), and exactly the message. The
application's capacities 2 and 40 are too small for a message or large enough.
`StartTime = 50` with steps of 100 keeps deadlines off the reading 0, which is the
case ReceiveDeadlineZero is about. All but `SilenceEnds` are also proved.

- `WithinBounds`, `BufferHoldsMessage`, `DeliveredExact`: memory safety of the
  copies, conservation of bytes, and integrity of what is handed over. Within one
  message the sequence number is sound evidence here because five frames are fewer
  than sixteen: the assumption `OneSegmentedMessage`, which TLC evaluates for this
  instance and the theorems have as their hypothesis.
- `NeverWaitsUninvited`, `StreamBackpressure`: the receiver's half of an agreement
  on credit.
- `TimeoutHonest`, `SilenceEnds`: the receive timer, safety and liveness.

**Network** sends 5, 27 and 13 bytes - a Single Frame, three Consecutive Frames and
one - in frames of 8 bytes with blocks of two, to a receiver whose buffer holds one
First Frame (6: every frame is a chunk, and the carry is used), one frame and a bit
(9), or everything (27: `isotp_receive`, and a message may be overwritten by the next).
Up to two faults may hit anywhere, so that one may hit the recovery from another.
The response timeout is 300 us in steps of 100. A frame takes up to 100, the sender
is polled at most 100 late, the application leaves a chunk for at most 100: the
three add up to exactly the timeout, and with any one of them at 200
`NoSpuriousFailure` is violated, so the budget is tight. The run may deadlock:
an application that has sent its payloads does nothing more.

- `Transfers`: the refinement. The hazards it watches: stale fields of the message
  before, a lost or repeated frame, a Flow Control meant for another message.
- `CreditAgreement`: credit in hand, Consecutive Frames on the bus and invitations on
  the bus together never exceed what the receiver has invited, and without a fault
  they equal it.
- `Backpressure`: while a full streaming buffer waits, that sum is 0.
- `NoSpuriousFailure`, `Delivered`: within the time budget and without a fault nothing
  fails, and the last payload arrives to its last byte.
- `Settles`: whatever happened, both links come to rest.

Credit and backpressure are stated for a receiver that has the First Frame of the
message being sent, and for behaviours without restarts and repetitions: those
mix an earlier message in, which is the business of `Transfers`.

**LinkCallbacks** is one link that sends 13 bytes again and again while a peer sends
it a message of 13 bytes in any order and grants everything. The timeout is 100 us, a
callback takes at most as long; the clock of 500 readings wraps.

- `CallbackOutcomeStands`: when the callback returns, the transmission it was told of is
  still complete, and one it has started goes on. (With a callback slower than the
  timeout this fails: SendSlowCallback.)
- `TimeoutHonestInDuplex`: a transmission has its whole timeout, also one started in
  the callback of a poll that then checks the deadline.
- `SilenceEndsBoth` (liveness): if no frame arrives any more both halves come to
  rest, although the application keeps sending and every poll may stop in a callback.

### 3.2 Runs that show a disagreement

Each checks one statement of the repository that the code does not keep.

| Run | What is said | What the code does |
|---|---|---|
| SendTimeoutWithCredit | `isotp_defines.h:376`: TIMEOUT_BS is a timeout waiting for Flow Control | it is also reported with credit in hand, when the separation time exceeds the timeout or the driver stays full |
| SendErrorUnexplained | `isotp_defines.h:131`: on ERROR inspect `send_protocol_result` | after a driver failure the result still says OK |
| SendSignFlip | `README.md:121`: timeouts account for wraparound | with the comparison compiled as `b < a`, a transmission that starts just below 2^31 times out at once |
| SendSlowCallback | `README.md:84`: INPROGRESS becomes IDLE on success | the timeout is checked after the callback: a slow one turns success into ERROR |
| ReceiveDeadlineZero | `isotp_user.h:73`: wraparound is supported | a deadline of exactly 0 is "no timer": that reception never times out |
| ReceiveInvitedWhileFull | `README.md:241`: the sender is paused whenever the buffer fills | a refill from the carry that fills the buffer exactly sends Continue and hands nothing to the application |

One more disagreement is left to reading, as no behaviour of the system is involved:
`isotp_config.h:57` calls `ISO_TP_DEFAULT_ST_MIN_US` the minimum separation requested, but
`isotp_us_to_st_min` cuts what STmin cannot express instead of raising it. 1500 us is
requested as 1 ms, 950 us and everything above 127 ms as 0. `UsToStMin` computes just
that; no property asks for it.

### 3.3 Fairness

`LiveSpec` has weak fairness of `Tick` - the clock advances by itself - and of the
polling action - `src/README.md:62` and `src/isotp.h:187` ask for `isotp_poll` to be
called regularly. Nothing is assumed of the driver, the peer or the application's
other calls: `SilenceEnds` is stated for the behaviours in which the peer falls
silent. `MaxLateness` in the guard of `Tick` is the same demand on the safety side:
a link that is overdue is polled before more time goes by.

`IsoTpLink` adds fairness of `PollReturns`: a callback returns. `IsoTpNetwork` needs one
fairness condition only, for the clock and the two loops taken together. None of them can
go on for ever while another waits: a step of a loop uses up a frame, credit, a
chunk or a timeout, and `Timely` lets no frame, poll or chunk wait beyond its bound
while time passes. Nothing is assumed of sending and of faults.


## 4. What is proved

All for arbitrary TX_DL, buffer sizes, payloads, frames, Flow Controls, block sizes,
timeouts and clock range, under the constants' assumptions (`FrameParameters`,
`LinkParameters`, `TimeParameters`, `PeerParameters`, `ReceiveParameters`,
`LinkAssumption`, `CodecAssumption`), which say what the build and the C types
allow; TLC evaluates them for every instance of section 3. A hypothesis in the
second column is a further one, explained below.

| Theorem | Hypothesis | It states |
|---|---|---|
| **Codec** | | |
| `DeadlineComparison` | | a deadline `d` ticks ahead counts as passed after `e` ticks exactly when `e > d`, on any ring, for `e` up to half a range behind |
| `SingleFramesRoundTrip`, `FirstFramesRoundTrip`, `ConsecutiveFramesRoundTrip`, `PaddingIsTransmittable`, `StMinIsExact` | | the properties of the run FrameCodec |
| `DeadlinesAreExact` | wrapping comparison | `DeadlineExact` |
| **Transmit half** | | |
| `TypeCorrect`, `SegmentationHolds`, `CreditHolds` | | `TypeOK`, `Segmentation`, `CreditRespected` |
| `CompletionIsHonest` | | `CompletionHonest` |
| `WaitLimitHolds` | `MAX_WFT_NUMBER < 255` | `WaitLimit` |
| `TimeoutIsHonest`, `TimeoutIsPrompt` | `Punctual` | `TimeoutHonest`, `TimeoutPrompt` |
| `SeparationIsRespected` | wrapping comparison | `SeparationRespected` |
| `CompletionIsFinal` | `Punctual`, no poll loses more than the response timeout | `CompletionStands` |
| **Receive half** | | |
| `ReceiveTypeCorrect`, `CopiesWithinBounds` | | `TypeOK`, `WithinBounds` |
| `WaitingIsInvited`, `StreamingHoldsBack` | | `NeverWaitsUninvited`, `StreamBackpressure` |
| `ReceiveTimeoutIsHonest` | `Punctual` | `TimeoutHonest` |
| `BuffersHoldMessage`, `DeliveriesAreExact` | `OneSegmentedMessage` | `BufferHoldsMessage`, `DeliveredExact` |
| **Both halves on one link** | | |
| `HalvesKeepTheirPromises` | | `Segmentation`, `CreditRespected`, `WithinBounds`, `NeverWaitsUninvited` and `StreamBackpressure` of the halves hold of the link |
| `DuplexTimeoutIsHonest` | `Punctual` | `TimeoutHonestInDuplex` |
| `CallbackOutcomeIsKept` | `Punctual`, a callback takes at most the response timeout | `CallbackOutcomeStands` |
| **Two links on a bus** | | |
| `LinksKeepTheirPromises` | | `Segmentation`, `CreditRespected`, `WithinBounds`, `NeverWaitsUninvited` and `StreamBackpressure` of the halves hold of both ends, whatever fault there is |
| `CreditAgreementHolds`, `BackpressureHolds` | `Prompt` | `CreditAgreement`, `Backpressure` |
| `NothingFailsByItself` | `Patient` | `NoSpuriousFailure` |
| `TransferIsImplemented` | `Prompt`, `Numbered`, `[]Benign` | every behaviour is one of `IsoTpTransfer!Spec` |

### 4.1 Transmit half

*The invariant.* `IInv == TypeOK /\ Segmentation /\ CreditRespected` is inductive,
its first conjunct is not: `send_bs_remain - 1` stays in its range because credit
is what was granted minus what was used, and the sizes are numbers the framing
functions can be applied to because the offset lies below the size. The proof has
one lemma per action for the types, and one per action that can disturb the rest;
`SegmentationStable` and `CreditStable` dispose of the others. The arithmetic
is kept in lemmas on frames: a First Frame leaves bytes to send
(`FirstFrameLeaves`), a Consecutive Frame that is not the last is full
(`ConsecutiveFrameData`), sequence numbers run modulo 16 (`NextSnIsModulo`).

*Completion.* `Segmentation` gives the offset as a function of the frames the driver
took; `LastFrameCount` turns the offset reaching the size into a number of frames, the
quotient that `CfsNeeded` computes, and `FramesAreNotEnough` an offset that does not reach it
into a smaller one (`NotLastFrame`), so that the callback is shown to run with the last frame
as well as with no other. `DoneInv` adds that nothing has been reported
while a transmission runs.

*Wait frames.* `WaitInv`: the counter of the code is the number of Wait frames in a row.
The counter is a `uint8_t`, so this needs a limit below 255: at 255 the counter goes
round to 0 instead of exceeding the limit, and a peer may make the sender wait for
ever. `isotp_config.h:65` names no largest value.

*The timers.* `TimerInv` adds that while a transmission runs its deadline was set
one timeout ahead of a moment `age_bs` ago, that it is at most `MaxLateness`
overdue, and that no result has been noted. From it and `DeadlineComparison`
follows what the check at the end of a poll decides. `Punctual` is the assumption:
the comparison is compiled to a wrapping subtraction, and the application is never
later than half the range of the clock (35 minutes). Without the first the property
is false - SendSignFlip -, without the second the deadline would appear to lie in the
future again. `CompletionIsFinal` is about the same check in the poll that has just
sent the last frame; it needs the bound on the time lost before it, without which
SendSlowCallback shows the contrary. `SeparationIsRespected` has its own
`SeparationInv`; a timer that looks unset again after a long stall makes the sender
wait longer, never shorter, so that no bound on lateness is needed.

### 4.2 Receive half

*The invariant.* `IInv == TypeOK /\ WithinBounds /\ Conservation /\ Invitations`.
`WithinBounds` is not inductive: that the next copy into the buffer fits follows
from how much is in it, which is `Conservation` - bytes taken, buffered and carried
make up the offset, and a link that does not stream has an empty carry. That a
waiting receiver has invited a frame follows from the count of its block being what
the last Flow Control still invites (`Invitations`). Frames are arbitrary records
of the C types (`FrameType`): any length, any header field, any order. The handlers'
branches are put into groups by what they leave behind (`Resting`, `NotTaken`, a
frame taken, a chunk taken, the end taken), and the invariant is shown once per group.

*The contents.* `ContentsInv` says that each of the three places holds the
message's bytes that belong there (`Content`), and where in the message the receiver
stands (`Position`): behind the First Frame `g` and `k` whole frames, which is what
makes a Consecutive Frame with the expected sequence number the right one. The
copies are handled by lemmas on `Overwrite` and `SubSeq`. The hypothesis
`OneSegmentedMessage` is what the protocol itself needs: any number of Single
Frame messages, and one segmented message short enough for four bits to tell its
frames apart. With a second one whose First Frame is lost, or after the loss of
sixteen frames, the right sequence number comes with the wrong bytes, and no
receiver could know. Repetition, reordering, interruption and loss are all covered.

*The timer* is like the transmit half's, with the exception that a deadline that falls
on 0 means none; a timeout is honest all the same.

### 4.3 Both halves on one link

`IsoTpLink_proofs` instantiates the proof modules of the halves as it instantiates the
halves: a step of the link is a step of the half, a step that leaves the half alone, or
the end of a poll behind the transmit callback (`SendHalfSteps`, `ReceiveHalfSteps`),
and the halves' lemmas on their steps are cited for the first kind. The lemmas
`Same...` say that both instantiations define the same operators.

`CallbackInv` is what the callback adds: while it runs the response timer is the one the
completed transmission ended with, started `age_cb` ago, or that of a transmission begun
since. With a callback no longer than the timeout the check behind it finds nothing.

### 4.4 Two links on a bus

*The frames.* The halves are proved about for arbitrary frames; `IsoTpNetwork_proofs` shows
which frames there really are. `FrameOf` says what a data frame on the bus looks like -
built by the sender's framing function for one of the payloads so far - and
`BuiltFlowControls` what a Flow Control does; `NetworkInv` says that the queues
hold nothing else and that each half's `IInv` holds. Each step of the network is a
step of a half or leaves it alone, as in 4.3. Repetition, loss, restarts and driver
failures are all included. `TimersInvariance` does the same for the two timers.

*What is counted.* `CreditAgreement` relates four things: the sender's credit, a queue
of Consecutive Frames, a queue of invitations, and what the receiver has invited.
A sum over queues needs no induction here, because the queues have a shape
(`Queue`): in front `c` Consecutive Frames of the message the receiver is
taking, each beginning where the one before ends, with the next sequence number, the
last one ending where the sender stands; behind them only opening frames of
later messages. With `c` named, a frame put on the bus adds one, a frame taken or
lost subtracts one, and `Pending(c)` is the sum. `Accounts(c)`: it never exceeds what is
invited; when it is equal no frame is missing (`InStep`: the next frame is the one
the receiver expects), and without a fault it is equal. Only at the end are the
sets of `Outstanding` counted (`OutstandingIsPending`).

*Whose turn it is.* That sum is an invariant only if no invitation outlives the message
it is for: a Flow Control that arrives after its sender has given up would start the
next message with credit nobody gave. `Turns` excludes it by time: an invitation on its
way, a frame on its way or a chunk not yet taken means that the sender has waited
no longer than that takes (`age_bs` is bounded by the age of the frame, or by how long the
chunk has been lying there), so that it cannot have timed out. `BaseInv` bounds
the ages (`Timing`) and says that the receiver's answers are invitations of one frame or of a
block (`Rates`).

*The hypotheses*, `Prompt`. `2 * MaxTransit + MaxHold <= RESPONSE_TIMEOUT_US`: a frame
there, a chunk left lying, a frame back; with less time the argument
above fails and so does the property. `BLOCK_SIZE # 0`: 0 asks for no Flow Control
at all, credit is then unlimited and the receiver's one byte counter goes round.
`0 \notin RECEIVE_BUF_SIZES`: such a receiver answers with Overflow. `Punctual` as before: a timeout
must be one. The instance of the run Network satisfies all of them, with equality in
the first.

The invariant holds as long as no frame is repeated and nobody restarts (`Benign`), which is
the condition of the two properties: a repeated frame or a restart mixes another
message in.

*Nothing fails by itself.* `NoSpuriousFailure` is an error that neither half may come to on
its own: an aborted transmission, a reception given up, out of sequence or
interrupted. Without a fault `CleanInv` adds to the invariant above what excludes them.
`Complete(c)`: everything on its way is awaited, and everything awaited is on its way -
a transmission has its First Frame in the queue or its message at the receiver, the
next Consecutive Frame has the number the receiver expects, and no reception is under way
whose sender has finished unless its last frames are in the queue. So no frame
comes unexpected or out of sequence. `Waiting(c)`: how long the receiver has waited
is bounded by where the exchange stands - the age of the invitation on its way; one
transit and the sender's own wait; or all of that, the sender's last delay, and the age
of the frame on its way. With the time budget this stays within the response timeout,
so `NeverGivesUp`; the sender's side is `Turns`.

`Patient` is `Prompt` and two things more. `2 * MaxTransit + DEFAULT_ST_MIN_US + MaxDelay <=
RESPONSE_TIMEOUT_US`: an invitation there, the separation time asked for, a late poll, a
frame back. And every payload that travels in a Single Frame fits every buffer: the
receiver refuses one that does not, and the sender is told nothing. The run Network
satisfies both, the first with equality; raising `MaxHold` or `MaxDelay` there by one step
makes TLC find `NoSpuriousFailure` violated, so neither time hypothesis can be
weakened.

*The refinement.* `TransferIsImplemented` proves the safety part of `Transfers`: every step is
an `Offer`, an `End`, a `HandOver` or a stutter of `IsoTpTransfer`, for any payloads,
buffers, delays and any number of lost frames. The difficulty is the four bits of a
sequence number: after sixteen lost frames the next one has the number the
receiver expects and is copied to the wrong place. So "what is in the buffer belongs there"
is not an invariant. `Sound(c)` is: while more of the message is to come, either the
receiver has every byte up to where the next frame begins, or at least one whole frame
is missing - from the message, so its end is never reached, and from the block
(`Pending(c) < invited`), so the block never comes to its end, and no frame of the next block
is ever sent. A misplaced frame is therefore never handed over: the buffer is not
completed, and the response timer or the next opening frame ends the reception. (A streaming
receiver invites one frame at a time, and with that one missing takes none.) `Handing` says where the application
stands: what it was given last is of this message, up to the first byte not yet taken, or
of an earlier one. `TransferInv` adds both to the invariant `JointInv`.

`Numbered` is about the model only: a payload has fewer than 10000 bytes, up to which the one
number by which a byte is modelled tells messages and positions apart. `[]Benign` restricts
the behaviours to lost frames and failing drivers, as in `CreditAgreement`: the sum
`Pending(c)` is what tells that a frame is missing. With a repeated frame or a restart the
promise holds for the few faults of a run only (2.6), and TLC checks it there.

### 4.5 Only model-checked

- Liveness (every `Silence...`, `Delivered`, `Settles`), which rests on fairness and so
  on ENABLED, which the prover does not handle.
- The fairness part of the refinement of `IsoTpTransfer` (every transmission ends), for the
  same reason, and its steps in behaviours with a repeated frame or a restart.


## 5. What is not modelled

- Byte and bit layout, padding value, BRS flag, arbitration identifiers (never
  read by the protocol logic), `user_send_can_arg`, debug output and the formatted
  diagnostics: no effect on the state.
- A callback that destroys its link, or calls `isotp_on_can_message`, `isotp_poll` or
  a receive function on it: neither documented nor used. Calls of `isotp_send` and of
  the registration functions in a callback are covered (2.4).
- Answers of calls that change nothing (a refused `isotp_receive`, for one): a
  refused call is the absence of its action.
- The loss of exactly sixteen Consecutive Frames, which no receiver can notice. A block
  size of 0 with more than 256 of them, and a limit of 255 Wait frames, are out of
  TLC's reach at the real widths; the first is covered by theorems, the second is
  the one value that `WaitLimitHolds` excludes.
- A third fault, or one after the restart of a sender (2.6).
- Fuzz harness, unit tests, build files and CI: usage and tooling; the
  documentation of intent in them was read.
- Separate threads on one link: excluded by the serialisation the library asks
  for.


## 6. Plan

Done: the modules of section 2, their runs, the proofs of section 4.

Left: the refinement with repeated frames and restarts. It holds for a bounded number of
them only, so a proof has to count faults against what a sequence number of four bits can
still tell apart.
