-------------------------- MODULE MCIsoTpFrame_proofs --------------------------
(***************************************************************************)
(* The frame codec for every payload size, every value of tx_dl, every     *)
(* build: what one end of a link writes into a frame, the other end reads   *)
(* out of it.                                                               *)
(***************************************************************************)
EXTENDS MCIsoTpFrame, IsoTpFrame_proofs

(* An input of the codec: a link's tx_dl and a size or a time.              *)
Input == dl \in Nat /\ n \in Nat

LEMMA InputInvariance == Spec => []Input
<1>1. Init => Input
    BY CodecAssumption DEF Init, Input
<1>2. Input /\ [Next]_vars => Input'
    BY DEF Input, Next, vars
<1> QED BY <1>1, <1>2, PTL DEF Spec

-----------------------------------------------------------------------------
(* CAN data lengths *)

(* Every length handed to the driver is one the bus can carry, and a frame  *)
(* longer than eight bytes is flagged CAN FD.                               *)
THEOREM PaddingIsTransmittable == Spec => []PaddingTransmittable
<1>1. Input => PaddingTransmittable
    <2> SUFFICES ASSUME Input, n \in 1 .. TxDl(dl)
                 PROVE  /\ IsValidCanDl(PadFrame(n))
                        /\ PadFrame(n) \in n .. TxDl(dl)
                        /\ PadFrame(n) > CAN_DL_CLASSIC => FrameFlags(dl) = "FD"
        BY DEF PaddingTransmittable
    <2>1. dl \in Nat /\ n \in 0 .. TxDl(dl) /\ TxDl(dl) \in 8 .. 64
        BY TxDlIsCanLength DEF Input
    <2>2. PadFrame(n) \in CanLengths /\ PadFrame(n) \in n .. TxDl(dl)
        BY <2>1, PadFits
    <2>3. IsValidCanDl(PadFrame(n))
        BY <2>2, CeilOfCanLength DEF IsValidCanDl
    <2>4. PadFrame(n) > CAN_DL_CLASSIC => FrameFlags(dl) = "FD"
        BY <2>1, <2>2 DEF FrameFlags, CAN_DL_CLASSIC
    <2> QED BY <2>2, <2>3, <2>4
<1> QED BY <1>1, InputInvariance, PTL

-----------------------------------------------------------------------------
(* Frames *)

(* isotp_receive_single_frame reads the length that send_single_frame wrote,*)
(* in the short form and in the CAN FD escape form.                         *)
THEOREM SingleFramesRoundTrip == Spec => []SingleFrameRoundTrip
<1>1. Input => SingleFrameRoundTrip
    <2> SUFFICES ASSUME Input, n <= SfMaxPayload(TxDl(dl))
                 PROVE  /\ SfAccepted(SingleFrame(n)) <=> n > 0
                        /\ SfPayloadLength(SingleFrame(n)) = n
                        /\ SingleFrame(n).len <= TxDl(dl)
        BY DEF SingleFrameRoundTrip
    <2> QED BY SingleFrameRead DEF Input
<1> QED BY <1>1, InputInvariance, PTL

(* isotp_receive_first_frame reads the length that send_first_frame wrote,  *)
(* 12 bits or 32, and takes as many bytes as the sender gave.               *)
THEOREM FirstFramesRoundTrip == Spec => []FirstFrameRoundTrip
<1>1. Input => FirstFrameRoundTrip
    <2> DEFINE f == FirstFrame(n, TxDl(dl))
    <2> SUFFICES ASSUME Input, n > SfMaxPayload(TxDl(dl))
                 PROVE  /\ FfAccepted(f)
                        /\ FfPayloadLength(f) = n
                        /\ FfReadLength(f) = FfDataLength(n, TxDl(dl))
                        /\ FfReadLength(f) = f.n
                        /\ f.n < n
        BY DEF FirstFrameRoundTrip
    <2> QED BY FirstFrameRead DEF Input
<1> QED BY <1>1, InputInvariance, PTL

(* isotp_receive_consecutive_frame wants as many bytes as                   *)
(* send_consecutive_frame gave, once it knows RX_DL from the First Frame.   *)
THEOREM ConsecutiveFramesRoundTrip == Spec => []ConsecutiveFrameRoundTrip
<1>1. Input => ConsecutiveFrameRoundTrip
    <2> DEFINE f == ConsecutiveFrame(1, n, TxDl(dl))
               m == CfDataLength(n, TxDl(dl))
    <2> SUFFICES ASSUME Input, n > 0
                 PROVE  /\ CfWanted(n, TxDl(dl)) = f.n
                        /\ f.n <= f.len - 1
                        /\ f.len <= TxDl(dl)
        BY DEF ConsecutiveFrameRoundTrip
    <2> QED BY ConsecutiveFrameRead DEF Input
<1> QED BY <1>1, InputInvariance, PTL

-----------------------------------------------------------------------------
(* Times *)

(* A separation time that STmin can express reaches the peer unchanged, and *)
(* no reserved code is ever put on the wire, for every configured value.    *)
THEOREM StMinIsExact == Spec => []StMinExact
<1>1. Input => StMinExact
    <2> SUFFICES ASSUME Input PROVE StMinExact
        OBVIOUS
    <2> DEFINE us == n * Fine
    <2>1. us \in Nat
        BY CodecAssumption DEF Input
    <2> HIDE DEF us
    <2>2. us \in {100 * k : k \in 1 .. 9} => \E k \in 1 .. 9 : us = 100 * k
        OBVIOUS
    <2>3. us \in {1000 * k : k \in 0 .. 127} => \E k \in 0 .. 127 : us = 1000 * k
        OBVIOUS
    <2>4. us \in {100 * k : k \in 1 .. 9} \cup {1000 * k : k \in 0 .. 127} =>
              StMinToUs(UsToStMin(us)) = us
        BY <2>1, <2>2, <2>3, StMinDecodes
    <2>5. UsToStMin(us) \in (0 .. 127) \cup (241 .. 249)
        BY <2>1, StMinDecodes
    <2> QED BY <2>4, <2>5 DEF StMinExact, us
<1> QED BY <1>1, InputInvariance, PTL

(* IsoTpTimeAfter tells a passed deadline from a coming one at every        *)
(* reading of the clock, in a build that subtracts with wraparound.         *)
THEOREM DeadlinesAreExact ==
    ASSUME COMPARISONS = {"wrapping"} PROVE Spec => []DeadlineExact
<1>1. Input => DeadlineExact
    <2> SUFFICES ASSUME Input, NEW t \in {n % (2 * HALF_RANGE)},
                        NEW d \in 0 .. HALF_RANGE - 1, NEW e \in 0 .. HALF_RANGE - 1
                 PROVE  TRUE \in TimeAfter(WrapAdd(t, e), WrapAdd(t, d)) <=> e > d
        BY DEF DeadlineExact
    <2>1. HALF_RANGE \in Nat \ {0}
        BY FrameAssumption DEF FrameParameters
    <2>2. t \in Ticks
        <3> DEFINE range == 2 * HALF_RANGE
        <3>1. range \in Nat \ {0}
            BY <2>1
        <3> HIDE DEF range
        <3>2. n % range \in 0 .. range - 1
            BY <3>1 DEF Input
        <3> QED BY <3>2 DEF Ticks, range
    <2>3. e \in Nat /\ e <= d + HALF_RANGE
        BY <2>1
    <2>4. AfterWrapping(WrapAdd(t, e), WrapAdd(t, d)) <=> e > d
        BY <2>2, <2>3, DeadlineComparison
    <2>5. TimeAfter(WrapAdd(t, e), WrapAdd(t, d))
              = {AfterWrapping(WrapAdd(t, e), WrapAdd(t, d))}
        BY TimeAfterWraps
    <2>6. AfterWrapping(WrapAdd(t, e), WrapAdd(t, d)) \in BOOLEAN
        BY DEF AfterWrapping
    <2> QED BY <2>4, <2>5, <2>6
<1> QED BY <1>1, InputInvariance, PTL

=============================================================================
