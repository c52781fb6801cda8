--------------------------- MODULE IsoTpFrame_proofs ---------------------------
(***************************************************************************)
(* Facts about the operators of IsoTpFrame, for every value of its          *)
(* constants.  The proofs about the two halves of a link rest on them.      *)
(***************************************************************************)
EXTENDS IsoTpFrame, TLAPS

(* A legal TX_DL is one of the eight CAN data lengths: isotp_set_tx_dl.     *)
LEMMA LegalTxDlRange ==
    ASSUME NEW dl \in Nat, LegalTxDl(dl)
    PROVE  dl \in {CAN_DL_CLASSIC} \cup CanFdFrameSizes
<1>1. CASE dl <= CAN_DL_CLASSIC
    BY <1>1 DEF LegalTxDl, CAN_DL_CLASSIC
<1>2. CASE dl > CAN_DL_CLASSIC
    <2>1. dl = CeilCanDl(dl)
        BY DEF LegalTxDl, IsValidCanDl
    <2>2. dl \in 9 .. 64
        BY <1>2, FrameAssumption DEF FrameParameters, LegalTxDl, CAN_DL_CLASSIC, CanFdFrameSizes
    <2>3. \E s \in CanFdFrameSizes : dl <= s
        BY <2>2 DEF CanFdFrameSizes
    <2>4. \E s \in CanFdFrameSizes :
            dl <= s /\ \A t \in CanFdFrameSizes : dl <= t => s <= t
        BY <2>2 DEF CanFdFrameSizes
    <2>5. dl = CHOOSE s \in CanFdFrameSizes :
                 dl <= s /\ \A t \in CanFdFrameSizes : dl <= t => s <= t
        BY <2>1, <2>3, <1>2 DEF CeilCanDl, CAN_DL_CLASSIC
    <2> QED BY <2>4, <2>5
<1> QED BY <1>1, <1>2 DEF CAN_DL_CLASSIC

(* isotp_tx_dl answers one of the CAN data lengths, 8 at the least.         *)
LEMMA TxDlIsCanDl ==
    ASSUME NEW dl \in Nat
    PROVE  TxDl(dl) \in {CAN_DL_CLASSIC} \cup CanFdFrameSizes
BY LegalTxDlRange DEF TxDl

(* isotp_tx_dl never returns less than 8 nor more than 64 bytes.            *)
LEMMA TxDlRange ==
    ASSUME NEW dl \in Nat
    PROVE  TxDl(dl) \in 8 .. 64 /\ TxDl(dl) <= MAX_CAN_FRAME_SIZE
<1>1. CASE LegalTxDl(dl)
    BY <1>1, LegalTxDlRange, FrameAssumption
    DEF FrameParameters, TxDl, LegalTxDl, CAN_DL_CLASSIC, CanFdFrameSizes
<1>2. CASE ~LegalTxDl(dl)
    BY <1>2, FrameAssumption DEF FrameParameters, TxDl, CAN_DL_CLASSIC, CanFdFrameSizes
<1> QED BY <1>1, <1>2

(* The first frame of a segmented payload leaves bytes to send.             *)
LEMMA FirstFrameLeaves ==
    ASSUME NEW size \in Nat, NEW dl \in Nat, size > SfMaxPayload(TxDl(dl))
    PROVE  /\ FfDataLength(size, TxDl(dl)) \in Nat
           /\ FfDataLength(size, TxDl(dl)) < size
BY TxDlRange DEF FfDataLength, SfMaxPayload, CAN_DL_CLASSIC

(* The clock has at least two readings. *)
LEMMA ZeroIsTick == 0 \in Ticks /\ \A d \in 0 .. HALF_RANGE - 1 : d \in Ticks
BY FrameAssumption DEF FrameParameters, Ticks

(* The marker of an unlimited block lies above every block size. *)
LEMMA InvalidBsRange == INVALID_BS \in Nat /\ INVALID_BS > 255
BY DEF INVALID_BS

(* The sums and differences of the clock stay on the clock.                 *)
LEMMA WrapType ==
    ASSUME NEW t \in Ticks, NEW d \in Ticks
    PROVE  WrapAdd(t, d) \in Ticks /\ WrapSub(t, d) \in Ticks
BY FrameAssumption DEF FrameParameters, Ticks, WrapAdd, WrapSub

(* Two advances of the clock that do not go round it add up.                *)
LEMMA WrapAddTwice ==
    ASSUME NEW t \in Ticks, NEW a \in Nat, NEW b \in Nat, a + b < 2 * HALF_RANGE
    PROVE  WrapAdd(WrapAdd(t, a), b) = WrapAdd(t, a + b)
BY FrameAssumption DEF FrameParameters, Ticks, WrapAdd

LEMMA WrapAddZero == ASSUME NEW t \in Ticks PROVE WrapAdd(t, 0) = t
BY FrameAssumption DEF FrameParameters, Ticks, WrapAdd

(* Without undefined behaviour the comparison has one answer.               *)
LEMMA TimeAfterWraps ==
    ASSUME COMPARISONS = {"wrapping"}, NEW a, NEW b
    PROVE  TimeAfter(a, b) = {AfterWrapping(a, b)}
BY DEF TimeAfter

(* A deadline set d ticks ahead counts as passed after e ticks exactly when *)
(* e exceeds d, wherever the clock wraps: IsoTpTimeAfter with a wrapping    *)
(* subtraction, as long as neither d nor the delay beyond it reaches half   *)
(* the range of the clock.                                                  *)
THEOREM DeadlineComparison ==
    ASSUME NEW t \in Ticks, NEW d \in 0 .. HALF_RANGE - 1, NEW e \in Nat,
           e <= d + HALF_RANGE
    PROVE  AfterWrapping(WrapAdd(t, e), WrapAdd(t, d)) <=> e > d
BY FrameAssumption DEF FrameParameters, Ticks, AfterWrapping, WrapAdd, WrapSub

-----------------------------------------------------------------------------
(* CAN data lengths *)

(* The lengths a frame on the bus may have. *)
CanLengths == 0 .. CAN_DL_CLASSIC \cup CanFdFrameSizes

(* isotp_ceil_can_dl answers the least length that holds the bytes.         *)
LEMMA CeilIsLeast ==
    ASSUME NEW used \in 0 .. 64
    PROVE  /\ CeilCanDl(used) \in CanLengths
           /\ used <= CeilCanDl(used)
           /\ \A t \in {CAN_DL_CLASSIC} \cup CanFdFrameSizes :
                  used <= t => CeilCanDl(used) <= t
<1>1. CASE used <= CAN_DL_CLASSIC
    BY <1>1 DEF CeilCanDl, CanLengths, CAN_DL_CLASSIC, CanFdFrameSizes
<1>2. CASE used > CAN_DL_CLASSIC
    <2>1. \E s \in CanFdFrameSizes : used <= s
        BY DEF CanFdFrameSizes
    <2>2. \E s \in CanFdFrameSizes :
            used <= s /\ \A t \in CanFdFrameSizes : used <= t => s <= t
        BY DEF CanFdFrameSizes
    <2>3. CeilCanDl(used) = CHOOSE s \in CanFdFrameSizes :
              used <= s /\ \A t \in CanFdFrameSizes : used <= t => s <= t
        BY <1>2, <2>1 DEF CeilCanDl, CAN_DL_CLASSIC
    <2>4. /\ CeilCanDl(used) \in CanFdFrameSizes
          /\ used <= CeilCanDl(used)
          /\ \A t \in CanFdFrameSizes : used <= t => CeilCanDl(used) <= t
        BY <2>2, <2>3
    <2> QED BY <1>2, <2>4 DEF CanLengths, CAN_DL_CLASSIC
<1> QED BY <1>1, <1>2 DEF CAN_DL_CLASSIC

(* Padding a second time would change nothing.                              *)
LEMMA CeilOfCanLength ==
    ASSUME NEW len \in CanLengths
    PROVE  CeilCanDl(len) = len
<1>1. len \in 0 .. 64
    BY DEF CanLengths, CAN_DL_CLASSIC, CanFdFrameSizes
<1>2. CASE len <= CAN_DL_CLASSIC
    BY <1>2 DEF CeilCanDl
<1>3. CASE len > CAN_DL_CLASSIC
    <2>1. len \in CanFdFrameSizes
        BY <1>1, <1>3 DEF CanLengths, CAN_DL_CLASSIC
    <2>2. CeilCanDl(len) <= len /\ len <= CeilCanDl(len)
        BY <1>1, <2>1, CeilIsLeast
    <2>3. CeilCanDl(len) \in 0 .. 64
        BY <1>1, CeilIsLeast DEF CanLengths, CAN_DL_CLASSIC, CanFdFrameSizes
    <2> QED BY <1>1, <2>2, <2>3
<1> QED BY <1>1, <1>2, <1>3 DEF CAN_DL_CLASSIC

LEMMA TxDlIsCanLength ==
    ASSUME NEW tx \in Nat
    PROVE  /\ TxDl(tx) \in {CAN_DL_CLASSIC} \cup CanFdFrameSizes
           /\ TxDl(tx) \in CanLengths /\ TxDl(tx) \in 8 .. 64
BY TxDlIsCanDl, TxDlRange DEF CanLengths, CAN_DL_CLASSIC

(* A frame of no more than TX_DL bytes is padded to a length the bus can    *)
(* carry, none of its bytes is cut off and TX_DL is not exceeded.           *)
LEMMA PadFits ==
    ASSUME NEW tx \in Nat, NEW used \in 0 .. TxDl(tx)
    PROVE  /\ PadFrame(used) \in CanLengths /\ PadFrame(used) \in used .. TxDl(tx)
           /\ used <= CAN_DL_CLASSIC => PadFrame(used) <= CAN_DL_CLASSIC
<1>1. TxDl(tx) \in {CAN_DL_CLASSIC} \cup CanFdFrameSizes /\ TxDl(tx) \in 8 .. 64
    BY TxDlIsCanLength
<1> DEFINE padded == IF FRAME_PADDING /\ used < CAN_DL_CLASSIC THEN CAN_DL_CLASSIC ELSE used
<1>2. /\ padded \in used .. TxDl(tx)
      /\ used <= CAN_DL_CLASSIC => padded <= CAN_DL_CLASSIC
    BY <1>1 DEF CAN_DL_CLASSIC
<1>3. padded \in 0 .. 64 /\ PadFrame(used) = CeilCanDl(padded)
    BY <1>1, <1>2 DEF PadFrame
<1> HIDE DEF padded
<1>4. /\ CeilCanDl(padded) \in CanLengths /\ padded <= CeilCanDl(padded)
      /\ CeilCanDl(padded) <= TxDl(tx)
      /\ padded <= CAN_DL_CLASSIC => CeilCanDl(padded) <= CAN_DL_CLASSIC
    BY <1>1, <1>2, <1>3, CeilIsLeast
<1>5. CeilCanDl(padded) \in 0 .. 64
    BY <1>4 DEF CanLengths, CAN_DL_CLASSIC, CanFdFrameSizes
<1> QED BY <1>1, <1>2, <1>3, <1>4, <1>5

-----------------------------------------------------------------------------
(* What one end of a link writes into a frame the other end reads out of it. *)

(* A Single Frame says how long its payload is, in the short form and in    *)
(* the CAN FD escape form.                                                  *)
LEMMA SingleFrameRead ==
    ASSUME NEW tx \in Nat, NEW size \in Nat, size <= SfMaxPayload(TxDl(tx))
    PROVE  /\ SfAccepted(SingleFrame(size)) <=> size > 0
           /\ SfPayloadLength(SingleFrame(size)) = size
           /\ SingleFrame(size).len \in 0 .. TxDl(tx)
           /\ SingleFrame(size).type = "SF" /\ SingleFrame(size).n = size
           /\ SingleFrame(size).sf_dl \in 0 .. 15 /\ SingleFrame(size).escape \in 0 .. 255
<1>0. SingleFrame(size).type = "SF" /\ SingleFrame(size).n = size
    BY DEF SingleFrame
<1>1. TxDl(tx) \in 8 .. 64
    BY TxDlIsCanLength
<1>2. CASE size < CAN_DL_CLASSIC
    <2>1. size + 1 \in 0 .. TxDl(tx) /\ size + 1 <= CAN_DL_CLASSIC
        BY <1>1, <1>2 DEF CAN_DL_CLASSIC
    <2>2. PadFrame(size + 1) \in size + 1 .. TxDl(tx) /\ PadFrame(size + 1) <= CAN_DL_CLASSIC
        BY <1>1, <2>1, PadFits
    <2>3. /\ SingleFrame(size).sf_dl = size /\ SingleFrame(size).escape = 0
          /\ SingleFrame(size).len = PadFrame(size + 1)
        BY <1>2 DEF SingleFrame
    <2>4. SfPayloadLength(SingleFrame(size)) = size
        BY <2>3 DEF SfPayloadLength
    <2>5. SfAccepted(SingleFrame(size)) <=> size > 0
        BY <1>1, <2>2, <2>3, <2>4 DEF SfAccepted, CAN_DL_CLASSIC
    <2>6. SingleFrame(size).len \in 0 .. TxDl(tx)
        BY <1>1, <2>2, <2>3
    <2>7. SingleFrame(size).sf_dl \in 0 .. 15 /\ SingleFrame(size).escape \in 0 .. 255
        BY <1>2, <2>3 DEF CAN_DL_CLASSIC
    <2> QED BY <1>0, <2>4, <2>5, <2>6, <2>7
<1>3. CASE ~(size < CAN_DL_CLASSIC)
    <2>1. size + 2 \in 0 .. TxDl(tx) /\ size > 0 /\ size + 2 > CAN_DL_CLASSIC
        BY <1>1, <1>3 DEF CAN_DL_CLASSIC, SfMaxPayload
    <2>2. PadFrame(size + 2) \in size + 2 .. TxDl(tx)
        BY <1>1, <2>1, PadFits
    <2>3. /\ SingleFrame(size).sf_dl = 0 /\ SingleFrame(size).escape = size
          /\ SingleFrame(size).len = PadFrame(size + 2)
        BY <1>3 DEF SingleFrame
    <2>4. SfPayloadLength(SingleFrame(size)) = size
        BY <2>3 DEF SfPayloadLength
    <2>5. SfAccepted(SingleFrame(size))
        BY <1>1, <2>1, <2>2, <2>3, <2>4 DEF SfAccepted, CAN_DL_CLASSIC
    <2>6. SingleFrame(size).len \in 0 .. TxDl(tx)
        BY <1>1, <2>2, <2>3
    <2>7. SingleFrame(size).sf_dl \in 0 .. 15 /\ SingleFrame(size).escape \in 0 .. 255
        BY <1>1, <2>1, <2>3
    <2> QED BY <1>0, <2>1, <2>4, <2>5, <2>6, <2>7
<1> QED BY <1>2, <1>3

(* A 12-bit length taken apart and put together again.                      *)
LEMMA TwelveBits ==
    ASSUME NEW size \in 0 .. 4095
    PROVE  ((size \div 256) % 16) * 256 + (size % 256) = size
<1>1. size \div 256 \in 0 .. 15
    OBVIOUS
<1>2. (size \div 256) % 16 = size \div 256
    BY <1>1
<1>3. (size \div 256) * 256 + (size % 256) = size
    OBVIOUS
<1> QED BY <1>2, <1>3

(* A First Frame says how long its payload is, in 12 bits or in 32, and the *)
(* receiver takes as many bytes as the sender gave.                         *)
LEMMA FirstFrameRead ==
    ASSUME NEW tx \in Nat, NEW size \in Nat, size > SfMaxPayload(TxDl(tx))
    PROVE  LET f == FirstFrame(size, TxDl(tx))
           IN  /\ FfAccepted(f)
               /\ FfPayloadLength(f) = size
               /\ FfReadLength(f) = FfDataLength(size, TxDl(tx))
               /\ FfReadLength(f) = f.n
               /\ f.n < size
               /\ f.type = "FF" /\ f.len = TxDl(tx)
               /\ f.ff_dl_high \in 0 .. 15 /\ f.ff_dl_low \in 0 .. 255 /\ f.ff_dl \in Nat
<1> DEFINE f == FirstFrame(size, TxDl(tx))
<1>1. TxDl(tx) \in 8 .. 64 /\ TxDl(tx) \in CanLengths
    BY TxDlIsCanLength
<1>2. FfDataLength(size, TxDl(tx)) < size /\ size > 0
    BY <1>1, FirstFrameLeaves DEF SfMaxPayload, CAN_DL_CLASSIC
<1>3. /\ f.type = "FF" /\ f.len = TxDl(tx) /\ f.n = FfDataLength(size, TxDl(tx))
      /\ f.ff_dl_high \in 0 .. 15 /\ f.ff_dl_low \in 0 .. 255 /\ f.ff_dl \in Nat
    BY DEF FirstFrame, FfDataLength
<1>4. FfPayloadLength(f) = size /\ (FfIsLong(f) <=> size > 4095)
    <2>1. CASE size <= 4095
        <3>1. f.ff_dl_high = (size \div 256) % 16 /\ f.ff_dl_low = size % 256
            BY <2>1 DEF FirstFrame
        <3>2. f.ff_dl_high * 256 + f.ff_dl_low = size
            <4> HIDE DEF f
            <4>1. size \in 0 .. 4095
                BY <1>1, <2>1
            <4> QED BY <3>1, <4>1, TwelveBits
        <3> HIDE DEF f
        <3> QED BY <1>1, <1>2, <2>1, <3>2 DEF FfPayloadLength, FfIsLong
    <2>2. CASE size > 4095
        <3>1. f.ff_dl_high = 0 /\ f.ff_dl_low = 0 /\ f.ff_dl = size
            BY <1>1, <2>2 DEF FirstFrame
        <3> HIDE DEF f
        <3> QED BY <2>2, <3>1 DEF FfPayloadLength, FfIsLong
    <2> QED BY <1>1, <2>1, <2>2
<1> HIDE DEF f
<1>5. FfReadLength(f) = FfDataLength(size, TxDl(tx))
    BY <1>1, <1>3, <1>4 DEF FfReadLength, FfDataLength
<1>6. IsValidCanDl(TxDl(tx))
    BY <1>1, CeilOfCanLength DEF IsValidCanDl
<1>7. FfAccepted(f)
    BY <1>1, <1>3, <1>4, <1>6 DEF FfAccepted, CAN_DL_CLASSIC
<1> QED BY <1>2, <1>3, <1>4, <1>5, <1>7 DEF f

(* A Consecutive Frame brings as many bytes as the receiver wants, once it  *)
(* knows RX_DL from the First Frame.                                        *)
LEMMA ConsecutiveFrameRead ==
    ASSUME NEW tx \in Nat, NEW left \in Nat, left > 0, NEW sn
    PROVE  LET f == ConsecutiveFrame(sn, left, TxDl(tx))
           IN  /\ CfWanted(left, TxDl(tx)) = f.n
               /\ f.n \in 1 .. left
               /\ f.n <= f.len - 1
               /\ f.len \in 0 .. TxDl(tx)
               /\ f.type = "CF" /\ f.SN = sn
<1> DEFINE f == ConsecutiveFrame(sn, left, TxDl(tx))
           m == CfDataLength(left, TxDl(tx))
<1>1. TxDl(tx) \in 8 .. 64
    BY TxDlIsCanLength
<1>2. f.type = "CF" /\ f.SN = sn /\ f.n = m /\ f.len = PadFrame(m + 1)
    BY DEF ConsecutiveFrame
<1>3. m \in 1 .. left /\ m + 1 \in 0 .. TxDl(tx)
    BY <1>1 DEF CfDataLength
<1>4. CfWanted(left, TxDl(tx)) = m
    BY <1>1 DEF CfWanted, CAN_DL_CLASSIC
<1> HIDE DEF m
<1>5. PadFrame(m + 1) \in m + 1 .. TxDl(tx)
    BY <1>1, <1>3, PadFits
<1>6. f.n <= f.len - 1 /\ f.len \in 0 .. TxDl(tx)
    <2> HIDE DEF f
    <2> QED BY <1>1, <1>2, <1>3, <1>5
<1> QED BY <1>2, <1>3, <1>4, <1>6

(* The code of a separation time is never a reserved one, and stands for    *)
(* that time where it can and for a shorter one where it cannot.            *)
LEMMA StMinDecodes ==
    ASSUME NEW us \in Nat
    PROVE  /\ UsToStMin(us) \in (0 .. 127) \cup (241 .. 249)
           /\ StMinToUs(UsToStMin(us)) <= us
           /\ \A k \in 1 .. 9 : us = 100 * k => StMinToUs(UsToStMin(us)) = us
           /\ \A k \in 0 .. 127 : us = 1000 * k => StMinToUs(UsToStMin(us)) = us
<1>1. CASE us > 127000
    BY <1>1 DEF StMinToUs, UsToStMin
<1>2. CASE us \in 100 .. 900
    <2>1. UsToStMin(us) = 240 + us \div 100 /\ us \div 100 \in 1 .. 9
        BY <1>2 DEF UsToStMin
    <2>2. StMinToUs(UsToStMin(us)) = (us \div 100) * 100
        BY <2>1 DEF StMinToUs
    <2> QED BY <1>2, <2>1, <2>2
<1>3. CASE us <= 127000 /\ us \notin 100 .. 900
    <2>1. UsToStMin(us) = us \div 1000 /\ us \div 1000 \in 0 .. 127
        BY <1>3 DEF UsToStMin
    <2>2. StMinToUs(UsToStMin(us)) = (us \div 1000) * 1000
        BY <2>1 DEF StMinToUs
    <2> QED BY <1>3, <2>1, <2>2
<1> QED BY <1>1, <1>2, <1>3

=============================================================================
