----------------------------- MODULE MCIsoTpFrame -----------------------------
(***************************************************************************)
(* The frame codec over every legal TX_DL and a range of payload sizes, the *)
(* STmin code over a range of microseconds and the clock over a small ring. *)
(* Each state is one input: dl a TX_DL, n a size, a time or an offset.      *)
(***************************************************************************)
EXTENDS IsoTpFrame

CONSTANTS TxDls,     \* values tried as the link's tx_dl, legal or not
          MaxSize,   \* payload sizes 0 .. MaxSize
          Fine       \* separation times are multiples of Fine microseconds

(* tx_dl is a uint8_t.                                                      *)
ASSUME CodecAssumption == TxDls \subseteq 0 .. 255 /\ MaxSize \in Nat /\ Fine \in Nat

VARIABLES dl, n

vars == <<dl, n>>

Init == dl \in TxDls /\ n = 0

Next == n < MaxSize /\ n' = n + 1 /\ UNCHANGED dl

Spec == Init /\ [][Next]_vars

-----------------------------------------------------------------------------
(* What send_single_frame builds from n bytes, receive_single_frame accepts *)
(* with the same length; an empty payload is sent and never accepted.       *)
SingleFrameRoundTrip ==
    n <= SfMaxPayload(TxDl(dl)) =>
        LET f == SingleFrame(n)
        IN  /\ SfAccepted(f) <=> n > 0
            /\ SfPayloadLength(f) = n
            /\ f.len <= TxDl(dl)

(* A payload that needs segmenting is announced with its exact size in the  *)
(* short or the long First Frame, the receiver reads as many bytes from it  *)
(* as the sender skips, and at least one byte is left for what follows.     *)
FirstFrameRoundTrip ==
    n > SfMaxPayload(TxDl(dl)) =>
        LET f == FirstFrame(n, TxDl(dl))
        IN  /\ FfAccepted(f)
            /\ FfPayloadLength(f) = n
            /\ FfReadLength(f) = FfDataLength(n, TxDl(dl))
            /\ FfReadLength(f) = f.n
            /\ f.n < n

(* With n bytes left, the Consecutive Frame the sender builds satisfies the *)
(* length check of a receiver that learned RX_DL from the First Frame, and  *)
(* carries exactly the bytes that receiver takes.                           *)
ConsecutiveFrameRoundTrip ==
    n > 0 => LET f == ConsecutiveFrame(1, n, TxDl(dl))
             IN  /\ CfWanted(n, TxDl(dl)) = f.n
                 /\ f.n <= f.len - 1
                 /\ f.len <= TxDl(dl)

(* Every length handed to the driver is one the bus can carry, padding      *)
(* never truncates, and a frame longer than eight bytes is flagged CAN FD.  *)
PaddingTransmittable ==
    n \in 1 .. TxDl(dl) =>
        /\ IsValidCanDl(PadFrame(n))
        /\ PadFrame(n) \in n .. TxDl(dl)
        /\ PadFrame(n) > CAN_DL_CLASSIC => FrameFlags(dl) = "FD"

(* A configured separation time that STmin can express is the one the peer  *)
(* decodes, and no time is requested with a reserved code, which a peer may *)
(* read as it likes.  Other values are cut, although isotp_config.h calls   *)
(* the configured time a minimum; nothing is said of what becomes of them.  *)
StMinExact ==
    LET us == n * Fine
    IN  /\ UsToStMin(us) \in (0 .. 127) \cup (241 .. 249)
        /\ (us \in {100 * k : k \in 1 .. 9} \cup {1000 * k : k \in 0 .. 127}) =>
               StMinToUs(UsToStMin(us)) = us

(* A deadline d ticks after a reading t of the clock counts as passed after *)
(* e ticks exactly when e exceeds d, across every wrap of the clock, while  *)
(* the deadline and the delay stay below half the range.                    *)
DeadlineExact ==
    \A t \in {n % (2 * HALF_RANGE)}, d, e \in 0 .. HALF_RANGE - 1 :
        TRUE \in TimeAfter(WrapAdd(t, e), WrapAdd(t, d)) <=> e > d

=============================================================================
