---------------------------- MODULE MCIsoTpReceive ----------------------------
(* Instances of IsoTpReceive for TLC: the frames of one segmented message,    *)
(* of one Single Frame message, and frames that are malformed.                *)
EXTENDS IsoTpReceive, TLC

CONSTANTS Size,    \* payload of the segmented message
          Dl       \* TX_DL of the peer

(* Header fields the sender builds, and where its payload bytes lie.          *)
Carrying(f, msg, at) == f @@ [msg |-> msg, at |-> at]

CfPositions == {FfDataLength(Size, Dl) + k * (Dl - 1) :
                    k \in 0 .. (Size - FfDataLength(Size, Dl) - 1) \div (Dl - 1)}

Cf(at) == Carrying(ConsecutiveFrame((((at - FfDataLength(Size, Dl)) \div (Dl - 1)) + 1) % 16,
                                    Size - at, Dl), 1, at)

MCFrames ==
    {Cf(at) : at \in CfPositions}
    \cup { Carrying(FirstFrame(Size, Dl), 1, 0),
           Carrying(SingleFrame(3), 2, 0),
           \* a payload above the buffer, a Consecutive Frame cut short
           \* and First Frames of a wrong length
           Carrying(SingleFrame(7), 3, 0),
           [Cf(FfDataLength(Size, Dl)) EXCEPT !.len = 2, !.n = 1],
           [Carrying(FirstFrame(Size, Dl), 1, 0) EXCEPT !.len = 7],
           Carrying(FirstFrame(Dl - 2, Dl), 1, 0) }

(* The proofs about the contents of the buffer assume it of the frames.       *)
ASSUME OneMessage == OneSegmentedMessage
=============================================================================
