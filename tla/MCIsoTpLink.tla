------------------------------ MODULE MCIsoTpLink ------------------------------
(* Instances of IsoTpLink for TLC: the frames of the peer.                    *)
EXTENDS IsoTpLink, TLC

Carrying(f, msg, at) == f @@ [msg |-> msg, at |-> at]

(* A message of 13 bytes in two frames.                                       *)
MCFrames == { Carrying(FirstFrame(13, 8), 1, 0), Carrying(ConsecutiveFrame(1, 7, 8), 1, 6) }

FC(fs, bs) == [type |-> "FC", FS |-> fs, BS |-> bs, STmin |-> 0, len |-> 3]

MCFlowControls == { FC(CONTINUE, 0) }
=============================================================================
