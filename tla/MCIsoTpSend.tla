----------------------------- MODULE MCIsoTpSend ------------------------------
(* Instances of IsoTpSend for TLC: the Flow Control frames of the peer.      *)
EXTENDS IsoTpSend

FC(fs, bs, st_min, len) == [type |-> "FC", FS |-> fs, BS |-> bs, STmin |-> st_min, len |-> len]

(* Every flow status, bounded and unbounded blocks, no separation, one below *)
(* and one above the response timeout, and a frame that is too short.        *)
MCFlowControls ==
    { FC(CONTINUE, 0, 0, 3), FC(CONTINUE, 1, 0, 8), FC(CONTINUE, 2, 241, 3),
      FC(CONTINUE, 2, 243, 3), FC(WAIT, 0, 0, 3), FC(OVERFLOW, 0, 0, 3),
      FC(3, 1, 0, 3), FC(CONTINUE, 1, 0, 2) }

(* Continue frames only, to follow a long payload through every wrap of the  *)
(* sequence number.                                                          *)
MCContinues == { FC(CONTINUE, 0, 0, 3), FC(CONTINUE, 15, 0, 3) }
=============================================================================
