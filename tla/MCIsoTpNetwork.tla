---------------------------- MODULE MCIsoTpNetwork ----------------------------
(* Instances of IsoTpNetwork for TLC: a Single Frame, a message of three      *)
(* Consecutive Frames and one of one.                                         *)
EXTENDS IsoTpNetwork

MCPayloads == <<5, 27, 13>>
=============================================================================
