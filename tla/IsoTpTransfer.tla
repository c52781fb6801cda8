---------------------------- MODULE IsoTpTransfer -----------------------------
(***************************************************************************)
(* What a pair of links promises to the two applications, without frames,   *)
(* flow control or timers: payloads are offered one after the other, and    *)
(* what the receiving application is given are pieces of them.  A message   *)
(* may be lost, or end early when its successor begins, but nothing is ever *)
(* handed over twice, with a gap, mixed with another message or after a     *)
(* later one, and the end is announced with the last byte.                  *)
(***************************************************************************)
EXTENDS Naturals, Sequences

CONSTANT Payloads          \* sizes of the payloads offered, in this order

VARIABLES
    sent,                  \* payloads offered so far
    sending,               \* TRUE iff the last of them is still being sent
    handed                 \* the last piece handed over

vars == <<sent, sending, handed>>

NoPiece == [msg |-> 0, from |-> 0, to |-> 0, complete |-> TRUE]

Init == sent = 0 /\ sending = FALSE /\ handed = NoPiece

(* A payload in a Single Frame is sent at once.                             *)
Offer ==
    /\ ~sending
    /\ sent < Len(Payloads)
    /\ sent' = sent + 1
    /\ sending' \in BOOLEAN
    /\ UNCHANGED handed

(* The transmission completes, fails or is abandoned.                       *)
End ==
    /\ sending
    /\ sending' = FALSE
    /\ UNCHANGED <<sent, handed>>

(* The bytes of payload m up to the given position, from its beginning or   *)
(* from the end of the last piece.                                          *)
HandOver(m, to) ==
    LET from == IF m = handed.msg THEN handed.to ELSE 0
    IN  /\ handed.msg <= m
        /\ from < to
        /\ handed' = [msg |-> m, from |-> from, to |-> to, complete |-> to = Payloads[m]]
        /\ UNCHANGED <<sent, sending>>

Next ==
    \/ Offer
    \/ End
    \/ \E m \in 1 .. sent : \E to \in 1 .. Payloads[m] : HandOver(m, to)

Spec == Init /\ [][Next]_vars

(* Every transmission ends.                                                 *)
LiveSpec == Spec /\ WF_vars(End)
=============================================================================
