----------------------------- MODULE MessageFifo -----------------------------
(***************************************************************************)
(* What the other modules take one direction of a connection to be:        *)
(* messages arrive whole, once, unaltered and in the order in which their  *)
(* writes began.  The end of the connection may cut the sequence off       *)
(* anywhere, never inside a message.                                       *)
(***************************************************************************)
EXTENDS Naturals, Sequences

CONSTANT Messages
VARIABLES sent, received

Init == sent = << >> /\ received = << >>

Send == /\ \E m \in Messages : sent' = Append(sent, m)
        /\ UNCHANGED received

Receive == /\ Len(received) < Len(sent)
           /\ received' = Append(received, sent[Len(received) + 1])
           /\ UNCHANGED sent

Next == Send \/ Receive
Spec == Init /\ [][Next]_<<sent, received>>
=============================================================================
