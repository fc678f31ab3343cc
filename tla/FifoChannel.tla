----------------------------- MODULE FifoChannel -----------------------------
(***************************************************************************)
(* What the ARQ windows (src/constrained/arq.rs) promise together, and     *)
(* what a QUIC stream (src/connection/streams/) promises: a channel that   *)
(* hands over the messages 0, 1, 2, ... in the order in which they were    *)
(* sent, each once and none before it was sent.  Several may be sent or    *)
(* handed over at a time; the channel may stop at any point, as it does    *)
(* when the sender gives up.                                               *)
(***************************************************************************)
EXTENDS Naturals, Sequences

VARIABLES
    sent,        \* number of messages sent
    delivered    \* the messages handed over

\* The first n messages.
Messages(n) == [i \in 1 .. n |-> i - 1]

Init ==
    /\ sent = 0
    /\ delivered = Messages(0)

Send ==
    /\ sent' \in Nat /\ sent' > sent
    /\ UNCHANGED delivered

Deliver ==
    /\ \E n \in Len(delivered) + 1 .. sent : delivered' = Messages(n)
    /\ UNCHANGED sent

Next == Send \/ Deliver

Spec == Init /\ [][Next]_<<sent, delivered>>
=============================================================================
