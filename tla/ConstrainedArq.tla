--------------------------- MODULE ConstrainedArq ---------------------------
(***************************************************************************)
(* One direction of a constrained connection: a SendWindow and a           *)
(* ReceiveWindow (src/constrained/arq.rs) joined by a transport that       *)
(* loses, duplicates and reorders packets, driven the way an Established   *)
(* ConstrainedConnection drives them (src/constrained/connection.rs).      *)
(*                                                                         *)
(* Message n carries the number n as its payload, so that the payload says *)
(* which message a sequence number, which wraps, stood for.                *)
(***************************************************************************)
EXTENDS ArqWindows

CONSTANTS
    Lifetime,     \* how many later sends a packet can outlive in the transport
    MaxSent       \* bound of the model: messages the application sends

ASSUME LifetimeAssumption == Lifetime \in Nat \ {0} /\ Lifetime <= SeqHalf
ASSUME MaxSentAssumption  == MaxSent \in Nat

VARIABLES
    local_seq,       \* next number of the sender (ConstrainedConnection.local_seq)
    base_seq,        \* SendWindow.base_seq
    unacked,         \* SendWindow.unacked
    failed,          \* the sender gave up: retries exhausted
    next_expected,   \* ReceiveWindow.next_expected
    cumulative_ack,  \* ReceiveWindow.cumulative_ack
    out_of_order,    \* ReceiveWindow.out_of_order
    delivered,       \* everything the receiver handed to its application
    sent,            \* number of messages sent
    data_net,        \* data packets in transit
    ack_net          \* acknowledgments in transit

sender   == <<local_seq, base_seq, unacked, failed>>
receiver == <<next_expected, cumulative_ack, out_of_order, delivered>>
network  == <<data_net, ack_net>>
vars     == <<sender, receiver, sent, network>>

DataPacket(seq, data) == [seq |-> seq, data |-> data]

\* An acknowledgment carries, besides its wire number, the number of messages
\* the receiver had delivered when it was produced.
AckPacket(ack, count) == [ack |-> ack, count |-> count]

Init ==
    /\ local_seq = 0
    /\ base_seq = 0
    /\ unacked = <<>>
    /\ failed = FALSE
    /\ next_expected = 0
    /\ cumulative_ack = 0
    /\ out_of_order = {}
    /\ delivered = <<>>
    /\ sent = 0
    /\ data_net = {}
    /\ ack_net = {}

-----------------------------------------------------------------------------
(* ConstrainedConnection::send of one chunk, and the poll that transmits it. *)
Send ==
    /\ ~failed
    /\ sent < MaxSent
    /\ ~IsFull(unacked)
    /\ local_seq' = SeqNext(local_seq)
    /\ unacked' = Append(unacked, SendEntry(local_seq, sent))
    /\ sent' = sent + 1
    /\ data_net' = {p \in data_net \cup {DataPacket(local_seq, sent)} :
                        sent + 1 - p.data <= Lifetime}
    /\ ack_net' = {a \in ack_net : sent + 1 - a.count < Lifetime}
    /\ UNCHANGED <<base_seq, failed, receiver>>

(* SendWindow::acknowledge, called for every packet that has the ACK flag. *)
Acknowledge ==
    /\ ~failed
    /\ \E a \in ack_net : \E n \in AckedLengths(base_seq, unacked, a.ack) :
        /\ unacked' = SubSeq(unacked, n + 1, Len(unacked))
        /\ base_seq' = AckedBase(base_seq, a.ack, n)
    /\ UNCHANGED <<local_seq, failed, receiver, sent, network>>

(* poll: SendWindow::get_retransmissions, for the entries whose timeout the *)
(* clock says has expired.                                                  *)
Retransmit ==
    /\ ~failed
    /\ \E expired \in SUBSET (1 .. Len(unacked)) :
        /\ expired # {}
        /\ RetriesExhausted(unacked, expired) = {}
        /\ unacked' = Retransmitted(unacked, expired)
        /\ data_net' = data_net \cup
             {DataPacket(unacked[i].seq, unacked[i].data) : i \in expired}
    /\ UNCHANGED <<local_seq, base_seq, failed, receiver, sent, ack_net>>

(* poll when an expired entry has no retries left: nothing is transmitted, *)
(* and the connection times out.                                           *)
GiveUp ==
    /\ ~failed
    /\ \E expired \in SUBSET (1 .. Len(unacked)) :
        /\ RetriesExhausted(unacked, expired) # {}
        /\ unacked' = Retransmitted(unacked, expired)
    /\ failed' = TRUE
    /\ UNCHANGED <<local_seq, base_seq, receiver, sent, network>>

\* Mutant: next_expected is not moved past the packet that arrived.
ReceiveInOrderOffByOne(p) ==
    /\ p.seq = next_expected
    /\ \E k \in DrainLengths(next_expected, out_of_order) :
        /\ next_expected' = SeqAdd(next_expected, k)
        /\ cumulative_ack' = SeqAdd(next_expected, k)
        /\ out_of_order' = out_of_order \ Drained(next_expected, out_of_order, k)
        /\ delivered' = delivered \o <<p.data>>
                          \o DrainedData(next_expected, out_of_order, k)
    /\ ack_net' = ack_net \cup {AckPacket(cumulative_ack', Len(delivered'))}
    /\ UNCHANGED <<sender, sent>>

(* ReceiveWindow::receive of the packet expected next: it and the buffered *)
(* run behind it are delivered, and process_packet answers with an ACK.    *)
ReceiveInOrder(p) ==
    /\ p.seq = next_expected
    /\ \E k \in DrainLengths(next_expected, out_of_order) :
        /\ next_expected' = SeqAdd(next_expected, k + 1)
        /\ cumulative_ack' = SeqAdd(next_expected, k)
        /\ out_of_order' = out_of_order \ Drained(next_expected, out_of_order, k)
        /\ delivered' = delivered \o <<p.data>>
                          \o DrainedData(next_expected, out_of_order, k)
    /\ ack_net' = ack_net \cup {AckPacket(cumulative_ack', Len(delivered'))}
    /\ UNCHANGED <<sender, sent>>

(* A packet ahead of the expected one is buffered; nothing is answered. *)
ReceiveAhead(p) ==
    /\ IsInWindow(next_expected, p.seq)
    /\ p.seq # next_expected
    /\ out_of_order' = BufferPacket(out_of_order, p.seq, p.data)
    /\ UNCHANGED <<next_expected, cumulative_ack, delivered, sender, sent, ack_net>>

(* A duplicate, or a packet outside the window, is dropped without an ACK. *)
ReceiveOutside(p) ==
    /\ ~IsInWindow(next_expected, p.seq)
    /\ UNCHANGED <<sender, receiver, sent, ack_net>>

(* The transport hands over a packet; it may hand over a copy again later. *)
Receive ==
    \E p \in data_net :
        /\ data_net' \in {data_net, data_net \ {p}}
        /\ ReceiveInOrder(p) \/ ReceiveAhead(p) \/ ReceiveOutside(p)

(* Every data, FIN or retransmitted packet of the other direction carries  *)
(* the receiver's cumulative_ack, whether or not anything has arrived.     *)
PiggybackAck ==
    /\ ack_net' = ack_net \cup {AckPacket(cumulative_ack, Len(delivered))}
    /\ UNCHANGED <<sender, receiver, sent, data_net>>

(* The transport loses a packet. *)
Lose ==
    /\ \/ /\ \E p \in data_net : data_net' = data_net \ {p}
          /\ UNCHANGED ack_net
       \/ /\ \E a \in ack_net : ack_net' = ack_net \ {a}
          /\ UNCHANGED data_net
    /\ UNCHANGED <<sender, receiver, sent>>

Next == Send \/ Acknowledge \/ Retransmit \/ GiveUp \/ Receive \/ PiggybackAck \/ Lose

Spec == Init /\ [][Next]_vars

-----------------------------------------------------------------------------
(* Properties *)

\* Number of the oldest message still in the send window.
Oldest == sent - Len(unacked)

TypeOK ==
    /\ local_seq \in SeqNumbers
    /\ base_seq \in SeqNumbers
    /\ unacked \in Seq([seq : SeqNumbers, data : Nat, transmissions : Nat])
    /\ failed \in BOOLEAN
    /\ next_expected \in SeqNumbers
    /\ cumulative_ack \in SeqNumbers
    /\ out_of_order \subseteq [seq : SeqNumbers, data : Nat]
    /\ delivered \in Seq(Nat)
    /\ sent \in Nat
    /\ data_net \subseteq [seq : SeqNumbers, data : Nat]
    /\ ack_net \subseteq [ack : SeqNumbers, count : Nat]

\* What the receiver hands to its application is the sequence of messages the
\* sender sent, without a gap, a repetition or a swap.
InOrderDelivery == \A i \in 1 .. Len(delivered) : delivered[i] = i - 1

Fifo == INSTANCE FifoChannel WITH sent <- sent, delivered <- delivered

\* The two windows implement a FIFO channel: every step delivers the next
\* messages, or none, although the numbers on the wire wrap and the transport
\* loses, duplicates and reorders (SendWindow, ReceiveWindow::receive).
ImplementsFifo == Fifo!Spec

\* A buffered packet lies strictly ahead of next_expected, inside the window,
\* and its payload is the message that number stands for: the drain loop can
\* deliver it blindly (ReceiveWindow::receive).
BufferedAhead ==
    \A e \in out_of_order :
        /\ DistanceTo(next_expected, e.seq) \in 1 .. WindowSize
        /\ e.data = Len(delivered) + DistanceTo(next_expected, e.seq)

\* A message other than the very first leaves the send window only after the
\* receiver has delivered it (SendWindow::acknowledge).
LaterAckedDelivered == Oldest > 1 => Oldest <= Len(delivered)

\* The two windows agree about every message between them, across the wrap of
\* the sequence numbers: what the receiver buffers is the message its number
\* stands for, and what the sender lets go, the very first apart, was delivered
\* (SendWindow, ReceiveWindow).
WindowsAgree == BufferedAhead /\ LaterAckedDelivered

-----------------------------------------------------------------------------
(* The inductive invariant behind these properties: every number on the    *)
(* wire stands, at its distance from the window that will read it, for the *)
(* message it was minted for.                                              *)

SenderInv ==
    /\ Len(unacked) <= WindowSize
    /\ Len(unacked) <= sent
    /\ \A i \in 1 .. Len(unacked) :
        /\ unacked[i].data = Oldest + i - 1
        /\ DistanceTo(base_seq, unacked[i].seq) = i - 1
    /\ DistanceTo(base_seq, local_seq) = Len(unacked)

\* The one message that may leave the send window undelivered is message 0.
ProgressInv ==
    /\ Len(delivered) <= sent
    /\ Oldest <= Len(delivered) \/ (Len(delivered) = 0 /\ Oldest = 1)

ReceiverInv ==
    /\ DistanceTo(next_expected, local_seq) = sent - Len(delivered)
    /\ IF Len(delivered) = 0
       THEN next_expected = 0 /\ cumulative_ack = 0
       ELSE next_expected = SeqNext(cumulative_ack)

DataInv ==
    /\ \A p \in data_net :
        /\ p.data < sent
        /\ sent - p.data <= SeqHalf
        /\ DistanceTo(next_expected, p.seq) = p.data - Len(delivered)
    /\ \A e \in out_of_order : e.data < sent

\* The message an acknowledgment covers: with nothing delivered yet its wire
\* number is 0, which the sender reads as message 0.
AckIndex(a) == IF a.count = 0 THEN 0 ELSE a.count - 1

AckInv ==
    \A a \in ack_net :
        /\ a.count <= Len(delivered)
        /\ sent - AckIndex(a) <= SeqHalf
        /\ DistanceTo(base_seq, a.ack) = AckIndex(a) - Oldest

ArqInv ==
    /\ TypeOK
    /\ SenderInv
    /\ ProgressInv
    /\ ReceiverInv
    /\ DataInv
    /\ AckInv
    /\ BufferedAhead
    /\ InOrderDelivery
=============================================================================
