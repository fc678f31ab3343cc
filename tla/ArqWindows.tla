----------------------------- MODULE ArqWindows -----------------------------
(***************************************************************************)
(* The wrapping sequence numbers and the two sliding windows of the        *)
(* constrained protocol (src/constrained/types.rs, src/constrained/arq.rs),*)
(* as operators on values.  ConstrainedArq runs one send window against    *)
(* one receive window; ConstrainedConnection builds a connection from them.*)
(*                                                                         *)
(* A window's loops are described by what they compute: the set of prefix  *)
(* lengths an acknowledgment pops (always a singleton) and the set of      *)
(* lengths of the run of buffered packets that became deliverable (also a  *)
(* singleton).                                                             *)
(***************************************************************************)
EXTENDS Integers, Sequences

CONSTANTS
    SeqHalf,      \* half the sequence space: 128 in the code (u8 numbers)
    WindowSize,   \* ArqConfig.window_size
    MaxRetries    \* ArqConfig.max_retries

ASSUME SeqHalfAssumption == SeqHalf \in Nat /\ SeqHalf >= 3
\* "Assumes window size is less than 128", and one number of slack because
\* the receive window is inclusive.
ASSUME WindowAssumption  == WindowSize \in Nat \ {0} /\ WindowSize + 2 <= SeqHalf
ASSUME RetriesAssumption == MaxRetries \in Nat

-----------------------------------------------------------------------------
(* SequenceNumber *)

SeqMod == 2 * SeqHalf

SeqNumbers == 0 .. SeqMod - 1

\* Mutant: plain addition instead of wrapping_add.
SeqAddUnwrapped(s, k) == s + k

\* k successive calls of SequenceNumber::next (wrapping_add).
SeqAdd(s, k) == IF s + k >= SeqMod THEN s + k - SeqMod ELSE s + k

SeqNext(s) == SeqAdd(s, 1)

\* wrapping_sub reinterpreted as a signed number: in -SeqHalf .. SeqHalf - 1.
DistanceTo(s, other) ==
    LET diff == other - s
    IN  IF diff >= SeqHalf THEN diff - SeqMod
        ELSE IF diff < -SeqHalf THEN diff + SeqMod
        ELSE diff

IsInWindow(s, other) == DistanceTo(s, other) \in 0 .. WindowSize

-----------------------------------------------------------------------------
(* SendWindow: the queue of unacknowledged entries and its base sequence   *)
(* number.  The clock fields of an entry are left to the caller, which     *)
(* chooses the entries whose retransmission timeout has expired.           *)

SendEntry(seq, data) == [seq |-> seq, data |-> data, transmissions |-> 1]

IsFull(unacked) == Len(unacked) >= WindowSize

\* Mutant: numbers compared as plain integers instead of by distance.
AckedLengthsByValue(base, unacked, ack) ==
    LET covered(i) == unacked[i].seq <= ack
    IN  {n \in 0 .. Len(unacked) :
            /\ \A i \in 1 .. n : covered(i)
            /\ n < Len(unacked) => ~covered(n + 1)}

\* The number of entries SendWindow::acknowledge pops for a cumulative ack.
AckedLengths(base, unacked, ack) ==
    LET covered(i) == DistanceTo(base, unacked[i].seq) <= DistanceTo(base, ack)
    IN  {n \in 0 .. Len(unacked) :
            /\ \A i \in 1 .. n : covered(i)
            /\ n < Len(unacked) => ~covered(n + 1)}

\* base_seq moves only when something was acknowledged.
AckedBase(base, ack, n) == IF n > 0 THEN SeqNext(ack) ELSE base

\* An expired entry that has used up its retries fails the connection.
RetriesExhausted(unacked, expired) ==
    {i \in expired : unacked[i].transmissions > MaxRetries}

\* get_retransmissions walks the queue in order and marks every expired entry
\* it passes; it stops, with None, at the first exhausted one.
Retransmitted(unacked, expired) ==
    LET marked == {i \in expired :
                     \A j \in RetriesExhausted(unacked, expired) : i < j}
    IN  [i \in 1 .. Len(unacked) |->
           IF i \in marked
           THEN [unacked[i] EXCEPT !.transmissions = @ + 1]
           ELSE unacked[i]]

-----------------------------------------------------------------------------
(* ReceiveWindow: next_expected, cumulative_ack and the buffered packets.  *)
(* The code keeps the buffer sorted; it only ever searches it for an equal *)
(* number, so the order is not observable and the buffer is a set.         *)

Buffered(seq, data) == [seq |-> seq, data |-> data]

BufferedSeqs(out_of_order) == {e.seq : e \in out_of_order}

\* How many buffered packets follow next_expected without a gap: the number
\* of iterations of the loop that drains the buffer.
DrainLengths(next_expected, out_of_order) ==
    LET held(k) == SeqAdd(next_expected, k) \in BufferedSeqs(out_of_order)
    IN  {k \in 0 .. WindowSize :
            /\ \A j \in 1 .. k : held(j)
            /\ ~held(k + 1)}

\* The packets the loop removed, and their payloads in delivery order.
Drained(next_expected, out_of_order, k) ==
    {e \in out_of_order : \E j \in 1 .. k : e.seq = SeqAdd(next_expected, j)}

DrainedData(next_expected, out_of_order, k) ==
    [j \in 1 .. k |->
        (CHOOSE e \in out_of_order : e.seq = SeqAdd(next_expected, j)).data]

\* An out-of-order packet is buffered unless its number is already there.
BufferPacket(out_of_order, seq, data) ==
    IF seq \in BufferedSeqs(out_of_order)
    THEN out_of_order
    ELSE out_of_order \cup {Buffered(seq, data)}
=============================================================================
