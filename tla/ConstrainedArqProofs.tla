------------------------ MODULE ConstrainedArqProofs ------------------------
(***************************************************************************)
(* Proofs about ConstrainedArq: in-order delivery for every sequence-space *)
(* size, window, retry limit and packet lifetime the assumptions allow.    *)
(***************************************************************************)
EXTENDS ConstrainedArq, SequenceTheorems, TLAPS

-----------------------------------------------------------------------------
(* Arithmetic of wrapping sequence numbers. *)

\* Advancing a sequence number stays inside the sequence space
\* (SequenceNumber::next).
LEMMA SeqAddType ==
    ASSUME NEW s \in SeqNumbers, NEW k \in Nat, k <= SeqHalf
    PROVE  SeqAdd(s, k) \in SeqNumbers
BY SeqHalfAssumption DEF SeqNumbers, SeqAdd, SeqMod

\* The signed distance is an integer in the signed range
\* (SequenceNumber::distance_to).
LEMMA DistanceType ==
    ASSUME NEW s \in SeqNumbers, NEW t \in SeqNumbers
    PROVE  /\ DistanceTo(s, t) \in Int
           /\ -SeqHalf <= DistanceTo(s, t)
           /\ DistanceTo(s, t) < SeqHalf
BY SeqHalfAssumption DEF SeqNumbers, DistanceTo, SeqMod

\* Advancing the far end adds to the distance.
LEMMA DistanceForward ==
    ASSUME NEW s \in SeqNumbers, NEW t \in SeqNumbers, NEW k \in Nat,
           k <= SeqHalf, DistanceTo(s, t) + k < SeqHalf
    PROVE  DistanceTo(s, SeqAdd(t, k)) = DistanceTo(s, t) + k
BY SeqHalfAssumption DEF SeqNumbers, DistanceTo, SeqAdd, SeqMod

\* Advancing the near end subtracts from it.
LEMMA DistanceBackward ==
    ASSUME NEW s \in SeqNumbers, NEW t \in SeqNumbers, NEW k \in Nat,
           k <= SeqHalf, DistanceTo(s, t) - k >= -SeqHalf
    PROVE  DistanceTo(SeqAdd(s, k), t) = DistanceTo(s, t) - k
BY SeqHalfAssumption DEF SeqNumbers, DistanceTo, SeqAdd, SeqMod

\* A number at a non-negative distance is that many steps ahead.
LEMMA DistanceInverse ==
    ASSUME NEW s \in SeqNumbers, NEW t \in SeqNumbers, DistanceTo(s, t) >= 0
    PROVE  t = SeqAdd(s, DistanceTo(s, t))
BY SeqHalfAssumption DEF SeqNumbers, DistanceTo, SeqAdd, SeqMod

\* A number is at distance 0 from itself.
LEMMA DistanceSelf ==
    ASSUME NEW s \in SeqNumbers
    PROVE  DistanceTo(s, s) = 0
BY SeqHalfAssumption DEF SeqNumbers, DistanceTo

\* Advancing twice is advancing once by the sum.
LEMMA SeqAddSum ==
    ASSUME NEW s \in SeqNumbers, NEW j \in Nat, NEW k \in Nat, j + k <= SeqHalf
    PROVE  SeqAdd(SeqAdd(s, j), k) = SeqAdd(s, j + k)
BY SeqHalfAssumption DEF SeqNumbers, SeqAdd, SeqMod

\* Two numbers are as far apart as their distances to a third one differ.
LEMMA DistanceDiff ==
    ASSUME NEW s \in SeqNumbers, NEW t \in SeqNumbers, NEW u \in SeqNumbers,
           DistanceTo(s, u) - DistanceTo(t, u) >= -SeqHalf,
           DistanceTo(s, u) - DistanceTo(t, u) < SeqHalf
    PROVE  DistanceTo(s, t) = DistanceTo(s, u) - DistanceTo(t, u)
BY SeqHalfAssumption DEF SeqNumbers, DistanceTo, SeqMod

\* Stepping the far end back subtracts one.
LEMMA DistancePrevious ==
    ASSUME NEW s \in SeqNumbers, NEW t \in SeqNumbers,
           DistanceTo(s, SeqAdd(t, 1)) - 1 >= -SeqHalf
    PROVE  DistanceTo(s, t) = DistanceTo(s, SeqAdd(t, 1)) - 1
BY SeqHalfAssumption DEF SeqNumbers, DistanceTo, SeqAdd, SeqMod

\* A function on 1 .. n is a sequence of length n.
LEMMA FunctionIsSeq ==
    ASSUME NEW S, NEW n \in Nat, NEW f \in [1 .. n -> S]
    PROVE  f \in Seq(S) /\ Len(f) = n
<1>1. f \in Seq(S)
    BY SeqDef
<1>2. Len(f) \in Nat /\ DOMAIN f = 1 .. Len(f)
    BY <1>1, LenProperties
<1>3. QED
    BY <1>1, <1>2

-----------------------------------------------------------------------------
(* The inductive invariant. *)

\* The windows start empty and agree (SendWindow::new, ReceiveWindow::new).
LEMMA InitArqInv == Init => ArqInv
<1> SUFFICES ASSUME Init PROVE ArqInv
    OBVIOUS
<1>1. TypeOK
    <2>1. 0 \in SeqNumbers
        BY SeqHalfAssumption DEF SeqNumbers, SeqMod
    <2>2. unacked \in Seq([seq : SeqNumbers, data : Nat, transmissions : Nat])
        BY DEF Init
    <2>3. delivered \in Seq(Nat)
        BY DEF Init
    <2>4. failed \in BOOLEAN
        BY DEF Init
    <2>5. QED
        BY <2>1, <2>2, <2>3, <2>4 DEF Init, TypeOK
<1>2. DistanceTo(0, 0) = 0
    BY DistanceSelf, SeqHalfAssumption DEF SeqNumbers, SeqMod
<1>3. SenderInv /\ ProgressInv /\ ReceiverInv
    BY <1>2, WindowAssumption DEF Init, SenderInv, ProgressInv, ReceiverInv, Oldest
<1>4. DataInv /\ AckInv /\ BufferedAhead /\ InOrderDelivery
    BY DEF Init, DataInv, AckInv, BufferedAhead, InOrderDelivery
<1>5. QED
    BY <1>1, <1>3, <1>4 DEF ArqInv

\* Every entry of the send window is well typed (SentPacket).
LEMMA UnackedEntry ==
    ASSUME TypeOK, NEW i \in 1 .. Len(unacked)
    PROVE  unacked[i] \in [seq : SeqNumbers, data : Nat, transmissions : Nat]
BY ElementOfSeq DEF TypeOK

\* A stuttering step changes nothing the invariant speaks of.
LEMMA StutterArqInv == ArqInv /\ UNCHANGED vars => ArqInv'
<1> SUFFICES ASSUME ArqInv, UNCHANGED vars PROVE ArqInv'
    OBVIOUS
<1>1. /\ UNCHANGED <<local_seq, base_seq, unacked, failed>>
      /\ UNCHANGED <<next_expected, cumulative_ack, out_of_order, delivered>>
      /\ UNCHANGED <<sent, data_net, ack_net>>
    BY DEF vars, sender, receiver, network
<1>2. Oldest' = Oldest
    BY <1>1 DEF Oldest
<1>3. TypeOK'
    BY <1>1 DEF ArqInv, TypeOK
<1>4. SenderInv'
    BY <1>1, <1>2 DEF ArqInv, SenderInv
<1>5. ProgressInv'
    BY <1>1, <1>2 DEF ArqInv, ProgressInv
<1>6. ReceiverInv' /\ DataInv' /\ BufferedAhead' /\ InOrderDelivery'
    BY <1>1 DEF ArqInv, ReceiverInv, DataInv, BufferedAhead, InOrderDelivery
<1>7. AckInv'
    BY <1>1, <1>2 DEF ArqInv, AckInv, AckIndex
<1>8. QED
    BY <1>3, <1>4, <1>5, <1>6, <1>7 DEF ArqInv

\* Sending keeps the windows aligned, and the packets that stay in transit
\* are young enough to be told apart (ConstrainedConnection::send).
LEMMA SendArqInv == ArqInv /\ Send => ArqInv'
<1> SUFFICES ASSUME ArqInv, Send PROVE ArqInv'
    OBVIOUS
<1> USE DEF ArqInv
<1> DEFINE q == DataPacket(local_seq, sent)
<1>1. /\ SeqHalf \in Nat /\ SeqHalf >= 3 /\ WindowSize \in Nat /\ WindowSize + 2 <= SeqHalf
      /\ Lifetime \in Nat /\ Lifetime <= SeqHalf
    BY SeqHalfAssumption, WindowAssumption, LifetimeAssumption
<1>2. /\ Len(unacked) < WindowSize
      /\ local_seq' = SeqAdd(local_seq, 1)
      /\ sent' = sent + 1
      /\ Len(unacked') = Len(unacked) + 1
      /\ unacked'[Len(unacked) + 1] = SendEntry(local_seq, sent)
      /\ \A i \in 1 .. Len(unacked) : unacked'[i] = unacked[i]
      /\ UNCHANGED <<base_seq, failed, receiver>>
    BY <1>1 DEF Send, IsFull, TypeOK, SeqNext
<1>3. local_seq' \in SeqNumbers
    BY <1>1, <1>2, SeqAddType DEF TypeOK
<1>4. TypeOK'
    <2>1. SendEntry(local_seq, sent) \in [seq : SeqNumbers, data : Nat, transmissions : Nat]
        BY DEF TypeOK, SendEntry
    <2>2. unacked' \in Seq([seq : SeqNumbers, data : Nat, transmissions : Nat])
        BY <2>1 DEF TypeOK, Send
    <2>3. data_net' \subseteq [seq : SeqNumbers, data : Nat]
        BY DEF TypeOK, Send, DataPacket
    <2>4. QED
        BY <1>2, <1>3, <2>2, <2>3 DEF TypeOK, Send, receiver
<1>5. Oldest' = Oldest /\ Oldest \in Int
    BY <1>2 DEF Oldest, TypeOK
<1>6. DistanceTo(base_seq, local_seq') = Len(unacked) + 1
    <2>1. /\ base_seq \in SeqNumbers /\ local_seq \in SeqNumbers
          /\ Len(unacked) \in Nat
          /\ DistanceTo(base_seq, local_seq) = Len(unacked)
        BY DEF TypeOK, SenderInv
    <2>2. 1 \in Nat /\ 1 <= SeqHalf /\ DistanceTo(base_seq, local_seq) + 1 < SeqHalf
        BY <1>1, <1>2, <2>1
    <2>3. QED
        BY <1>2, <2>1, <2>2, DistanceForward
<1>7. SenderInv'
    <2>1. ASSUME NEW i \in 1 .. Len(unacked')
          PROVE  /\ unacked'[i].data = Oldest' + i - 1
                 /\ DistanceTo(base_seq', unacked'[i].seq) = i - 1
        <3>1. CASE i \in 1 .. Len(unacked)
            BY <1>2, <1>5, <3>1 DEF SenderInv
        <3>2. CASE i = Len(unacked) + 1
            BY <1>2, <1>5, <3>2, SMTT(30) DEF SenderInv, SendEntry, Oldest, TypeOK
        <3>3. QED
            BY <1>2, <3>1, <3>2 DEF TypeOK
    <2>2. Len(unacked') <= WindowSize /\ Len(unacked') <= sent'
        BY <1>1, <1>2 DEF SenderInv, TypeOK
    <2>3. QED
        BY <1>2, <1>6, <2>1, <2>2 DEF SenderInv
<1>8. ProgressInv'
    BY <1>2, <1>5 DEF ProgressInv, TypeOK, receiver
<1>9. sent - Len(delivered) <= WindowSize
    BY <1>1, <1>2 DEF ProgressInv, Oldest, TypeOK
<1>10. ReceiverInv'
    <2>1. /\ DistanceTo(next_expected, local_seq) = sent - Len(delivered)
          /\ next_expected \in SeqNumbers /\ local_seq \in SeqNumbers
          /\ sent \in Nat /\ Len(delivered) \in Nat
        BY LenProperties DEF ReceiverInv, TypeOK
    <2>2. 1 \in Nat /\ 1 <= SeqHalf /\ DistanceTo(next_expected, local_seq) + 1 < SeqHalf
        BY <1>1, <1>9, <2>1
    <2>3. DistanceTo(next_expected, SeqAdd(local_seq, 1)) = DistanceTo(next_expected, local_seq) + 1
        BY <2>1, <2>2, DistanceForward
    <2>4. DistanceTo(next_expected, SeqAdd(local_seq, 1)) = (sent + 1) - Len(delivered)
        BY <2>1, <2>3
    <2>5. UNCHANGED <<next_expected, cumulative_ack, delivered>>
        BY <1>2 DEF receiver
    <2>6. local_seq' = SeqAdd(local_seq, 1) /\ sent' = sent + 1
        BY <1>2
    <2>7. DistanceTo(next_expected', local_seq') = sent' - Len(delivered')
        BY <2>4, <2>5, <2>6
    <2>8. IF Len(delivered') = 0
          THEN next_expected' = 0 /\ cumulative_ack' = 0
          ELSE next_expected' = SeqNext(cumulative_ack')
        BY <2>5 DEF ReceiverInv
    <2>9. QED
        BY <2>7, <2>8 DEF ReceiverInv
<1>11. DataInv'
    <2>1. ASSUME NEW p \in data_net'
          PROVE  /\ p.data < sent'
                 /\ sent' - p.data <= SeqHalf
                 /\ DistanceTo(next_expected', p.seq) = p.data - Len(delivered')
        <3>1. p \in data_net \/ p = DataPacket(local_seq, sent)
            BY <2>1 DEF Send
        <3>2. sent + 1 - p.data <= Lifetime
            BY <2>1 DEF Send
        <3>3. CASE p \in data_net
            BY <1>1, <1>2, <3>2, <3>3 DEF DataInv, TypeOK, receiver
        <3>4. CASE p = DataPacket(local_seq, sent)
            BY <1>1, <1>2, <3>2, <3>4 DEF ReceiverInv, DataPacket, TypeOK, receiver
        <3>5. QED
            BY <3>1, <3>3, <3>4
    <2>2. \A e \in out_of_order' : e.data < sent'
        BY <1>2 DEF DataInv, TypeOK, receiver
    <2>3. QED
        BY <2>1, <2>2 DEF DataInv
<1>12. AckInv'
    BY <1>1, <1>2, <1>5 DEF AckInv, AckIndex, TypeOK, Send, receiver
<1>13. BufferedAhead' /\ InOrderDelivery'
    BY <1>2 DEF BufferedAhead, InOrderDelivery, receiver
<1>14. QED
    BY <1>4, <1>7, <1>8, <1>10, <1>11, <1>12, <1>13

\* An acknowledgment pops exactly the messages up to the one it covers, and
\* the base moves to the next one (SendWindow::acknowledge).
LEMMA AcknowledgeArqInv == ArqInv /\ Acknowledge => ArqInv'
<1> SUFFICES ASSUME ArqInv, Acknowledge PROVE ArqInv'
    OBVIOUS
<1> USE DEF ArqInv
<1>1. /\ SeqHalf \in Nat /\ SeqHalf >= 3
      /\ WindowSize \in Nat /\ WindowSize + 2 <= SeqHalf
    BY SeqHalfAssumption, WindowAssumption
<1>2. PICK a \in ack_net : \E n \in AckedLengths(base_seq, unacked, a.ack) :
        /\ unacked' = SubSeq(unacked, n + 1, Len(unacked))
        /\ base_seq' = AckedBase(base_seq, a.ack, n)
    BY DEF Acknowledge
<1>3. PICK n \in AckedLengths(base_seq, unacked, a.ack) :
        /\ unacked' = SubSeq(unacked, n + 1, Len(unacked))
        /\ base_seq' = AckedBase(base_seq, a.ack, n)
    BY <1>2
<1>4. /\ a.ack \in SeqNumbers /\ a.count \in Nat
      /\ base_seq \in SeqNumbers /\ local_seq \in SeqNumbers
      /\ sent \in Nat /\ Len(unacked) \in Nat /\ Len(delivered) \in Nat
    BY <1>2 DEF TypeOK
<1>5. /\ AckIndex(a) \in Nat
      /\ a.count <= Len(delivered)
      /\ DistanceTo(base_seq, a.ack) = AckIndex(a) - Oldest
    BY <1>2, <1>4 DEF AckInv, AckIndex
<1>6. /\ Oldest \in Int /\ Oldest = sent - Len(unacked) /\ Oldest >= 0
    BY <1>4 DEF Oldest, SenderInv
<1>7. /\ n \in 0 .. Len(unacked)
      /\ \A i \in 1 .. n : i - 1 <= AckIndex(a) - Oldest
      /\ n < Len(unacked) => ~(n <= AckIndex(a) - Oldest)
    <2>1. n \in 0 .. Len(unacked)
        BY <1>3 DEF AckedLengths
    <2>2. \A i \in 1 .. Len(unacked) : DistanceTo(base_seq, unacked[i].seq) = i - 1
        BY DEF SenderInv
    <2>3. \A i \in 1 .. n : DistanceTo(base_seq, unacked[i].seq) <= AckIndex(a) - Oldest
        BY <1>3, <1>5 DEF AckedLengths
    <2>4. n < Len(unacked) =>
             ~(DistanceTo(base_seq, unacked[n + 1].seq) <= AckIndex(a) - Oldest)
        BY <1>3, <1>5 DEF AckedLengths
    <2>5. ASSUME NEW i \in 1 .. n PROVE i - 1 <= AckIndex(a) - Oldest
        <3>1. i \in 1 .. Len(unacked)
            BY <1>4, <2>1
        <3>2. QED
            BY <2>2, <2>3, <3>1
    <2>6. ASSUME n < Len(unacked) PROVE ~(n <= AckIndex(a) - Oldest)
        <3>1. n + 1 \in 1 .. Len(unacked) /\ (n + 1) - 1 = n
            BY <1>4, <2>1, <2>6
        <3>2. QED
            BY <2>2, <2>4, <2>6, <3>1
    <2>7. QED
        BY <2>1, <2>5, <2>6
<1>8. UNCHANGED <<local_seq, failed, receiver, sent, network>>
    BY DEF Acknowledge
<1>9. CASE n = 0
    <2>1. unacked' = unacked
        BY <1>3, <1>9, SubSeqFull DEF TypeOK
    <2>2. base_seq' = base_seq
        BY <1>3, <1>9 DEF AckedBase
    <2>3. UNCHANGED vars
        BY <1>8, <2>1, <2>2 DEF vars, sender
    <2>4. QED
        BY <2>3, StutterArqInv
<1>10. CASE n > 0
    <2>1. n = AckIndex(a) - Oldest + 1
        <3>1. n - 1 <= AckIndex(a) - Oldest
            BY <1>4, <1>7, <1>10
        <3>2. AckIndex(a) < sent
            BY <1>4, <1>5, <1>7, <1>10, <1>6 DEF AckIndex, ProgressInv
        <3>3. QED
            BY <1>4, <1>5, <1>6, <1>7, <3>1, <3>2
    <2>2. /\ Len(unacked') = Len(unacked) - n
          /\ \A i \in 1 .. Len(unacked') : unacked'[i] = unacked[n + i]
          /\ unacked' \in Seq([seq : SeqNumbers, data : Nat, transmissions : Nat])
        <3> DEFINE E == [seq : SeqNumbers, data : Nat, transmissions : Nat]
        <3>1. n + 1 \in Int /\ Len(unacked) \in Int /\ n \in Nat /\ n <= Len(unacked)
            BY <1>4, <1>7
        <3>2. \A i \in n + 1 .. Len(unacked) : unacked[i] \in E
            BY <3>1, UnackedEntry
        <3> HIDE DEF E
        <3>3. /\ unacked' \in Seq(E)
              /\ Len(unacked') = IF n + 1 <= Len(unacked) THEN Len(unacked) - (n + 1) + 1 ELSE 0
              /\ \A i \in 1 .. Len(unacked) - (n + 1) + 1 : unacked'[i] = unacked[(n + 1) + i - 1]
            BY <1>3, <3>1, <3>2, SubSeqProperties
        <3>4. Len(unacked') = Len(unacked) - n
            BY <3>1, <3>3
        <3>5. \A i \in 1 .. Len(unacked') : unacked'[i] = unacked[n + i]
            <4> SUFFICES ASSUME NEW i \in 1 .. Len(unacked')
                         PROVE  unacked'[i] = unacked[n + i]
                OBVIOUS
            <4>1. (n + 1) + i - 1 = n + i /\ i \in 1 .. Len(unacked) - (n + 1) + 1
                BY <3>1, <3>4
            <4>2. QED
                BY <3>3, <4>1
        <3>6. QED
            BY <3>3, <3>4, <3>5 DEF E
    <2>3. n <= WindowSize /\ n \in Nat
        BY <1>1, <1>4, <1>7 DEF SenderInv
    <2>4. base_seq' = SeqAdd(base_seq, n) /\ base_seq' \in SeqNumbers
        <3>1. a.ack = SeqAdd(base_seq, n - 1)
            BY <1>4, <1>5, <2>1, <2>3, <1>6, <1>10, DistanceInverse
        <3>2. base_seq' = SeqAdd(a.ack, 1)
            BY <1>3, <1>10, <2>3 DEF AckedBase, SeqNext
        <3>3. SeqAdd(SeqAdd(base_seq, n - 1), 1) = SeqAdd(base_seq, n)
            BY <1>1, <1>4, <1>10, <2>3, SeqAddSum
        <3>4. SeqAdd(base_seq, n) \in SeqNumbers
            BY <1>1, <1>4, <2>3, SeqAddType
        <3>5. QED
            BY <3>1, <3>2, <3>3, <3>4
    <2>5. Oldest' = Oldest + n /\ Oldest' = AckIndex(a) + 1
        BY <1>4, <1>5, <1>6, <1>8, <2>1, <2>2, <2>3 DEF Oldest
    <2>6. ASSUME NEW t \in SeqNumbers, DistanceTo(base_seq, t) - n >= -SeqHalf
          PROVE  DistanceTo(base_seq', t) = DistanceTo(base_seq, t) - n
        BY <1>1, <1>4, <2>3, <2>4, <2>6, DistanceBackward
    <2>7. TypeOK'
        BY <1>8, <2>2, <2>4 DEF TypeOK, receiver, network
    <2>8. SenderInv'
        <3>1. ASSUME NEW i \in 1 .. Len(unacked')
              PROVE  /\ unacked'[i].data = Oldest' + i - 1
                     /\ DistanceTo(base_seq', unacked'[i].seq) = i - 1
            <4>1. /\ n + i \in 1 .. Len(unacked)
                  /\ unacked'[i] = unacked[n + i]
                  /\ unacked[n + i].seq \in SeqNumbers
                <5>1. n + i \in 1 .. Len(unacked)
                    BY <1>4, <1>7, <2>2, <2>3
                <5>2. unacked[n + i].seq \in SeqNumbers
                    BY <5>1, UnackedEntry
                <5>3. QED
                    BY <2>2, <5>1, <5>2
            <4>2. /\ unacked[n + i].data = Oldest + (n + i) - 1
                  /\ DistanceTo(base_seq, unacked[n + i].seq) = (n + i) - 1
                BY <4>1 DEF SenderInv
            <4>3. DistanceTo(base_seq', unacked[n + i].seq) = (n + i) - 1 - n
                BY <1>1, <2>3, <2>6, <4>1, <4>2
            <4>4. QED
                BY <1>6, <2>3, <2>5, <4>1, <4>2, <4>3
        <3>2. DistanceTo(base_seq', local_seq) = Len(unacked) - n
            BY <1>1, <1>4, <1>7, <2>3, <2>6 DEF SenderInv
        <3>3. Len(unacked') <= WindowSize /\ Len(unacked') <= sent'
            BY <1>1, <1>4, <1>8, <2>2, <2>3 DEF SenderInv
        <3>4. QED
            BY <1>8, <2>2, <3>1, <3>2, <3>3 DEF SenderInv
    <2>9. ProgressInv'
        BY <1>4, <1>5, <1>8, <2>5 DEF ProgressInv, AckIndex, receiver
    <2>10. ASSUME NEW b \in ack_net
           PROVE  DistanceTo(base_seq', b.ack) = AckIndex(b) - Oldest'
        <3>1. /\ b.ack \in SeqNumbers /\ b.count \in Nat /\ AckIndex(b) \in Nat
              /\ DistanceTo(base_seq, b.ack) = AckIndex(b) - Oldest
              /\ sent - AckIndex(b) <= SeqHalf
            BY DEF AckInv, AckIndex, TypeOK
        <3>2. Oldest + n <= sent
            BY <1>4, <1>6, <1>7, <2>3
        <3>3. DistanceTo(base_seq, b.ack) - n >= -SeqHalf
            BY <1>1, <1>4, <1>6, <2>3, <3>1, <3>2
        <3>4. QED
            BY <1>6, <2>3, <2>5, <2>6, <3>1, <3>3
    <2>11. AckInv'
        BY <1>8, <2>10 DEF AckInv, AckIndex, receiver, network
    <2>12. ReceiverInv' /\ DataInv' /\ BufferedAhead' /\ InOrderDelivery'
        BY <1>8 DEF receiver, network, ReceiverInv, DataInv, BufferedAhead, InOrderDelivery
    <2>13. QED
        BY <2>7, <2>8, <2>9, <2>11, <2>12
<1>11. QED
    BY <1>4, <1>7, <1>9, <1>10

\* Marking entries as retransmitted changes neither their numbers nor their
\* payloads (SentPacket::mark_retransmitted).
LEMMA RetransmittedSame ==
    ASSUME TypeOK, NEW expired \in SUBSET (1 .. Len(unacked))
    PROVE  LET re == Retransmitted(unacked, expired)
           IN  /\ re \in Seq([seq : SeqNumbers, data : Nat, transmissions : Nat])
               /\ Len(re) = Len(unacked)
               /\ \A i \in 1 .. Len(unacked) :
                     re[i].seq = unacked[i].seq /\ re[i].data = unacked[i].data
<1> DEFINE E == [seq : SeqNumbers, data : Nat, transmissions : Nat]
           re == Retransmitted(unacked, expired)
<1>1. Len(unacked) \in Nat
    BY LenProperties DEF TypeOK
<1>2. \A i \in 1 .. Len(unacked) :
        /\ re[i] \in E
        /\ re[i].seq = unacked[i].seq
        /\ re[i].data = unacked[i].data
    BY UnackedEntry DEF Retransmitted
<1>3. re \in [1 .. Len(unacked) -> E]
    BY <1>2 DEF Retransmitted
<1>4. re \in Seq(E) /\ Len(re) = Len(unacked)
    <2> HIDE DEF E, re
    <2>1. QED
        BY <1>1, <1>3, FunctionIsSeq
<1>5. QED
    BY <1>2, <1>4

\* Polling the send window, whether it retransmits or gives up, keeps the
\* invariant (SendWindow::get_retransmissions).
LEMMA PollArqInv == ArqInv /\ (Retransmit \/ GiveUp) => ArqInv'
<1> SUFFICES ASSUME ArqInv, Retransmit \/ GiveUp PROVE ArqInv'
    OBVIOUS
<1> USE DEF ArqInv
<1>1. PICK expired \in SUBSET (1 .. Len(unacked)) :
        /\ unacked' = Retransmitted(unacked, expired)
        /\ data_net' \subseteq data_net \cup
             {DataPacket(unacked[i].seq, unacked[i].data) : i \in expired}
    BY DEF Retransmit, GiveUp, network
<1>2. /\ unacked' \in Seq([seq : SeqNumbers, data : Nat, transmissions : Nat])
      /\ Len(unacked') = Len(unacked)
      /\ \A i \in 1 .. Len(unacked) :
            unacked'[i].seq = unacked[i].seq /\ unacked'[i].data = unacked[i].data
    BY <1>1, RetransmittedSame
<1>3. /\ UNCHANGED <<local_seq, base_seq, next_expected, cumulative_ack>>
      /\ UNCHANGED <<out_of_order, delivered, sent, ack_net>>
    BY DEF Retransmit, GiveUp, network, receiver
<1>4. failed' \in BOOLEAN
    <2>1. CASE Retransmit
        BY <2>1 DEF Retransmit, TypeOK
    <2>2. CASE GiveUp
        BY <2>2 DEF GiveUp
    <2>3. QED
        BY <2>1, <2>2
<1>5. ASSUME NEW p \in data_net'
      PROVE  \/ p \in data_net
             \/ \E i \in 1 .. Len(unacked) : p.seq = unacked[i].seq /\ p.data = unacked[i].data
    BY <1>1 DEF DataPacket
<1>6. data_net' \subseteq [seq : SeqNumbers, data : Nat]
    <2>1. \A i \in expired :
            DataPacket(unacked[i].seq, unacked[i].data) \in [seq : SeqNumbers, data : Nat]
        BY UnackedEntry DEF DataPacket
    <2>2. QED
        BY <1>1, <2>1 DEF TypeOK
<1>7. TypeOK'
    BY <1>2, <1>3, <1>4, <1>6 DEF TypeOK
<1>8. Oldest' = Oldest
    BY <1>2, <1>3 DEF Oldest
<1>9. SenderInv' /\ ProgressInv' /\ ReceiverInv'
    BY <1>2, <1>3, <1>8 DEF SenderInv, ProgressInv, ReceiverInv
<1>10. AckInv' /\ BufferedAhead' /\ InOrderDelivery'
    BY <1>3, <1>8 DEF AckInv, AckIndex, BufferedAhead, InOrderDelivery
<1>11. ASSUME NEW i \in 1 .. Len(unacked)
       PROVE  /\ unacked[i].data < sent
              /\ sent - unacked[i].data <= SeqHalf
              /\ DistanceTo(next_expected, unacked[i].seq) = unacked[i].data - Len(delivered)
    <2> DEFINE u == unacked[i]
    <2>1. /\ SeqHalf \in Nat /\ WindowSize \in Nat /\ WindowSize + 2 <= SeqHalf
          /\ Len(unacked) \in Nat /\ Len(delivered) \in Nat /\ sent \in Nat
          /\ i \in Nat /\ 1 <= i /\ i <= Len(unacked)
        BY SeqHalfAssumption, WindowAssumption, LenProperties DEF TypeOK
    <2>2. u.data = sent - Len(unacked) + i - 1 /\ DistanceTo(base_seq, u.seq) = i - 1
        BY DEF SenderInv, Oldest
    <2>3. /\ base_seq \in SeqNumbers /\ next_expected \in SeqNumbers
          /\ local_seq \in SeqNumbers /\ u.seq \in SeqNumbers
        BY UnackedEntry DEF TypeOK
    <2>4. u.data < sent /\ sent - u.data <= SeqHalf
        BY <2>1, <2>2 DEF SenderInv
    <2>5. /\ Len(unacked) <= WindowSize
          /\ DistanceTo(base_seq, local_seq) = Len(unacked)
          /\ DistanceTo(next_expected, local_seq) = sent - Len(delivered)
          /\ Len(delivered) <= sent /\ sent - Len(unacked) <= Len(delivered) + 1
        BY <2>1 DEF SenderInv, ReceiverInv, ProgressInv, Oldest
    <2>6. DistanceTo(next_expected, u.seq) = sent - Len(delivered) - Len(unacked) + (i - 1)
        <3>1. DistanceTo(next_expected, base_seq) = sent - Len(delivered) - Len(unacked)
            BY <2>1, <2>3, <2>5, DistanceDiff
        <3>2. u.seq = SeqAdd(base_seq, i - 1)
            BY <2>1, <2>2, <2>3, DistanceInverse
        <3>3. i - 1 \in Nat /\ i - 1 <= SeqHalf
              /\ DistanceTo(next_expected, base_seq) + (i - 1) < SeqHalf
            BY <2>1, <2>5, <3>1
        <3>4. QED
            BY <2>3, <3>1, <3>2, <3>3, DistanceForward
    <2>7. QED
        BY <2>1, <2>2, <2>4, <2>6
<1>12. DataInv'
    <2>1. ASSUME NEW p \in data_net'
          PROVE  /\ p.data < sent
                 /\ sent - p.data <= SeqHalf
                 /\ DistanceTo(next_expected, p.seq) = p.data - Len(delivered)
        BY <1>5, <1>11 DEF DataInv
    <2>2. QED
        BY <1>3, <2>1 DEF DataInv
<1>13. QED
    BY <1>7, <1>9, <1>10, <1>12

\* Where the receiver stands relative to the sender's base: at the number of
\* messages delivered beyond the oldest unacknowledged one.
LEMMA BaseToExpected ==
    ASSUME ArqInv
    PROVE  /\ DistanceTo(base_seq, next_expected) = Len(delivered) - Oldest
           /\ Len(delivered) \in Nat /\ Oldest \in Nat /\ sent \in Nat
           /\ Oldest <= Len(delivered) + 1
           /\ Len(delivered) <= sent
           /\ sent - Oldest <= WindowSize
<1>1. /\ SeqHalf \in Nat /\ WindowSize \in Nat /\ WindowSize + 2 <= SeqHalf
      /\ Len(unacked) \in Nat /\ Len(delivered) \in Nat /\ sent \in Nat
    BY SeqHalfAssumption, WindowAssumption, LenProperties DEF ArqInv, TypeOK
<1>2. base_seq \in SeqNumbers /\ next_expected \in SeqNumbers /\ local_seq \in SeqNumbers
    BY DEF ArqInv, TypeOK
<1>3. /\ Len(unacked) <= WindowSize /\ Len(unacked) <= sent
      /\ DistanceTo(base_seq, local_seq) = Len(unacked)
      /\ DistanceTo(next_expected, local_seq) = sent - Len(delivered)
      /\ Len(delivered) <= sent /\ sent - Len(unacked) <= Len(delivered) + 1
    BY <1>1 DEF ArqInv, SenderInv, ReceiverInv, ProgressInv, Oldest
<1>4. DistanceTo(base_seq, next_expected) = Len(unacked) - (sent - Len(delivered))
    <2> DEFINE diff == DistanceTo(base_seq, local_seq) - DistanceTo(next_expected, local_seq)
    <2>1. diff = Len(unacked) - (sent - Len(delivered))
        BY <1>3
    <2>2. diff >= -SeqHalf /\ diff < SeqHalf
        BY <1>1, <1>3
    <2>3. QED
        BY <1>2, <2>1, <2>2, DistanceDiff
<1>5. QED
    BY <1>1, <1>3, <1>4 DEF Oldest

\* The run of buffered packets behind the expected one carries exactly the
\* messages that follow it (the loop of ReceiveWindow::receive).
LEMMA DrainedRun ==
    ASSUME ArqInv, NEW k \in DrainLengths(next_expected, out_of_order)
    PROVE  /\ k \in 0 .. WindowSize
           /\ DrainedData(next_expected, out_of_order, k) \in Seq(Nat)
           /\ Len(DrainedData(next_expected, out_of_order, k)) = k
           /\ \A j \in 1 .. k :
                 DrainedData(next_expected, out_of_order, k)[j] = Len(delivered) + j
           /\ k > 0 => Len(delivered) + k < sent
<1> USE DEF ArqInv
<1> DEFINE dd == DrainedData(next_expected, out_of_order, k)
<1>1. /\ SeqHalf \in Nat /\ SeqHalf >= 3
      /\ WindowSize \in Nat /\ WindowSize + 2 <= SeqHalf
      /\ Len(delivered) \in Nat /\ next_expected \in SeqNumbers /\ sent \in Nat
    BY SeqHalfAssumption, WindowAssumption, LenProperties DEF TypeOK
<1>2. k \in 0 .. WindowSize /\ k \in Nat /\ k <= WindowSize
    BY <1>1 DEF DrainLengths
<1>3. ASSUME NEW j \in 1 .. k
      PROVE  /\ (CHOOSE e \in out_of_order : e.seq = SeqAdd(next_expected, j)).data
                   = Len(delivered) + j
             /\ Len(delivered) + j < sent
    <2> DEFINE c == CHOOSE e \in out_of_order : e.seq = SeqAdd(next_expected, j)
    <2>1. \E e \in out_of_order : e.seq = SeqAdd(next_expected, j)
        BY DEF DrainLengths, BufferedSeqs
    <2>2. c \in out_of_order /\ c.seq = SeqAdd(next_expected, j)
        BY <2>1
    <2>3. j \in Nat /\ j <= SeqHalf /\ 0 + j < SeqHalf
        BY <1>1, <1>2
    <2>4. DistanceTo(next_expected, next_expected) = 0
        BY <1>1, DistanceSelf
    <2>5. DistanceTo(next_expected, SeqAdd(next_expected, j)) = 0 + j
        BY <1>1, <2>3, <2>4, DistanceForward
    <2> HIDE DEF c
    <2>6. c.data = Len(delivered) + DistanceTo(next_expected, c.seq) /\ c.data < sent
        BY <2>2 DEF BufferedAhead, DataInv
    <2>7. c.data = Len(delivered) + j
        BY <2>2, <2>3, <2>5, <2>6
    <2>8. QED
        BY <2>6, <2>7 DEF c
<1>4. dd \in [1 .. k -> Nat] /\ \A j \in 1 .. k : dd[j] = Len(delivered) + j
    <2>1. \A j \in 1 .. k : dd[j] = Len(delivered) + j
        BY <1>3 DEF DrainedData
    <2>2. \A j \in 1 .. k : dd[j] \in Nat
        BY <1>1, <1>2, <2>1
    <2>3. QED
        BY <2>1, <2>2 DEF DrainedData
<1>5. dd \in Seq(Nat) /\ Len(dd) = k
    <2> HIDE DEF dd
    <2>1. QED
        BY <1>2, <1>4, FunctionIsSeq
<1>6. k > 0 => Len(delivered) + k < sent
    BY <1>2, <1>3
<1>7. QED
    BY <1>2, <1>4, <1>5, <1>6

\* Delivering the expected packet and the run behind it keeps both ends
\* aligned, and what is delivered is the next messages (ReceiveWindow::receive).
LEMMA ReceiveInOrderArqInv ==
    ASSUME ArqInv, NEW p \in data_net, data_net' \subseteq data_net, ReceiveInOrder(p)
    PROVE  ArqInv'
<1> USE DEF ArqInv
<1>1. PICK k \in DrainLengths(next_expected, out_of_order) :
        /\ next_expected' = SeqAdd(next_expected, k + 1)
        /\ cumulative_ack' = SeqAdd(next_expected, k)
        /\ out_of_order' = out_of_order \ Drained(next_expected, out_of_order, k)
        /\ delivered' = delivered \o <<p.data>>
                          \o DrainedData(next_expected, out_of_order, k)
    BY DEF ReceiveInOrder
<1> DEFINE L == Len(delivered)
           dd == DrainedData(next_expected, out_of_order, k)
<1>2. /\ SeqHalf \in Nat /\ SeqHalf >= 3
      /\ WindowSize \in Nat /\ WindowSize + 2 <= SeqHalf
    BY SeqHalfAssumption, WindowAssumption
<1>3. /\ L \in Nat /\ Oldest \in Nat /\ sent \in Nat /\ k \in Nat /\ k <= WindowSize
      /\ Oldest <= L + 1 /\ L <= sent /\ sent - Oldest <= WindowSize
      /\ DistanceTo(base_seq, next_expected) = L - Oldest
      /\ dd \in Seq(Nat) /\ Len(dd) = k
      /\ \A j \in 1 .. k : dd[j] = L + j
      /\ k > 0 => L + k < sent
    BY <1>2, BaseToExpected, DrainedRun
<1>4. /\ base_seq \in SeqNumbers /\ next_expected \in SeqNumbers
      /\ local_seq \in SeqNumbers /\ p.seq \in SeqNumbers /\ p.data \in Nat
    BY DEF TypeOK
<1>5. /\ UNCHANGED <<local_seq, base_seq, unacked, failed, sent>>
      /\ ack_net' = ack_net \cup {AckPacket(cumulative_ack', Len(delivered'))}
    BY DEF ReceiveInOrder, sender
<1>6. p.data = L /\ L < sent
    BY <1>2, <1>3, <1>4, DistanceSelf, SMTT(30) DEF DataInv, ReceiveInOrder
<1>7. /\ delivered' \in Seq(Nat)
      /\ Len(delivered') = L + 1 + k
      /\ \A i \in 1 .. L + 1 + k : delivered'[i] =
            IF i <= L THEN delivered[i] ELSE IF i = L + 1 THEN L ELSE dd[i - (L + 1)]
    <2> DEFINE s1 == delivered \o <<p.data>>
    <2>1. delivered \in Seq(Nat) /\ <<p.data>> \in Seq(Nat) /\ Len(<<p.data>>) = 1
        BY <1>4 DEF TypeOK
    <2>2. /\ s1 \in Seq(Nat) /\ Len(s1) = L + 1
          /\ \A i \in 1 .. L + 1 : s1[i] = IF i <= L THEN delivered[i] ELSE <<p.data>>[i - L]
        BY <2>1, ConcatProperties
    <2> HIDE DEF s1, dd
    <2>3. /\ s1 \o dd \in Seq(Nat) /\ Len(s1 \o dd) = L + 1 + k
          /\ \A i \in 1 .. L + 1 + k : (s1 \o dd)[i] = IF i <= L + 1 THEN s1[i] ELSE dd[i - (L + 1)]
        <3>1. /\ s1 \o dd \in Seq(Nat) /\ Len(s1 \o dd) = Len(s1) + Len(dd)
              /\ \A i \in 1 .. Len(s1) + Len(dd) :
                    (s1 \o dd)[i] = IF i <= Len(s1) THEN s1[i] ELSE dd[i - Len(s1)]
            <4>1. s1 \in Seq(Nat) /\ dd \in Seq(Nat)
                BY <1>3, <2>2
            <4>2. QED
                BY <4>1, ConcatProperties
        <3>2. Len(s1) = L + 1 /\ Len(dd) = k
            BY <1>3, <2>2
        <3>3. QED
            BY <3>1, <3>2
    <2>4. delivered' = s1 \o dd
        BY <1>1 DEF s1, dd
    <2>5. ASSUME NEW i \in 1 .. L + 1 + k
          PROVE  delivered'[i] =
            IF i <= L THEN delivered[i] ELSE IF i = L + 1 THEN L ELSE dd[i - (L + 1)]
        <3>1. CASE i <= L
            <4>1. i \in 1 .. L + 1 /\ i <= L + 1
                BY <1>3, <3>1
            <4>2. QED
                BY <2>2, <2>3, <2>4, <3>1, <4>1
        <3>2. CASE i = L + 1
            <4>1. i \in 1 .. L + 1 /\ i <= L + 1 /\ ~(i <= L) /\ i - L = 1
                BY <1>3, <3>2
            <4>2. delivered'[i] = <<p.data>>[1]
                BY <2>2, <2>3, <2>4, <4>1
            <4>3. QED
                BY <1>6, <4>1, <4>2, <3>2
        <3>3. CASE i > L + 1
            <4>1. ~(i <= L + 1) /\ ~(i <= L) /\ i # L + 1
                BY <1>3, <3>3
            <4>2. QED
                BY <2>3, <2>4, <4>1
        <3>4. QED
            BY <1>3, <3>1, <3>2, <3>3
    <2>6. QED
        BY <2>3, <2>4, <2>5
<1> HIDE DEF dd
<1>8. Oldest' = Oldest
    BY <1>5 DEF Oldest
<1>9. InOrderDelivery'
    <2> SUFFICES ASSUME NEW i \in 1 .. L + 1 + k PROVE delivered'[i] = i - 1
        BY <1>7 DEF InOrderDelivery
    <2>1. CASE i <= L
        <3>1. i \in 1 .. Len(delivered)
            BY <1>3, <2>1
        <3>2. delivered'[i] = delivered[i]
            BY <1>7, <2>1
        <3>3. QED
            BY <3>1, <3>2 DEF InOrderDelivery
    <2>2. CASE i = L + 1
        BY <1>3, <1>7, <2>2
    <2>3. CASE i > L + 1
        <3>1. i - (L + 1) \in 1 .. k /\ ~(i <= L) /\ i # L + 1
            BY <1>3, <2>3
        <3>2. delivered'[i] = L + (i - (L + 1))
            BY <1>3, <1>7, <3>1
        <3>3. QED
            BY <1>3, <3>2
    <2>4. QED
        BY <1>3, <2>1, <2>2, <2>3
<1>10. /\ next_expected' \in SeqNumbers /\ cumulative_ack' \in SeqNumbers
       /\ next_expected' = SeqNext(cumulative_ack')
    <2>1. k + 1 \in Nat /\ k + 1 <= SeqHalf /\ k <= SeqHalf
        BY <1>2, <1>3
    <2>2. SeqAdd(next_expected, k + 1) \in SeqNumbers /\ SeqAdd(next_expected, k) \in SeqNumbers
        BY <1>3, <1>4, <2>1, SeqAddType
    <2>3. SeqAdd(SeqAdd(next_expected, k), 1) = SeqAdd(next_expected, k + 1)
        BY <1>3, <1>4, <2>1, SeqAddSum
    <2>4. QED
        BY <1>1, <2>2, <2>3 DEF SeqNext
<1>11. TypeOK'
    <2>1. ack_net' \subseteq [ack : SeqNumbers, count : Nat]
        BY <1>3, <1>5, <1>7, <1>10 DEF TypeOK, AckPacket
    <2>2. out_of_order' \subseteq [seq : SeqNumbers, data : Nat]
        BY <1>1 DEF TypeOK
    <2>3. data_net' \subseteq [seq : SeqNumbers, data : Nat]
        BY DEF TypeOK
    <2>4. QED
        BY <1>5, <1>7, <1>10, <2>1, <2>2, <2>3 DEF TypeOK
<1>12. SenderInv'
    BY <1>5, <1>8 DEF SenderInv
<1>13. ProgressInv'
    BY <1>3, <1>5, <1>6, <1>7, <1>8, SMTT(30) DEF ProgressInv
<1>14. ASSUME NEW t \in SeqNumbers, DistanceTo(next_expected, t) - (k + 1) >= -SeqHalf
       PROVE  DistanceTo(next_expected', t) = DistanceTo(next_expected, t) - (k + 1)
    <2>1. k + 1 \in Nat /\ k + 1 <= SeqHalf
        BY <1>2, <1>3
    <2>2. QED
        BY <1>1, <1>4, <1>14, <2>1, DistanceBackward
<1>15. ReceiverInv'
    <2>1. DistanceTo(next_expected, local_seq) = sent - L
        BY DEF ReceiverInv
    <2>2. DistanceTo(next_expected', local_seq) = sent - L - (k + 1)
        BY <1>2, <1>3, <1>4, <1>14, <2>1, <1>6, SMTT(30)
    <2>3. Len(delivered') # 0 /\ sent - L - (k + 1) = sent' - Len(delivered')
        BY <1>3, <1>5, <1>7
    <2>4. QED
        BY <1>5, <1>10, <2>2, <2>3 DEF ReceiverInv
<1>16. DataInv'
    <2>1. ASSUME NEW r \in data_net'
          PROVE  /\ r.data < sent
                 /\ sent - r.data <= SeqHalf
                 /\ DistanceTo(next_expected', r.seq) = r.data - Len(delivered')
        <3>1. /\ r.data < sent /\ sent - r.data <= SeqHalf
              /\ DistanceTo(next_expected, r.seq) = r.data - L
              /\ r.seq \in SeqNumbers /\ r.data \in Nat
            BY DEF DataInv, TypeOK
        <3>2. DistanceTo(next_expected', r.seq) = r.data - L - (k + 1)
            <4>1. L + (k + 1) <= sent
                BY <1>3, <1>6
            <4>2. r.data - L - (k + 1) >= -SeqHalf
                BY <1>2, <1>3, <3>1, <4>1
            <4>3. QED
                BY <1>14, <3>1, <4>2
        <3>3. QED
            BY <1>3, <1>7, <3>1, <3>2, SMTT(30)
    <2>2. \A e \in out_of_order' : e.data < sent
        BY <1>1 DEF DataInv
    <2>3. QED
        BY <1>5, <2>1, <2>2 DEF DataInv
<1>17. AckInv'
    <2>1. ASSUME NEW a \in ack_net
          PROVE  /\ a.count <= Len(delivered')
                 /\ sent - AckIndex(a) <= SeqHalf
                 /\ DistanceTo(base_seq, a.ack) = AckIndex(a) - Oldest
        <3>1. a.count \in Nat
            BY DEF TypeOK
        <3>2. QED
            BY <1>3, <1>7, <3>1 DEF AckInv
    <2> DEFINE b == AckPacket(cumulative_ack', Len(delivered'))
    <2>2. /\ b.count = L + 1 + k /\ AckIndex(b) = L + k
          /\ b.ack = SeqAdd(next_expected, k)
        BY <1>1, <1>3, <1>7 DEF AckPacket, AckIndex
    <2>3. k <= SeqHalf /\ DistanceTo(base_seq, next_expected) + k < SeqHalf
        BY <1>2, <1>3, <1>6
    <2>4. DistanceTo(base_seq, b.ack) = AckIndex(b) - Oldest
        <3>1. DistanceTo(base_seq, SeqAdd(next_expected, k)) = L - Oldest + k
            BY <1>3, <1>4, <2>3, DistanceForward
        <3>2. QED
            BY <1>3, <2>2, <3>1
    <2>5. sent - AckIndex(b) <= SeqHalf /\ b.count <= Len(delivered')
        BY <1>2, <1>3, <1>7, <2>2
    <2> HIDE DEF b
    <2>6. ack_net' = ack_net \cup {b}
        BY <1>5 DEF b
    <2>7. QED
        BY <1>5, <1>8, <2>1, <2>4, <2>5, <2>6 DEF AckInv, AckIndex
<1>18. BufferedAhead'
    <2> SUFFICES ASSUME NEW e \in out_of_order'
                 PROVE  /\ DistanceTo(next_expected', e.seq) \in 1 .. WindowSize
                        /\ e.data = Len(delivered') + DistanceTo(next_expected', e.seq)
        BY DEF BufferedAhead
    <2> DEFINE d == DistanceTo(next_expected, e.seq)
    <2>1. e \in out_of_order /\ e \notin Drained(next_expected, out_of_order, k)
        BY <1>1
    <2>2. e.seq \in SeqNumbers /\ e.data \in Nat
        BY <2>1 DEF TypeOK
    <2>3. d \in 1 .. WindowSize /\ e.data = L + d
        BY <2>1 DEF BufferedAhead
    <2>4. e.seq = SeqAdd(next_expected, d)
        BY <1>2, <1>4, <2>2, <2>3, DistanceInverse
    <2>5. d \notin 1 .. k
        BY <2>1, <2>4 DEF Drained
    <2>6. d # k + 1
        BY <1>1, <2>1, <2>4 DEF DrainLengths, BufferedSeqs
    <2>7. d >= k + 2
        BY <1>2, <1>3, <2>3, <2>5, <2>6
    <2>8. DistanceTo(next_expected', e.seq) = d - (k + 1)
        BY <1>2, <1>3, <1>14, <2>2, <2>3, <2>7
    <2>9. QED
        <3>1. d \in Int /\ d <= WindowSize
            BY <1>2, <2>3
        <3>2. d - (k + 1) \in 1 .. WindowSize
            BY <1>2, <1>3, <2>7, <3>1
        <3>3. e.data = (L + 1 + k) + (d - (k + 1))
            BY <1>3, <2>3, <3>1
        <3>4. QED
            BY <1>7, <2>8, <3>2, <3>3
<1>19. QED
    BY <1>9, <1>11, <1>12, <1>13, <1>15, <1>16, <1>17, <1>18

\* Buffering a packet that is ahead keeps the buffer inside the window
\* (the middle branch of ReceiveWindow::receive).
LEMMA ReceiveAheadArqInv ==
    ASSUME ArqInv, NEW p \in data_net, data_net' \subseteq data_net, ReceiveAhead(p)
    PROVE  ArqInv'
<1> USE DEF ArqInv
<1>1. /\ UNCHANGED <<local_seq, base_seq, unacked, failed>>
      /\ UNCHANGED <<next_expected, cumulative_ack, delivered, sent, ack_net>>
    BY DEF ReceiveAhead, sender
<1>2. out_of_order' \subseteq out_of_order \cup {Buffered(p.seq, p.data)}
    BY DEF ReceiveAhead, BufferPacket
<1>3. /\ next_expected \in SeqNumbers /\ p.seq \in SeqNumbers /\ p.data \in Nat
    BY DEF TypeOK
<1>4. /\ DistanceTo(next_expected, p.seq) \in 0 .. WindowSize
      /\ p.seq # next_expected
    BY DEF ReceiveAhead, IsInWindow
<1>5. DistanceTo(next_expected, p.seq) \in 1 .. WindowSize
    <2>1. ASSUME DistanceTo(next_expected, p.seq) = 0 PROVE FALSE
        BY <1>3, <1>4, <2>1, SeqHalfAssumption DEF DistanceTo, SeqNumbers, SeqMod
    <2>2. QED
        BY <1>4, <2>1, WindowAssumption
<1>6. /\ p.data < sent
      /\ p.data = Len(delivered) + DistanceTo(next_expected, p.seq)
    <2>1. /\ p.data < sent
          /\ DistanceTo(next_expected, p.seq) = p.data - Len(delivered)
        BY DEF DataInv
    <2>2. Len(delivered) \in Nat
        BY LenProperties DEF TypeOK
    <2>3. QED
        BY <1>3, <2>1, <2>2
<1>7. TypeOK'
    <2>1. out_of_order' \subseteq [seq : SeqNumbers, data : Nat]
        BY <1>2, <1>3 DEF TypeOK, Buffered
    <2>2. data_net' \subseteq [seq : SeqNumbers, data : Nat]
        BY DEF TypeOK
    <2>3. QED
        BY <1>1, <2>1, <2>2 DEF TypeOK
<1>8. Oldest' = Oldest
    BY <1>1 DEF Oldest
<1>9. SenderInv' /\ ProgressInv' /\ ReceiverInv'
    BY <1>1, <1>8 DEF SenderInv, ProgressInv, ReceiverInv
<1>10. DataInv'
    BY <1>1, <1>2, <1>6 DEF DataInv, Buffered
<1>11. AckInv' /\ InOrderDelivery'
    BY <1>1, <1>8 DEF AckInv, AckIndex, InOrderDelivery
<1>12. BufferedAhead'
    <2> SUFFICES ASSUME NEW e \in out_of_order'
                 PROVE  /\ DistanceTo(next_expected, e.seq) \in 1 .. WindowSize
                        /\ e.data = Len(delivered) + DistanceTo(next_expected, e.seq)
        BY <1>1 DEF BufferedAhead
    <2>1. CASE e \in out_of_order
        BY <2>1 DEF BufferedAhead
    <2>2. CASE e = Buffered(p.seq, p.data)
        BY <1>5, <1>6, <2>2 DEF Buffered
    <2>3. QED
        BY <1>2, <2>1, <2>2
<1>13. QED
    BY <1>7, <1>9, <1>10, <1>11, <1>12

\* Packets that only disappear from the transport disturb nothing: a packet
\* outside the window, or a lost one.
LEMMA FewerPacketsArqInv ==
    ASSUME ArqInv, data_net' \subseteq data_net, ack_net' \subseteq ack_net,
           UNCHANGED <<sender, receiver, sent>>
    PROVE  ArqInv'
<1> USE DEF ArqInv
<1>1. /\ UNCHANGED <<local_seq, base_seq, unacked, failed>>
      /\ UNCHANGED <<next_expected, cumulative_ack, out_of_order, delivered, sent>>
    BY DEF sender, receiver
<1>2. TypeOK'
    <2>1. data_net' \subseteq [seq : SeqNumbers, data : Nat]
        BY DEF TypeOK
    <2>2. ack_net' \subseteq [ack : SeqNumbers, count : Nat]
        BY DEF TypeOK
    <2>3. QED
        BY <1>1, <2>1, <2>2 DEF TypeOK
<1>3. Oldest' = Oldest
    BY <1>1 DEF Oldest
<1>4. SenderInv' /\ ProgressInv' /\ ReceiverInv'
    BY <1>1, <1>3 DEF SenderInv, ProgressInv, ReceiverInv
<1>5. DataInv' /\ BufferedAhead' /\ InOrderDelivery'
    BY <1>1 DEF DataInv, BufferedAhead, InOrderDelivery
<1>6. AckInv'
    BY <1>1, <1>3 DEF AckInv, AckIndex
<1>7. QED
    BY <1>2, <1>4, <1>5, <1>6

\* Every packet the transport hands over keeps the invariant.
LEMMA ReceiveArqInv == ArqInv /\ Receive => ArqInv'
<1> SUFFICES ASSUME ArqInv, NEW p \in data_net,
                    data_net' \in {data_net, data_net \ {p}},
                    ReceiveInOrder(p) \/ ReceiveAhead(p) \/ ReceiveOutside(p)
             PROVE  ArqInv'
    BY DEF Receive
<1>1. data_net' \subseteq data_net
    OBVIOUS
<1>2. CASE ReceiveInOrder(p)
    BY <1>1, <1>2, ReceiveInOrderArqInv
<1>3. CASE ReceiveAhead(p)
    BY <1>1, <1>3, ReceiveAheadArqInv
<1>4. CASE ReceiveOutside(p)
    BY <1>1, <1>4, FewerPacketsArqInv DEF ReceiveOutside
<1>5. QED
    BY <1>2, <1>3, <1>4

\* A piggybacked cumulative_ack covers the last delivered message or, before
\* anything was delivered, message 0 (ConstrainedConnection::send_chunk).
LEMMA PiggybackArqInv == ArqInv /\ PiggybackAck => ArqInv'
<1> SUFFICES ASSUME ArqInv, PiggybackAck PROVE ArqInv'
    OBVIOUS
<1> USE DEF ArqInv
<1> DEFINE b == AckPacket(cumulative_ack, Len(delivered))
           L == Len(delivered)
<1>1. /\ UNCHANGED <<local_seq, base_seq, unacked, failed>>
      /\ UNCHANGED <<next_expected, cumulative_ack, out_of_order, delivered, sent, data_net>>
      /\ ack_net' = ack_net \cup {b}
    BY DEF PiggybackAck, sender, receiver
<1>2. /\ SeqHalf \in Nat /\ SeqHalf >= 3
      /\ WindowSize \in Nat /\ WindowSize + 2 <= SeqHalf
    BY SeqHalfAssumption, WindowAssumption
<1>3. /\ L \in Nat /\ Oldest \in Nat /\ sent \in Nat
      /\ Oldest <= L + 1 /\ L <= sent /\ sent - Oldest <= WindowSize
      /\ DistanceTo(base_seq, next_expected) = L - Oldest
    BY BaseToExpected
<1>4. /\ base_seq \in SeqNumbers /\ cumulative_ack \in SeqNumbers
    BY DEF TypeOK
<1>5. b.count = L /\ b.ack = cumulative_ack /\ AckIndex(b) = IF L = 0 THEN 0 ELSE L - 1
    BY DEF AckPacket, AckIndex
<1>6. DistanceTo(base_seq, cumulative_ack) = (IF L = 0 THEN 0 ELSE L - 1) - Oldest
    <2>1. CASE L = 0
        BY <1>3, <2>1 DEF ReceiverInv
    <2>2. CASE L # 0
        <3>1. next_expected = SeqAdd(cumulative_ack, 1)
            BY <2>2 DEF ReceiverInv, SeqNext
        <3>2. DistanceTo(base_seq, SeqAdd(cumulative_ack, 1)) - 1 >= -SeqHalf
            BY <1>2, <1>3, <3>1
        <3>3. DistanceTo(base_seq, cumulative_ack) = L - Oldest - 1
            BY <1>3, <1>4, <3>1, <3>2, DistancePrevious
        <3>4. QED
            BY <1>3, <2>2, <3>3
    <2>3. QED
        BY <2>1, <2>2
<1>7. sent - AckIndex(b) <= SeqHalf
    BY <1>2, <1>3, <1>5
<1>8. TypeOK'
    <2>1. ack_net' \subseteq [ack : SeqNumbers, count : Nat]
        BY <1>1, <1>3, <1>4 DEF TypeOK, AckPacket
    <2>2. QED
        BY <1>1, <2>1 DEF TypeOK
<1>9. Oldest' = Oldest
    BY <1>1 DEF Oldest
<1>10. SenderInv' /\ ProgressInv' /\ ReceiverInv'
    BY <1>1, <1>9 DEF SenderInv, ProgressInv, ReceiverInv
<1>11. DataInv' /\ BufferedAhead' /\ InOrderDelivery'
    BY <1>1 DEF DataInv, BufferedAhead, InOrderDelivery
<1>12. AckInv'
    <2>1. b.count <= L /\ DistanceTo(base_seq, b.ack) = AckIndex(b) - Oldest
        BY <1>3, <1>5, <1>6
    <2> HIDE DEF b
    <2>2. QED
        BY <1>1, <1>7, <1>9, <2>1 DEF AckInv, AckIndex
<1>13. QED
    BY <1>8, <1>10, <1>11, <1>12

\* Every step of the protocol keeps the invariant.
LEMMA NextArqInv == ArqInv /\ [Next]_vars => ArqInv'
<1> SUFFICES ASSUME ArqInv, [Next]_vars PROVE ArqInv'
    OBVIOUS
<1>1. CASE Send
    BY <1>1, SendArqInv
<1>2. CASE Acknowledge
    BY <1>2, AcknowledgeArqInv
<1>3. CASE Retransmit \/ GiveUp
    BY <1>3, PollArqInv
<1>4. CASE Receive
    BY <1>4, ReceiveArqInv
<1>5. CASE PiggybackAck
    BY <1>5, PiggybackArqInv
<1>6. CASE Lose
    <2>1. data_net' \subseteq data_net /\ ack_net' \subseteq ack_net
        BY <1>6 DEF Lose
    <2>2. QED
        BY <1>6, <2>1, FewerPacketsArqInv DEF Lose
<1>7. CASE UNCHANGED vars
    BY <1>7, StutterArqInv
<1>8. QED
    BY <1>1, <1>2, <1>3, <1>4, <1>5, <1>6, <1>7 DEF Next

-----------------------------------------------------------------------------
(* The theorems. *)

\* The inductive invariant holds in every reachable state of every instance.
THEOREM ArqInvariance == Spec => []ArqInv
BY InitArqInv, NextArqInv, PTL DEF Spec

\* Every variable keeps its type: in particular the wrapping numbers stay in
\* the sequence space (SequenceNumber).
THEOREM TypeCorrectness == Spec => []TypeOK
<1>1. ArqInv => TypeOK
    BY DEF ArqInv
<1>2. QED
    BY <1>1, ArqInvariance, PTL

\* The order of what is delivered, as a state predicate.
THEOREM InOrderDeliveryHolds == Spec => []InOrderDelivery
<1>1. ArqInv => InOrderDelivery
    BY DEF ArqInv
<1>2. QED
    BY <1>1, ArqInvariance, PTL

\* In a state of the invariant, what is delivered is known from its length.
LEMMA DeliveredIsMessages == ArqInv => delivered = Fifo!Messages(Len(delivered))
<1> SUFFICES ASSUME ArqInv PROVE delivered = Fifo!Messages(Len(delivered))
    OBVIOUS
<1>1. delivered \in Seq(Nat)
    BY DEF ArqInv, TypeOK
<1>2. \A i \in 1 .. Len(delivered) : delivered[i] = i - 1
    BY DEF ArqInv, InOrderDelivery
<1>3. QED
    BY <1>1, <1>2 DEF Fifo!Messages

\* No step takes a delivered message back: receive only appends.
LEMMA ReceiveAppends == ArqInv /\ Receive => Len(delivered') >= Len(delivered)
<1> SUFFICES ASSUME ArqInv, Receive PROVE Len(delivered') >= Len(delivered)
    OBVIOUS
<1>1. PICK p \in data_net : ReceiveInOrder(p) \/ ReceiveAhead(p) \/ ReceiveOutside(p)
    BY DEF Receive
<1>2. delivered \in Seq(Nat)
    BY DEF ArqInv, TypeOK
<1>3. CASE ReceiveInOrder(p)
    <2>1. PICK k \in DrainLengths(next_expected, out_of_order) :
            delivered' = delivered \o <<p.data>> \o DrainedData(next_expected, out_of_order, k)
        BY <1>3 DEF ReceiveInOrder
    <2>2. delivered' \in Seq(Nat)
        BY NextArqInv DEF ArqInv, TypeOK, Next
    <2>3. QED
        BY <1>2, <2>1, <2>2
<1>4. CASE ReceiveAhead(p) \/ ReceiveOutside(p)
    BY <1>2, <1>4 DEF ReceiveAhead, ReceiveOutside, receiver
<1>5. QED
    BY <1>1, <1>3, <1>4

\* A step of the windows is a step of the FIFO channel, or leaves it as it is.
LEMMA StepImplementsFifo == ArqInv /\ [Next]_vars => [Fifo!Next]_<<sent, delivered>>
<1> SUFFICES ASSUME ArqInv, [Next]_vars PROVE [Fifo!Next]_<<sent, delivered>>
    OBVIOUS
<1>1. ArqInv'
    BY NextArqInv
<1>2. CASE Send
    <2>1. sent \in Nat
        BY DEF ArqInv, TypeOK
    <2>2. sent' = sent + 1 /\ delivered' = delivered
        BY <1>2 DEF Send, receiver
    <2>3. QED
        BY <2>1, <2>2 DEF Fifo!Next, Fifo!Send
<1>3. CASE Acknowledge \/ Retransmit \/ GiveUp \/ PiggybackAck \/ Lose \/ UNCHANGED vars
    BY <1>3 DEF Acknowledge, Retransmit, GiveUp, PiggybackAck, Lose, vars, receiver
<1>4. CASE Receive
    <2>1. sent' = sent
        BY <1>4 DEF Receive, ReceiveInOrder, ReceiveAhead, ReceiveOutside
    <2>2. delivered = Fifo!Messages(Len(delivered)) /\ delivered' = Fifo!Messages(Len(delivered'))
        <3>1. delivered = Fifo!Messages(Len(delivered))
            BY DeliveredIsMessages
        <3>2. (delivered = Fifo!Messages(Len(delivered)))'
            BY <1>1, DeliveredIsMessages, PTL
        <3>3. QED
            BY <3>1, <3>2 DEF Fifo!Messages
    <2>3. /\ Len(delivered) \in Nat /\ Len(delivered') \in Nat /\ sent \in Nat
          /\ Len(delivered') >= Len(delivered)
          /\ Len(delivered') <= sent
        BY <1>1, <1>4, <2>1, ReceiveAppends DEF ArqInv, TypeOK, ProgressInv
    <2>4. CASE Len(delivered') = Len(delivered)
        BY <2>1, <2>2, <2>4
    <2>5. CASE Len(delivered') # Len(delivered)
        <3>1. Len(delivered') \in Len(delivered) + 1 .. sent
            BY <2>3, <2>5
        <3>2. QED
            BY <2>1, <2>2, <3>1 DEF Fifo!Next, Fifo!Deliver
    <2>6. QED
        BY <2>4, <2>5
<1>5. QED
    BY <1>2, <1>3, <1>4 DEF Next

\* Exactly-once, in-order delivery as a refinement (SendWindow, ReceiveWindow),
\* for every size of the sequence space, every window with two numbers of slack
\* and every retry limit, over a transport that loses, duplicates and reorders.
THEOREM WindowsImplementFifo == Spec => ImplementsFifo
<1>1. Init => Fifo!Init
    BY DEF Init, Fifo!Init, Fifo!Messages
<1>2. QED
    BY <1>1, ArqInvariance, StepImplementsFifo, PTL DEF Spec, ImplementsFifo, Fifo!Spec

\* The receive buffer holds only packets ahead of the expected one, under the
\* numbers they were sent with (ReceiveWindow::receive).
THEOREM BufferedAheadHolds == Spec => []BufferedAhead
<1>1. ArqInv => BufferedAhead
    BY DEF ArqInv
<1>2. QED
    BY <1>1, ArqInvariance, PTL

\* No message after the first leaves the send window undelivered
\* (SendWindow::acknowledge).
THEOREM LaterAckedDeliveredHolds == Spec => []LaterAckedDelivered
<1>1. ArqInv => LaterAckedDelivered
    <2> SUFFICES ASSUME ArqInv, Oldest > 1 PROVE Oldest <= Len(delivered)
        BY DEF LaterAckedDelivered
    <2>1. Oldest # 1
        BY BaseToExpected
    <2>2. QED
        BY <2>1 DEF ArqInv, ProgressInv
<1>2. QED
    BY <1>1, ArqInvariance, PTL

\* The two windows agree about every message between them, whatever is lost,
\* duplicated or reordered (SendWindow, ReceiveWindow).
THEOREM WindowsAgreeHold == Spec => []WindowsAgree
<1>1. BufferedAhead /\ LaterAckedDelivered => WindowsAgree
    BY DEF WindowsAgree
<1>2. QED
    BY <1>1, BufferedAheadHolds, LaterAckedDeliveredHolds, PTL
=============================================================================
