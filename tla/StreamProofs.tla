---------------------------- MODULE StreamProofs ----------------------------
(***************************************************************************)
(* Proofs about the streams of a QUIC connection and their flow control    *)
(* (QuicStreams), for any number and length of streams, any windows and    *)
(* any loss, delay and reordering of packets.                              *)
(*                                                                         *)
(* The argument: a byte that was sent is acknowledged, to be sent again or *)
(* in flight, in one of these ways only, which makes the send window true. *)
(* A credit on its way or at the client was granted by the server, and the *)
(* server takes none back; what the server has counted of a stream is no   *)
(* more than was written to it; so what arrives fits in what the client    *)
(* was granted.  What was read of a stream is its first bytes.             *)
(***************************************************************************)
EXTENDS QuicStreams, FiniteSetTheorems, SequenceTheorems, WellFoundedInduction, TLAPS

-----------------------------------------------------------------------------
(* The inductive invariant *)

ClientFields == {"next", "max", "max_data", "data_sent", "unacked_data", "send_window", "blocked", "events", "reset"}
SendFields == {"state", "fin_acked", "stopped", "offset", "unsent", "acks", "retransmits", "fin_pending", "max_data", "blocked"}
ServerFields == {"max_remote", "sent_max_remote", "allocated", "concurrent", "next_remote", "stream_window", "window",
                 "debt", "local_max_data", "sent_max_data", "data_recvd", "free", "pending"}
RecvFields == {"state", "size", "data", "bytes_read", "end", "stopped", "sent_max"}

StreamFrames == [type : {"STREAM"}, id : Ids, start : Nat, end : Nat, fin : BOOLEAN]
ResetFrames == [type : {"RESET_STREAM"}, id : Ids, final : Nat]
FrameTyped(f) ==
    /\ f.type \in {"STREAM", "RESET_STREAM", "MAX_DATA", "MAX_STREAMS", "MAX_STREAM_DATA", "STOP_SENDING"}
    /\ f.type = "STREAM" => f \in StreamFrames
    /\ f.type = "RESET_STREAM" => f \in ResetFrames
    /\ f.type \in {"MAX_DATA", "MAX_STREAMS", "MAX_STREAM_DATA"} => f.max \in Int
    /\ f.type = "MAX_STREAM_DATA" => f.id \in Nat

\* Bytes of several streams, each named by its stream and its offset.
Blocks(g) == UNION {{i} \X g[i] : i \in DOMAIN g}
BlockOf(g, i) == IF i \in DOMAIN g THEN g[i] ELSE {}

\* The bytes of a frame.
RangeOf(f) == f.start .. f.end - 1

\* A stream's send buffer: what was sent is acknowledged, to be sent again or in flight.
SendOk(s) ==
    /\ DOMAIN s = SendFields
    /\ s.state \in {"Ready", "DataSent", "ResetSent"}
    /\ s.offset \in Nat /\ s.unsent \in 0 .. s.offset /\ s.max_data \in Int /\ s.offset <= s.max_data
    /\ s.acks \subseteq 0 .. s.unsent - 1
    /\ s.retransmits \subseteq (0 .. s.unsent - 1) \ s.acks

\* A receive buffer holds bytes of its stream, and the credit granted follows what was read.
RecvOk(r, i, window) ==
    /\ DOMAIN r = RecvFields
    /\ r.state \in {"Recv", "ResetRecvd"}
    /\ r.size \in Int /\ r.end \in Nat /\ r.bytes_read \in 0 .. r.end /\ r.sent_max \in Int
    /\ r.sent_max <= r.bytes_read + window
    /\ r.sent_max >= window
    /\ r.data \subseteq {i} \X (0 .. r.end - 1)
    /\ r.state = "Recv" => r.size \in {-1, r.end}

\* Nothing more is written to stream i.
Ceased(i) == i \in DOMAIN sends => sends[i].state # "Ready"

ChancesTyped ==
    chances \in [length : Seq(Nat), loss : Nat, tune : Nat, abandon : Nat] /\ Len(chances.length) <= Streams

ClientTyped ==
    /\ DOMAIN client = ClientFields
    /\ client.next \in Nat /\ client.next <= Len(chances.length)
    /\ {client.max, client.max_data, client.data_sent, client.unacked_data, client.send_window} \subseteq Int
    /\ client.next <= client.max

SendsTyped ==
    /\ DOMAIN sends \subseteq 0 .. client.next - 1
    /\ \A i \in DOMAIN sends : SendOk(sends[i])
    /\ written \in [Ids -> Nat]
    /\ \A i \in DOMAIN sends : written[i] = sends[i].offset
    /\ \A i \in Ids : i >= client.next => written[i] = 0

PacketsTyped == \A p \in sent_packets \cup in_transit : FrameTyped(p.frame)

\* The bytes in flight were sent, are neither acknowledged nor to be sent again, and are in
\* flight once.
InFlightOnce ==
    /\ \A p \in sent_packets : p.frame.type = "STREAM" /\ p.frame.id \in DOMAIN sends =>
         RangeOf(p.frame) \subseteq (0 .. sends[p.frame.id].unsent - 1)
                           \ (sends[p.frame.id].acks \cup sends[p.frame.id].retransmits)
    /\ \A p, q \in sent_packets :
         p # q /\ p.frame.type = "STREAM" /\ q.frame.type = "STREAM" /\ p.frame.id = q.frame.id
         /\ p.frame.id \in DOMAIN sends
            => RangeOf(p.frame) \cap RangeOf(q.frame) = {}

\* What is unacknowledged is counted, and so is what was written, within the credit.
Outstanding(s) == IF s.state = "ResetSent" THEN {} ELSE (0 .. s.offset - 1) \ s.acks
OutstandingBytes == Blocks([i \in DOMAIN sends |-> Outstanding(sends[i])])
WrittenBytes == Blocks([i \in Ids |-> 0 .. written[i] - 1])
SentCounted ==
    /\ IsFiniteSet(OutstandingBytes) /\ client.unacked_data = Cardinality(OutstandingBytes)
    /\ IsFiniteSet(WrittenBytes) /\ client.data_sent = Cardinality(WrittenBytes)
    /\ client.data_sent <= client.max_data

\* A writer that waits has no credit for its stream, or will be told.
WaitersTold ==
    /\ waiting \subseteq DOMAIN sends
    /\ \A i \in waiting :
         /\ sends[i].state = "Ready"
         /\ sends[i].stopped \/ sends[i].offset = sends[i].max_data \/ i \in client.events \cup client.blocked

\* A stream whose reset is to be sent is written to no more.
ResetsCeased == \A i \in client.reset : i \in Nat /\ i < client.next /\ Ceased(i)

ServerOk(v) ==
    /\ DOMAIN v = ServerFields
    /\ v.max_remote \in Nat
    /\ {v.sent_max_remote, v.allocated, v.concurrent, v.next_remote, v.window, v.debt,
        v.local_max_data, v.sent_max_data, v.data_recvd} \subseteq Int
    /\ v.stream_window \in Nat
    /\ v.free \in Seq({NewRecv(v.stream_window)})
ServerTyped == ServerOk(server)

\* What was written to a stream, or will have been when it is opened.
Wrote(i) == IF i < client.next THEN written[i] ELSE 0

RecvsTyped ==
    /\ DOMAIN recvs \subseteq 0 .. server.max_remote - 1
    /\ \A i \in DOMAIN recvs :
         /\ RecvOk(recvs[i], i, server.stream_window)
         /\ recvs[i].end <= Wrote(i)
         /\ recvs[i].size # -1 => i < client.next /\ Ceased(i) /\ recvs[i].size = Wrote(i)
         /\ recvs[i].state = "ResetRecvd" => recvs[i].size # -1
    /\ \A i \in 0 .. server.max_remote - 1 : i \notin DOMAIN recvs => i < client.next /\ Ceased(i)

\* How much of a stream the server has counted.
Counted(i) ==
    IF i \in DOMAIN recvs THEN IF recvs[i].state = "ResetRecvd" THEN recvs[i].size ELSE recvs[i].end ELSE written[i]
CountedBytes == Blocks([i \in 0 .. client.next - 1 |-> 0 .. Counted(i) - 1])
RecvCounted == IsFiniteSet(CountedBytes) /\ server.data_recvd = Cardinality(CountedBytes)

\* The client is granted no more than the server is ready for.
CreditsAgree ==
    /\ client.max <= server.max_remote
    /\ client.max_data <= server.local_max_data
    /\ \A i \in DOMAIN sends \cap DOMAIN recvs : sends[i].max_data <= recvs[i].sent_max

\* A frame on its way was allowed, and tells no more than what was written.
FrameOk(f) ==
    /\ f.type = "STREAM" =>
         /\ f.id < client.next /\ f.start <= f.end /\ f.end <= written[f.id]
         /\ f.fin => f.end = written[f.id] /\ Ceased(f.id)
         /\ f.id \in DOMAIN recvs => f.end <= recvs[f.id].sent_max
    /\ f.type = "RESET_STREAM" =>
         /\ f.id < client.next /\ f.final = written[f.id] /\ Ceased(f.id)
         /\ f.id \in DOMAIN recvs => f.final <= recvs[f.id].sent_max
    /\ f.type = "MAX_DATA" => f.max <= server.local_max_data
    /\ f.type = "MAX_STREAMS" => f.max <= server.max_remote
    /\ f.type = "MAX_STREAM_DATA" =>
         f.id < server.max_remote /\ (f.id \in DOMAIN recvs => f.max <= recvs[f.id].sent_max)
WireOk == \A p \in in_transit \cup sent_packets : FrameOk(p.frame)

\* What was read of a stream is its beginning.
ReadInOrder ==
    /\ DOMAIN taken = Ids
    /\ \A i \in Ids : \E n \in 0 .. Wrote(i) :
         /\ taken[i] = [k \in 1 .. n |-> <<i, k - 1>>]
         /\ i \in DOMAIN recvs => n = recvs[i].bytes_read

StreamInv ==
    /\ ChancesTyped /\ ClientTyped /\ SendsTyped /\ PacketsTyped
    /\ InFlightOnce /\ SentCounted /\ WaitersTold /\ ResetsCeased
    /\ ServerTyped /\ RecvsTyped /\ RecvCounted /\ CreditsAgree /\ WireOk
    /\ ReadInOrder

-----------------------------------------------------------------------------
(* Numbers and sets of bytes *)

LEMMA LeastNat ==
    ASSUME NEW S \in SUBSET Nat, S # {}
    PROVE  Min(S) \in S /\ \A y \in S : Min(S) <= y
<1> DEFINE R == {ss \in Nat \X Nat : ss[1] < ss[2]}
<1>1. IsWellFoundedOn(R, Nat)
    BY NatLessThanWellFounded DEF OpToRel
<1>2. PICK x \in S : \A y \in S : ~(<<y, x>> \in R)
    BY <1>1, WFMin
<1>3. ASSUME NEW y \in S
      PROVE  x <= y
    <2>1. x \in Nat /\ y \in Nat
        OBVIOUS
    <2>2. y < x => <<y, x>> \in R
        BY <2>1
    <2> HIDE DEF R
    <2> QED
        BY <1>2, <2>1, <2>2
<1>4. \E m \in S : \A y \in S : m <= y
    BY <1>3
<1> QED
    BY <1>4 DEF Min

LEMMA GreatestNat ==
    ASSUME NEW S \in SUBSET Nat, S # {}, NEW b \in Nat, \A y \in S : y <= b
    PROVE  Max(S) \in S /\ \A y \in S : y <= Max(S)
<1> DEFINE T == {b - y : y \in S}
<1>1. T \in SUBSET Nat /\ T # {}
    <2>1. \A y \in S : b - y \in Nat
        OBVIOUS
    <2> QED
        BY <2>1
<1>2. Min(T) \in T /\ \A z \in T : Min(T) <= z
    BY <1>1, LeastNat
<1>3. PICK x \in S : Min(T) = b - x
    BY <1>2
<1>4. ASSUME NEW y \in S
      PROVE  y <= x
    <2>1. b - y \in T /\ x \in Nat /\ y \in Nat
        OBVIOUS
    <2>2. b - x <= b - y
        BY <1>2, <1>3, <2>1
    <2> QED
        BY <2>1, <2>2
<1>5. \E m \in S : \A y \in S : m >= y
    BY <1>4
<1> QED
    BY <1>5 DEF Max

LEMMA BlocksMember ==
    ASSUME NEW g, NEW x
    PROVE  x \in Blocks(g) <=> \E i : \E b \in BlockOf(g, i) : x = <<i, b>>
BY DEF Blocks, BlockOf

LEMMA BlocksSame ==
    ASSUME NEW g, NEW h, \A i : BlockOf(g, i) = BlockOf(h, i)
    PROVE  Blocks(g) = Blocks(h)
BY BlocksMember

\* Bytes are added to one stream.
Adds(g, h, k, T) ==
    /\ BlockOf(g, k) \cap T = {} /\ BlockOf(h, k) = BlockOf(g, k) \cup T
    /\ \A i : i # k => BlockOf(h, i) = BlockOf(g, i)

LEMMA BlocksGrow ==
    ASSUME NEW g, NEW h, IsFiniteSet(Blocks(g)), NEW k, NEW T, IsFiniteSet(T), Adds(g, h, k, T)
    PROVE  IsFiniteSet(Blocks(h)) /\ Cardinality(Blocks(h)) = Cardinality(Blocks(g)) + Cardinality(T)
<1> DEFINE B == {k} \X T
<1>1. IsFiniteSet(B) /\ Cardinality(B) = Cardinality(T)
    <2>1. IsFiniteSet({k}) /\ Cardinality({k}) = 1 /\ Cardinality(T) \in Nat
        BY FS_Singleton, FS_CardinalityType
    <2>2. IsFiniteSet(B) /\ Cardinality(B) = 1 * Cardinality(T)
        BY <2>1, FS_Product
    <2> QED
        BY <2>1, <2>2
<1>2. \A x : x \in B <=> \E b \in T : x = <<k, b>>
    OBVIOUS
<1> HIDE DEF B
<1>3. Blocks(h) = Blocks(g) \cup B
    <2>1. ASSUME NEW x \in Blocks(h)
          PROVE  x \in Blocks(g) \cup B
        <3>1. PICK i, b : b \in BlockOf(h, i) /\ x = <<i, b>>
            BY BlocksMember
        <3> QED
            BY <1>2, <3>1, BlocksMember DEF Adds
    <2>2. ASSUME NEW x \in Blocks(g)
          PROVE  x \in Blocks(h)
        <3>1. PICK i, b : b \in BlockOf(g, i) /\ x = <<i, b>>
            BY BlocksMember
        <3> QED
            BY <3>1, BlocksMember DEF Adds
    <2>3. ASSUME NEW x \in B
          PROVE  x \in Blocks(h)
        BY <1>2, BlocksMember DEF Adds
    <2> QED
        BY <2>1, <2>2, <2>3
<1>4. Blocks(g) \cap B = {}
    <2> SUFFICES ASSUME NEW x \in B, x \in Blocks(g)
                 PROVE  FALSE
        OBVIOUS
    <2>1. PICK b \in T : x = <<k, b>>
        BY <1>2
    <2>2. PICK i, c : c \in BlockOf(g, i) /\ x = <<i, c>>
        BY BlocksMember
    <2> QED
        BY <2>1, <2>2 DEF Adds
<1>5. /\ IsFiniteSet(Blocks(g) \cup B)
      /\ Cardinality(Blocks(g) \cup B) = Cardinality(Blocks(g)) + Cardinality(B) - Cardinality(Blocks(g) \cap B)
    BY <1>1, FS_Union
<1>6. Cardinality(Blocks(g)) \in Nat /\ Cardinality(T) \in Nat
    BY FS_CardinalityType
<1>7. Cardinality(Blocks(g) \cap B) = 0
    BY <1>4, FS_EmptySet
<1>8. Cardinality(Blocks(g) \cup B) = Cardinality(Blocks(g)) + Cardinality(T)
    BY <1>1, <1>5, <1>6, <1>7
<1> QED
    BY <1>3, <1>5, <1>8

\* Bytes are taken from one stream: the same, seen from the other end.
LEMMA BlocksShrink ==
    ASSUME NEW g, NEW h, IsFiniteSet(Blocks(h)), NEW k, NEW T, IsFiniteSet(T), Adds(g, h, k, T)
    PROVE  IsFiniteSet(Blocks(g)) /\ Cardinality(Blocks(g)) = Cardinality(Blocks(h)) - Cardinality(T)
<1>1. Blocks(g) \subseteq Blocks(h)
    <2> SUFFICES ASSUME NEW x \in Blocks(g)
                 PROVE  x \in Blocks(h)
        OBVIOUS
    <2>1. PICK i, b : b \in BlockOf(g, i) /\ x = <<i, b>>
        BY BlocksMember
    <2>2. b \in BlockOf(h, i)
        BY <2>1 DEF Adds
    <2> QED
        BY <2>1, <2>2, BlocksMember
<1>2. IsFiniteSet(Blocks(g))
    BY <1>1, FS_Subset
<1>3. Cardinality(Blocks(h)) = Cardinality(Blocks(g)) + Cardinality(T)
    BY <1>2, BlocksGrow
<1>4. Cardinality(Blocks(g)) \in Nat /\ Cardinality(T) \in Nat
    BY <1>2, FS_CardinalityType
<1> QED
    BY <1>2, <1>3, <1>4

\* A stream that has fewer bytes has fewer in all.
LEMMA BlocksFewer ==
    ASSUME NEW g, NEW h, IsFiniteSet(Blocks(h)), \A i : BlockOf(g, i) \subseteq BlockOf(h, i)
    PROVE  IsFiniteSet(Blocks(g)) /\ Cardinality(Blocks(g)) <= Cardinality(Blocks(h))
<1>1. Blocks(g) \subseteq Blocks(h)
    BY BlocksMember
<1> QED
    BY <1>1, FS_Subset

\* The bytes of a range.
LEMMA RangeCount ==
    ASSUME NEW a \in Int, NEW b \in Int, a <= b
    PROVE  IsFiniteSet(a .. b - 1) /\ Cardinality(a .. b - 1) = b - a
<1>1. b - 1 \in Int
    OBVIOUS
<1>2. IsFiniteSet(a .. b - 1) /\ Cardinality(a .. b - 1) = IF a > b - 1 THEN 0 ELSE (b - 1) - a + 1
    BY <1>1, FS_Interval
<1> QED
    BY <1>2

\* The send window, as the property counts it.
LEMMA UnackedIsOutstanding == UnackedBytes = OutstandingBytes
<1> DEFINE g == [i \in DOMAIN sends |-> Outstanding(sends[i])]
<1>1. \A x : x \in UnackedBytes <=> \E i \in DOMAIN sends : \E b \in (0 .. sends[i].offset - 1) \ sends[i].acks :
                                       sends[i].state # "ResetSent" /\ x = <<i, b>>
    BY DEF UnackedBytes
<1>2. \A x : x \in OutstandingBytes <=> \E i : \E b \in BlockOf(g, i) : x = <<i, b>>
    BY BlocksMember DEF OutstandingBytes
<1>3. \A i, b : b \in BlockOf(g, i) <=> i \in DOMAIN sends /\ sends[i].state # "ResetSent"
                                         /\ b \in (0 .. sends[i].offset - 1) \ sends[i].acks
    BY DEF BlockOf, Outstanding
<1> HIDE DEF g
<1> QED
    BY <1>1, <1>2, <1>3

-----------------------------------------------------------------------------
(* What never goes back *)

\* Streams are opened and written to, those that ceased stay as they are, and the server
\* takes back no credit.
Onward ==
    /\ client'.next >= client.next
    /\ \A i \in 0 .. client.next - 1 :
         written'[i] \in Nat /\ written'[i] >= written[i] /\ (Ceased(i) => Ceased(i)' /\ written'[i] = written[i])
    /\ server'.local_max_data >= server.local_max_data /\ server'.max_remote >= server.max_remote
    /\ \A i \in 0 .. server.max_remote - 1 :
         i \in DOMAIN recvs' => i \in DOMAIN recvs /\ recvs'[i].sent_max >= recvs[i].sent_max

StreamsTyped == ChancesTyped /\ ClientTyped /\ SendsTyped /\ PacketsTyped /\ ServerTyped

LEMMA IdsAreNats == Ids \subseteq Nat /\ \A i \in Nat : i < Streams => i \in Ids
BY StreamConstants DEF Ids

\* A frame that was allowed stays so.
LEMMA FrameOnward ==
    ASSUME StreamsTyped, RecvsTyped, CreditsAgree, ServerTyped', ClientTyped', RecvsTyped', Onward,
           NEW f, FrameTyped(f), FrameOk(f)
    PROVE  FrameOk(f)'
<1>1. /\ client.next \in Nat /\ client'.next \in Nat /\ client'.next >= client.next
      /\ server.max_remote \in Nat /\ server'.max_remote \in Nat /\ client.next <= server.max_remote
      /\ server.local_max_data \in Int /\ server'.local_max_data \in Int
      /\ server'.local_max_data >= server.local_max_data /\ server'.max_remote >= server.max_remote
    <2>1. client.next \in Nat /\ client.max \in Int /\ client.next <= client.max /\ client'.next \in Nat
        BY DEF StreamsTyped, ClientTyped
    <2>2. /\ server.max_remote \in Nat /\ server'.max_remote \in Nat /\ server.local_max_data \in Int
          /\ server'.local_max_data \in Int
        BY DEF StreamsTyped, ServerTyped, ServerOk
    <2>3. client.max <= server.max_remote
        BY DEF CreditsAgree
    <2> QED
        BY <2>1, <2>2, <2>3 DEF Onward
<1>2. ASSUME NEW i \in Nat, i < server.max_remote, i \in DOMAIN recvs'
      PROVE  /\ i \in DOMAIN recvs /\ recvs'[i].sent_max >= recvs[i].sent_max
             /\ recvs[i].sent_max \in Int /\ recvs'[i].sent_max \in Int
    <2>1. i \in 0 .. server.max_remote - 1
        BY <1>1, <1>2
    <2> QED
        BY <1>2, <2>1 DEF Onward, RecvsTyped, RecvOk
<1>3. ASSUME f.type = "STREAM"
      PROVE  FrameOk(f)'
    <2>1. f \in StreamFrames /\ f.id \in 0 .. client.next - 1 /\ f.id \in Nat /\ f.id < server.max_remote
        <3>1. f \in StreamFrames
            BY <1>3 DEF FrameTyped
        <3>2. f.id \in Nat
            BY <3>1, IdsAreNats DEF StreamFrames
        <3>3. f.id < client.next
            BY <1>3 DEF FrameOk
        <3> QED
            BY <1>1, <3>1, <3>2, <3>3
    <2>2. /\ f.id < client.next /\ f.start <= f.end /\ f.end <= written[f.id] /\ written[f.id] \in Nat
          /\ f.fin => f.end = written[f.id] /\ Ceased(f.id)
          /\ f.id \in DOMAIN recvs => f.end <= recvs[f.id].sent_max
        BY <1>3, <2>1 DEF FrameOk, StreamsTyped, SendsTyped, StreamFrames
    <2>3. written'[f.id] \in Nat /\ written'[f.id] >= written[f.id] /\ (Ceased(f.id) => Ceased(f.id)' /\ written'[f.id] = written[f.id])
        BY <2>1 DEF Onward
    <2>4. f.id \in DOMAIN recvs' => f.end <= recvs'[f.id].sent_max
        BY <1>2, <2>1, <2>2 DEF StreamFrames
    <2>5. f.end <= written'[f.id]
        <3>1. CASE f.fin
            BY <2>2, <2>3, <3>1
        <3>2. CASE ~f.fin
            BY <2>1, <2>2, <2>3 DEF StreamFrames
        <3> QED
            BY <3>1, <3>2
    <2> QED
        BY <1>1, <1>3, <2>1, <2>2, <2>3, <2>4, <2>5 DEF FrameOk, StreamFrames
<1>4. ASSUME f.type = "RESET_STREAM"
      PROVE  FrameOk(f)'
    <2>1. f \in ResetFrames /\ f.id \in 0 .. client.next - 1 /\ f.id \in Nat /\ f.id < server.max_remote
        <3>1. f \in ResetFrames
            BY <1>4 DEF FrameTyped
        <3>2. f.id \in Nat
            BY <3>1, IdsAreNats DEF ResetFrames
        <3>3. f.id < client.next
            BY <1>4 DEF FrameOk
        <3> QED
            BY <1>1, <3>1, <3>2, <3>3
    <2>2. /\ f.id < client.next /\ f.final = written[f.id] /\ Ceased(f.id)
          /\ f.id \in DOMAIN recvs => f.final <= recvs[f.id].sent_max
        BY <1>4 DEF FrameOk
    <2>3. Ceased(f.id)' /\ written'[f.id] = written[f.id]
        BY <2>1, <2>2 DEF Onward
    <2>4. f.id \in DOMAIN recvs' => f.final <= recvs'[f.id].sent_max
        BY <1>2, <2>1, <2>2 DEF ResetFrames
    <2> QED
        BY <1>1, <1>4, <2>1, <2>2, <2>3, <2>4 DEF FrameOk
<1>5. ASSUME f.type = "MAX_STREAM_DATA"
      PROVE  FrameOk(f)'
    <2>1. f.max \in Int /\ f.id \in Nat
        BY <1>5, IdsAreNats DEF FrameTyped
    <2>2. f.id < server.max_remote /\ (f.id \in DOMAIN recvs => f.max <= recvs[f.id].sent_max)
        BY <1>5 DEF FrameOk
    <2> QED
        BY <1>1, <1>2, <1>5, <2>1, <2>2 DEF FrameOk
<1>6. ASSUME f.type \in {"MAX_DATA", "MAX_STREAMS"}
      PROVE  FrameOk(f)'
    <2>1. f.max \in Int
        BY <1>6 DEF FrameTyped
    <2> QED
        BY <1>1, <1>6, <2>1 DEF FrameOk
<1>7. ASSUME f.type = "STOP_SENDING"
      PROVE  FrameOk(f)'
    BY <1>7 DEF FrameOk
<1> QED
    BY <1>3, <1>4, <1>5, <1>6, <1>7 DEF FrameTyped

\* Packets leave, or some with allowed frames are added.
Brings(Q) ==
    /\ \A q \in Q : FrameTyped(q.frame) /\ FrameOk(q.frame)'
    /\ sent_packets' \cup in_transit' \subseteq sent_packets \cup in_transit \cup Q

LEMMA WireOnward ==
    ASSUME StreamsTyped, RecvsTyped, CreditsAgree, WireOk, ServerTyped', ClientTyped', RecvsTyped', Onward,
           NEW Q, Brings(Q)
    PROVE  PacketsTyped' /\ WireOk'
<1>1. \A p \in sent_packets \cup in_transit : FrameTyped(p.frame) /\ FrameOk(p.frame)'
    BY FrameOnward DEF StreamsTyped, PacketsTyped, WireOk
<1> QED
    BY <1>1 DEF PacketsTyped, WireOk, Brings

\* Steps that leave what was written and the receiving side as they are.
LEMMA ReceiverStays ==
    ASSUME ClientTyped, ServerTyped, RecvsTyped, RecvCounted, ReadInOrder, UNCHANGED <<recvs, taken, written>>,
           client'.next = client.next, \A i \in 0 .. client.next - 1 : Ceased(i) => Ceased(i)',
           DOMAIN server' = ServerFields, \A x \in ServerFields \ {"pending"} : server'[x] = server[x]
    PROVE  ServerTyped' /\ RecvsTyped' /\ RecvCounted' /\ ReadInOrder'
<1>1. /\ server'.max_remote = server.max_remote /\ server'.sent_max_remote = server.sent_max_remote
      /\ server'.allocated = server.allocated /\ server'.concurrent = server.concurrent
      /\ server'.next_remote = server.next_remote /\ server'.stream_window = server.stream_window
      /\ server'.window = server.window /\ server'.debt = server.debt /\ server'.local_max_data = server.local_max_data
      /\ server'.sent_max_data = server.sent_max_data /\ server'.data_recvd = server.data_recvd
      /\ server'.free = server.free
    BY DEF ServerFields
<1>2. ServerTyped'
    BY <1>1 DEF ServerTyped, ServerOk
<1>3. \A i : Wrote(i)' = Wrote(i)
    BY DEF Wrote
<1>4. \A i : Counted(i)' = Counted(i)
    BY DEF Counted
<1>5. CountedBytes' = CountedBytes
    BY <1>4 DEF CountedBytes
<1>6. RecvCounted'
    BY <1>1, <1>5 DEF RecvCounted
<1>7. ReadInOrder'
    BY <1>3 DEF ReadInOrder
<1>8. RecvsTyped'
    <2>1. \A i \in DOMAIN recvs : i < client.next => (Ceased(i) => Ceased(i)')
        BY DEF RecvsTyped, ClientTyped, ServerTyped, ServerOk
    <2>2. \A i \in 0 .. server.max_remote - 1 : i < client.next => (Ceased(i) => Ceased(i)')
        BY DEF ClientTyped, ServerTyped, ServerOk
    <2> QED
        BY <1>1, <1>3, <2>1, <2>2 DEF RecvsTyped
<1> QED
    BY <1>2, <1>6, <1>7, <1>8

-----------------------------------------------------------------------------
(* Steps that write nothing *)

\* What such a step leaves of the client's side of the connection, ...
ClientKept ==
    /\ DOMAIN client' = ClientFields
    /\ client'.next = client.next /\ client'.data_sent = client.data_sent
    /\ client'.max \in Int /\ client.max <= client'.max /\ client'.max <= server.max_remote
    /\ client'.max_data \in Int /\ client.max_data <= client'.max_data /\ client'.max_data <= server.local_max_data
    /\ client'.unacked_data \in Int /\ client'.send_window \in Int
    /\ \A i \in client'.reset : i \in client.reset \/ (i \in Nat /\ i < client.next /\ Ceased(i)')

\* ... of its streams, ...
SendsKept ==
    /\ DOMAIN sends' \subseteq DOMAIN sends
    /\ \A i \in DOMAIN sends' :
         /\ SendOk(sends'[i]) /\ sends'[i].offset = sends[i].offset
         /\ sends[i].state # "Ready" => sends'[i].state # "Ready"
         /\ i \in DOMAIN recvs => sends'[i].max_data <= recvs[i].sent_max

\* ... and of the server.
ServerKept == DOMAIN server' = ServerFields /\ \A x \in ServerFields \ {"pending"} : server'[x] = server[x]
ReceiverKept == UNCHANGED <<recvs, taken, written>> /\ ServerKept
ChancesKept == ChancesTyped' /\ chances'.length = chances.length

OutstandingCounted == IsFiniteSet(OutstandingBytes) /\ client.unacked_data = Cardinality(OutstandingBytes)

LEMMA SenderKeeps ==
    ASSUME StreamInv, ClientKept, SendsKept, ReceiverKept, ChancesKept,
           InFlightOnce', OutstandingCounted', WaitersTold',
           NEW Q, Brings(Q)
    PROVE  StreamInv'
<1>1. StreamsTyped /\ RecvsTyped /\ CreditsAgree /\ WireOk
    BY DEF StreamInv, StreamsTyped
<1>2. ClientTyped'
    <2>1. /\ client.next \in Nat /\ client.next <= Len(chances.length) /\ client.max \in Int
          /\ client.data_sent \in Int /\ client.next <= client.max
        BY DEF StreamInv, ClientTyped
    <2>2. chances'.length = chances.length
        BY DEF ChancesKept
    <2> QED
        BY <2>1, <2>2 DEF ClientKept, ClientTyped
<1>3. \A i : Ceased(i) => Ceased(i)'
    BY DEF Ceased, SendsKept
<1>4. ServerTyped' /\ RecvsTyped' /\ RecvCounted' /\ ReadInOrder'
    BY <1>3, ReceiverStays DEF StreamInv, ClientKept, ReceiverKept, ServerKept
<1>5. server'.local_max_data = server.local_max_data /\ server'.max_remote = server.max_remote
    BY DEF ReceiverKept, ServerKept, ServerFields
<1>6. Onward
    <2>1. \A i \in 0 .. client.next - 1 : i \in Ids
        BY StreamConstants DEF StreamInv, ClientTyped, ChancesTyped, Ids
    <2>2. \A i \in 0 .. client.next - 1 : written[i] \in Nat
        BY <2>1 DEF StreamInv, SendsTyped
    <2>3. \A i \in DOMAIN recvs : recvs[i].sent_max \in Int
        BY DEF StreamInv, RecvsTyped, RecvOk
    <2>4. server.local_max_data \in Int /\ server.max_remote \in Int /\ client.next \in Int
        BY SMTT(30) DEF StreamInv, ServerTyped, ServerOk, ClientTyped
    <2> QED
        BY <1>3, <1>5, <2>2, <2>3, <2>4 DEF Onward, ReceiverKept, ClientKept
<1>7. PacketsTyped' /\ WireOk'
    BY <1>1, <1>2, <1>4, <1>6, WireOnward
<1>8. SendsTyped'
    BY DEF StreamInv, SendsTyped, SendsKept, ReceiverKept, ClientKept
<1>9. SentCounted'
    <2>1. WrittenBytes' = WrittenBytes
        BY DEF WrittenBytes, ReceiverKept
    <2>2. client.data_sent \in Int /\ client.max_data \in Int /\ client.data_sent <= client.max_data
        BY DEF StreamInv, ClientTyped, SentCounted
    <2>3. client'.data_sent <= client'.max_data
        BY <2>2 DEF ClientKept
    <2>4. IsFiniteSet(WrittenBytes) /\ client.data_sent = Cardinality(WrittenBytes)
        BY DEF StreamInv, SentCounted
    <2> QED
        BY <2>1, <2>3, <2>4 DEF SentCounted, OutstandingCounted, ClientKept
<1>10. CreditsAgree'
    BY <1>5 DEF CreditsAgree, ClientKept, SendsKept, ReceiverKept
<1>11. ResetsCeased'
    BY <1>3 DEF StreamInv, ResetsCeased, ClientKept
<1> QED
    BY <1>2, <1>4, <1>7, <1>8, <1>9, <1>10, <1>11 DEF StreamInv, ReceiverKept, ChancesKept

\* The bytes to be acknowledged are the same.
LEMMA OutstandingSame ==
    ASSUME \A i \in DOMAIN sends' : i \in DOMAIN sends /\ Outstanding(sends'[i]) = Outstanding(sends[i]),
           \A i \in DOMAIN sends : i \notin DOMAIN sends' => Outstanding(sends[i]) = {}
    PROVE  OutstandingBytes' = OutstandingBytes
<1> DEFINE g == [i \in DOMAIN sends |-> Outstanding(sends[i])]
           h == [i \in DOMAIN sends' |-> Outstanding(sends'[i])]
<1>1. \A i : BlockOf(h, i) = BlockOf(g, i)
    BY DEF BlockOf
<1>2. OutstandingBytes = Blocks(g) /\ OutstandingBytes' = Blocks(h)
    BY DEF OutstandingBytes, Blocks, Outstanding
<1> HIDE DEF g, h
<1> QED
    BY <1>1, <1>2, BlocksSame

LEMMA CountedSame ==
    ASSUME SentCounted, client'.unacked_data = client.unacked_data,
           \A i \in DOMAIN sends' : i \in DOMAIN sends /\ Outstanding(sends'[i]) = Outstanding(sends[i]),
           \A i \in DOMAIN sends : i \notin DOMAIN sends' => Outstanding(sends[i]) = {}
    PROVE  OutstandingCounted'
<1>1. OutstandingBytes' = OutstandingBytes
    BY OutstandingSame
<1> QED
    BY <1>1 DEF OutstandingCounted, SentCounted

\* One stream's bytes are fewer.
LEMMA CountedLess ==
    ASSUME SentCounted, NEW k \in DOMAIN sends, NEW T, IsFiniteSet(T), T \subseteq Outstanding(sends[k]),
           client'.unacked_data = client.unacked_data - Cardinality(T),
           \A i \in DOMAIN sends' : i \in DOMAIN sends,
           \A i \in DOMAIN sends \ {k} : i \in DOMAIN sends' /\ sends'[i] = sends[i],
           IF k \in DOMAIN sends' THEN Outstanding(sends'[k]) = Outstanding(sends[k]) \ T
                                  ELSE Outstanding(sends[k]) = T
    PROVE  OutstandingCounted'
<1> DEFINE g == [i \in DOMAIN sends |-> Outstanding(sends[i])]
           h == [i \in DOMAIN sends' |-> Outstanding(sends'[i])]
<1>1. Adds(h, g, k, T)
    <2>1. BlockOf(g, k) = Outstanding(sends[k]) /\ BlockOf(h, k) = Outstanding(sends[k]) \ T
        BY DEF BlockOf
    <2>2. \A i : i # k => BlockOf(g, i) = BlockOf(h, i)
        BY DEF BlockOf
    <2> HIDE DEF g, h
    <2> QED
        BY <2>1, <2>2 DEF Adds
<1>2. OutstandingBytes = Blocks(g) /\ OutstandingBytes' = Blocks(h)
    BY DEF OutstandingBytes, Blocks, Outstanding
<1> HIDE DEF g, h
<1>3. IsFiniteSet(Blocks(h)) /\ Cardinality(Blocks(h)) = Cardinality(Blocks(g)) - Cardinality(T)
    BY <1>1, <1>2, BlocksShrink DEF SentCounted
<1> QED
    BY <1>2, <1>3 DEF OutstandingCounted, SentCounted

\* No bytes of a stream are sent, acknowledged or lost.
LEMMA FlightStays ==
    ASSUME InFlightOnce, \A i \in DOMAIN sends' :
             i \in DOMAIN sends /\ sends'[i].unsent = sends[i].unsent /\ sends'[i].acks = sends[i].acks
             /\ sends'[i].retransmits = sends[i].retransmits,
           \A p \in sent_packets' : p.frame.type = "STREAM" => p \in sent_packets
    PROVE  InFlightOnce'
BY DEF InFlightOnce, RangeOf

LEMMA ClientCredits ==
    ASSUME StreamInv, DOMAIN client' = ClientFields, client'.unacked_data \in Int,
           client'.next = client.next, client'.max = client.max, client'.max_data = client.max_data,
           client'.data_sent = client.data_sent, client'.send_window = client.send_window,
           \A i \in client'.reset : i \in client.reset \/ (i \in Nat /\ i < client.next /\ Ceased(i)')
    PROVE  ClientKept
<1>1. {client.max, client.max_data, client.send_window} \subseteq Int
    BY DEF StreamInv, ClientTyped
<1>2. client.max <= server.max_remote /\ client.max_data <= server.local_max_data
    BY DEF StreamInv, CreditsAgree
<1> QED
    BY <1>1, <1>2 DEF ClientKept

LEMMA NothingReceived ==
    ASSUME StreamInv, UNCHANGED <<server, recvs, taken, written>>
    PROVE  ReceiverKept
BY DEF ReceiverKept, ServerKept, StreamInv, ServerTyped, ServerOk

LEMMA ChancesUsed ==
    ASSUME StreamInv, (\E kind \in {"loss", "tune", "abandon"} : Chance(kind)) \/ UNCHANGED chances
    PROVE  ChancesKept
<1>1. chances \in [length : Seq(Nat), loss : Nat, tune : Nat, abandon : Nat] /\ Len(chances.length) <= Streams
    BY DEF StreamInv, ChancesTyped
<1>2. CASE UNCHANGED chances
    BY <1>1, <1>2 DEF ChancesKept, ChancesTyped
<1>3. ASSUME NEW kind \in {"loss", "tune", "abandon"}, Chance(kind)
      PROVE  ChancesKept
    <2>1. chances[kind] \in Nat /\ chances[kind] > 0
        BY <1>1, <1>3 DEF Chance
    <2> DEFINE v == chances[kind] - 1
    <2>2. v \in Nat /\ chances' = [chances EXCEPT ![kind] = v]
        BY <1>3, <2>1 DEF Chance
    <2> HIDE DEF v
    <2>3. chances' \in [length : Seq(Nat), loss : Nat, tune : Nat, abandon : Nat] /\ chances'.length = chances.length
        BY <1>1, <1>3, <2>2
    <2> QED
        BY <1>1, <2>3 DEF ChancesKept, ChancesTyped
<1> QED
    BY <1>2, <1>3

\* One stream's Send changes.
LEMMA OneSend ==
    ASSUME StreamInv, NEW i \in DOMAIN sends, DOMAIN sends' = DOMAIN sends,
           \A j \in DOMAIN sends \ {i} : sends'[j] = sends[j],
           SendOk(sends'[i]), sends'[i].offset = sends[i].offset,
           sends[i].state # "Ready" => sends'[i].state # "Ready",
           i \in DOMAIN recvs => sends'[i].max_data <= recvs[i].sent_max
    PROVE  SendsKept
BY DEF SendsKept, StreamInv, SendsTyped, CreditsAgree

LEMMA SameSends ==
    ASSUME StreamInv, UNCHANGED sends
    PROVE  SendsKept
BY DEF SendsKept, StreamInv, SendsTyped, CreditsAgree

LEMMA FinishStep ==
    ASSUME StreamInv, NEW i \in DOMAIN sends, Finish(i)
    PROVE  StreamInv'
<1> DEFINE s == sends[i]
           t == [s EXCEPT !.state = "DataSent", !.fin_pending = TRUE]
<1>1. SendOk(s)
    BY DEF StreamInv, SendsTyped
<1>2. DOMAIN sends' = DOMAIN sends /\ sends'[i] = t /\ \A j \in DOMAIN sends \ {i} : sends'[j] = sends[j]
    BY DEF Finish
<1>3. /\ SendOk(t) /\ t.offset = s.offset /\ t.max_data = s.max_data /\ t.unsent = s.unsent /\ t.acks = s.acks
      /\ t.retransmits = s.retransmits /\ t.state = "DataSent" /\ s.state = "Ready"
    BY <1>1 DEF SendOk, SendFields, Finish
<1> HIDE DEF t
<1>4. SendsKept
    BY <1>2, <1>3, OneSend DEF StreamInv, CreditsAgree
<1>5. ClientKept
    BY ClientCredits DEF Finish, StreamInv, ClientTyped
<1>6. ReceiverKept /\ ChancesKept
    BY NothingReceived, ChancesUsed DEF Finish, recvSide
<1>7. InFlightOnce'
    BY <1>2, <1>3, FlightStays DEF Finish, packets, StreamInv
<1>8. OutstandingCounted'
    <2>1. Outstanding(t) = Outstanding(s)
        BY <1>3 DEF Outstanding
    <2> QED
        BY <1>2, <2>1, CountedSame DEF Finish, StreamInv
<1>9. WaitersTold'
    BY <1>2, <1>3 DEF Finish, StreamInv, WaitersTold
<1>10. Brings({})
    BY DEF Brings, Finish, packets
<1> QED
    BY <1>4, <1>5, <1>6, <1>7, <1>8, <1>9, <1>10, SenderKeeps

LEMMA ResetStep ==
    ASSUME StreamInv, NEW i \in DOMAIN sends, Reset(i)
    PROVE  StreamInv'
<1> DEFINE s == sends[i]
           t == [s EXCEPT !.state = "ResetSent"]
           T == (0 .. s.offset - 1) \ s.acks
<1>1. SendOk(s)
    BY DEF StreamInv, SendsTyped
<1>2. DOMAIN sends' = DOMAIN sends /\ sends'[i] = t /\ \A j \in DOMAIN sends \ {i} : sends'[j] = sends[j]
    BY DEF Reset
<1>3. /\ SendOk(t) /\ t.offset = s.offset /\ t.max_data = s.max_data /\ t.unsent = s.unsent /\ t.acks = s.acks
      /\ t.retransmits = s.retransmits /\ t.state = "ResetSent" /\ s.state # "ResetSent"
    BY <1>1 DEF SendOk, SendFields, Reset
<1>4. IsFiniteSet(T) /\ Cardinality(T) \in Nat
    <2>1. IsFiniteSet(0 .. s.offset - 1)
        BY <1>1, RangeCount, SMTT(30) DEF SendOk
    <2>2. IsFiniteSet(T)
        BY <2>1, FS_Difference
    <2> QED
        BY <2>2, FS_CardinalityType
<1>5. /\ DOMAIN client' = ClientFields /\ client'.unacked_data = client.unacked_data - Cardinality(T)
      /\ client'.next = client.next /\ client'.max = client.max /\ client'.max_data = client.max_data
      /\ client'.data_sent = client.data_sent /\ client'.send_window = client.send_window
      /\ client'.events = client.events /\ client'.blocked = client.blocked
      /\ client'.reset = client.reset \cup {i}
    BY DEF Reset, Unacked, StreamInv, ClientTyped, ClientFields
<1>6. client.unacked_data \in Int /\ i \in Nat /\ i < client.next
    BY DEF StreamInv, ClientTyped, SendsTyped
<1> HIDE DEF t
<1>7. SendsKept
    BY <1>2, <1>3, OneSend DEF StreamInv, CreditsAgree
<1>8. ClientKept
    <2>1. Ceased(i)'
        BY <1>2, <1>3 DEF Ceased
    <2> QED
        BY <1>4, <1>5, <1>6, <2>1, ClientCredits
<1>9. ReceiverKept /\ ChancesKept
    BY NothingReceived, ChancesUsed DEF Reset, recvSide
<1>10. InFlightOnce'
    BY <1>2, <1>3, FlightStays DEF Reset, packets, StreamInv
<1>11. OutstandingCounted'
    <2>1. Outstanding(t) = {} /\ Outstanding(s) = T
        BY <1>3 DEF Outstanding
    <2> HIDE DEF T
    <2> QED
        BY <1>2, <1>4, <1>5, <2>1, CountedLess DEF StreamInv
<1>12. WaitersTold'
    BY <1>2, <1>5 DEF Reset, StreamInv, WaitersTold
<1>13. Brings({})
    BY DEF Brings, Reset, packets
<1> QED
    BY <1>7, <1>8, <1>9, <1>10, <1>11, <1>12, <1>13, SenderKeeps

LEMMA PollStep ==
    ASSUME StreamInv, PollEvents
    PROVE  StreamInv'
<1>1. /\ DOMAIN client = ClientFields /\ client.unacked_data \in Int
    BY DEF StreamInv, ClientTyped
<1>2. \/ \E e : client' = [client EXCEPT !.blocked = e]
      \/ \E e : client' = [client EXCEPT !.events = e]
    BY DEF PollEvents
<1>3. /\ DOMAIN client' = ClientFields /\ client'.unacked_data = client.unacked_data
      /\ client'.next = client.next /\ client'.max = client.max /\ client'.max_data = client.max_data
      /\ client'.data_sent = client.data_sent /\ client'.send_window = client.send_window
      /\ client'.reset = client.reset
    BY <1>1, <1>2 DEF ClientFields
<1>4. ReceiverKept /\ ChancesKept
    BY NothingReceived, ChancesUsed DEF PollEvents, recvSide
<1>5. ClientKept
    BY <1>1, <1>3, ClientCredits
<1>6. Brings({})
    BY DEF Brings, PollEvents, packets
<1>7. sent_packets' = sent_packets
    BY DEF PollEvents, packets
<1>8. ASSUME UNCHANGED sends, WaitersTold'
      PROVE  StreamInv'
    <2>1. SendsKept
        BY <1>8, SameSends
    <2>2. InFlightOnce'
        BY <1>7, <1>8, FlightStays DEF StreamInv
    <2>3. OutstandingCounted'
        BY <1>3, <1>8, CountedSame DEF StreamInv
    <2> QED
        BY <1>4, <1>5, <1>6, <1>8, <2>1, <2>2, <2>3, SenderKeeps
<1>9. ASSUME NEW i \in client.blocked, client' = [client EXCEPT !.blocked = @ \ {i}],
             i \notin DOMAIN sends, UNCHANGED <<sends, waiting>>
      PROVE  StreamInv'
    <2>1. client'.blocked = client.blocked \ {i} /\ client'.events = client.events
        BY <1>1, <1>9 DEF ClientFields
    <2>2. WaitersTold'
        BY <1>9, <2>1 DEF StreamInv, WaitersTold
    <2> QED
        BY <1>8, <1>9, <2>2
<1>10. ASSUME NEW i \in client.events, client' = [client EXCEPT !.events = @ \ {i}], waiting' = waiting \ {i}, UNCHANGED sends
       PROVE  StreamInv'
    <2>1. client'.blocked = client.blocked /\ client'.events = client.events \ {i}
        BY <1>1, <1>10 DEF ClientFields
    <2>2. WaitersTold'
        BY <1>10, <2>1 DEF StreamInv, WaitersTold
    <2> QED
        BY <1>8, <1>10, <2>2
<1>11. ASSUME NEW i \in client.blocked, client' = [client EXCEPT !.blocked = @ \ {i}], i \in DOMAIN sends,
              sends' = [sends EXCEPT ![i].blocked = FALSE],
              waiting' = IF sends[i].state = "Ready" /\ sends[i].max_data > sends[i].offset THEN waiting \ {i} ELSE waiting
       PROVE  StreamInv'
    <2> DEFINE s == sends[i]
               t == [s EXCEPT !.blocked = FALSE]
    <2>1. SendOk(s)
        BY <1>11 DEF StreamInv, SendsTyped
    <2>2. DOMAIN sends' = DOMAIN sends /\ sends'[i] = t /\ \A j \in DOMAIN sends \ {i} : sends'[j] = sends[j]
        BY <1>11
    <2>3. /\ SendOk(t) /\ t.offset = s.offset /\ t.max_data = s.max_data /\ t.unsent = s.unsent /\ t.acks = s.acks
          /\ t.retransmits = s.retransmits /\ t.state = s.state /\ t.stopped = s.stopped
        BY <2>1 DEF SendOk, SendFields
    <2> HIDE DEF t
    <2>4. SendsKept
        BY <1>11, <2>2, <2>3, OneSend DEF StreamInv, CreditsAgree
    <2>5. InFlightOnce'
        BY <1>7, <2>2, <2>3, FlightStays DEF StreamInv
    <2>6. OutstandingCounted'
        <3>1. Outstanding(t) = Outstanding(s)
            BY <2>3 DEF Outstanding
        <3> QED
            BY <1>3, <2>2, <3>1, CountedSame DEF StreamInv
    <2>7. WaitersTold'
        <3>1. client'.blocked = client.blocked \ {i} /\ client'.events = client.events
            BY <1>1, <1>11 DEF ClientFields
        <3>2. waiting \subseteq DOMAIN sends /\ waiting' \subseteq waiting
            BY <1>11 DEF StreamInv, WaitersTold
        <3>3. ASSUME NEW j \in waiting'
              PROVE  /\ sends'[j].state = "Ready"
                     /\ sends'[j].stopped \/ sends'[j].offset = sends'[j].max_data \/ j \in client'.events \cup client'.blocked
            <4>1. /\ j \in DOMAIN sends /\ sends[j].state = "Ready"
                  /\ sends[j].stopped \/ sends[j].offset = sends[j].max_data \/ j \in client.events \cup client.blocked
                BY <3>2, <3>3 DEF StreamInv, WaitersTold
            <4>2. CASE j # i
                BY <2>2, <3>1, <4>1, <4>2
            <4>3. CASE j = i
                <5>1. ~(s.max_data > s.offset)
                    BY <1>11, <3>3, <4>1, <4>3
                <5>2. s.offset = s.max_data
                    BY <2>1, <5>1 DEF SendOk
                <5> QED
                    BY <2>2, <2>3, <4>1, <4>3, <5>2
            <4> QED
                BY <4>2, <4>3
        <3> QED
            BY <2>2, <3>2, <3>3 DEF WaitersTold
    <2> QED
        BY <1>4, <1>5, <1>6, <2>4, <2>5, <2>6, <2>7, SenderKeeps
<1> QED
    BY <1>9, <1>10, <1>11 DEF PollEvents

\* SendBuffer::poll_transmit: bytes deemed lost, or the first that were not sent.
LEMMA NextRangeOk ==
    ASSUME NEW s, SendOk(s), NEW len \in Nat, len > 0
    PROVE  LET r == NextRange(s, len) IN
           /\ r.start \in Nat /\ r.end \in Nat /\ r.start <= r.end /\ r.end <= s.offset
           /\ s.retransmits # {} => r.start .. r.end - 1 \subseteq s.retransmits
           /\ s.retransmits = {} => r.start = s.unsent
<1>1. s.offset \in Nat /\ s.unsent \in Nat /\ s.unsent <= s.offset /\ s.retransmits \subseteq 0 .. s.unsent - 1
    BY DEF SendOk
<1>2. CASE s.retransmits = {}
    <2> DEFINE S == {s.offset, s.unsent + len}
    <2>1. S \in SUBSET Nat /\ S # {}
        BY <1>1
    <2>2. Min(S) \in S /\ \A y \in S : Min(S) <= y
        BY <2>1, LeastNat
    <2>3. NextRange(s, len) = [start |-> s.unsent, end |-> Min(S)]
        BY <1>2 DEF NextRange
    <2> HIDE DEF S
    <2>4. Min(S) \in Nat /\ s.unsent <= Min(S) /\ Min(S) <= s.offset
        BY <1>1, <2>1, <2>2 DEF S
    <2> QED
        BY <1>1, <1>2, <2>3, <2>4
<1>3. CASE s.retransmits # {}
    <2> DEFINE a == Min(s.retransmits)
               E == {e \in a + 1 .. a + len : a .. e - 1 \subseteq s.retransmits}
    <2>1. s.retransmits \in SUBSET Nat
        BY <1>1
    <2>2. a \in s.retransmits /\ a \in Nat
        BY <1>3, <2>1, LeastNat
    <2> HIDE DEF a
    <2>3. a + 1 \in E
        <3>1. a .. (a + 1) - 1 = {a}
            BY <2>2
        <3> QED
            BY <2>2, <3>1
    <2>4. E \in SUBSET Nat /\ a + len \in Nat /\ \A y \in E : y <= a + len
        BY <2>2
    <2>5. Max(E) \in E
        BY <2>3, <2>4, GreatestNat
    <2>6. NextRange(s, len) = [start |-> a, end |-> Max(E)]
        BY <1>3 DEF NextRange, a
    <2>7. Max(E) \in a + 1 .. a + len /\ a .. Max(E) - 1 \subseteq s.retransmits
        BY <2>5
    <2> HIDE DEF E
    <2>8. Max(E) - 1 \in s.retransmits /\ Max(E) \in Nat
        BY <2>2, <2>7
    <2>9. Max(E) <= s.offset
        BY <1>1, <2>8
    <2> QED
        BY <1>3, <2>2, <2>6, <2>7, <2>8, <2>9
<1> QED
    BY <1>2, <1>3

LEMMA OpenedIds ==
    ASSUME StreamInv
    PROVE  /\ client.next \in Nat /\ client.next <= Streams
           /\ \A i \in 0 .. client.next - 1 : i \in Ids /\ i \in Nat /\ i < client.next
<1>1. Streams \in Nat
    BY StreamConstants
<1>2. client.next \in Nat /\ client.next <= Len(chances.length)
    BY DEF StreamInv, ClientTyped
<1>3. Len(chances.length) \in Nat /\ Len(chances.length) <= Streams
    BY DEF StreamInv, ChancesTyped
<1>4. client.next <= Streams
    BY <1>1, <1>2, <1>3
<1> QED
    BY <1>1, <1>2, <1>4 DEF Ids

LEMMA TransmitStreamStep ==
    ASSUME StreamInv, NEW i \in DOMAIN sends, NEW len \in 1 .. MaxFrame, TransmitStream(i, len)
    PROVE  StreamInv'
<1> DEFINE s == sends[i]
           r == NextRange(s, len)
           fin == r.end = s.offset /\ s.state = "DataSent"
<1>1. SendOk(s) /\ len \in Nat /\ len > 0
    BY StreamConstants DEF StreamInv, SendsTyped
<1>2. /\ r.start \in Nat /\ r.end \in Nat /\ r.start <= r.end /\ r.end <= s.offset
      /\ s.retransmits # {} => r.start .. r.end - 1 \subseteq s.retransmits
      /\ s.retransmits = {} => r.start = s.unsent
    BY <1>1, NextRangeOk
<1>3. PICK x, f :
         /\ f = [type |-> "STREAM", id |-> i, start |-> r.start, end |-> r.end, fin |-> fin]
         /\ LET p == [slot |-> x, frame |-> f] IN
            sent_packets' = sent_packets \cup {p} /\ in_transit' = in_transit \cup {p}
    BY DEF TransmitStream, Emit
<1> DEFINE p == [slot |-> x, frame |-> f]
           t == [s EXCEPT !.retransmits = s.retransmits \ (r.start .. r.end - 1),
                          !.unsent = IF s.retransmits = {} THEN r.end ELSE s.unsent,
                          !.fin_pending = s.fin_pending /\ ~fin]
<1>4. DOMAIN sends' = DOMAIN sends /\ sends'[i] = t /\ \A j \in DOMAIN sends \ {i} : sends'[j] = sends[j]
    BY DEF TransmitStream
<1>5. i \in Ids /\ i < client.next /\ i \in Nat
    BY OpenedIds DEF StreamInv, SendsTyped
<1>6. fin \in BOOLEAN
    OBVIOUS
<1>7. f \in StreamFrames /\ p.frame = f /\ f.id = i /\ f.start = r.start /\ f.end = r.end /\ f.fin = fin /\ f.type = "STREAM"
    BY <1>2, <1>3, <1>5, <1>6 DEF StreamFrames
<1> DEFINE a == r.start
           b == r.end
<1>8. /\ t.retransmits = s.retransmits \ (a .. b - 1) /\ t.unsent = (IF s.retransmits = {} THEN b ELSE s.unsent)
      /\ DOMAIN t = SendFields /\ t.state = s.state /\ t.offset = s.offset /\ t.max_data = s.max_data
      /\ t.acks = s.acks /\ t.stopped = s.stopped
    BY <1>1 DEF SendOk, SendFields
<1>9. /\ a \in Nat /\ b \in Nat /\ a <= b /\ b <= s.offset
      /\ s.retransmits # {} => a .. b - 1 \subseteq s.retransmits
      /\ s.retransmits = {} => a = s.unsent
    BY <1>2
<1> HIDE DEF t, r, a, b
<1>10. /\ s.offset \in Nat /\ s.unsent \in Nat /\ s.unsent <= s.offset
       /\ s.acks \subseteq 0 .. s.unsent - 1 /\ s.retransmits \subseteq (0 .. s.unsent - 1) \ s.acks
    BY <1>1 DEF SendOk
<1>11. /\ t.unsent \in Nat /\ s.unsent <= t.unsent /\ t.unsent <= s.offset
       /\ a .. b - 1 \subseteq 0 .. t.unsent - 1 /\ (a .. b - 1) \cap (s.acks \cup t.retransmits) = {}
    <2>1. CASE s.retransmits = {}
        BY <1>8, <1>9, <1>10, <2>1
    <2>2. CASE s.retransmits # {}
        BY <1>8, <1>9, <1>10, <2>2
    <2> QED
        BY <2>1, <2>2
<1>12. SendOk(t)
    BY <1>1, <1>8, <1>10, <1>11 DEF SendOk
<1>13. SendsKept
    BY <1>4, <1>8, <1>12, OneSend DEF StreamInv, CreditsAgree
<1>14. ClientKept
    BY ClientCredits DEF TransmitStream, StreamInv, ClientTyped
<1>15. ReceiverKept /\ ChancesKept
    BY NothingReceived, ChancesUsed DEF TransmitStream, recvSide
<1>16. OutstandingCounted'
    <2>1. Outstanding(t) = Outstanding(s)
        BY <1>8 DEF Outstanding
    <2> QED
        BY <1>4, <2>1, CountedSame DEF TransmitStream, StreamInv
<1>17. WaitersTold'
    <2>1. waiting' = waiting /\ client' = client
        BY DEF TransmitStream
    <2>2. \A j \in DOMAIN sends : sends'[j].state = sends[j].state /\ sends'[j].stopped = sends[j].stopped
             /\ sends'[j].offset = sends[j].offset /\ sends'[j].max_data = sends[j].max_data
        BY <1>4, <1>8
    <2> QED
        BY <1>4, <2>1, <2>2 DEF StreamInv, WaitersTold
<1>18. RangeOf(f) = a .. b - 1
    BY <1>7 DEF RangeOf, a, b
<1>19. ASSUME NEW q \in sent_packets, q.frame.type = "STREAM", q.frame.id = i
       PROVE  /\ RangeOf(q.frame) \subseteq 0 .. t.unsent - 1
              /\ RangeOf(q.frame) \cap (t.acks \cup t.retransmits \cup (a .. b - 1)) = {}
    <2>1. RangeOf(q.frame) \subseteq (0 .. s.unsent - 1) \ (s.acks \cup s.retransmits)
        BY <1>19 DEF StreamInv, InFlightOnce
    <2>2. CASE s.retransmits = {}
        BY <1>8, <1>9, <1>10, <1>11, <2>1, <2>2
    <2>3. CASE s.retransmits # {}
        BY <1>8, <1>9, <1>10, <1>11, <2>1, <2>3
    <2> QED
        BY <2>2, <2>3
<1>20. InFlightOnce'
    <2>1. \A q \in sent_packets' : q \in sent_packets \/ q = p
        BY <1>3
    <2>2. ASSUME NEW q \in sent_packets', q.frame.type = "STREAM", q.frame.id \in DOMAIN sends'
          PROVE  RangeOf(q.frame) \subseteq (0 .. sends'[q.frame.id].unsent - 1)
                                   \ (sends'[q.frame.id].acks \cup sends'[q.frame.id].retransmits)
        <3>1. CASE q.frame.id # i
            BY <1>4, <1>7, <2>1, <2>2, <3>1 DEF StreamInv, InFlightOnce
        <3>2. CASE q.frame.id = i /\ q \in sent_packets
            BY <1>4, <1>19, <2>2, <3>2
        <3>3. CASE q = p
            BY <1>4, <1>7, <1>8, <1>11, <1>18, <3>3
        <3> QED
            BY <2>1, <3>1, <3>2, <3>3
    <2>3. ASSUME NEW q \in sent_packets', NEW q2 \in sent_packets', q # q2, q.frame.type = "STREAM",
                 q2.frame.type = "STREAM", q.frame.id = q2.frame.id, q.frame.id \in DOMAIN sends'
          PROVE  RangeOf(q.frame) \cap RangeOf(q2.frame) = {}
        <3>1. CASE q \in sent_packets /\ q2 \in sent_packets
            BY <1>4, <2>3, <3>1 DEF StreamInv, InFlightOnce
        <3>2. CASE q \in sent_packets /\ q2 = p
            BY <1>7, <1>18, <1>19, <2>3, <3>2
        <3>3. CASE q2 \in sent_packets /\ q = p
            BY <1>7, <1>18, <1>19, <2>3, <3>3
        <3> QED
            BY <2>1, <2>3, <3>1, <3>2, <3>3
    <2> QED
        BY <2>2, <2>3 DEF InFlightOnce, RangeOf
<1>21. Brings({p})
    <2>1. FrameTyped(f)
        BY <1>7 DEF FrameTyped
    <2>2. written[i] = s.offset /\ written' = written /\ client' = client /\ recvs' = recvs
        BY DEF TransmitStream, recvSide, StreamInv, SendsTyped
    <2>3. f.fin => f.end = s.offset /\ t.state = "DataSent"
        BY <1>7, <1>8
    <2>4. i \in DOMAIN recvs => f.end <= recvs[i].sent_max
        <3> SUFFICES ASSUME i \in DOMAIN recvs
                     PROVE  f.end <= recvs[i].sent_max
            OBVIOUS
        <3>1. s.max_data <= recvs[i].sent_max /\ s.max_data \in Int /\ s.offset <= s.max_data /\ recvs[i].sent_max \in Int
            BY <1>1 DEF StreamInv, CreditsAgree, SendOk, RecvsTyped, RecvOk
        <3> QED
            BY <1>7, <1>9, <1>10, <3>1 DEF b
    <2>5. /\ f.id < client'.next /\ f.start <= f.end /\ f.end <= written'[f.id]
          /\ f.id \in DOMAIN recvs' => f.end <= recvs'[f.id].sent_max
        BY <1>5, <1>7, <1>9, <2>2, <2>4 DEF a, b
    <2>6. f.fin => f.end = written'[f.id] /\ Ceased(f.id)'
        BY <1>4, <1>7, <2>2, <2>3 DEF Ceased
    <2>7. FrameOk(f)'
        BY <1>7, <2>5, <2>6 DEF FrameOk
    <2>8. sent_packets' = sent_packets \cup {p} /\ in_transit' = in_transit \cup {p}
        BY <1>3
    <2> HIDE DEF p
    <2> QED
        BY <1>7, <2>1, <2>7, <2>8 DEF Brings
<1> QED
    BY <1>13, <1>14, <1>15, <1>16, <1>17, <1>20, <1>21, SenderKeeps

\* Streams as they are, while packets leave and the client is told of more.
LEMMA SendsStay ==
    ASSUME StreamInv, UNCHANGED <<sends, waiting>>, client'.unacked_data = client.unacked_data,
           client.events \subseteq client'.events, client.blocked \subseteq client'.blocked,
           \A p \in sent_packets' : p.frame.type = "STREAM" => p \in sent_packets
    PROVE  SendsKept /\ InFlightOnce' /\ OutstandingCounted' /\ WaitersTold'
<1>1. SendsKept
    BY SameSends
<1>2. InFlightOnce'
    BY FlightStays DEF StreamInv
<1>3. OutstandingCounted'
    BY CountedSame DEF StreamInv
<1>4. WaitersTold'
    BY DEF StreamInv, WaitersTold
<1> QED
    BY <1>1, <1>2, <1>3, <1>4

LEMMA TransmitResetStep ==
    ASSUME StreamInv, NEW i \in Ids, TransmitReset(i)
    PROVE  StreamInv'
<1>1. i \in client.reset /\ UNCHANGED <<sends, written, waiting, server, recvs, taken, chances>>
    BY DEF TransmitReset, recvSide
<1>2. DOMAIN client = ClientFields /\ client.unacked_data \in Int
    BY DEF StreamInv, ClientTyped
<1>3. /\ DOMAIN client' = ClientFields /\ client'.unacked_data = client.unacked_data
      /\ client'.next = client.next /\ client'.max = client.max /\ client'.max_data = client.max_data
      /\ client'.data_sent = client.data_sent /\ client'.send_window = client.send_window
      /\ client'.reset = client.reset \ {i} /\ client'.events = client.events /\ client'.blocked = client.blocked
    BY <1>2 DEF TransmitReset, ClientFields
<1>4. ClientKept
    BY <1>2, <1>3, ClientCredits
<1>5. ReceiverKept /\ ChancesKept
    BY <1>1, NothingReceived, ChancesUsed
<1>6. CASE i \notin DOMAIN sends
    <2>1. UNCHANGED <<sent_packets, in_transit>>
        BY <1>6 DEF TransmitReset, packets
    <2>2. SendsKept /\ InFlightOnce' /\ OutstandingCounted' /\ WaitersTold'
        BY <1>1, <1>3, <2>1, SendsStay
    <2>3. Brings({})
        BY <2>1 DEF Brings
    <2> QED
        BY <1>4, <1>5, <2>2, <2>3, SenderKeeps
<1>7. CASE i \in DOMAIN sends
    <2>1. PICK x, f :
             /\ f = [type |-> "RESET_STREAM", id |-> i, final |-> sends[i].offset]
             /\ LET p == [slot |-> x, frame |-> f] IN
                sent_packets' = sent_packets \cup {p} /\ in_transit' = in_transit \cup {p}
        BY <1>7 DEF TransmitReset, Emit
    <2> DEFINE p == [slot |-> x, frame |-> f]
    <2>2. i < client.next /\ Ceased(i) /\ sends[i].offset = written[i] /\ sends[i].offset \in Nat
        BY <1>1, <1>7 DEF StreamInv, ResetsCeased, SendsTyped, SendOk
    <2>3. f \in ResetFrames /\ p.frame = f /\ f.id = i /\ f.final = written[i] /\ f.type = "RESET_STREAM"
        BY <2>1, <2>2 DEF ResetFrames
    <2>4. sent_packets' = sent_packets \cup {p} /\ in_transit' = in_transit \cup {p}
        BY <2>1
    <2> HIDE DEF p
    <2>5. SendsKept /\ InFlightOnce' /\ OutstandingCounted' /\ WaitersTold'
        BY <1>1, <1>3, <2>3, <2>4, SendsStay
    <2>6. i \in DOMAIN recvs => f.final <= recvs[i].sent_max
        <3> SUFFICES ASSUME i \in DOMAIN recvs
                     PROVE  f.final <= recvs[i].sent_max
            OBVIOUS
        <3>1. /\ sends[i].max_data <= recvs[i].sent_max /\ sends[i].max_data \in Int
              /\ sends[i].offset <= sends[i].max_data /\ recvs[i].sent_max \in Int
            BY <1>7 DEF StreamInv, CreditsAgree, SendsTyped, SendOk, RecvsTyped, RecvOk
        <3> QED
            BY <2>2, <2>3, <3>1
    <2>7. Ceased(f.id)'
        BY <1>1, <2>2, <2>3 DEF Ceased
    <2>8. FrameOk(f)'
        BY <1>1, <1>3, <2>2, <2>3, <2>6, <2>7 DEF FrameOk
    <2>9. Brings({p})
        BY <2>3, <2>4, <2>8 DEF Brings, FrameTyped
    <2> QED
        BY <1>4, <1>5, <2>5, <2>9, SenderKeeps
<1> QED
    BY <1>6, <1>7

\* A packet in flight: its bytes were sent, and are in no other.
LEMMA FlightOf ==
    ASSUME StreamInv, NEW p \in sent_packets, p.frame.type = "STREAM", p.frame.id \in DOMAIN sends
    PROVE  LET f == p.frame
               s == sends[f.id]
           IN  /\ SendOk(s) /\ f \in StreamFrames /\ f.start <= f.end /\ f.start \in Nat /\ f.end \in Nat
               /\ RangeOf(f) \subseteq (0 .. s.unsent - 1) \ (s.acks \cup s.retransmits)
               /\ IsFiniteSet(RangeOf(f)) /\ Cardinality(RangeOf(f)) = f.end - f.start
               /\ \A q \in sent_packets \ {p} : q.frame.type = "STREAM" /\ q.frame.id = f.id =>
                    RangeOf(q.frame) \cap RangeOf(f) = {}
<1> DEFINE f == p.frame
           s == sends[f.id]
<1>1. FrameTyped(f)
    BY DEF StreamInv, PacketsTyped
<1>2. f \in StreamFrames /\ f.start \in Nat /\ f.end \in Nat
    BY <1>1 DEF StreamFrames, FrameTyped
<1>3. f.start <= f.end
    BY DEF StreamInv, WireOk, FrameOk
<1>4. SendOk(s)
    BY DEF StreamInv, SendsTyped
<1>5. RangeOf(f) \subseteq (0 .. s.unsent - 1) \ (s.acks \cup s.retransmits)
    BY DEF StreamInv, InFlightOnce
<1>6. \A q \in sent_packets \ {p} : q.frame.type = "STREAM" /\ q.frame.id = f.id =>
         RangeOf(q.frame) \cap RangeOf(f) = {}
    BY DEF StreamInv, InFlightOnce
<1>7. IsFiniteSet(RangeOf(f)) /\ Cardinality(RangeOf(f)) = f.end - f.start
    BY <1>2, <1>3, RangeCount DEF RangeOf
<1> QED
    BY <1>2, <1>3, <1>4, <1>5, <1>6, <1>7

\* A packet leaves the ones in flight, and what becomes of its bytes is recorded.
LEMMA FlightLeaves ==
    ASSUME StreamInv, NEW p \in sent_packets, p.frame.type = "STREAM", p.frame.id \in DOMAIN sends,
           sent_packets' = sent_packets \ {p},
           \A j \in DOMAIN sends' : j \in DOMAIN sends /\ sends'[j].unsent = sends[j].unsent
             /\ (j # p.frame.id => sends'[j].acks = sends[j].acks /\ sends'[j].retransmits = sends[j].retransmits),
           p.frame.id \in DOMAIN sends' =>
             sends'[p.frame.id].acks \cup sends'[p.frame.id].retransmits
               \subseteq sends[p.frame.id].acks \cup sends[p.frame.id].retransmits \cup RangeOf(p.frame)
    PROVE  InFlightOnce'
<1>1. ASSUME NEW q \in sent_packets', q.frame.type = "STREAM", q.frame.id \in DOMAIN sends'
      PROVE  RangeOf(q.frame) \subseteq (0 .. sends'[q.frame.id].unsent - 1)
                               \ (sends'[q.frame.id].acks \cup sends'[q.frame.id].retransmits)
    <2>1. RangeOf(q.frame) \subseteq (0 .. sends[q.frame.id].unsent - 1)
                               \ (sends[q.frame.id].acks \cup sends[q.frame.id].retransmits)
        BY <1>1 DEF StreamInv, InFlightOnce
    <2>2. CASE q.frame.id # p.frame.id
        BY <1>1, <2>1, <2>2
    <2>3. CASE q.frame.id = p.frame.id
        <3>1. RangeOf(q.frame) \cap RangeOf(p.frame) = {}
            BY <1>1, <2>3 DEF StreamInv, InFlightOnce
        <3> QED
            BY <1>1, <2>1, <2>3, <3>1
    <2> QED
        BY <2>2, <2>3
<1>2. \A q, q2 \in sent_packets' :
         q # q2 /\ q.frame.type = "STREAM" /\ q2.frame.type = "STREAM" /\ q.frame.id = q2.frame.id
         /\ q.frame.id \in DOMAIN sends' => RangeOf(q.frame) \cap RangeOf(q2.frame) = {}
    BY DEF StreamInv, InFlightOnce
<1> QED
    BY <1>1, <1>2 DEF InFlightOnce, RangeOf

LEMMA AckStreamStep ==
    ASSUME StreamInv, NEW p \in sent_packets, Acknowledge(p), p.frame.type = "STREAM",
           p.frame.id \in DOMAIN sends, CountedAck(sends[p.frame.id])
    PROVE  StreamInv'
<1>1. PICK f, k : f = p.frame /\ k = f.id
    OBVIOUS
<1> DEFINE s == sends[k]
           T == RangeOf(f)
           A == s.acks \cup (f.start .. f.end - 1)
           F == s.fin_acked \/ (f.fin /\ s.state = "DataSent")
           t == [s EXCEPT !.acks = A, !.fin_acked = F]
<1>2. /\ SendOk(s) /\ f \in StreamFrames /\ f.start <= f.end /\ f.start \in Nat /\ f.end \in Nat
      /\ T \subseteq (0 .. s.unsent - 1) \ (s.acks \cup s.retransmits)
      /\ IsFiniteSet(T) /\ Cardinality(T) = f.end - f.start
    BY <1>1, FlightOf
<1>3. /\ UNCHANGED <<written, recvs, server, taken, chances, in_transit>>
      /\ sent_packets' = sent_packets \ {p} /\ waiting' = waiting \cap DOMAIN sends' /\ k \in DOMAIN sends
      /\ s.state # "ResetSent"
    BY <1>1 DEF Acknowledge, recvSide, CountedAck
<1>4. AckStream(f)
    BY <1>1 DEF Acknowledge
<1>5. /\ client' = [client EXCEPT !.unacked_data = @ - (f.end - f.start)]
      /\ sends' = IF s.state = "DataSent" /\ t.fin_acked /\ FullyAcked(t)
                  THEN Drop(sends, k) ELSE [sends EXCEPT ![k] = t]
    BY <1>1, <1>3, <1>4 DEF AckStream, CountedAck
<1>6. A = s.acks \cup T
    BY DEF RangeOf
<1> HIDE DEF A, F
<1>7. /\ DOMAIN t = SendFields /\ t.acks = s.acks \cup T /\ t.retransmits = s.retransmits /\ t.unsent = s.unsent
      /\ t.offset = s.offset /\ t.state = s.state /\ t.max_data = s.max_data /\ t.stopped = s.stopped
    BY <1>2, <1>6 DEF SendOk, SendFields
<1> HIDE DEF t, T
<1>8. SendOk(t)
    BY <1>2, <1>7 DEF SendOk
<1>9. /\ DOMAIN client' = ClientFields /\ client'.unacked_data = client.unacked_data - Cardinality(T)
      /\ client'.next = client.next /\ client'.max = client.max /\ client'.max_data = client.max_data
      /\ client'.data_sent = client.data_sent /\ client'.send_window = client.send_window
      /\ client'.reset = client.reset /\ client'.events = client.events /\ client'.blocked = client.blocked
      /\ client.unacked_data \in Int
    BY <1>2, <1>5 DEF StreamInv, ClientTyped, ClientFields
<1>10. ClientKept
    BY <1>2, <1>9, ClientCredits
<1>11. ReceiverKept /\ ChancesKept
    BY <1>3, NothingReceived, ChancesUsed
<1>12. Brings({})
    BY <1>3 DEF Brings
<1>13. T \subseteq Outstanding(s) /\ Outstanding(t) = Outstanding(s) \ T
    <2>1. T \subseteq 0 .. s.offset - 1 /\ T \cap s.acks = {}
        BY <1>2 DEF SendOk
    <2> QED
        BY <1>3, <1>7, <2>1 DEF Outstanding
<1>14. CASE sends' = [sends EXCEPT ![k] = t]
    <2>1. DOMAIN sends' = DOMAIN sends /\ sends'[k] = t /\ \A j \in DOMAIN sends \ {k} : sends'[j] = sends[j]
        BY <1>3, <1>14
    <2>2. SendsKept
        BY <1>3, <1>7, <1>8, <2>1, OneSend DEF StreamInv, CreditsAgree
    <2>3. InFlightOnce'
        BY <1>1, <1>3, <1>7, <2>1, FlightLeaves DEF T
    <2>4. OutstandingCounted'
        BY <1>2, <1>3, <1>9, <1>13, <2>1, CountedLess DEF StreamInv
    <2>5. WaitersTold'
        BY <1>3, <1>7, <1>9, <2>1 DEF StreamInv, WaitersTold
    <2> QED
        BY <1>10, <1>11, <1>12, <2>2, <2>3, <2>4, <2>5, SenderKeeps
<1>15. CASE FullyAcked(t) /\ sends' = Drop(sends, k)
    <2>1. DOMAIN sends' = DOMAIN sends \ {k} /\ \A j \in DOMAIN sends \ {k} : sends'[j] = sends[j]
        BY <1>15 DEF Drop
    <2>2. SendsKept
        BY <2>1 DEF SendsKept, StreamInv, SendsTyped, CreditsAgree
    <2>3. InFlightOnce'
        BY <1>1, <1>3, <2>1, FlightLeaves
    <2>4. Outstanding(s) = T
        <3> DEFINE U == (0 .. t.offset - 1) \ t.acks
        <3>0. t.offset \in Nat
            BY <1>8 DEF SendOk
        <3>1. IsFiniteSet(0 .. t.offset - 1)
            BY <3>0, RangeCount
        <3>2. IsFiniteSet(U)
            BY <3>1, FS_Difference
        <3>3. Cardinality(U) = 0
            BY <1>15 DEF FullyAcked, Unacked
        <3>4. U = {}
            BY <3>2, <3>3, FS_EmptySet
        <3>5. Outstanding(t) = {}
            BY <3>4 DEF Outstanding
        <3> QED
            BY <1>13, <3>5
    <2>5. OutstandingCounted'
        BY <1>2, <1>3, <1>9, <2>1, <2>4, CountedLess DEF StreamInv
    <2>6. WaitersTold'
        BY <1>3, <1>9, <2>1 DEF StreamInv, WaitersTold
    <2> QED
        BY <1>10, <1>11, <1>12, <2>2, <2>3, <2>5, <2>6, SenderKeeps
<1> QED
    BY <1>5, <1>14, <1>15

LEMMA AcknowledgeStep ==
    ASSUME StreamInv, NEW p, Acknowledge(p)
    PROVE  StreamInv'
<1>1. PICK f, k : f = p.frame /\ k = f.id
    OBVIOUS
<1>2. /\ UNCHANGED <<written, recvs, server, taken, chances, in_transit>> /\ p \in sent_packets
      /\ sent_packets' = sent_packets \ {p} /\ waiting' = waiting \cap DOMAIN sends'
    BY DEF Acknowledge, recvSide
<1>3. ReceiverKept /\ ChancesKept
    BY <1>2, NothingReceived, ChancesUsed
<1>4. Brings({})
    BY <1>2 DEF Brings
<1>5. UNCHANGED client => ClientKept
    BY ClientCredits DEF StreamInv, ClientTyped
<1>6. CASE UNCHANGED <<client, sends>>
    <2>1. waiting' = waiting
        BY <1>2, <1>6 DEF StreamInv, WaitersTold
    <2>2. SendsKept /\ InFlightOnce' /\ OutstandingCounted' /\ WaitersTold'
        BY <1>2, <1>6, <2>1, SendsStay
    <2> QED
        BY <1>3, <1>4, <1>5, <1>6, <2>2, SenderKeeps
<1>7. CASE UNCHANGED client /\ k \in DOMAIN sends /\ sends[k].state = "ResetSent" /\ sends' = Drop(sends, k)
    <2>1. DOMAIN sends' = DOMAIN sends \ {k} /\ \A j \in DOMAIN sends \ {k} : sends'[j] = sends[j]
        BY <1>7 DEF Drop
    <2>2. SendsKept
        BY <2>1 DEF SendsKept, StreamInv, SendsTyped, CreditsAgree
    <2>3. InFlightOnce'
        BY <1>2, <2>1, FlightStays DEF StreamInv
    <2>4. OutstandingCounted'
        <3>1. Outstanding(sends[k]) = {}
            BY <1>7 DEF Outstanding
        <3> QED
            BY <1>7, <2>1, <3>1, CountedSame DEF StreamInv
    <2>5. WaitersTold'
        BY <1>2, <1>7, <2>1 DEF StreamInv, WaitersTold
    <2> QED
        BY <1>3, <1>4, <1>5, <1>7, <2>2, <2>3, <2>4, <2>5, SenderKeeps
<1>8. CASE f.type = "RESET_STREAM"
    <2>1. UNCHANGED client /\ sends' = IF k \in DOMAIN sends /\ sends[k].state = "ResetSent" THEN Drop(sends, k) ELSE sends
        BY <1>1, <1>8 DEF Acknowledge
    <2> QED
        BY <1>6, <1>7, <2>1
<1>9. CASE f.type = "STREAM"
    <2>1. AckStream(f)
        BY <1>1, <1>9 DEF Acknowledge
    <2>2. CASE k \in DOMAIN sends /\ CountedAck(sends[k])
        BY <1>1, <1>2, <1>9, <2>2, AckStreamStep
    <2>3. CASE k \notin DOMAIN sends \/ ~CountedAck(sends[k])
        <3>1. UNCHANGED <<client, sends>>
            BY <1>1, <2>1, <2>3 DEF AckStream
        <3> QED
            BY <1>6, <3>1
    <2> QED
        BY <2>2, <2>3
<1> QED
    BY <1>1, <1>8, <1>9 DEF Acknowledge

LEMMA LostStreamStep ==
    ASSUME StreamInv, NEW p \in sent_packets, NEW late \in BOOLEAN, DeclareLost(p, late), p.frame.type = "STREAM",
           p.frame.id \in DOMAIN sends, ReceiverKept, ChancesKept, Brings({}), ClientKept
    PROVE  StreamInv'
<1>1. PICK f, k : f = p.frame /\ k = f.id
    OBVIOUS
<1> DEFINE s == sends[k]
           T == RangeOf(f)
           P == s.fin_pending \/ f.fin
           R == s.retransmits \cup (f.start .. f.end - 1)
           t == [s EXCEPT !.fin_pending = P, !.retransmits = R]
<1>2. /\ SendOk(s) /\ T \subseteq (0 .. s.unsent - 1) \ (s.acks \cup s.retransmits)
    BY <1>1, FlightOf
<1>3. k \in DOMAIN sends /\ client' = client /\ waiting' = waiting /\ sent_packets' = sent_packets \ {p}
    BY <1>1 DEF DeclareLost
<1>4. sends' = [sends EXCEPT ![k] = t]
    BY <1>1, <1>3 DEF DeclareLost
<1>5. R = s.retransmits \cup T
    BY DEF RangeOf
<1> HIDE DEF R, P
<1>6. /\ DOMAIN t = SendFields /\ t.acks = s.acks /\ t.retransmits = s.retransmits \cup T /\ t.unsent = s.unsent
      /\ t.offset = s.offset /\ t.state = s.state /\ t.max_data = s.max_data /\ t.stopped = s.stopped
    BY <1>2, <1>5 DEF SendOk, SendFields
<1> HIDE DEF t, T
<1>7. SendOk(t)
    BY <1>2, <1>6 DEF SendOk
<1>8. DOMAIN sends' = DOMAIN sends /\ sends'[k] = t /\ \A j \in DOMAIN sends \ {k} : sends'[j] = sends[j]
    BY <1>3, <1>4
<1>9. SendsKept
    BY <1>3, <1>6, <1>7, <1>8, OneSend DEF StreamInv, CreditsAgree
<1>10. InFlightOnce'
    BY <1>1, <1>3, <1>6, <1>8, FlightLeaves DEF T
<1>11. OutstandingCounted'
    <2>1. Outstanding(t) = Outstanding(s)
        BY <1>6 DEF Outstanding
    <2> QED
        BY <1>3, <1>8, <2>1, CountedSame DEF StreamInv
<1>12. WaitersTold'
    <2>1. \A j \in DOMAIN sends : sends'[j].state = sends[j].state /\ sends'[j].stopped = sends[j].stopped
             /\ sends'[j].offset = sends[j].offset /\ sends'[j].max_data = sends[j].max_data
        BY <1>6, <1>8
    <2> QED
        BY <1>3, <1>8, <2>1 DEF StreamInv, WaitersTold
<1> QED
    BY <1>9, <1>10, <1>11, <1>12, SenderKeeps

LEMMA DeclareLostStep ==
    ASSUME StreamInv, NEW p, NEW late \in BOOLEAN, DeclareLost(p, late)
    PROVE  StreamInv'
<1>1. PICK f : f = p.frame
    OBVIOUS
<1>2. /\ UNCHANGED <<written, waiting, recvs, taken>> /\ p \in sent_packets
      /\ sent_packets' = sent_packets \ {p} /\ in_transit' \subseteq in_transit
    BY DEF DeclareLost
<1>3. ReceiverKept
    <2>1. DOMAIN server = ServerFields
        BY DEF StreamInv, ServerTyped, ServerOk
    <2>2. PICK v : server' = [server EXCEPT !.pending = v]
        BY DEF DeclareLost
    <2> QED
        BY <1>2, <2>1, <2>2 DEF ReceiverKept, ServerKept, ServerFields
<1>4. ChancesKept
    BY ChancesUsed DEF DeclareLost
<1>5. Brings({})
    BY <1>2 DEF Brings
<1>6. DOMAIN client = ClientFields /\ client.unacked_data \in Int
    BY DEF StreamInv, ClientTyped
<1>7. UNCHANGED client => ClientKept
    BY <1>6, ClientCredits
<1>8. CASE f.type = "STREAM" /\ f.id \in DOMAIN sends
    <2>1. UNCHANGED client
        BY <1>1, <1>8 DEF DeclareLost
    <2> QED
        BY <1>1, <1>2, <1>3, <1>4, <1>5, <1>7, <1>8, <2>1, LostStreamStep
<1>9. CASE ~(f.type = "STREAM" /\ f.id \in DOMAIN sends)
    <2>1. UNCHANGED sends
        BY <1>1, <1>9 DEF DeclareLost
    <2>2. /\ client' = client \/ (f.type = "RESET_STREAM" /\ client' = [client EXCEPT !.reset = client.reset \cup {f.id}])
        BY <1>1 DEF DeclareLost
    <2>3. CASE client' = client
        <3>1. SendsKept /\ InFlightOnce' /\ OutstandingCounted' /\ WaitersTold'
            BY <1>2, <2>1, <2>3, SendsStay
        <3> QED
            BY <1>3, <1>4, <1>5, <1>7, <2>3, <3>1, SenderKeeps
    <2>4. CASE f.type = "RESET_STREAM" /\ client' = [client EXCEPT !.reset = client.reset \cup {f.id}]
        <3>1. /\ DOMAIN client' = ClientFields /\ client'.unacked_data = client.unacked_data
              /\ client'.next = client.next /\ client'.max = client.max /\ client'.max_data = client.max_data
              /\ client'.data_sent = client.data_sent /\ client'.send_window = client.send_window
              /\ client'.reset = client.reset \cup {f.id} /\ client'.events = client.events
              /\ client'.blocked = client.blocked
            BY <1>6, <2>4 DEF ClientFields
        <3>2. SendsKept /\ InFlightOnce' /\ OutstandingCounted' /\ WaitersTold'
            BY <1>2, <2>1, <3>1, SendsStay
        <3>3. f.id \in Nat /\ f.id < client.next /\ Ceased(f.id)'
            <4>1. FrameTyped(f) /\ FrameOk(f)
                BY <1>1, <1>2 DEF StreamInv, PacketsTyped, WireOk
            <4>2. f.id \in Ids
                BY <2>4, <4>1 DEF ResetFrames, FrameTyped
            <4>3. f.id < client.next /\ Ceased(f.id)
                BY <2>4, <4>1 DEF FrameOk
            <4>4. Ceased(f.id)'
                BY <2>1, <4>3 DEF Ceased
            <4> QED
                BY <4>2, <4>3, <4>4, IdsAreNats
        <3>4. ClientKept
            BY <1>6, <3>1, <3>3, ClientCredits
        <3> QED
            BY <1>3, <1>4, <1>5, <3>2, <3>4, SenderKeeps
    <2> QED
        BY <2>2, <2>3, <2>4
<1> QED
    BY <1>8, <1>9

\* MAX_DATA and MAX_STREAMS.
LEMMA CreditStep ==
    ASSUME StreamInv, NEW p, Deliver(p), p.frame.type \in {"MAX_DATA", "MAX_STREAMS"}
    PROVE  StreamInv'
<1>1. PICK f : f = p.frame
    OBVIOUS
<1>2. /\ UNCHANGED <<sends, written, waiting, server, recvs, taken, chances>> /\ p \in in_transit
      /\ sent_packets' = sent_packets \ {p} /\ in_transit' = in_transit \ {p}
      /\ client' = IF f.type = "MAX_DATA" THEN [client EXCEPT !.max_data = Higher(client.max_data, f.max)]
                                          ELSE [client EXCEPT !.max = Higher(client.max, f.max)]
    BY <1>1 DEF Deliver
<1>3. FrameTyped(f) /\ FrameOk(f)
    BY <1>1, <1>2 DEF StreamInv, PacketsTyped, WireOk
<1>4. f.max \in Int /\ (f.type = "MAX_DATA" => f.max <= server.local_max_data)
      /\ (f.type = "MAX_STREAMS" => f.max <= server.max_remote)
    BY <1>1, <1>3 DEF FrameOk, FrameTyped
<1>5. /\ DOMAIN client = ClientFields /\ {client.max, client.max_data, client.unacked_data, client.send_window} \subseteq Int
      /\ client.max <= server.max_remote /\ client.max_data <= server.local_max_data
    BY DEF StreamInv, ClientTyped, CreditsAgree
<1>6. ReceiverKept /\ ChancesKept
    BY <1>2, NothingReceived, ChancesUsed
<1>7. Brings({})
    BY <1>2 DEF Brings
<1>8. /\ DOMAIN client' = ClientFields /\ client'.unacked_data = client.unacked_data
      /\ client'.next = client.next /\ client'.data_sent = client.data_sent /\ client'.send_window = client.send_window
      /\ client'.reset = client.reset /\ client'.events = client.events /\ client'.blocked = client.blocked
      /\ IF f.type = "MAX_DATA" THEN client'.max_data = Higher(client.max_data, f.max) /\ client'.max = client.max
                                ELSE client'.max = Higher(client.max, f.max) /\ client'.max_data = client.max_data
    BY <1>2, <1>5 DEF ClientFields
<1>9. /\ client'.max \in Int /\ client.max <= client'.max /\ client'.max <= server.max_remote
      /\ client'.max_data \in Int /\ client.max_data <= client'.max_data /\ client'.max_data <= server.local_max_data
    BY <1>1, <1>4, <1>5, <1>8 DEF Higher
<1>10. ClientKept
    BY <1>5, <1>8, <1>9 DEF ClientKept
<1>11. SendsKept /\ InFlightOnce' /\ OutstandingCounted' /\ WaitersTold'
    BY <1>2, <1>8, SendsStay
<1> QED
    BY <1>6, <1>7, <1>10, <1>11, SenderKeeps

\* MAX_STREAM_DATA and STOP_SENDING.
LEMMA StreamCreditStep ==
    ASSUME StreamInv, NEW p, Deliver(p), p.frame.type \in {"MAX_STREAM_DATA", "STOP_SENDING"}
    PROVE  StreamInv'
<1>1. PICK f, k : f = p.frame /\ k = f.id
    OBVIOUS
<1>2. /\ UNCHANGED <<written, waiting, server, recvs, taken, chances>> /\ p \in in_transit
      /\ sent_packets' = sent_packets \ {p} /\ in_transit' = in_transit \ {p}
      /\ IF f.type = "STOP_SENDING" THEN ReceiveStop(f) ELSE ReceiveMaxStreamData(f)
    BY <1>1 DEF Deliver
<1>3. FrameTyped(f) /\ FrameOk(f)
    BY <1>1, <1>2 DEF StreamInv, PacketsTyped, WireOk
<1>4. DOMAIN client = ClientFields /\ client.unacked_data \in Int
    BY DEF StreamInv, ClientTyped
<1>5. ReceiverKept /\ ChancesKept
    BY <1>2, NothingReceived, ChancesUsed
<1>6. Brings({})
    BY <1>2 DEF Brings
<1>7. CASE UNCHANGED <<client, sends>>
    <2>1. SendsKept /\ InFlightOnce' /\ OutstandingCounted' /\ WaitersTold'
        BY <1>2, <1>7, SendsStay
    <2>2. ClientKept
        BY <1>4, <1>7, ClientCredits
    <2> QED
        BY <1>5, <1>6, <2>1, <2>2, SenderKeeps
<1> DEFINE s == sends[k]
<1>8. ASSUME NEW t, k \in DOMAIN sends, sends' = [sends EXCEPT ![k] = t], DOMAIN t = SendFields, t.state = s.state,
             t.offset = s.offset, t.unsent = s.unsent, t.acks = s.acks, t.retransmits = s.retransmits,
             t.max_data \in Int, s.max_data <= t.max_data, k \in DOMAIN recvs => t.max_data <= recvs[k].sent_max,
             t.stopped \/ (t.stopped = s.stopped /\ s.max_data = t.max_data) \/ (t.stopped = s.stopped /\ s.offset < s.max_data)
               \/ k \in client'.events \cup client'.blocked,
             \/ client' = client
             \/ \E e : client' = [client EXCEPT !.events = e] /\ client.events \subseteq e
             \/ \E e : client' = [client EXCEPT !.blocked = e] /\ client.blocked \subseteq e
      PROVE  StreamInv'
    <2>1. DOMAIN sends' = DOMAIN sends /\ sends'[k] = t /\ \A j \in DOMAIN sends \ {k} : sends'[j] = sends[j]
        BY <1>8
    <2>2. SendOk(s)
        BY <1>8 DEF StreamInv, SendsTyped
    <2>3. SendOk(t)
        BY <1>8, <2>2 DEF SendOk
    <2>4. SendsKept
        BY <1>8, <2>1, <2>3, OneSend
    <2>5. /\ DOMAIN client' = ClientFields /\ client'.unacked_data = client.unacked_data
          /\ client'.next = client.next /\ client'.max = client.max /\ client'.max_data = client.max_data
          /\ client'.data_sent = client.data_sent /\ client'.send_window = client.send_window
          /\ client'.reset = client.reset /\ client.events \subseteq client'.events
          /\ client.blocked \subseteq client'.blocked
        BY <1>4, <1>8 DEF ClientFields
    <2>6. ClientKept
        BY <1>4, <2>5, ClientCredits
    <2>7. InFlightOnce'
        BY <1>2, <1>8, <2>1, FlightStays DEF StreamInv
    <2>8. OutstandingCounted'
        <3>1. Outstanding(t) = Outstanding(s)
            BY <1>8 DEF Outstanding
        <3> QED
            BY <2>1, <2>5, <3>1, CountedSame DEF StreamInv
    <2>9. WaitersTold'
        <3>1. ASSUME NEW j \in waiting'
              PROVE  /\ j \in DOMAIN sends' /\ sends'[j].state = "Ready"
                     /\ sends'[j].stopped \/ sends'[j].offset = sends'[j].max_data \/ j \in client'.events \cup client'.blocked
            <4>1. /\ j \in DOMAIN sends /\ sends[j].state = "Ready"
                  /\ sends[j].stopped \/ sends[j].offset = sends[j].max_data \/ j \in client.events \cup client.blocked
                BY <1>2, <3>1 DEF StreamInv, WaitersTold
            <4>2. CASE j # k
                BY <2>1, <2>5, <4>1, <4>2
            <4>3. CASE j = k
                <5>1. s.offset \in Nat /\ s.max_data \in Int
                    BY <2>2 DEF SendOk
                <5> QED
                    BY <1>8, <2>1, <2>5, <4>1, <4>3, <5>1
            <4> QED
                BY <4>2, <4>3
        <3> QED
            BY <3>1 DEF WaitersTold
    <2> QED
        BY <1>5, <1>6, <2>4, <2>6, <2>7, <2>8, <2>9, SenderKeeps
<1>9. ASSUME k \in DOMAIN sends
      PROVE  SendOk(s) /\ (k \in DOMAIN recvs => s.max_data <= recvs[k].sent_max)
    BY <1>9 DEF StreamInv, SendsTyped, CreditsAgree
<1>10. ASSUME f.type = "STOP_SENDING", k \in DOMAIN sends, ~s.stopped
       PROVE  StreamInv'
    <2> DEFINE t == [s EXCEPT !.stopped = TRUE]
    <2>1. sends' = [sends EXCEPT ![k] = t] /\ client' = [client EXCEPT !.events = client.events \cup {k}]
        BY <1>1, <1>2, <1>10 DEF ReceiveStop
    <2>2. /\ DOMAIN t = SendFields /\ t.state = s.state /\ t.offset = s.offset /\ t.unsent = s.unsent /\ t.acks = s.acks
          /\ t.retransmits = s.retransmits /\ t.max_data = s.max_data /\ t.stopped /\ s.max_data \in Int
        BY <1>9, <1>10 DEF SendOk, SendFields
    <2> HIDE DEF t
    <2>3. \E e : client' = [client EXCEPT !.events = e] /\ client.events \subseteq e
        BY <2>1
    <2>4. s.max_data <= t.max_data /\ t.max_data \in Int /\ (k \in DOMAIN recvs => t.max_data <= recvs[k].sent_max)
        BY <1>9, <1>10, <2>2
    <2> QED
        BY <1>8, <1>10, <2>1, <2>2, <2>3, <2>4
<1>11. ASSUME f.type = "MAX_STREAM_DATA", k \in DOMAIN sends, f.max > s.max_data, s.state = "Ready"
       PROVE  StreamInv'
    <2> DEFINE B == s.blocked \/ (s.offset = s.max_data /\ WriteLimit(client) = 0)
               t == [s EXCEPT !.max_data = f.max, !.blocked = B]
    <2>1. /\ sends' = [sends EXCEPT ![k] = t]
          /\ client' = IF s.offset = s.max_data THEN Unblocked(k) ELSE client
        BY <1>1, <1>2, <1>11 DEF ReceiveMaxStreamData
    <2> HIDE DEF B
    <2>2. /\ DOMAIN t = SendFields /\ t.state = s.state /\ t.offset = s.offset /\ t.unsent = s.unsent /\ t.acks = s.acks
          /\ t.retransmits = s.retransmits /\ t.max_data = f.max /\ t.stopped = s.stopped
          /\ s.max_data \in Int /\ s.offset <= s.max_data /\ s.offset \in Nat
        BY <1>9, <1>11 DEF SendOk, SendFields
    <2> HIDE DEF t
    <2>3. f.max \in Int /\ (k \in DOMAIN recvs => f.max <= recvs[k].sent_max)
        BY <1>1, <1>3, <1>11 DEF FrameOk, FrameTyped
    <2>4. s.max_data <= t.max_data /\ t.max_data \in Int /\ (k \in DOMAIN recvs => t.max_data <= recvs[k].sent_max)
        BY <1>11, <2>2, <2>3
    <2>5. CASE s.offset # s.max_data
        <3>1. s.offset < s.max_data /\ client' = client
            BY <2>1, <2>2, <2>5
        <3> QED
            BY <1>8, <1>11, <2>1, <2>2, <2>4, <3>1
    <2>6. CASE s.offset = s.max_data
        <3>1. client' = [client EXCEPT !.events = client.events \cup {k}] \/ client' = [client EXCEPT !.blocked = client.blocked \cup {k}]
            BY <2>1, <2>6 DEF Unblocked
        <3>2. k \in client'.events \cup client'.blocked
            BY <1>4, <3>1 DEF ClientFields
        <3>3. \/ \E e : client' = [client EXCEPT !.events = e] /\ client.events \subseteq e
              \/ \E e : client' = [client EXCEPT !.blocked = e] /\ client.blocked \subseteq e
            BY <3>1
        <3> QED
            BY <1>8, <1>11, <2>1, <2>2, <2>4, <3>2, <3>3
    <2> QED
        BY <2>5, <2>6
<1>12. CASE f.type = "STOP_SENDING"
    BY <1>1, <1>2, <1>7, <1>10, <1>12 DEF ReceiveStop
<1>13. CASE f.type = "MAX_STREAM_DATA"
    BY <1>1, <1>2, <1>7, <1>11, <1>13 DEF ReceiveMaxStreamData
<1> QED
    BY <1>1, <1>12, <1>13

-----------------------------------------------------------------------------
(* Opening a stream and writing to it *)

LEMMA OpenStreamStep ==
    ASSUME StreamInv, OpenStream
    PROVE  StreamInv'
<1>1. PICK n : n = client.next
    OBVIOUS
<1>2. PICK w : w = NewSend(server.stream_window)
    OBVIOUS
<1>3. /\ UNCHANGED <<written, waiting, server, recvs, taken, sent_packets, in_transit, chances>>
      /\ client' = [client EXCEPT !.next = n + 1] /\ n < client.max /\ n < Len(chances.length)
      /\ sends' = [i \in DOMAIN sends \cup {n} |-> IF i = n THEN w ELSE sends[i]]
    BY <1>1, <1>2 DEF OpenStream, recvSide, packets
<1>4. /\ n \in Nat /\ DOMAIN client = ClientFields /\ client.max \in Int /\ client.max <= server.max_remote
      /\ server.max_remote \in Nat /\ server.stream_window \in Nat
    BY <1>1 DEF StreamInv, ClientTyped, CreditsAgree, ServerTyped, ServerOk
<1>5. DOMAIN sends' = DOMAIN sends \cup {n} /\ sends'[n] = w /\ \A i \in DOMAIN sends : i # n /\ sends'[i] = sends[i]
    <2>1. n \notin DOMAIN sends
        BY <1>1, <1>4 DEF StreamInv, SendsTyped
    <2> QED
        BY <1>3, <2>1
<1>6. n \in Ids
    <2>1. Len(chances.length) \in Nat /\ Len(chances.length) <= Streams
        BY DEF StreamInv, ChancesTyped
    <2> QED
        BY <1>3, <1>4, <2>1, StreamConstants, IdsAreNats
<1>7. written[n] = 0 /\ written \in [Ids -> Nat]
    BY <1>1, <1>4, <1>6 DEF StreamInv, SendsTyped
<1>8. /\ DOMAIN client' = ClientFields /\ client'.unacked_data = client.unacked_data
      /\ client'.next = n + 1 /\ client'.max = client.max /\ client'.max_data = client.max_data
      /\ client'.data_sent = client.data_sent /\ client'.send_window = client.send_window
      /\ client'.reset = client.reset /\ client'.events = client.events /\ client'.blocked = client.blocked
    BY <1>3, <1>4 DEF ClientFields
<1>9. ClientTyped'
    <2>1. Len(chances.length) \in Nat
        BY DEF StreamInv, ChancesTyped
    <2>2. n + 1 <= client.max /\ n + 1 <= Len(chances.length)
        BY <1>3, <1>4, <2>1
    <2> QED
        BY <1>3, <1>4, <1>8, <2>2 DEF ClientTyped, StreamInv
<1>10. /\ SendOk(w) /\ w.offset = 0 /\ w.max_data = server.stream_window /\ w.unsent = 0 /\ w.acks = {}
       /\ w.retransmits = {} /\ w.state = "Ready"
    BY <1>2, <1>4 DEF NewSend, SendOk, SendFields
<1>11. SendsTyped'
    <2>1. DOMAIN sends \subseteq 0 .. n - 1
        BY <1>1 DEF StreamInv, SendsTyped
    <2>2. DOMAIN sends' \subseteq 0 .. client'.next - 1
        BY <1>4, <1>5, <1>8, <2>1
    <2>3. \A i \in DOMAIN sends' : SendOk(sends'[i]) /\ written'[i] = sends'[i].offset
        BY <1>3, <1>5, <1>7, <1>10 DEF StreamInv, SendsTyped
    <2>4. \A i \in Ids : i >= client'.next => written'[i] = 0
        <3>1. \A i \in Ids : i >= n + 1 => i >= n
            BY <1>4, IdsAreNats
        <3> QED
            BY <1>1, <1>3, <1>8, <3>1 DEF StreamInv, SendsTyped
    <2> QED
        BY <1>3, <1>7, <2>2, <2>3, <2>4 DEF SendsTyped
<1>12. ASSUME NEW i \in Nat, i < n
       PROVE  Ceased(i)' <=> Ceased(i)
    BY <1>4, <1>5, <1>12 DEF Ceased
<1>13. ASSUME NEW i \in Nat
       PROVE  Wrote(i)' = Wrote(i)
    <2>1. CASE i < n
        BY <1>1, <1>3, <1>4, <1>8, <2>1 DEF Wrote
    <2>2. CASE i = n
        BY <1>1, <1>3, <1>4, <1>7, <1>8, <2>2 DEF Wrote
    <2>3. CASE i > n
        BY <1>1, <1>3, <1>4, <1>8, <2>3 DEF Wrote
    <2> QED
        BY <1>4, <2>1, <2>2, <2>3
<1>14. n \in DOMAIN recvs /\ Counted(n) = 0 /\ recvs[n].sent_max >= server.stream_window /\ recvs[n].sent_max \in Int
    <2>1. n \in 0 .. server.max_remote - 1
        BY <1>3, <1>4
    <2>2. n \in DOMAIN recvs
        BY <1>1, <1>4, <2>1 DEF StreamInv, RecvsTyped
    <2>3. /\ RecvOk(recvs[n], n, server.stream_window) /\ recvs[n].end <= 0
          /\ recvs[n].state # "ResetRecvd"
        BY <1>1, <1>4, <2>2 DEF StreamInv, RecvsTyped, Wrote
    <2> QED
        BY <2>2, <2>3 DEF RecvOk, Counted
<1>15. ServerTyped'
    BY <1>3 DEF StreamInv, ServerTyped, ServerOk
<1>16. RecvsTyped'
    <2>1. \A i \in 0 .. server.max_remote - 1 : i \in Nat
        BY <1>4
    <2>2. ASSUME NEW i \in DOMAIN recvs
          PROVE  /\ RecvOk(recvs[i], i, server.stream_window)
                 /\ recvs[i].end <= Wrote(i)'
                 /\ recvs[i].size # -1 => i < client'.next /\ Ceased(i)' /\ recvs[i].size = Wrote(i)'
                 /\ recvs[i].state = "ResetRecvd" => recvs[i].size # -1
        <3>1. i \in Nat
            BY <2>1 DEF StreamInv, RecvsTyped
        <3>2. /\ RecvOk(recvs[i], i, server.stream_window)
              /\ recvs[i].end <= Wrote(i)
              /\ recvs[i].size # -1 => i < n /\ Ceased(i) /\ recvs[i].size = Wrote(i)
              /\ recvs[i].state = "ResetRecvd" => recvs[i].size # -1
            BY <1>1 DEF StreamInv, RecvsTyped
        <3> QED
            BY <1>4, <1>8, <1>12, <1>13, <3>1, <3>2
    <2>3. ASSUME NEW i \in 0 .. server.max_remote - 1, i \notin DOMAIN recvs
          PROVE  i < client'.next /\ Ceased(i)'
        <3>1. i \in Nat /\ i < n /\ Ceased(i)
            BY <1>1, <1>4, <2>3 DEF StreamInv, RecvsTyped
        <3> QED
            BY <1>4, <1>8, <1>12, <3>1
    <2>4. DOMAIN recvs \subseteq 0 .. server.max_remote - 1
        BY DEF StreamInv, RecvsTyped
    <2> QED
        BY <1>3, <2>2, <2>3, <2>4 DEF RecvsTyped
<1>17. Onward
    <2>1. \A i \in 0 .. n - 1 : i \in Ids /\ i \in Nat /\ i < n
        BY <1>1, OpenedIds
    <2>2. \A i \in 0 .. n - 1 : written[i] \in Nat
        BY <1>7, <2>1
    <2>3. \A i \in DOMAIN recvs : recvs[i].sent_max \in Int
        BY DEF StreamInv, RecvsTyped, RecvOk
    <2>4. server.local_max_data \in Int
        BY DEF StreamInv, ServerTyped, ServerOk
    <2> QED
        BY <1>1, <1>3, <1>4, <1>8, <1>12, <2>1, <2>2, <2>3, <2>4 DEF Onward
<1>18. PacketsTyped' /\ WireOk'
    <2>1. Brings({})
        BY <1>3 DEF Brings
    <2> QED
        BY <1>9, <1>15, <1>16, <1>17, <2>1, WireOnward DEF StreamInv, StreamsTyped
<1>19. InFlightOnce'
    <2>1. ASSUME NEW p \in sent_packets, p.frame.type = "STREAM", p.frame.id \in DOMAIN sends'
          PROVE  p.frame.id \in DOMAIN sends
        <3>1. p.frame.id < n
            BY <1>1, <2>1 DEF StreamInv, WireOk, FrameOk
        <3> QED
            BY <1>4, <1>5, <2>1, <3>1
    <2> QED
        BY <1>3, <1>5, <2>1 DEF StreamInv, InFlightOnce, RangeOf
<1>20. SentCounted'
    <2> DEFINE g == [i \in DOMAIN sends |-> Outstanding(sends[i])]
               h == [i \in DOMAIN sends' |-> Outstanding(sends'[i])]
    <2>1. Outstanding(w) = {}
        BY <1>10 DEF Outstanding
    <2>2. \A i : BlockOf(h, i) = BlockOf(g, i)
        BY <1>5, <2>1 DEF BlockOf
    <2>3. OutstandingBytes = Blocks(g) /\ OutstandingBytes' = Blocks(h)
        BY DEF OutstandingBytes, Blocks, Outstanding
    <2> HIDE DEF g, h
    <2>4. OutstandingBytes' = OutstandingBytes
        BY <2>2, <2>3, BlocksSame
    <2>5. WrittenBytes' = WrittenBytes
        BY <1>3 DEF WrittenBytes
    <2> QED
        BY <1>8, <2>4, <2>5 DEF StreamInv, SentCounted
<1>21. WaitersTold'
    BY <1>3, <1>5, <1>8 DEF StreamInv, WaitersTold
<1>22. ResetsCeased'
    <2>1. \A i \in client.reset : i \in Nat /\ i < n /\ Ceased(i)
        BY <1>1 DEF StreamInv, ResetsCeased
    <2> QED
        BY <1>4, <1>8, <1>12, <2>1 DEF ResetsCeased
<1>23. RecvCounted'
    <2>1. \A i : Counted(i)' = Counted(i)
        BY <1>3 DEF Counted
    <2> DEFINE g == [i \in 0 .. n - 1 |-> 0 .. Counted(i) - 1]
               h == [i \in 0 .. (n + 1) - 1 |-> 0 .. Counted(i) - 1]
    <2>2. \A i : BlockOf(h, i) = BlockOf(g, i)
        <3>1. 0 .. (n + 1) - 1 = (0 .. n - 1) \cup {n} /\ n \notin 0 .. n - 1 /\ 0 .. 0 - 1 = {}
            BY <1>4
        <3> QED
            BY <1>14, <3>1 DEF BlockOf
    <2>3. CountedBytes = Blocks(g)
        BY <1>1 DEF CountedBytes
    <2>4. CountedBytes' = Blocks(h)
        BY <1>8, <2>1 DEF CountedBytes, Blocks
    <2> HIDE DEF g, h
    <2>5. CountedBytes' = CountedBytes
        BY <2>2, <2>3, <2>4, BlocksSame
    <2> QED
        BY <1>3, <2>5 DEF StreamInv, RecvCounted
<1>24. CreditsAgree'
    BY <1>3, <1>5, <1>8, <1>10, <1>14 DEF StreamInv, CreditsAgree
<1>25. ReadInOrder'
    BY <1>3, <1>13, IdsAreNats DEF StreamInv, ReadInOrder
<1>26. ChancesTyped'
    BY <1>3 DEF StreamInv, ChancesTyped
<1> QED
    BY <1>9, <1>11, <1>15, <1>16, <1>18, <1>19, <1>20, <1>21, <1>22, <1>23, <1>24, <1>25, <1>26 DEF StreamInv

\* A stream that may be written to is one the server is ready for.
LEMMA ReadyReceived ==
    ASSUME StreamInv, NEW i \in DOMAIN sends, sends[i].state = "Ready"
    PROVE  /\ i \in Ids /\ i \in Nat /\ i < client.next /\ i \in 0 .. client.next - 1
           /\ i \in DOMAIN recvs /\ recvs[i].size = -1 /\ recvs[i].state = "Recv" /\ recvs[i].end \in Nat
<1>1. i \in 0 .. client.next - 1 /\ i \in Ids /\ i \in Nat /\ i < client.next /\ client.next \in Nat
    BY OpenedIds DEF StreamInv, SendsTyped
<1>2. ~Ceased(i)
    BY DEF Ceased
<1>3. i \in 0 .. server.max_remote - 1
    <2>1. client.max \in Int /\ client.next <= client.max /\ client.max <= server.max_remote /\ server.max_remote \in Nat
        BY DEF StreamInv, ClientTyped, CreditsAgree, ServerTyped, ServerOk
    <2> QED
        BY <1>1, <2>1
<1>4. i \in DOMAIN recvs
    BY <1>2, <1>3 DEF StreamInv, RecvsTyped
<1>5. recvs[i].size = -1
    BY <1>2, <1>4 DEF StreamInv, RecvsTyped
<1>6. recvs[i].state = "Recv" /\ recvs[i].end \in Nat
    BY <1>4, <1>5 DEF StreamInv, RecvsTyped, RecvOk
<1> QED
    BY <1>1, <1>4, <1>5, <1>6

\* A write that takes nothing: the application is to be told.
LEMMA BlockedStep ==
    ASSUME StreamInv, NEW i \in DOMAIN sends, sends[i].state = "Ready",
           UNCHANGED <<written, server, recvs, taken, sent_packets, in_transit, chances>>,
           waiting' = waiting \cup {i},
           \/ client' = [client EXCEPT !.blocked = client.blocked \cup {i}] /\ sends' = [sends EXCEPT ![i].blocked = TRUE]
           \/ UNCHANGED <<client, sends>> /\ sends[i].offset = sends[i].max_data
    PROVE  StreamInv'
<1>1. DOMAIN client = ClientFields /\ client.unacked_data \in Int
    BY DEF StreamInv, ClientTyped
<1>2. ReceiverKept /\ ChancesKept
    BY NothingReceived, ChancesUsed
<1>3. Brings({})
    BY DEF Brings
<1>4. CASE UNCHANGED <<client, sends>> /\ sends[i].offset = sends[i].max_data
    <2>1. ClientKept
        BY <1>1, <1>4, ClientCredits
    <2>2. SendsKept
        BY <1>4, SameSends
    <2>3. InFlightOnce'
        BY <1>4, FlightStays DEF StreamInv
    <2>4. OutstandingCounted'
        BY <1>4, CountedSame DEF StreamInv
    <2>5. WaitersTold'
        BY <1>4 DEF StreamInv, WaitersTold
    <2> QED
        BY <1>2, <1>3, <2>1, <2>2, <2>3, <2>4, <2>5, SenderKeeps
<1>5. CASE client' = [client EXCEPT !.blocked = client.blocked \cup {i}] /\ sends' = [sends EXCEPT ![i].blocked = TRUE]
    <2> DEFINE s == sends[i]
               t == [s EXCEPT !.blocked = TRUE]
    <2>1. DOMAIN sends' = DOMAIN sends /\ sends'[i] = t /\ \A j \in DOMAIN sends \ {i} : sends'[j] = sends[j]
        BY <1>5
    <2>2. SendOk(s)
        BY DEF StreamInv, SendsTyped
    <2>3. /\ SendOk(t) /\ t.offset = s.offset /\ t.max_data = s.max_data /\ t.unsent = s.unsent /\ t.acks = s.acks
          /\ t.retransmits = s.retransmits /\ t.state = s.state /\ t.stopped = s.stopped
        BY <2>2 DEF SendOk, SendFields
    <2> HIDE DEF t
    <2>4. SendsKept
        BY <2>1, <2>3, OneSend DEF StreamInv, CreditsAgree
    <2>5. /\ DOMAIN client' = ClientFields /\ client'.unacked_data = client.unacked_data
          /\ client'.next = client.next /\ client'.max = client.max /\ client'.max_data = client.max_data
          /\ client'.data_sent = client.data_sent /\ client'.send_window = client.send_window
          /\ client'.reset = client.reset /\ client'.events = client.events
          /\ client'.blocked = client.blocked \cup {i}
        BY <1>1, <1>5 DEF ClientFields
    <2>6. ClientKept
        BY <1>1, <2>5, ClientCredits
    <2>7. InFlightOnce'
        BY <2>1, <2>3, FlightStays DEF StreamInv
    <2>8. OutstandingCounted'
        <3>1. Outstanding(t) = Outstanding(s)
            BY <2>3 DEF Outstanding
        <3> QED
            BY <2>1, <2>5, <3>1, CountedSame DEF StreamInv
    <2>9. WaitersTold'
        BY <2>1, <2>3, <2>5 DEF StreamInv, WaitersTold
    <2> QED
        BY <1>2, <1>3, <2>4, <2>6, <2>7, <2>8, <2>9, SenderKeeps
<1> QED
    BY <1>4, <1>5

\* A write that takes m bytes, within all credits.
LEMMA WrittenStep ==
    ASSUME StreamInv, NEW i \in DOMAIN sends, sends[i].state = "Ready", NEW m \in Nat,
           UNCHANGED <<server, recvs, taken, sent_packets, in_transit, chances>>,
           sends[i].offset + m <= sends[i].max_data, client.data_sent + m <= client.max_data,
           sends' = [sends EXCEPT ![i].offset = @ + m],
           client' = [client EXCEPT !.data_sent = @ + m, !.unacked_data = @ + m],
           written' = [written EXCEPT ![i] = @ + m],
           waiting' = waiting \ {i}
    PROVE  StreamInv'
<1>1. PICK s : s = sends[i]
    OBVIOUS
<1>2. /\ i \in Ids /\ i \in Nat /\ i < client.next /\ i \in 0 .. client.next - 1
      /\ i \in DOMAIN recvs /\ recvs[i].size = -1 /\ recvs[i].state = "Recv" /\ recvs[i].end \in Nat
    BY ReadyReceived
<1>3. /\ SendOk(s) /\ s.offset = written[i] /\ s.state = "Ready" /\ s.offset \in Nat /\ s.acks \subseteq 0 .. s.offset - 1
      /\ s.unsent \in 0 .. s.offset
    <2>1. SendOk(s) /\ s.offset = written[i] /\ s.state = "Ready"
        BY <1>1 DEF StreamInv, SendsTyped
    <2> QED
        BY <2>1 DEF SendOk
<1> DEFINE o == s.offset + m
           t == [s EXCEPT !.offset = o]
<1>4. DOMAIN sends' = DOMAIN sends /\ sends'[i] = t /\ \A j \in DOMAIN sends \ {i} : sends'[j] = sends[j]
    BY <1>1
<1>5. o \in Nat /\ s.offset <= o /\ o <= s.max_data
    BY <1>1, <1>3
<1>6. /\ DOMAIN t = SendFields /\ t.offset = o /\ t.state = "Ready" /\ t.unsent = s.unsent /\ t.acks = s.acks
      /\ t.retransmits = s.retransmits /\ t.max_data = s.max_data /\ t.stopped = s.stopped
    BY <1>3 DEF SendOk, SendFields
<1> HIDE DEF t
<1>7. SendOk(t)
    BY <1>3, <1>5, <1>6 DEF SendOk
<1>8. written \in [Ids -> Nat] /\ written' \in [Ids -> Nat] /\ written'[i] = o /\ \A j \in Ids \ {i} : written'[j] = written[j]
    <2>1. written \in [Ids -> Nat]
        BY DEF StreamInv, SendsTyped
    <2>2. written' = [written EXCEPT ![i] = o]
        BY <1>2, <1>3, <2>1
    <2> QED
        BY <1>2, <1>5, <2>1, <2>2
<1>9. /\ {client.data_sent, client.unacked_data, client.max_data} \subseteq Int /\ DOMAIN client = ClientFields
    BY DEF StreamInv, ClientTyped
<1>10. /\ DOMAIN client' = ClientFields /\ client'.unacked_data = client.unacked_data + m
       /\ client'.next = client.next /\ client'.max = client.max /\ client'.max_data = client.max_data
       /\ client'.data_sent = client.data_sent + m /\ client'.send_window = client.send_window
       /\ client'.reset = client.reset /\ client'.events = client.events /\ client'.blocked = client.blocked
    BY <1>9 DEF ClientFields
<1>11. ClientTyped'
    BY <1>9, <1>10 DEF StreamInv, ClientTyped
<1>12. SendsTyped'
    <2>1. \A j \in DOMAIN sends : j \in Ids
        BY OpenedIds DEF StreamInv, SendsTyped
    <2>2. \A j \in DOMAIN sends' : SendOk(sends'[j]) /\ written'[j] = sends'[j].offset
        BY <1>4, <1>6, <1>7, <1>8, <2>1 DEF StreamInv, SendsTyped
    <2>3. \A j \in Ids : j >= client'.next => written'[j] = 0
        BY <1>2, <1>8, <1>10, OpenedIds DEF StreamInv, SendsTyped
    <2> QED
        BY <1>4, <1>8, <1>10, <2>2, <2>3 DEF StreamInv, SendsTyped
<1>13. \A j : Ceased(j)' <=> Ceased(j)
    BY <1>1, <1>3, <1>4, <1>6 DEF Ceased
<1>14. \A j \in Nat : j # i => Wrote(j)' = Wrote(j)
    <2>1. ASSUME NEW j \in Nat, j # i, j < client.next
          PROVE  written'[j] = written[j]
        BY <1>8, <2>1, OpenedIds
    <2> QED
        BY <1>10, <2>1 DEF Wrote
<1>15. Wrote(i)' = o /\ Wrote(i) = s.offset
    BY <1>2, <1>3, <1>8, <1>10 DEF Wrote
<1>16. ServerTyped'
    BY DEF StreamInv, ServerTyped, ServerOk
<1>17. RecvsTyped'
    <2>1. DOMAIN recvs \subseteq 0 .. server.max_remote - 1 /\ server.max_remote \in Nat
        BY DEF StreamInv, RecvsTyped, ServerTyped, ServerOk
    <2>2. ASSUME NEW j \in DOMAIN recvs
          PROVE  /\ RecvOk(recvs[j], j, server.stream_window)
                 /\ recvs[j].end <= Wrote(j)'
                 /\ recvs[j].size # -1 => j < client'.next /\ Ceased(j)' /\ recvs[j].size = Wrote(j)'
                 /\ recvs[j].state = "ResetRecvd" => recvs[j].size # -1
        <3>1. j \in Nat
            BY <2>1
        <3>2. /\ RecvOk(recvs[j], j, server.stream_window)
              /\ recvs[j].end <= Wrote(j)
              /\ recvs[j].size # -1 => j < client.next /\ Ceased(j) /\ recvs[j].size = Wrote(j)
              /\ recvs[j].state = "ResetRecvd" => recvs[j].size # -1
            BY DEF StreamInv, RecvsTyped
        <3>3. CASE j # i
            BY <1>10, <1>13, <1>14, <3>1, <3>2, <3>3
        <3>4. CASE j = i
            BY <1>2, <1>3, <1>5, <1>15, <3>2, <3>4
        <3> QED
            BY <3>3, <3>4
    <2> QED
        BY <1>10, <1>13, <2>1, <2>2 DEF StreamInv, RecvsTyped
<1>18. Onward
    <2>1. \A j \in 0 .. client.next - 1 : j \in Ids /\ j \in Nat /\ client.next \in Nat
        BY OpenedIds
    <2>2. \A j \in DOMAIN recvs : recvs[j].sent_max \in Int
        BY DEF StreamInv, RecvsTyped, RecvOk
    <2>3. server.local_max_data \in Int /\ server.max_remote \in Nat
        BY DEF StreamInv, ServerTyped, ServerOk
    <2>4. ~Ceased(i)
        BY <1>1, <1>3 DEF Ceased
    <2>5. ASSUME NEW j \in 0 .. client.next - 1
          PROVE  written'[j] \in Nat /\ written'[j] >= written[j] /\ (Ceased(j) => Ceased(j)' /\ written'[j] = written[j])
        <3>1. CASE j = i
            BY <1>3, <1>5, <1>8, <2>4, <3>1
        <3>2. CASE j # i
            BY <1>8, <1>13, <2>1, <3>2
        <3> QED
            BY <3>1, <3>2
    <2>6. client'.next >= client.next
        BY <1>10, OpenedIds
    <2> QED
        BY <2>2, <2>3, <2>5, <2>6 DEF Onward
<1>19. PacketsTyped' /\ WireOk'
    <2>1. Brings({})
        BY DEF Brings
    <2> QED
        BY <1>11, <1>16, <1>17, <1>18, <2>1, WireOnward DEF StreamInv, StreamsTyped
<1>20. InFlightOnce'
    BY <1>1, <1>4, <1>6, FlightStays DEF StreamInv
<1> DEFINE T == s.offset .. o - 1
<1>21. IsFiniteSet(T) /\ Cardinality(T) = m
    BY <1>3, <1>5, RangeCount
<1>22. 0 .. o - 1 = (0 .. s.offset - 1) \cup T /\ (0 .. s.offset - 1) \cap T = {}
    BY <1>3, <1>5
<1>23. IsFiniteSet(OutstandingBytes') /\ Cardinality(OutstandingBytes') = Cardinality(OutstandingBytes) + m
    <2> DEFINE g == [j \in DOMAIN sends |-> Outstanding(sends[j])]
               h == [j \in DOMAIN sends' |-> Outstanding(sends'[j])]
    <2>1. Outstanding(s) \cap T = {} /\ Outstanding(t) = Outstanding(s) \cup T
        <3>1. T \cap s.acks = {}
            BY <1>3, <1>22
        <3> HIDE DEF T
        <3> QED
            BY <1>3, <1>6, <1>22, <3>1 DEF Outstanding
    <2>2. BlockOf(g, i) = Outstanding(s) /\ BlockOf(h, i) = Outstanding(t)
        BY <1>1, <1>4 DEF BlockOf
    <2>3. \A j : j # i => BlockOf(h, j) = BlockOf(g, j)
        BY <1>4 DEF BlockOf
    <2>4. OutstandingBytes = Blocks(g) /\ OutstandingBytes' = Blocks(h)
        BY DEF OutstandingBytes, Blocks, Outstanding
    <2> HIDE DEF g, h, T
    <2>5. Adds(g, h, i, T)
        BY <2>1, <2>2, <2>3 DEF Adds
    <2>6. IsFiniteSet(Blocks(g))
        BY <2>4 DEF StreamInv, SentCounted
    <2> QED
        BY <1>21, <2>4, <2>5, <2>6, BlocksGrow
<1>24. IsFiniteSet(WrittenBytes') /\ Cardinality(WrittenBytes') = Cardinality(WrittenBytes) + m
    <2> DEFINE g == [j \in Ids |-> 0 .. written[j] - 1]
               h == [j \in Ids |-> 0 .. written'[j] - 1]
    <2>1. BlockOf(g, i) = 0 .. s.offset - 1 /\ BlockOf(h, i) = 0 .. o - 1
        BY <1>2, <1>3, <1>8 DEF BlockOf
    <2>2. \A j : j # i => BlockOf(h, j) = BlockOf(g, j)
        BY <1>8 DEF BlockOf
    <2>3. WrittenBytes = Blocks(g) /\ WrittenBytes' = Blocks(h)
        BY DEF WrittenBytes, Blocks
    <2> HIDE DEF g, h, T
    <2>4. Adds(g, h, i, T)
        BY <1>22, <2>1, <2>2 DEF Adds
    <2>5. IsFiniteSet(Blocks(g))
        BY <2>3 DEF StreamInv, SentCounted
    <2> QED
        BY <1>21, <2>3, <2>4, <2>5, BlocksGrow
<1>25. SentCounted'
    BY <1>10, <1>23, <1>24 DEF StreamInv, SentCounted
<1>26. WaitersTold'
    <2>1. \A j \in waiting' : j \in waiting /\ j # i
        OBVIOUS
    <2> QED
        BY <1>4, <1>10, <2>1 DEF StreamInv, WaitersTold
<1>27. ResetsCeased'
    BY <1>10, <1>13 DEF StreamInv, ResetsCeased
<1>28. RecvCounted'
    <2>1. \A j \in 0 .. client.next - 1 : Counted(j)' = Counted(j)
        <3>1. \A j \in 0 .. client.next - 1 : j \in Ids
            BY OpenedIds
        <3> QED
            BY <1>2, <1>8, <3>1 DEF Counted
    <2>2. CountedBytes' = CountedBytes
        BY <1>10, <2>1 DEF CountedBytes, Blocks
    <2> QED
        BY <2>2 DEF StreamInv, RecvCounted
<1>29. CreditsAgree'
    <2>1. \A j \in DOMAIN sends : sends'[j].max_data = sends[j].max_data
        BY <1>1, <1>4, <1>6
    <2> QED
        BY <1>4, <1>10, <2>1 DEF StreamInv, CreditsAgree
<1>30. ReadInOrder'
    <2>1. \A j \in Ids : Wrote(j)' \in Nat /\ Wrote(j) \in Nat /\ Wrote(j)' >= Wrote(j)
        <3>1. \A j \in Ids : Wrote(j) \in Nat
            BY <1>8 DEF Wrote
        <3> QED
            BY <1>3, <1>5, <1>14, <1>15, <3>1, IdsAreNats
    <2>2. \A j \in Ids : 0 .. Wrote(j) \subseteq 0 .. Wrote(j)'
        BY <2>1
    <2> QED
        BY <2>2 DEF StreamInv, ReadInOrder
<1>31. ChancesTyped'
    BY DEF StreamInv, ChancesTyped
<1> QED
    BY <1>11, <1>12, <1>16, <1>17, <1>19, <1>20, <1>25, <1>26, <1>27, <1>28, <1>29, <1>30, <1>31 DEF StreamInv

Appends(i) == UNCHANGED written \/ \E m \in Nat : written' = [written EXCEPT ![i] = @ + m]

LEMMA WriteStep ==
    ASSUME StreamInv, NEW i \in DOMAIN sends, NEW n \in 1 .. MaxFrame, Write(i, n)
    PROVE  StreamInv' /\ Appends(i)
<1> DEFINE s == sends[i]
           limit == WriteLimit(client)
           room == s.max_data - s.offset
           left == chances.length[i + 1] - s.offset
           S == {n, limit, room, left}
           m == Min(S)
<1>1. /\ UNCHANGED <<server, recvs, taken, sent_packets, in_transit, chances>> /\ s.state = "Ready"
      /\ s.offset < chances.length[i + 1]
    BY DEF Write, recvSide, packets
<1>2. SendOk(s) /\ s.offset \in Nat /\ s.max_data \in Int
    BY DEF StreamInv, SendsTyped, SendOk
<1>3. CASE limit = 0 /\ UNCHANGED written
    <2>1. /\ client' = [client EXCEPT !.blocked = client.blocked \cup {i}] /\ sends' = [sends EXCEPT ![i].blocked = TRUE]
          /\ waiting' = waiting \cup {i}
        BY <1>3 DEF Write
    <2> QED
        BY <1>1, <1>3, <2>1, BlockedStep DEF Appends
<1>4. CASE limit > 0 /\ room = 0 /\ UNCHANGED <<client, sends, written>> /\ waiting' = waiting \cup {i}
    <2>1. s.offset = s.max_data
        BY <1>2, <1>4
    <2> QED
        BY <1>1, <1>4, <2>1, BlockedStep DEF Appends
<1>5. ASSUME limit > 0, room > 0, sends' = [sends EXCEPT ![i].offset = @ + m],
             client' = [client EXCEPT !.data_sent = @ + m, !.unacked_data = @ + m],
             written' = [written EXCEPT ![i] = @ + m], waiting' = waiting \ {i}
      PROVE  StreamInv' /\ Appends(i)
    <2>1. /\ {client.max_data, client.data_sent, client.send_window, client.unacked_data} \subseteq Int
          /\ client.next \in Nat /\ client.next <= Len(chances.length) /\ chances.length \in Seq(Nat)
        BY DEF StreamInv, ClientTyped, ChancesTyped
    <2>2. limit \in Nat /\ limit <= client.max_data - client.data_sent
        BY <1>5, <2>1 DEF WriteLimit
    <2>3. left \in Nat
        <3>1. i \in Nat /\ i < client.next
            BY <1>1, ReadyReceived
        <3>2. i + 1 \in 1 .. Len(chances.length)
            BY <2>1, <3>1
        <3>3. chances.length[i + 1] \in Nat
            BY <2>1, <3>2
        <3> QED
            BY <1>1, <1>2, <3>3
    <2>4. room \in Nat
        BY <1>2, <1>5
    <2>5. n \in Nat
        BY StreamConstants
    <2> HIDE DEF limit, left, room
    <2>6. S \in SUBSET Nat /\ S # {}
        BY <2>2, <2>3, <2>4, <2>5
    <2>7. m \in S /\ m <= limit /\ m <= room
        BY <2>6, LeastNat
    <2>8. m \in Nat
        BY <2>6, <2>7
    <2> HIDE DEF m
    <2>9. client.data_sent + m <= client.max_data
        BY <2>1, <2>2, <2>7, <2>8
    <2>10. s.offset + m <= s.max_data
        BY <1>2, <2>4, <2>7, <2>8 DEF room
    <2> QED
        BY <1>1, <1>5, <2>8, <2>9, <2>10, WrittenStep DEF Appends
<1> QED
    BY <1>3, <1>4, <1>5 DEF Write

-----------------------------------------------------------------------------
(* The receiving side *)

\* The server takes no credit back, ...
ServerMoves ==
    /\ ServerTyped'
    /\ server'.stream_window = server.stream_window
    /\ server'.local_max_data >= server.local_max_data /\ server'.max_remote >= server.max_remote

\* ... and of its streams one, k, changes or is freed, while new ones may be opened by the client.
RecvsMoved(k) ==
    /\ \A i \in DOMAIN recvs : i # k => i \in DOMAIN recvs' /\ recvs'[i] = recvs[i]
    /\ \A i \in DOMAIN recvs' :
         i \in DOMAIN recvs \/ (i \in server.max_remote .. server'.max_remote - 1
                                 /\ recvs'[i] = NewRecv(server.stream_window))
    /\ server.max_remote .. server'.max_remote - 1 \subseteq DOMAIN recvs'

\* What is known of a stream's Recv.
RecvFits(r, i) ==
    /\ RecvOk(r, i, server.stream_window)
    /\ r.end <= Wrote(i)
    /\ r.size # -1 => i < client.next /\ Ceased(i) /\ r.size = Wrote(i)
    /\ r.state = "ResetRecvd" => r.size # -1

LEMMA ReceiverKeeps ==
    ASSUME StreamInv, UNCHANGED <<client, sends, written, waiting>>, ChancesKept,
           ServerMoves, RecvsTyped', RecvCounted', ReadInOrder',
           \A i \in 0 .. server.max_remote - 1 :
             i \in DOMAIN recvs' => i \in DOMAIN recvs /\ recvs'[i].sent_max >= recvs[i].sent_max,
           \A p \in sent_packets' : p.frame.type = "STREAM" => p \in sent_packets,
           NEW Q, Brings(Q)
    PROVE  StreamInv'
<1>1. ServerTyped' /\ ChancesTyped'
    BY DEF ServerMoves, ChancesKept
<1>2. ClientTyped'
    BY DEF StreamInv, ClientTyped, ChancesKept
<1>3. SendsTyped'
    BY DEF StreamInv, SendsTyped
<1>4. SentCounted' /\ WaitersTold'
    <2>1. OutstandingBytes' = OutstandingBytes /\ WrittenBytes' = WrittenBytes
        BY DEF OutstandingBytes, WrittenBytes
    <2> QED
        BY <2>1 DEF StreamInv, SentCounted, WaitersTold
<1>5. \A i : Ceased(i)' <=> Ceased(i)
    BY DEF Ceased
<1>6. ResetsCeased'
    BY <1>5 DEF StreamInv, ResetsCeased
<1>7. InFlightOnce'
    BY FlightStays DEF StreamInv
<1>8. Onward
    <2>1. \A i \in 0 .. client.next - 1 : i \in Ids /\ client.next \in Nat
        BY OpenedIds
    <2>2. \A i \in 0 .. client.next - 1 : written[i] \in Nat
        BY <2>1 DEF StreamInv, SendsTyped
    <2>3. client.next \in Int
        BY OpenedIds
    <2> QED
        BY <1>5, <2>2, <2>3 DEF Onward, ServerMoves
<1>9. PacketsTyped' /\ WireOk'
    BY <1>1, <1>2, <1>8, WireOnward DEF StreamInv, StreamsTyped
<1>10. CreditsAgree'
    <2>1. /\ client.max \in Int /\ client.max_data \in Int /\ client.next \in Nat /\ client.next <= client.max
          /\ client.max <= server.max_remote /\ client.max_data <= server.local_max_data
          /\ server.max_remote \in Nat /\ server.local_max_data \in Int
          /\ server'.max_remote \in Nat /\ server'.local_max_data \in Int
        BY <1>1 DEF StreamInv, ClientTyped, CreditsAgree, ServerTyped, ServerOk
    <2>2. client.max <= server'.max_remote /\ client.max_data <= server'.local_max_data
        BY <2>1 DEF ServerMoves
    <2>3. ASSUME NEW i \in DOMAIN sends, i \in DOMAIN recvs'
          PROVE  sends[i].max_data <= recvs'[i].sent_max
        <3>1. i \in 0 .. server.max_remote - 1
            <4>1. i \in 0 .. client.next - 1
                BY DEF StreamInv, SendsTyped
            <4> QED
                BY <2>1, <4>1
        <3>2. i \in DOMAIN recvs /\ recvs'[i].sent_max >= recvs[i].sent_max
            BY <2>3, <3>1
        <3>3. sends[i].max_data <= recvs[i].sent_max /\ sends[i].max_data \in Int /\ recvs[i].sent_max \in Int
            BY <3>2 DEF StreamInv, CreditsAgree, SendsTyped, SendOk, RecvsTyped, RecvOk
        <3>4. recvs'[i].sent_max \in Int
            BY <2>3 DEF RecvsTyped, RecvOk
        <3> QED
            BY <3>2, <3>3, <3>4
    <2> QED
        BY <2>2, <2>3 DEF CreditsAgree
<1> QED
    BY <1>1, <1>2, <1>3, <1>4, <1>6, <1>7, <1>9, <1>10 DEF StreamInv

LEMMA NewRecvFits ==
    ASSUME StreamInv, NEW i \in Nat, i >= server.max_remote
    PROVE  RecvFits(NewRecv(server.stream_window), i) /\ ~(i < client.next)
<1>1. /\ client.next \in Nat /\ client.max \in Int /\ client.next <= client.max /\ client.max <= server.max_remote
      /\ server.max_remote \in Nat /\ server.stream_window \in Nat
    BY DEF StreamInv, ClientTyped, CreditsAgree, ServerTyped, ServerOk
<1>2. ~(i < client.next) /\ Wrote(i) = 0
    BY <1>1 DEF Wrote
<1>3. RecvOk(NewRecv(server.stream_window), i, server.stream_window)
    BY <1>1 DEF NewRecv, RecvOk, RecvFields
<1> QED
    BY <1>2, <1>3 DEF RecvFits, NewRecv

\* The table of Recvs after such a step.
LEMMA RecvsKept ==
    ASSUME StreamInv, UNCHANGED <<client, sends, written>>, ServerMoves, NEW k, RecvsMoved(k),
           k \in DOMAIN recvs =>
             IF k \in DOMAIN recvs' THEN RecvFits(recvs'[k], k) /\ recvs'[k].sent_max >= recvs[k].sent_max
                                    ELSE k < client.next /\ Ceased(k)
    PROVE  /\ RecvsTyped'
           /\ \A i \in 0 .. server.max_remote - 1 :
                i \in DOMAIN recvs' => i \in DOMAIN recvs /\ recvs'[i].sent_max >= recvs[i].sent_max
<1>1. /\ server.max_remote \in Nat /\ server'.max_remote \in Nat /\ server'.max_remote >= server.max_remote
      /\ server'.stream_window = server.stream_window
    BY DEF StreamInv, ServerMoves, ServerTyped, ServerOk
<1>2. DOMAIN recvs \subseteq 0 .. server.max_remote - 1 /\ \A i \in DOMAIN recvs : RecvFits(recvs[i], i)
    BY DEF StreamInv, RecvsTyped, RecvFits
<1>3. \A i : (Wrote(i)' = Wrote(i)) /\ (Ceased(i)' <=> Ceased(i))
    BY DEF Wrote, Ceased
<1>4. ASSUME NEW i \in DOMAIN recvs'
      PROVE  RecvFits(recvs'[i], i)
    <2>1. CASE i \in DOMAIN recvs
        BY <1>2, <1>4, <2>1 DEF RecvsMoved
    <2>2. CASE i \notin DOMAIN recvs
        <3>1. i \in server.max_remote .. server'.max_remote - 1 /\ recvs'[i] = NewRecv(server.stream_window)
            BY <1>4, <2>2 DEF RecvsMoved
        <3>2. i \in Nat /\ i >= server.max_remote
            BY <1>1, <3>1
        <3> QED
            BY <3>1, <3>2, NewRecvFits
    <2> QED
        BY <2>1, <2>2
<1>5. DOMAIN recvs' \subseteq 0 .. server'.max_remote - 1
    <2>1. ASSUME NEW i \in DOMAIN recvs'
          PROVE  i \in 0 .. server'.max_remote - 1
        <3>1. i \in 0 .. server.max_remote - 1 \/ i \in server.max_remote .. server'.max_remote - 1
            BY <1>2, <2>1 DEF RecvsMoved
        <3> QED
            BY <1>1, <3>1
    <2> QED
        BY <2>1
<1>6. ASSUME NEW i \in 0 .. server'.max_remote - 1, i \notin DOMAIN recvs'
      PROVE  i < client.next /\ Ceased(i)
    <2>1. i \in 0 .. server.max_remote - 1
        BY <1>1, <1>6 DEF RecvsMoved
    <2>2. CASE i \in DOMAIN recvs
        BY <1>6, <2>2 DEF RecvsMoved
    <2>3. CASE i \notin DOMAIN recvs
        BY <2>1, <2>3 DEF StreamInv, RecvsTyped
    <2> QED
        BY <2>2, <2>3
<1>7. RecvsTyped'
    <2>1. ASSUME NEW i \in DOMAIN recvs'
          PROVE  /\ RecvOk(recvs'[i], i, server'.stream_window)
                 /\ recvs'[i].end <= Wrote(i)'
                 /\ recvs'[i].size # -1 => i < client'.next /\ Ceased(i)' /\ recvs'[i].size = Wrote(i)'
                 /\ recvs'[i].state = "ResetRecvd" => recvs'[i].size # -1
        BY <1>1, <1>3, <1>4, <2>1 DEF RecvFits
    <2> QED
        BY <1>3, <1>5, <1>6, <2>1 DEF RecvsTyped
<1>8. ASSUME NEW i \in 0 .. server.max_remote - 1, i \in DOMAIN recvs'
      PROVE  i \in DOMAIN recvs /\ recvs'[i].sent_max >= recvs[i].sent_max
    <2>1. i \in DOMAIN recvs
        BY <1>1, <1>8 DEF RecvsMoved
    <2>2. recvs[i].sent_max \in Int
        BY <1>2, <2>1 DEF RecvFits, RecvOk
    <2>3. CASE i = k
        BY <1>8, <2>1, <2>3
    <2>4. CASE i # k
        BY <1>8, <2>1, <2>2, <2>4 DEF RecvsMoved
    <2> QED
        BY <2>1, <2>3, <2>4
<1> QED
    BY <1>7, <1>8

\* What it counts of stream k grows by what it adds to its count.
CountMoves(k) ==
    \/ Counted(k)' = Counted(k) /\ server'.data_recvd = server.data_recvd
    \/ /\ k \in 0 .. client.next - 1 /\ Counted(k) \in Nat /\ Counted(k)' \in Nat /\ Counted(k) <= Counted(k)'
       /\ server'.data_recvd = server.data_recvd + (Counted(k)' - Counted(k))

LEMMA CountKept ==
    ASSUME StreamInv, UNCHANGED <<client, sends, written>>, ServerMoves, NEW k, RecvsMoved(k),
           CountMoves(k)
    PROVE  RecvCounted'
<1>1. PICK c, d : c = Counted(k) /\ d = Counted(k)'
    OBVIOUS
<1> DEFINE g == [i \in 0 .. client.next - 1 |-> 0 .. Counted(i) - 1]
           h == [i \in 0 .. client.next - 1 |-> 0 .. Counted(i)' - 1]
           T == c .. d - 1
<1>2. ASSUME NEW i \in 0 .. client.next - 1, i # k
      PROVE  Counted(i)' = Counted(i)
    <2>1. /\ client.next \in Nat /\ client.max \in Int /\ client.next <= client.max /\ client.max <= server.max_remote
          /\ server.max_remote \in Nat
        BY DEF StreamInv, ClientTyped, CreditsAgree, ServerTyped, ServerOk
    <2>2. i \notin server.max_remote .. server'.max_remote - 1
        BY <2>1
    <2>3. (i \in DOMAIN recvs' <=> i \in DOMAIN recvs) /\ (i \in DOMAIN recvs => recvs'[i] = recvs[i])
        BY <1>2, <2>2 DEF RecvsMoved
    <2> QED
        BY <2>3 DEF Counted
<1>3. CountedBytes = Blocks(g) /\ CountedBytes' = Blocks(h)
    BY DEF CountedBytes, Blocks
<1>4. server.data_recvd \in Int
    BY DEF StreamInv, ServerTyped, ServerOk
<1>5. CASE d = c /\ server'.data_recvd = server.data_recvd
    <2>1. \A i : BlockOf(h, i) = BlockOf(g, i)
        BY <1>1, <1>2, <1>5 DEF BlockOf
    <2> HIDE DEF g, h
    <2>2. CountedBytes' = CountedBytes
        BY <1>3, <2>1, BlocksSame
    <2> QED
        BY <1>5, <2>2 DEF StreamInv, RecvCounted
<1>6. CASE k \in 0 .. client.next - 1 /\ c \in Nat /\ d \in Nat /\ c <= d /\ server'.data_recvd = server.data_recvd + (d - c)
    <2>0. IsFiniteSet(T) /\ Cardinality(T) = d - c
        BY <1>6, RangeCount
    <2>1. BlockOf(g, k) = 0 .. c - 1 /\ BlockOf(h, k) = 0 .. d - 1
        BY <1>1, <1>6 DEF BlockOf
    <2>2. \A i : i # k => BlockOf(h, i) = BlockOf(g, i)
        BY <1>2 DEF BlockOf
    <2>3. (0 .. c - 1) \cap T = {} /\ 0 .. d - 1 = (0 .. c - 1) \cup T
        BY <1>6
    <2> HIDE DEF g, h, T
    <2>4. Adds(g, h, k, T)
        BY <2>1, <2>2, <2>3 DEF Adds
    <2>5. IsFiniteSet(Blocks(g))
        BY <1>3 DEF StreamInv, RecvCounted
    <2>6. IsFiniteSet(Blocks(h)) /\ Cardinality(Blocks(h)) = Cardinality(Blocks(g)) + Cardinality(T)
        BY <2>0, <2>4, <2>5, BlocksGrow
    <2> QED
        BY <1>3, <1>6, <2>0, <2>6 DEF StreamInv, RecvCounted
<1> QED
    BY <1>1, <1>5, <1>6 DEF CountMoves

\* The server as it was, but for what it plans to send, with no less credit.
Alike(v, u) ==
    /\ ServerOk(u) /\ u.stream_window = v.stream_window /\ u.max_remote = v.max_remote
    /\ u.data_recvd = v.data_recvd /\ u.local_max_data >= v.local_max_data

LEMMA AlikeTwice ==
    ASSUME NEW v, NEW u, NEW w, ServerOk(v), Alike(v, u), Alike(u, w)
    PROVE  Alike(v, w)
BY DEF Alike, ServerOk

LEMMA AddReadCreditsAlike ==
    ASSUME NEW v, ServerOk(v), NEW c \in Int
    PROVE  Alike(v, AddReadCredits(v, c))
<1> DEFINE m == v.local_max_data + (IF c > v.debt THEN c - v.debt ELSE 0)
           d == IF c > v.debt THEN 0 ELSE v.debt - c
           new == [v EXCEPT !.local_max_data = m, !.debt = d]
           e == new.pending.max_data \/ new.local_max_data - new.sent_max_data >= new.window \div Fraction
           u == [new EXCEPT !.pending.max_data = e]
<1>1. AddReadCredits(v, c) = u
    BY DEF AddReadCredits
<1>2. m \in Int /\ m >= v.local_max_data /\ d \in Int
    BY DEF ServerOk
<1> HIDE DEF m, d, e
<1>3. /\ DOMAIN new = ServerFields /\ new.local_max_data = m /\ new.debt = d
      /\ \A x \in ServerFields \ {"local_max_data", "debt"} : new[x] = v[x]
    BY DEF ServerOk, ServerFields
<1> HIDE DEF new
<1>4. DOMAIN u = ServerFields /\ \A x \in ServerFields \ {"pending"} : u[x] = new[x]
    BY <1>3 DEF ServerFields
<1> HIDE DEF u
<1>5. /\ u.local_max_data = m /\ u.debt = d /\ u.max_remote = v.max_remote /\ u.sent_max_remote = v.sent_max_remote
      /\ u.allocated = v.allocated /\ u.concurrent = v.concurrent /\ u.next_remote = v.next_remote
      /\ u.stream_window = v.stream_window /\ u.window = v.window /\ u.sent_max_data = v.sent_max_data
      /\ u.data_recvd = v.data_recvd /\ u.free = v.free
    BY <1>3, <1>4 DEF ServerFields
<1> QED
    BY <1>1, <1>2, <1>4, <1>5 DEF Alike, ServerOk

\* Nothing but what is pending changes.
Pending(v, u) == DOMAIN u = ServerFields /\ \A x \in ServerFields \ {"pending"} : u[x] = v[x]

LEMMA PendingAlike ==
    ASSUME NEW v, ServerOk(v), NEW u, Pending(v, u)
    PROVE  Alike(v, u) /\ u.free = v.free
<1>1. /\ u.local_max_data = v.local_max_data /\ u.debt = v.debt /\ u.max_remote = v.max_remote
      /\ u.sent_max_remote = v.sent_max_remote
      /\ u.allocated = v.allocated /\ u.concurrent = v.concurrent /\ u.next_remote = v.next_remote
      /\ u.stream_window = v.stream_window /\ u.window = v.window /\ u.sent_max_data = v.sent_max_data
      /\ u.data_recvd = v.data_recvd /\ u.free = v.free
    BY DEF Pending, ServerFields
<1> QED
    BY <1>1 DEF Alike, ServerOk, Pending

LEMMA QueueAlike ==
    ASSUME NEW v, ServerOk(v)
    PROVE  Alike(v, QueueMaxStreams(v)) /\ QueueMaxStreams(v).free = v.free
<1>1. Pending(v, QueueMaxStreams(v))
    BY DEF QueueMaxStreams, Pending, ServerFields, ServerOk
<1> QED
    BY <1>1, PendingAlike

LEMMA SeenAlike ==
    ASSUME NEW v, ServerOk(v), NEW i \in Nat
    PROVE  Alike(v, Seen(v, i))
<1> DEFINE n == IF i >= v.next_remote THEN i + 1 ELSE v.next_remote
           u == [v EXCEPT !.next_remote = n]
<1>1. Seen(v, i) = u
    BY DEF Seen
<1>2. n \in Int
    BY DEF ServerOk
<1> HIDE DEF n
<1>3. /\ u.local_max_data = v.local_max_data /\ u.debt = v.debt /\ u.max_remote = v.max_remote
      /\ u.sent_max_remote = v.sent_max_remote /\ DOMAIN u = ServerFields
      /\ u.allocated = v.allocated /\ u.concurrent = v.concurrent /\ u.next_remote = n
      /\ u.stream_window = v.stream_window /\ u.window = v.window /\ u.sent_max_data = v.sent_max_data
      /\ u.data_recvd = v.data_recvd /\ u.free = v.free
    BY DEF ServerOk, ServerFields
<1> HIDE DEF u
<1> QED
    BY <1>1, <1>2, <1>3 DEF Alike, ServerOk

\* ensure_remote_streams: the streams added come after the others, as new.
LEMMA GrowOk ==
    ASSUME NEW v, ServerOk(v), NEW rs, DOMAIN rs \subseteq 0 .. v.max_remote - 1
    PROVE  LET u == Grow(v)
               ts == InsertAll(rs, v)
               new == v.max_remote .. u.max_remote - 1
           IN  /\ ServerOk(u) /\ u.stream_window = v.stream_window /\ u.max_remote >= v.max_remote
               /\ u.data_recvd = v.data_recvd /\ u.local_max_data = v.local_max_data
               /\ DOMAIN ts = DOMAIN rs \cup new
               /\ \A i \in DOMAIN rs : ts[i] = rs[i]
               /\ \A i \in new : ts[i] = NewRecv(v.stream_window)
<1> DEFINE n == Added(v)
           len == IF Len(v.free) > n THEN Len(v.free) - n ELSE 0
           fr == SubSeq(v.free, 1, len)
           a == v.allocated + n
           m == v.max_remote + n
           u == [v EXCEPT !.allocated = a, !.max_remote = m, !.free = fr]
           ts == InsertAll(rs, v)
           N == NewRecv(v.stream_window)
<1>1. n \in Nat
    BY DEF Added, ServerOk
<1>2. Grow(v) = u
    BY DEF Grow
<1>3. fr \in Seq({N})
    <2>1. v.free \in Seq({N}) /\ Len(v.free) \in Nat
        BY DEF ServerOk
    <2>2. len \in 0 .. Len(v.free)
        BY <1>1, <2>1
    <2> HIDE DEF len
    <2>3. \A k \in 1 .. len : v.free[k] \in {N}
        BY <2>1, <2>2
    <2> QED
        BY <2>1, <2>2, <2>3, SubSeqProperties
<1>4. a \in Int /\ m \in Nat /\ m >= v.max_remote /\ v.max_remote \in Nat
    BY <1>1 DEF ServerOk
<1> HIDE DEF n, fr, a, m
<1>5. /\ u.local_max_data = v.local_max_data /\ u.debt = v.debt /\ u.max_remote = m
      /\ u.sent_max_remote = v.sent_max_remote /\ DOMAIN u = ServerFields
      /\ u.allocated = a /\ u.concurrent = v.concurrent /\ u.next_remote = v.next_remote
      /\ u.stream_window = v.stream_window /\ u.window = v.window /\ u.sent_max_data = v.sent_max_data
      /\ u.data_recvd = v.data_recvd /\ u.free = fr
    BY DEF ServerOk, ServerFields
<1> HIDE DEF u
<1>6. ServerOk(u)
    BY <1>3, <1>4, <1>5 DEF ServerOk
<1> DEFINE new == v.max_remote .. m - 1
<1>7. ts = [i \in DOMAIN rs \cup new |->
              IF i \notin new THEN rs[i]
              ELSE LET k == Len(v.free) - (i - v.max_remote) IN IF k > 0 THEN v.free[k] ELSE N]
    <2>1. n = Added(v) /\ m = v.max_remote + n
        BY DEF m, n
    <2>2. new = v.max_remote .. v.max_remote + Added(v) - 1
        BY <1>1, <1>4, <2>1
    <2> HIDE DEF new
    <2> QED
        BY <2>2, Zenon DEF InsertAll
<1>8. \A i \in DOMAIN rs : i \notin new
    BY <1>4
<1>9. ASSUME NEW i \in new
      PROVE  (LET k == Len(v.free) - (i - v.max_remote) IN IF k > 0 THEN v.free[k] ELSE N) = N
    <2>1. v.free \in Seq({N}) /\ Len(v.free) \in Nat
        BY DEF ServerOk
    <2>2. i \in Int /\ i >= v.max_remote
        BY <1>4, <1>9
    <2> DEFINE k == Len(v.free) - (i - v.max_remote)
    <2>3. k > 0 => k \in 1 .. Len(v.free)
        BY <1>4, <2>1, <2>2
    <2> HIDE DEF k
    <2>4. k > 0 => v.free[k] = N
        BY <2>1, <2>3
    <2> QED
        BY <2>4 DEF k
<1> HIDE DEF new, ts, N
<1>10. DOMAIN ts = DOMAIN rs \cup new /\ (\A i \in DOMAIN rs : ts[i] = rs[i]) /\ \A i \in new : ts[i] = N
    BY <1>7, <1>8, <1>9
<1> QED
    BY <1>2, <1>4, <1>5, <1>6, <1>10 DEF new, ts, N

\* stream_recv_freed and stream_freed: stream k is gone.
LeavesOut(v, u, ts, k) ==
    /\ ServerOk(u) /\ u.stream_window = server.stream_window /\ u.max_remote >= server.max_remote
    /\ u.data_recvd = v.data_recvd /\ u.local_max_data = v.local_max_data
    /\ DOMAIN ts = (DOMAIN recvs \ {k}) \cup (server.max_remote .. u.max_remote - 1)
    /\ \A i \in DOMAIN recvs \ {k} : ts[i] = recvs[i]
    /\ \A i \in server.max_remote .. u.max_remote - 1 : ts[i] = NewRecv(server.stream_window)

LEMMA FreedOk ==
    ASSUME StreamInv, NEW v, ServerOk(v), v.stream_window = server.stream_window, v.max_remote = server.max_remote, NEW k
    PROVE  LeavesOut(v, FreedServer(v), FreedRecvs(v, k), k)
<1> DEFINE a == v.allocated - 1
           fr == Append(v.free, Reinit)
           w == [v EXCEPT !.allocated = a, !.free = fr]
           rs == Drop(recvs, k)
<1>1. Freed(v) = w
    BY DEF Freed
<1>2. a \in Int /\ fr \in Seq({NewRecv(v.stream_window)})
    BY AppendProperties DEF ServerOk, Reinit
<1> HIDE DEF a, fr
<1>3. /\ w.local_max_data = v.local_max_data /\ w.debt = v.debt /\ w.max_remote = v.max_remote
      /\ w.sent_max_remote = v.sent_max_remote /\ DOMAIN w = ServerFields
      /\ w.allocated = a /\ w.concurrent = v.concurrent /\ w.next_remote = v.next_remote
      /\ w.stream_window = v.stream_window /\ w.window = v.window /\ w.sent_max_data = v.sent_max_data
      /\ w.data_recvd = v.data_recvd /\ w.free = fr
    BY DEF ServerOk, ServerFields
<1> HIDE DEF w
<1>4. ServerOk(w)
    BY <1>2, <1>3 DEF ServerOk
<1>5. DOMAIN rs = DOMAIN recvs \ {k} /\ \A i \in DOMAIN recvs \ {k} : rs[i] = recvs[i]
    BY DEF Drop
<1>6. DOMAIN rs \subseteq 0 .. w.max_remote - 1
    BY <1>3, <1>5 DEF StreamInv, RecvsTyped
<1> HIDE DEF rs
<1>7. LET u == Grow(w)
          ts == InsertAll(rs, w)
          new == w.max_remote .. u.max_remote - 1
      IN  /\ ServerOk(u) /\ u.stream_window = w.stream_window /\ u.max_remote >= w.max_remote
          /\ u.data_recvd = w.data_recvd /\ u.local_max_data = w.local_max_data
          /\ DOMAIN ts = DOMAIN rs \cup new
          /\ \A i \in DOMAIN rs : ts[i] = rs[i]
          /\ \A i \in new : ts[i] = NewRecv(w.stream_window)
    BY <1>4, <1>6, GrowOk
<1>8. FreedServer(v) = Grow(w) /\ FreedRecvs(v, k) = InsertAll(rs, w)
    BY <1>1 DEF FreedServer, FreedRecvs, rs
<1> QED
    BY <1>3, <1>5, <1>7, <1>8 DEF LeavesOut

\* What was read, when nothing is.
LEMMA ReadKept ==
    ASSUME StreamInv, UNCHANGED <<client, written, taken>>, NEW k, RecvsMoved(k),
           k \in DOMAIN recvs /\ k \in DOMAIN recvs' => recvs'[k].bytes_read = recvs[k].bytes_read
    PROVE  ReadInOrder'
<1>1. DOMAIN taken' = Ids
    BY DEF StreamInv, ReadInOrder
<1>2. ASSUME NEW i \in Ids
      PROVE  \E n \in 0 .. Wrote(i)' :
               /\ taken'[i] = [j \in 1 .. n |-> <<i, j - 1>>]
               /\ i \in DOMAIN recvs' => n = recvs'[i].bytes_read
    <2>1. PICK n \in 0 .. Wrote(i) :
             /\ taken[i] = [j \in 1 .. n |-> <<i, j - 1>>]
             /\ i \in DOMAIN recvs => n = recvs[i].bytes_read
        BY DEF StreamInv, ReadInOrder
    <2>2. Wrote(i)' = Wrote(i)
        BY DEF Wrote
    <2>3. ASSUME i \in DOMAIN recvs'
          PROVE  n = recvs'[i].bytes_read
        <3>1. CASE i \in DOMAIN recvs
            BY <2>1, <2>3, <3>1 DEF RecvsMoved
        <3>2. CASE i \notin DOMAIN recvs
            <4>1. i \in server.max_remote .. server'.max_remote - 1 /\ recvs'[i] = NewRecv(server.stream_window)
                BY <2>3, <3>2 DEF RecvsMoved
            <4>2. i \in Nat /\ i >= server.max_remote
                BY <4>1, IdsAreNats DEF StreamInv, ServerTyped, ServerOk
            <4>3. Wrote(i) = 0
                BY <4>2, NewRecvFits DEF Wrote
            <4> QED
                BY <2>1, <4>1, <4>3 DEF NewRecv
        <3> QED
            BY <3>1, <3>2
    <2> QED
        BY <2>1, <2>2, <2>3
<1> QED
    BY <1>1, <1>2 DEF ReadInOrder

\* A step of the receiving side that concerns stream k.
LEMMA ReceiverStep ==
    ASSUME StreamInv, UNCHANGED <<client, sends, written, waiting>>, ChancesKept, ServerMoves, NEW k, RecvsMoved(k),
           k \in DOMAIN recvs =>
             IF k \in DOMAIN recvs' THEN RecvFits(recvs'[k], k) /\ recvs'[k].sent_max >= recvs[k].sent_max
                                    ELSE k < client.next /\ Ceased(k),
           CountMoves(k), ReadInOrder',
           \A p \in sent_packets' : p.frame.type = "STREAM" => p \in sent_packets,
           NEW Q, Brings(Q)
    PROVE  StreamInv'
<1>1. /\ RecvsTyped'
      /\ \A i \in 0 .. server.max_remote - 1 :
           i \in DOMAIN recvs' => i \in DOMAIN recvs /\ recvs'[i].sent_max >= recvs[i].sent_max
    BY RecvsKept
<1>2. RecvCounted'
    BY CountKept
<1> QED
    BY <1>1, <1>2, ReceiverKeeps

\* One Recv is replaced; no stream is added.
LEMMA OneRecv ==
    ASSUME StreamInv, NEW k \in DOMAIN recvs, NEW r, recvs' = [recvs EXCEPT ![k] = r],
           server'.max_remote = server.max_remote
    PROVE  RecvsMoved(k) /\ k \in DOMAIN recvs' /\ recvs'[k] = r /\ k \in Nat
<1>1. server.max_remote \in Nat /\ server.max_remote .. server.max_remote - 1 = {}
    BY DEF StreamInv, ServerTyped, ServerOk
<1>2. k \in 0 .. server.max_remote - 1
    BY DEF StreamInv, RecvsTyped
<1> QED
    BY <1>1, <1>2 DEF RecvsMoved

\* No Recv is: any number that is no stream will do.
LEMMA NoRecv ==
    ASSUME StreamInv, UNCHANGED <<recvs, written>>, server'.max_remote = server.max_remote,
           server'.data_recvd = server.data_recvd
    PROVE  RecvsMoved(-1) /\ -1 \notin DOMAIN recvs /\ CountMoves(-1)
<1>1. server.max_remote \in Nat /\ server.max_remote .. server.max_remote - 1 = {} /\ -1 \notin 0 .. server.max_remote - 1
    BY DEF StreamInv, ServerTyped, ServerOk
<1>2. -1 \notin DOMAIN recvs
    BY <1>1 DEF StreamInv, RecvsTyped
<1>3. Counted(-1)' = Counted(-1)
    BY DEF Counted
<1> QED
    BY <1>1, <1>2, <1>3 DEF RecvsMoved, CountMoves

LEMMA SetReceiveWindowStep ==
    ASSUME StreamInv, NEW w \in {1, 3}, SetReceiveWindow(w)
    PROVE  StreamInv'
<1> DEFINE m == IF w > server.window THEN server.local_max_data + w - server.window ELSE server.local_max_data
           d == IF w > server.window THEN server.debt ELSE server.debt + server.window - w
           v == server
<1>1. PICK z : server' = [v EXCEPT !.window = w, !.local_max_data = m, !.debt = d, !.pending.max_data = z]
    BY DEF SetReceiveWindow
<1>2. ServerOk(v)
    BY DEF StreamInv, ServerTyped
<1>3. m \in Int /\ m >= v.local_max_data /\ d \in Int /\ w \in Int
    <2>1. v.local_max_data \in Int /\ v.window \in Int /\ v.debt \in Int /\ w \in Int
        BY <1>2 DEF ServerOk
    <2>2. ASSUME NEW a \in Int, NEW b \in Int, NEW c \in Int
          PROVE  a + b - c \in Int /\ (b > c => a + b - c >= a)
        OBVIOUS
    <2>3. CASE w > v.window
        BY <2>1, <2>2, <2>3
    <2>4. CASE ~(w > v.window)
        BY <2>1, <2>2, <2>4
    <2> QED
        BY <2>3, <2>4, <2>1
<1> HIDE DEF m, d
<1>4. /\ DOMAIN server' = ServerFields /\ server'.local_max_data = m /\ server'.debt = d /\ server'.window = w
      /\ server'.max_remote = v.max_remote /\ server'.sent_max_remote = v.sent_max_remote
      /\ server'.allocated = v.allocated /\ server'.concurrent = v.concurrent /\ server'.next_remote = v.next_remote
      /\ server'.stream_window = v.stream_window /\ server'.sent_max_data = v.sent_max_data
      /\ server'.data_recvd = v.data_recvd /\ server'.free = v.free
    BY <1>1, <1>2 DEF ServerOk, ServerFields
<1>5. ServerMoves
    BY <1>2, <1>3, <1>4 DEF ServerMoves, ServerTyped, ServerOk
<1>6. UNCHANGED <<client, sends, written, waiting, recvs, taken, sent_packets, in_transit>>
    BY DEF SetReceiveWindow, sendSide, packets
<1>7. ChancesKept
    BY ChancesUsed DEF SetReceiveWindow
<1>8. RecvsMoved(-1) /\ -1 \notin DOMAIN recvs /\ CountMoves(-1)
    BY <1>4, <1>6, NoRecv
<1>9. ReadInOrder'
    BY <1>6, <1>8, ReadKept
<1>10. Brings({})
    BY <1>6 DEF Brings
<1> QED
    BY <1>5, <1>6, <1>7, <1>8, <1>9, <1>10, ReceiverStep

LEMMA SetMaxConcurrentStep ==
    ASSUME StreamInv, NEW n \in 0 .. 2, SetMaxConcurrent(n)
    PROVE  StreamInv'
<1>1. PICK v : v = [server EXCEPT !.concurrent = n]
    OBVIOUS
<1>2. /\ UNCHANGED <<client, sends, written, waiting, taken, sent_packets, in_transit>>
      /\ server' = QueueMaxStreams(Grow(v)) /\ recvs' = InsertAll(recvs, v)
    BY <1>1 DEF SetMaxConcurrent, sendSide, packets
<1>3. ServerOk(server) /\ n \in Int
    BY DEF StreamInv, ServerTyped
<1>4. /\ DOMAIN v = ServerFields /\ v.local_max_data = server.local_max_data /\ v.debt = server.debt
      /\ v.window = server.window /\ v.concurrent = n /\ v.free = server.free
      /\ v.max_remote = server.max_remote /\ v.sent_max_remote = server.sent_max_remote
      /\ v.allocated = server.allocated /\ v.next_remote = server.next_remote
      /\ v.stream_window = server.stream_window /\ v.sent_max_data = server.sent_max_data
      /\ v.data_recvd = server.data_recvd
    BY <1>1, <1>3 DEF ServerOk, ServerFields
<1>5. ServerOk(v)
    BY <1>3, <1>4 DEF ServerOk
<1>6. DOMAIN recvs \subseteq 0 .. v.max_remote - 1
    BY <1>4 DEF StreamInv, RecvsTyped
<1>7. PICK u : u = Grow(v)
    OBVIOUS
<1>8. /\ ServerOk(u) /\ u.stream_window = v.stream_window /\ u.max_remote >= v.max_remote
      /\ u.data_recvd = v.data_recvd /\ u.local_max_data = v.local_max_data
      /\ DOMAIN recvs' = DOMAIN recvs \cup (v.max_remote .. u.max_remote - 1)
      /\ \A i \in DOMAIN recvs : recvs'[i] = recvs[i]
      /\ \A i \in v.max_remote .. u.max_remote - 1 : recvs'[i] = NewRecv(v.stream_window)
    <2>1. LET x == Grow(v)
              ts == InsertAll(recvs, v)
              new == v.max_remote .. x.max_remote - 1
          IN  /\ ServerOk(x) /\ x.stream_window = v.stream_window /\ x.max_remote >= v.max_remote
              /\ x.data_recvd = v.data_recvd /\ x.local_max_data = v.local_max_data
              /\ DOMAIN ts = DOMAIN recvs \cup new
              /\ \A i \in DOMAIN recvs : ts[i] = recvs[i]
              /\ \A i \in new : ts[i] = NewRecv(v.stream_window)
        BY <1>5, <1>6, GrowOk
    <2> QED
        BY <1>2, <1>7, <2>1
<1>9. Alike(u, server')
    BY <1>2, <1>7, <1>8, QueueAlike
<1>10. ServerMoves
    BY <1>3, <1>4, <1>8, <1>9 DEF ServerMoves, Alike, ServerTyped, ServerOk
<1>11. RecvsMoved(-1)
    BY <1>4, <1>8, <1>9 DEF RecvsMoved, Alike
<1>12. -1 \notin DOMAIN recvs /\ -1 \notin DOMAIN recvs'
    <2>1. v.max_remote \in Nat /\ u.max_remote \in Nat
        BY <1>5, <1>8 DEF ServerOk
    <2>2. -1 \notin 0 .. v.max_remote - 1 /\ -1 \notin v.max_remote .. u.max_remote - 1
        BY <2>1
    <2> QED
        BY <1>6, <1>8, <2>2
<1>13. CountMoves(-1)
    <2>1. Counted(-1)' = Counted(-1)
        BY <1>2, <1>12 DEF Counted
    <2> QED
        BY <1>4, <1>8, <1>9, <2>1 DEF CountMoves, Alike
<1>14. ReadInOrder'
    BY <1>2, <1>11, <1>12, ReadKept
<1>15. Brings({})
    BY <1>2 DEF Brings
<1>16. ChancesKept
    BY ChancesUsed DEF SetMaxConcurrent
<1> QED
    BY <1>2, <1>10, <1>11, <1>12, <1>13, <1>14, <1>15, <1>16, ReceiverStep

\* A packet sent is one more on its way, and no STREAM frame of another.
LEMMA Emitted ==
    ASSUME NEW f, Emit(f), FrameTyped(f), FrameOk(f)', f.type # "STREAM"
    PROVE  \E Q : Brings(Q) /\ \A p \in sent_packets' : p.frame.type = "STREAM" => p \in sent_packets
<1>1. PICK p : p.frame = f /\ sent_packets' = sent_packets \cup {p} /\ in_transit' = in_transit \cup {p}
    BY DEF Emit
<1>2. Brings({p})
    BY <1>1 DEF Brings
<1> QED
    BY <1>1, <1>2

LEMMA ControlStep ==
    ASSUME StreamInv, UNCHANGED <<sendSide, taken, chances>>, UNCHANGED recvs, Alike(server, server'),
           NEW Q, Brings(Q), \A p \in sent_packets' : p.frame.type = "STREAM" => p \in sent_packets
    PROVE  StreamInv'
<1>1. UNCHANGED <<client, sends, written, waiting>>
    BY DEF sendSide
<1>2. ServerMoves
    BY DEF StreamInv, ServerMoves, Alike, ServerTyped, ServerOk
<1>3. RecvsMoved(-1) /\ -1 \notin DOMAIN recvs /\ CountMoves(-1)
    BY <1>1, NoRecv DEF Alike
<1>4. ReadInOrder'
    BY <1>1, <1>3, ReadKept
<1>5. ChancesKept
    BY ChancesUsed
<1> QED
    BY <1>1, <1>2, <1>3, <1>4, <1>5, ReceiverStep

\* What the server notes of the control frames it sends.
LEMMA SentAlike ==
    ASSUME NEW v, ServerOk(v), NEW u, DOMAIN u = ServerFields, u.sent_max_data \in Int, u.sent_max_remote \in Int,
           \A x \in ServerFields \ {"pending", "sent_max_data", "sent_max_remote"} : u[x] = v[x]
    PROVE  Alike(v, u)
<1>1. /\ u.local_max_data = v.local_max_data /\ u.debt = v.debt /\ u.max_remote = v.max_remote
      /\ u.allocated = v.allocated /\ u.concurrent = v.concurrent /\ u.next_remote = v.next_remote
      /\ u.stream_window = v.stream_window /\ u.window = v.window
      /\ u.data_recvd = v.data_recvd /\ u.free = v.free
    BY DEF ServerFields
<1> QED
    BY <1>1 DEF Alike, ServerOk

LEMMA TransmitControlStep ==
    ASSUME StreamInv, TransmitControl
    PROVE  StreamInv'
<1> DEFINE v == server
<1>0. ServerOk(v) /\ v.local_max_data \in Int /\ v.max_remote \in Nat /\ v.sent_max_data \in Int /\ v.sent_max_remote \in Int
    BY DEF StreamInv, ServerTyped, ServerOk
<1>1. UNCHANGED <<sendSide, taken, chances>>
    BY DEF TransmitControl
<1>2. CASE /\ Emit([type |-> "MAX_DATA", max |-> server.local_max_data])
           /\ server' = [server EXCEPT !.pending.max_data = FALSE, !.sent_max_data = server.local_max_data]
           /\ UNCHANGED recvs
    <2>1. PICK m, f : m = server.local_max_data /\ f = [type |-> "MAX_DATA", max |-> m]
        OBVIOUS
    <2>2. Emit(f) /\ server' = [server EXCEPT !.pending.max_data = FALSE, !.sent_max_data = m]
        BY <1>2, <2>1
    <2>3. /\ DOMAIN server' = ServerFields /\ server'.sent_max_data = m /\ server'.sent_max_remote = v.sent_max_remote
          /\ \A x \in ServerFields \ {"pending", "sent_max_data", "sent_max_remote"} : server'[x] = v[x]
        BY <1>0, <2>2 DEF ServerOk, ServerFields
    <2>4. Alike(v, server')
        BY <1>0, <2>1, <2>3, SentAlike
    <2>5. FrameTyped(f) /\ f.type = "MAX_DATA" /\ f.max = v.local_max_data
        BY <1>0, <2>1 DEF FrameTyped
    <2>6. server'.local_max_data >= v.local_max_data
        BY <2>4 DEF Alike
    <2>7. FrameOk(f)'
        BY <1>0, <2>4, <2>5, <2>6 DEF FrameOk, Alike, ServerOk
    <2> QED
        BY <1>1, <1>2, <2>2, <2>4, <2>5, <2>7, Emitted, ControlStep
<1>3. ASSUME NEW i \in server.pending.stop, Emit([type |-> "STOP_SENDING", id |-> i]),
             server' = [server EXCEPT !.pending.stop = @ \ {i}], UNCHANGED recvs
      PROVE  StreamInv'
    <2>1. PICK f : f = [type |-> "STOP_SENDING", id |-> i]
        OBVIOUS
    <2>2. Pending(v, server')
        BY <1>0, <1>3 DEF Pending, ServerOk, ServerFields
    <2>3. Alike(v, server')
        BY <1>0, <2>2, PendingAlike
    <2>4. FrameTyped(f) /\ f.type = "STOP_SENDING"
        BY <2>1 DEF FrameTyped
    <2>5. FrameOk(f)'
        BY <2>4 DEF FrameOk
    <2> QED
        BY <1>1, <1>3, <2>1, <2>3, <2>4, <2>5, Emitted, ControlStep
<1>4. CASE /\ Emit([type |-> "MAX_STREAMS", max |-> server.max_remote])
           /\ server' = [server EXCEPT !.pending.max_streams = FALSE, !.sent_max_remote = server.max_remote]
           /\ UNCHANGED recvs
    <2>1. PICK m, f : m = server.max_remote /\ f = [type |-> "MAX_STREAMS", max |-> m]
        OBVIOUS
    <2>2. Emit(f) /\ server' = [server EXCEPT !.pending.max_streams = FALSE, !.sent_max_remote = m]
        BY <1>4, <2>1
    <2>3. /\ DOMAIN server' = ServerFields /\ server'.sent_max_remote = m /\ server'.sent_max_data = v.sent_max_data
          /\ \A x \in ServerFields \ {"pending", "sent_max_data", "sent_max_remote"} : server'[x] = v[x]
        BY <1>0, <2>2 DEF ServerOk, ServerFields
    <2>4. Alike(v, server')
        BY <1>0, <2>1, <2>3, SentAlike
    <2>5. FrameTyped(f) /\ f.type = "MAX_STREAMS" /\ f.max = v.max_remote
        BY <1>0, <2>1 DEF FrameTyped
    <2>6. server'.max_remote = v.max_remote
        BY <2>4 DEF Alike
    <2>7. FrameOk(f)'
        BY <1>0, <2>5, <2>6 DEF FrameOk
    <2> QED
        BY <1>1, <1>4, <2>2, <2>4, <2>5, <2>7, Emitted, ControlStep
<1>5. ASSUME NEW i \in server.pending.max_stream_data, server' = [server EXCEPT !.pending.max_stream_data = @ \ {i}],
             IF i \in DOMAIN recvs /\ recvs[i].state = "Recv" /\ recvs[i].size = -1 /\ ~recvs[i].stopped
             THEN LET max == recvs[i].bytes_read + server.stream_window IN
                  /\ Emit([type |-> "MAX_STREAM_DATA", id |-> i, max |-> max])
                  /\ recvs' = [recvs EXCEPT ![i].sent_max = max]
             ELSE UNCHANGED <<packets, recvs>>
      PROVE  StreamInv'
    <2>1. Pending(v, server')
        BY <1>0, <1>5 DEF Pending, ServerOk, ServerFields
    <2>2. Alike(v, server')
        BY <1>0, <2>1, PendingAlike
    <2>3. CASE UNCHANGED <<packets, recvs>>
        <3>1. Brings({})
            BY <2>3 DEF Brings, packets
        <3> QED
            BY <1>1, <2>2, <2>3, <3>1, ControlStep DEF packets
    <2>4. CASE i \in DOMAIN recvs /\ ~UNCHANGED <<packets, recvs>>
        <3>1. PICK max, f, r : /\ max = recvs[i].bytes_read + server.stream_window
                               /\ f = [type |-> "MAX_STREAM_DATA", id |-> i, max |-> max]
                               /\ r = [recvs[i] EXCEPT !.sent_max = max]
            OBVIOUS
        <3>2. Emit(f) /\ recvs' = [recvs EXCEPT ![i] = r]
            BY <1>5, <2>4, <3>1
        <3>3. RecvFits(recvs[i], i)
            BY <2>4 DEF StreamInv, RecvsTyped, RecvFits
        <3>4. /\ max \in Int /\ max >= recvs[i].sent_max /\ max >= server.stream_window
              /\ max = recvs[i].bytes_read + server.stream_window
            <4>1. /\ recvs[i].bytes_read \in Nat /\ server.stream_window \in Nat /\ recvs[i].sent_max \in Int
                  /\ recvs[i].sent_max <= recvs[i].bytes_read + server.stream_window
                BY <1>0, <3>3 DEF RecvFits, RecvOk, ServerOk
            <4> QED
                BY <3>1, <4>1
        <3>5. /\ DOMAIN r = RecvFields /\ r.state = recvs[i].state /\ r.size = recvs[i].size /\ r.end = recvs[i].end
              /\ r.bytes_read = recvs[i].bytes_read /\ r.data = recvs[i].data /\ r.sent_max = max
            BY <3>1, <3>3 DEF RecvFits, RecvOk, RecvFields
        <3>6. RecvFits(r, i)
            BY <3>3, <3>4, <3>5 DEF RecvFits, RecvOk
        <3>7. RecvsMoved(i) /\ i \in DOMAIN recvs' /\ recvs'[i] = r /\ i \in Nat
            BY <2>2, <2>4, <3>2, OneRecv DEF Alike
        <3>8. UNCHANGED <<client, sends, written, waiting, taken>>
            BY <1>1 DEF sendSide
        <3>9. CountMoves(i)
            <4>1. Counted(i)' = Counted(i)
                BY <2>4, <3>5, <3>7 DEF Counted
            <4> QED
                BY <2>2, <4>1 DEF CountMoves, Alike
        <3>10. ReadInOrder'
            BY <3>5, <3>7, <3>8, ReadKept
        <3>11. ServerMoves
            BY <1>0, <2>2 DEF ServerMoves, Alike, ServerTyped, ServerOk
        <3>12. FrameTyped(f) /\ f.type = "MAX_STREAM_DATA" /\ f.id = i /\ f.max = max
            BY <3>1, <3>4, <3>7 DEF FrameTyped
        <3>13. FrameOk(f)'
            <4>1. i < server.max_remote
                BY <1>0, <2>4 DEF StreamInv, RecvsTyped
            <4>2. f.max <= recvs'[i].sent_max
                BY <3>4, <3>5, <3>7, <3>12
            <4> QED
                BY <2>2, <3>12, <4>1, <4>2 DEF FrameOk, Alike
        <3>14. PICK Q : Brings(Q) /\ \A p \in sent_packets' : p.frame.type = "STREAM" => p \in sent_packets
            BY <3>2, <3>12, <3>13, Emitted
        <3>15. ChancesKept
            BY <1>1, ChancesUsed
        <3>16. RecvFits(recvs'[i], i) /\ recvs'[i].sent_max >= recvs[i].sent_max
            BY <3>4, <3>5, <3>6, <3>7
        <3> QED
            BY <2>4, <3>7, <3>8, <3>9, <3>10, <3>11, <3>14, <3>15, <3>16, ReceiverStep
    <2> QED
        BY <1>5, <2>3, <2>4
<1> QED
    BY <1>2, <1>3, <1>4, <1>5 DEF TransmitControl

-----------------------------------------------------------------------------
(* Reading *)

\* So many bytes of stream i, from offset a on.
Run(i, a, n) == {i} \X (a .. a + n - 1)

LEMMA RunCount ==
    ASSUME NEW i, NEW a \in Nat, NEW n \in Nat
    PROVE  IsFiniteSet(Run(i, a, n)) /\ Cardinality(Run(i, a, n)) = n
<1>1. PICK b : b = a + n
    OBVIOUS
<1>2. b \in Nat /\ a <= b /\ b - a = n /\ a .. a + n - 1 = a .. b - 1
    BY <1>1
<1> DEFINE T == a .. b - 1
<1>3. IsFiniteSet(T) /\ Cardinality(T) = n
    <2>1. a \in Int /\ b \in Int
        BY <1>2
    <2>2. IsFiniteSet(a .. b - 1) /\ Cardinality(a .. b - 1) = b - a
        BY <1>2, <2>1, RangeCount
    <2> QED
        BY <1>2, <2>2
<1> HIDE DEF T
<1>4. IsFiniteSet({i}) /\ Cardinality({i}) = 1
    BY FS_Singleton
<1>5. IsFiniteSet({i} \X T) /\ Cardinality({i} \X T) = 1 * n
    BY <1>3, <1>4, FS_Product
<1>6. Run(i, a, n) = {i} \X T
    BY <1>2 DEF Run, T
<1> QED
    BY <1>5, <1>6

LEMMA RunMember ==
    ASSUME NEW i, NEW a \in Nat, NEW n \in Nat, NEW x
    PROVE  x \in Run(i, a, n) <=> \E c \in Nat : a <= c /\ c < a + n /\ x = <<i, c>>
<1>1. \A c : c \in a .. a + n - 1 <=> c \in Nat /\ a <= c /\ c < a + n
    OBVIOUS
<1> QED
    BY <1>1 DEF Run

\* The bytes of a run, in the order of their offsets.
LEMMA RunByOffset ==
    ASSUME NEW i, NEW a \in Nat, NEW n \in Nat
    PROVE  ByOffset(Run(i, a, n)) = [k \in 1 .. n |-> <<i, a + (k - 1)>>]
<1> DEFINE B == Run(i, a, n)
           Below(b) == {x \in B : x[2] < b[2]}
<1>1. Cardinality(B) = n
    BY RunCount
<1>2. ASSUME NEW b \in B
      PROVE  \E c \in Nat : a <= c /\ c < a + n /\ b = <<i, c>> /\ Cardinality(Below(b)) = c - a
    <2>1. PICK c \in Nat : a <= c /\ c < a + n /\ b = <<i, c>>
        BY <1>2, RunMember
    <2>2. PICK m \in Nat : m = c - a
        BY <2>1
    <2>3. \A x : x \in Run(i, a, m) <=> \E d \in Nat : a <= d /\ d < a + m /\ x = <<i, d>>
        BY <2>2, RunMember
    <2>4. \A x : x \in B <=> \E d \in Nat : a <= d /\ d < a + n /\ x = <<i, d>>
        BY RunMember
    <2> HIDE DEF B
    <2>5. \A x : x \in Below(b) <=> \E d \in Nat : a <= d /\ d < c /\ x = <<i, d>>
        BY <2>1, <2>4
    <2>6. a + m = c
        BY <2>1, <2>2
    <2>7. Below(b) = Run(i, a, m)
        BY <2>3, <2>5, <2>6
    <2>8. Cardinality(Below(b)) = m
        <3>1. Cardinality(Run(i, a, m)) = m
            BY RunCount
        <3> HIDE DEF Below
        <3> QED
            BY <2>7, <3>1
    <2> QED
        BY <2>1, <2>2, <2>8
<1>3. ASSUME NEW k \in 1 .. n
      PROVE  (CHOOSE b \in B : Cardinality(Below(b)) = k - 1) = <<i, a + (k - 1)>>
    <2>1. k \in Nat /\ k - 1 \in Nat /\ a + (k - 1) \in Nat /\ a <= a + (k - 1) /\ a + (k - 1) < a + n
        OBVIOUS
    <2>2. <<i, a + (k - 1)>> \in B
        BY <2>1, RunMember
    <2>3. PICK c \in Nat : <<i, a + (k - 1)>> = <<i, c>> /\ Cardinality(Below(<<i, a + (k - 1)>>)) = c - a
        BY <1>2, <2>2
    <2>4. Cardinality(Below(<<i, a + (k - 1)>>)) = k - 1
        <3>1. c = a + (k - 1)
            BY <2>3
        <3> QED
            BY <2>1, <2>3, <3>1
    <2>5. ASSUME NEW b \in B, Cardinality(Below(b)) = k - 1
          PROVE  b = <<i, a + (k - 1)>>
        <3>1. PICK d \in Nat : b = <<i, d>> /\ Cardinality(Below(b)) = d - a /\ a <= d
            BY <1>2
        <3>2. d = a + (k - 1)
            BY <2>1, <2>5, <3>1
        <3> QED
            BY <3>1, <3>2
    <2> HIDE DEF B, Below
    <2> QED
        BY <2>2, <2>4, <2>5
<1>4. ByOffset(B) = [k \in 1 .. n |-> CHOOSE b \in B : Cardinality(Below(b)) = k - 1]
    BY <1>1 DEF ByOffset
<1> HIDE DEF B, Below
<1> QED
    BY <1>3, <1>4 DEF B

\* What was read, and what is read next.
LEMMA RunAppended ==
    ASSUME NEW i, NEW a \in Nat, NEW n \in Nat
    PROVE  [k \in 1 .. a |-> <<i, k - 1>>] \o [k \in 1 .. n |-> <<i, a + (k - 1)>>]
             = [k \in 1 .. a + n |-> <<i, k - 1>>]
<1> DEFINE s == [k \in 1 .. a |-> <<i, k - 1>>]
           t == [k \in 1 .. n |-> <<i, a + (k - 1)>>]
           u == [k \in 1 .. a + n |-> <<i, k - 1>>]
           S == {i} \X Int
<1>1. s \in Seq(S) /\ Len(s) = a
    OBVIOUS
<1>2. t \in Seq(S) /\ Len(t) = n
    OBVIOUS
<1>3. u \in Seq(S) /\ Len(u) = a + n
    OBVIOUS
<1>4. /\ s \o t \in Seq(S) /\ Len(s \o t) = a + n
      /\ \A k \in 1 .. a + n : (s \o t)[k] = IF k <= a THEN s[k] ELSE t[k - a]
    <2> HIDE DEF s, t, S
    <2> QED
        BY <1>1, <1>2, ConcatProperties
<1>5. ASSUME NEW k \in 1 .. a + n
      PROVE  (s \o t)[k] = u[k]
    <2>1. CASE k <= a
        BY <1>4, <2>1
    <2>2. CASE ~(k <= a)
        <3>1. k - a \in 1 .. n /\ a + ((k - a) - 1) = k - 1
            BY <2>2
        <3>2. t[k - a] = <<i, k - 1>>
            BY <3>1
        <3> QED
            BY <1>4, <2>2, <3>2
    <2> QED
        BY <2>1, <2>2
<1> HIDE DEF s, t, u, S
<1>6. s \o t = u
    BY <1>3, <1>4, <1>5, SeqEqual
<1> QED
    BY <1>6 DEF s, t, u

LEMMA ReadChunkStep ==
    ASSUME StreamInv, NEW i \in Ids, NEW n \in 1 .. MaxFrame, ReadChunk(i, n)
    PROVE  StreamInv'
<1>1. PICK r, bytes, b : r = recvs[i] /\ bytes = NextBytes(r, n) /\ b = r.bytes_read
    OBVIOUS
<1>2. PICK c : c = b + n
    OBVIOUS
<1>3. PICK read : read = [r EXCEPT !.bytes_read = c, !.data = r.data \ bytes]
    OBVIOUS
<1>4. /\ i \in DOMAIN recvs /\ Cardinality(bytes) = n
      /\ taken' = [taken EXCEPT ![i] = taken[i] \o ByOffset(bytes)]
      /\ recvs' = [recvs EXCEPT ![i] = read]
      /\ UNCHANGED <<client, sends, written, waiting, sent_packets, in_transit, chances>>
    BY <1>1, <1>2, <1>3 DEF ReadChunk, Opened, sendSide, packets
<1>5. RecvFits(r, i) /\ n \in Nat /\ n > 0
    BY <1>1, <1>4, StreamConstants DEF StreamInv, RecvsTyped, RecvFits
<1>6. /\ DOMAIN r = RecvFields /\ b \in Nat /\ r.end \in Nat /\ b <= r.end /\ c \in Nat /\ b <= c
      /\ r.data \subseteq {i} \X (0 .. r.end - 1) /\ r.end <= Wrote(i) /\ r.sent_max \in Int
      /\ server.stream_window \in Nat /\ r.sent_max <= b + server.stream_window
    <2>1. server.stream_window \in Nat
        BY DEF StreamInv, ServerTyped, ServerOk
    <2>2. /\ DOMAIN r = RecvFields /\ b \in Nat /\ r.end \in Nat /\ b <= r.end /\ r.end <= Wrote(i)
          /\ r.data \subseteq {i} \X (0 .. r.end - 1) /\ r.sent_max \in Int /\ r.sent_max <= b + server.stream_window
        BY <1>1, <1>5 DEF RecvFits, RecvOk
    <2> QED
        BY <1>2, <1>5, <2>1, <2>2
<1>7. bytes = Run(i, b, n)
    <2>1. bytes \subseteq Run(i, b, n)
        <3>1. bytes = {x \in r.data : x[2] \in b .. b + n - 1}
            BY <1>1 DEF NextBytes
        <3> QED
            BY <1>6, <3>1 DEF Run
    <2>2. IsFiniteSet(Run(i, b, n)) /\ Cardinality(Run(i, b, n)) = n
        BY <1>5, <1>6, RunCount
    <2> QED
        BY <1>4, <2>1, <2>2, FS_Subset
<1>8. c <= r.end
    <2>1. c - 1 \in Nat /\ b <= c - 1 /\ c - 1 < b + n
        BY <1>2, <1>5, <1>6
    <2>2. <<i, c - 1>> \in Run(i, b, n)
        BY <1>5, <1>6, <2>1, RunMember
    <2>3. <<i, c - 1>> \in r.data
        BY <1>1, <1>7, <2>2 DEF NextBytes
    <2>4. c - 1 \in 0 .. r.end - 1
        BY <1>6, <2>3
    <2> QED
        BY <1>6, <2>4
<1>9. /\ DOMAIN read = RecvFields /\ read.state = r.state /\ read.size = r.size /\ read.end = r.end
      /\ read.sent_max = r.sent_max /\ read.bytes_read = c /\ read.data \subseteq r.data
    BY <1>3, <1>6 DEF RecvFields
<1>10. RecvFits(read, i)
    <2>1. r.sent_max <= c + server.stream_window /\ c \in 0 .. r.end
        BY <1>6, <1>8
    <2> QED
        BY <1>5, <1>6, <1>9, <2>1 DEF RecvFits, RecvOk
<1>11. Alike(server, server')
    <2>1. PICK z : server' = AddReadCredits([QueueMaxStreams(server) EXCEPT !.pending.max_stream_data = z], n)
        BY Zenon DEF ReadChunk
    <2>2. PICK q, w : q = QueueMaxStreams(server) /\ w = [q EXCEPT !.pending.max_stream_data = z]
        OBVIOUS
    <2>3. ServerOk(server) /\ n \in Int
        BY <1>5 DEF StreamInv, ServerTyped
    <2>4. Alike(server, q) /\ ServerOk(q)
        BY <2>2, <2>3, QueueAlike DEF Alike
    <2>5. Pending(q, w)
        BY <2>2, <2>4 DEF Pending, ServerOk, ServerFields
    <2>6. Alike(q, w) /\ ServerOk(w)
        BY <2>4, <2>5, PendingAlike DEF Alike
    <2>7. Alike(w, server')
        BY <2>1, <2>2, <2>3, <2>6, AddReadCreditsAlike
    <2>8. Alike(server, w)
        BY <2>3, <2>4, <2>6, AlikeTwice
    <2> QED
        BY <2>3, <2>7, <2>8, AlikeTwice
<1>12. ServerMoves /\ server'.max_remote = server.max_remote /\ server'.data_recvd = server.data_recvd
    BY <1>11 DEF StreamInv, ServerMoves, Alike, ServerTyped, ServerOk
<1>13. RecvsMoved(i) /\ i \in DOMAIN recvs' /\ recvs'[i] = read
    BY <1>4, <1>12, OneRecv
<1>14. CountMoves(i)
    <2>1. Counted(i)' = Counted(i)
        BY <1>1, <1>4, <1>9, <1>13 DEF Counted
    <2> QED
        BY <1>12, <2>1 DEF CountMoves
<1>15. ReadInOrder'
    <2>1. DOMAIN taken = Ids /\ taken[i] = [k \in 1 .. b |-> <<i, k - 1>>]
        BY <1>1, <1>4 DEF StreamInv, ReadInOrder
    <2>2. taken'[i] = [k \in 1 .. c |-> <<i, k - 1>>]
        <3>1. ByOffset(bytes) = [k \in 1 .. n |-> <<i, b + (k - 1)>>]
            BY <1>5, <1>6, <1>7, RunByOffset
        <3>2. taken'[i] = taken[i] \o ByOffset(bytes)
            BY <1>4, <2>1
        <3>3. [k \in 1 .. b |-> <<i, k - 1>>] \o [k \in 1 .. n |-> <<i, b + (k - 1)>>] = [k \in 1 .. b + n |-> <<i, k - 1>>]
            BY <1>5, <1>6, RunAppended
        <3> QED
            BY <1>2, <2>1, <3>1, <3>2, <3>3
    <2>3. \A j : Wrote(j)' = Wrote(j)
        BY <1>4 DEF Wrote
    <2>4. c \in 0 .. Wrote(i)'
        <3>1. Wrote(i) \in Nat
            BY DEF StreamInv, SendsTyped, Wrote
        <3> QED
            BY <1>6, <1>8, <2>3, <3>1
    <2>5. ASSUME NEW j \in Ids
          PROVE  \E m \in 0 .. Wrote(j)' :
                   /\ taken'[j] = [k \in 1 .. m |-> <<j, k - 1>>]
                   /\ j \in DOMAIN recvs' => m = recvs'[j].bytes_read
        <3>1. CASE j = i
            <4>1. i \in DOMAIN recvs' => c = recvs'[i].bytes_read
                BY <1>9, <1>13
            <4> QED
                BY <2>2, <2>4, <3>1, <4>1
        <3>2. CASE j # i
            <4>1. taken'[j] = taken[j] /\ (j \in DOMAIN recvs' <=> j \in DOMAIN recvs) /\ recvs'[j] = recvs[j]
                BY <1>4, <2>1, <3>2
            <4> QED
                BY <2>3, <4>1 DEF StreamInv, ReadInOrder
        <3> QED
            BY <3>1, <3>2
    <2>6. DOMAIN taken' = Ids
        BY <1>4, <2>1
    <2> QED
        BY <2>5, <2>6 DEF ReadInOrder
<1>16. Brings({})
    BY <1>4 DEF Brings
<1>17. ChancesKept
    BY <1>4, ChancesUsed
<1>18. RecvFits(recvs'[i], i) /\ recvs'[i].sent_max >= recvs[i].sent_max
    BY <1>1, <1>6, <1>9, <1>10, <1>13
<1> QED
    BY <1>4, <1>12, <1>13, <1>14, <1>15, <1>16, <1>17, <1>18, ReceiverStep

\* A stream is freed: all of it was counted, and new ones may take its place.
LEMMA FreedStep ==
    ASSUME StreamInv, UNCHANGED <<client, sends, written, waiting, taken>>, ChancesKept,
           NEW k \in DOMAIN recvs, k < client.next, Ceased(k), Counted(k) <= written[k],
           NEW v, ServerOk(v), v.stream_window = server.stream_window, v.max_remote = server.max_remote,
           v.local_max_data = server.local_max_data,
           v.data_recvd = server.data_recvd + (written[k] - Counted(k)),
           recvs' = FreedRecvs(v, k), Alike(FreedServer(v), server'),
           \A p \in sent_packets' : p.frame.type = "STREAM" => p \in sent_packets,
           NEW Q, Brings(Q)
    PROVE  StreamInv'
<1>1. PICK u : u = FreedServer(v)
    OBVIOUS
<1>2. /\ ServerOk(u) /\ u.stream_window = server.stream_window /\ u.max_remote >= server.max_remote
      /\ u.data_recvd = v.data_recvd /\ u.local_max_data = v.local_max_data
      /\ DOMAIN recvs' = (DOMAIN recvs \ {k}) \cup (server.max_remote .. u.max_remote - 1)
      /\ \A i \in DOMAIN recvs \ {k} : recvs'[i] = recvs[i]
      /\ \A i \in server.max_remote .. u.max_remote - 1 : recvs'[i] = NewRecv(server.stream_window)
    <2>1. LeavesOut(v, FreedServer(v), FreedRecvs(v, k), k)
        BY FreedOk
    <2>2. LeavesOut(v, u, recvs', k)
        BY <1>1, <2>1
    <2> QED
        BY <2>2 DEF LeavesOut
<1>3. Alike(u, server') /\ server'.max_remote = u.max_remote /\ server'.data_recvd = u.data_recvd
    BY <1>1 DEF Alike
<1>4. ServerMoves
    BY <1>2, <1>3 DEF StreamInv, ServerMoves, Alike, ServerTyped, ServerOk
<1>5. RecvsMoved(k)
    BY <1>2, <1>3 DEF RecvsMoved
<1>6. k \notin DOMAIN recvs' /\ k \in 0 .. client.next - 1 /\ k \in Ids
    <2>1. k \in 0 .. server.max_remote - 1 /\ server.max_remote \in Nat /\ client.next \in Nat /\ u.max_remote \in Nat
        BY <1>2 DEF StreamInv, RecvsTyped, ServerTyped, ServerOk, ClientTyped
    <2>2. k \notin server.max_remote .. u.max_remote - 1 /\ k \in 0 .. client.next - 1
        BY <2>1
    <2> QED
        BY <1>2, <2>2, OpenedIds
<1>7. CountMoves(k)
    <2>1. Counted(k)' = written[k]
        BY <1>6 DEF Counted
    <2>2. written[k] \in Nat /\ Counted(k) \in Nat
        <3>1. written[k] \in Nat
            BY <1>6 DEF StreamInv, SendsTyped
        <3>2. recvs[k].end \in Nat /\ (recvs[k].state = "ResetRecvd" => recvs[k].size = Wrote(k))
            BY DEF StreamInv, RecvsTyped, RecvOk
        <3> QED
            BY <3>1, <3>2 DEF Counted, Wrote
    <2> QED
        BY <1>2, <1>3, <1>6, <2>1, <2>2 DEF CountMoves
<1>8. ReadInOrder'
    BY <1>5, <1>6, ReadKept
<1> QED
    BY <1>4, <1>5, <1>6, <1>7, <1>8, ReceiverStep

\* What is counted of a stream whose end is known.
LEMMA KnownSize ==
    ASSUME StreamInv, NEW k \in DOMAIN recvs, recvs[k].size # -1
    PROVE  k < client.next /\ Ceased(k) /\ Counted(k) = written[k] /\ recvs[k].size = written[k] /\ written[k] \in Nat
<1>1. k < client.next /\ Ceased(k) /\ recvs[k].size = Wrote(k) /\ (recvs[k].state = "Recv" => recvs[k].size = recvs[k].end)
      /\ recvs[k].state \in {"Recv", "ResetRecvd"}
    BY DEF StreamInv, RecvsTyped, RecvOk
<1>2. k \in 0 .. client.next - 1
    BY <1>1 DEF StreamInv, RecvsTyped, ServerTyped, ServerOk, ClientTyped
<1>3. written[k] \in Nat
    BY <1>2, OpenedIds DEF StreamInv, SendsTyped
<1> QED
    BY <1>1, <1>3 DEF Counted, Wrote

LEMMA ReadEndStep ==
    ASSUME StreamInv, NEW i \in Ids, ReadEnd(i)
    PROVE  StreamInv'
<1>1. /\ i \in DOMAIN recvs /\ server' = QueueMaxStreams(FreedServer(server)) /\ recvs' = FreedRecvs(server, i)
      /\ UNCHANGED <<client, sends, written, waiting, taken, sent_packets, in_transit, chances>>
      /\ recvs[i].state = "ResetRecvd" \/ (recvs[i].state = "Recv" /\ recvs[i].size = recvs[i].end)
    BY DEF ReadEnd, Opened, sendSide, packets
<1>2. recvs[i].size # -1
    BY <1>1 DEF StreamInv, RecvsTyped, RecvOk
<1>3. i < client.next /\ Ceased(i) /\ Counted(i) = written[i] /\ written[i] \in Nat
    BY <1>1, <1>2, KnownSize
<1>4. ServerOk(server) /\ server.data_recvd \in Int
    BY DEF StreamInv, ServerTyped, ServerOk
<1>5. ServerOk(FreedServer(server))
    BY <1>4, FreedOk DEF LeavesOut
<1>6. Alike(FreedServer(server), server')
    BY <1>1, <1>5, QueueAlike
<1>7. Brings({}) /\ ChancesKept
    BY <1>1, ChancesUsed DEF Brings
<1>8. server.data_recvd = server.data_recvd + (written[i] - Counted(i)) /\ Counted(i) <= written[i]
    BY <1>3, <1>4
<1> QED
    BY <1>1, <1>3, <1>4, <1>6, <1>7, <1>8, FreedStep

LEMMA StopReadingStep ==
    ASSUME StreamInv, NEW i \in Ids, StopReading(i)
    PROVE  StreamInv'
<1>1. PICK r, asked, n : /\ r = recvs[i] /\ n = r.end - r.bytes_read
                         /\ asked = [server EXCEPT !.pending.stop = IF r.state = "Recv" THEN @ \cup {i} ELSE @]
    OBVIOUS
<1>2. /\ i \in DOMAIN recvs
      /\ UNCHANGED <<client, sends, written, waiting, taken, sent_packets, in_transit>>
    BY DEF StopReading, Opened, sendSide, packets
<1>3. RecvFits(r, i)
    BY <1>1, <1>2 DEF StreamInv, RecvsTyped, RecvFits
<1>4. n \in Int /\ r.state \in {"Recv", "ResetRecvd"}
    BY <1>1, <1>3 DEF RecvFits, RecvOk
<1>5. ServerOk(server) /\ server.data_recvd \in Int
    BY DEF StreamInv, ServerTyped, ServerOk
<1>6. Pending(server, asked)
    BY <1>1, <1>5 DEF Pending, ServerOk, ServerFields
<1>7. Alike(server, asked) /\ ServerOk(asked)
    BY <1>5, <1>6, PendingAlike DEF Alike
<1>8. Brings({}) /\ ChancesKept
    BY <1>2, ChancesUsed DEF Brings, StopReading
<1>9. CASE r.state # "Recv" \/ r.size # -1
    <2>1. server' = AddReadCredits(FreedServer(asked), n) /\ recvs' = FreedRecvs(asked, i)
        BY <1>1, <1>9 DEF StopReading
    <2>2. r.size # -1
        BY <1>3, <1>4, <1>9 DEF RecvFits
    <2>3. i < client.next /\ Ceased(i) /\ Counted(i) = written[i] /\ written[i] \in Nat
        BY <1>1, <1>2, <2>2, KnownSize
    <2>4. asked.stream_window = server.stream_window /\ asked.max_remote = server.max_remote
          /\ asked.data_recvd = server.data_recvd /\ asked.local_max_data = server.local_max_data
        BY <1>6 DEF Pending, ServerFields
    <2>5. ServerOk(FreedServer(asked))
        BY <1>7, <2>4, FreedOk DEF LeavesOut
    <2>6. Alike(FreedServer(asked), server')
        BY <1>4, <2>1, <2>5, AddReadCreditsAlike
    <2>7. asked.data_recvd = server.data_recvd + (written[i] - Counted(i)) /\ Counted(i) <= written[i]
        BY <1>5, <2>3, <2>4
    <2> QED
        BY <1>2, <1>7, <1>8, <2>1, <2>3, <2>4, <2>6, <2>7, FreedStep
<1>10. CASE r.state = "Recv" /\ r.size = -1
    <2>1. PICK t : t = [r EXCEPT !.stopped = TRUE, !.data = {}]
        OBVIOUS
    <2>2. server' = AddReadCredits(asked, n) /\ recvs' = [recvs EXCEPT ![i] = t]
        BY <1>1, <1>2, <1>10, <2>1 DEF StopReading
    <2>3. /\ DOMAIN t = RecvFields /\ t.state = r.state /\ t.size = r.size /\ t.end = r.end
          /\ t.sent_max = r.sent_max /\ t.bytes_read = r.bytes_read /\ t.data = {}
        BY <1>3, <2>1 DEF RecvFits, RecvOk, RecvFields
    <2>4. RecvFits(t, i) /\ t.sent_max >= r.sent_max
        BY <1>3, <2>3 DEF RecvFits, RecvOk
    <2>5. Alike(asked, server')
        BY <1>4, <1>7, <2>2, AddReadCreditsAlike
    <2>6. Alike(server, server')
        BY <1>5, <1>7, <2>5, AlikeTwice
    <2>7. ServerMoves /\ server'.max_remote = server.max_remote /\ server'.data_recvd = server.data_recvd
        BY <2>6 DEF StreamInv, ServerMoves, Alike, ServerTyped, ServerOk
    <2>8. RecvsMoved(i) /\ i \in DOMAIN recvs' /\ recvs'[i] = t
        BY <1>2, <2>2, <2>7, OneRecv
    <2>9. CountMoves(i)
        <3>1. Counted(i)' = Counted(i)
            BY <1>1, <1>2, <2>3, <2>8 DEF Counted
        <3> QED
            BY <2>7, <3>1 DEF CountMoves
    <2>10. ReadInOrder'
        BY <1>1, <1>2, <2>3, <2>8, ReadKept
    <2> QED
        BY <1>1, <1>2, <1>8, <2>4, <2>7, <2>8, <2>9, <2>10, ReceiverStep
<1> QED
    BY <1>4, <1>9, <1>10

-----------------------------------------------------------------------------
(* Arriving frames *)

LEMMA CountedWritten ==
    ASSUME StreamInv, NEW i \in 0 .. client.next - 1
    PROVE  i \in Ids /\ written[i] \in Nat /\ Wrote(i) = written[i] /\ Counted(i) \in Nat /\ Counted(i) <= written[i]
<1>1. i \in Ids /\ client.next \in Nat
    BY OpenedIds
<1>2. written[i] \in Nat
    BY <1>1 DEF StreamInv, SendsTyped
<1>3. Wrote(i) = written[i]
    BY <1>1 DEF Wrote
<1>4. CASE i \in DOMAIN recvs
    <2>1. /\ recvs[i].end \in Nat /\ recvs[i].end <= Wrote(i)
          /\ recvs[i].state = "ResetRecvd" => recvs[i].size = Wrote(i)
        BY <1>4 DEF StreamInv, RecvsTyped, RecvOk
    <2> QED
        BY <1>1, <1>2, <1>3, <1>4, <2>1 DEF Counted
<1>5. CASE i \notin DOMAIN recvs
    BY <1>1, <1>2, <1>3, <1>5 DEF Counted
<1> QED
    BY <1>4, <1>5

\* There is room for whatever was written: the client had the credit for it.
LEMMA RoomForWritten ==
    ASSUME StreamInv, NEW k \in 0 .. client.next - 1, NEW e \in Nat, Counted(k) <= e, e <= written[k]
    PROVE  server.data_recvd + (e - Counted(k)) <= server.local_max_data
<1> DEFINE g == [i \in 0 .. client.next - 1 |-> 0 .. Counted(i) - 1]
           h == [i \in 0 .. client.next - 1 |-> IF i = k THEN 0 .. e - 1 ELSE 0 .. Counted(i) - 1]
           w == [i \in Ids |-> 0 .. written[i] - 1]
           c == Counted(k)
           T == c .. e - 1
<1>1. \A i \in 0 .. client.next - 1 : i \in Ids /\ written[i] \in Nat /\ Counted(i) \in Nat /\ Counted(i) <= written[i]
    BY CountedWritten
<1>2. c \in Nat /\ c <= e /\ e <= written[k] /\ written[k] \in Nat
    BY <1>1
<1> HIDE DEF c
<1>3. IsFiniteSet(T) /\ Cardinality(T) = e - c
    <2>1. c \in Int /\ e \in Int
        BY <1>2
    <2> QED
        BY <1>2, <2>1, RangeCount
<1>4. Adds(g, h, k, T)
    <2>1. BlockOf(g, k) = 0 .. c - 1 /\ BlockOf(h, k) = 0 .. e - 1
        BY DEF BlockOf, c
    <2>2. \A i : i # k => BlockOf(h, i) = BlockOf(g, i)
        BY DEF BlockOf
    <2>3. (0 .. c - 1) \cap T = {} /\ 0 .. e - 1 = (0 .. c - 1) \cup T
        BY <1>2
    <2> HIDE DEF g, h, T
    <2> QED
        BY <2>1, <2>2, <2>3 DEF Adds
<1>5. CountedBytes = Blocks(g) /\ WrittenBytes = Blocks(w)
    BY DEF CountedBytes, WrittenBytes
<1>6. \A i : BlockOf(h, i) \subseteq BlockOf(w, i)
    <2>1. ASSUME NEW i \in 0 .. client.next - 1
          PROVE  h[i] \subseteq w[i]
        <3>1. i \in Ids /\ written[i] \in Nat /\ Counted(i) \in Nat /\ Counted(i) <= written[i]
            BY <1>1
        <3>2. CASE i = k
            BY <1>2, <3>1, <3>2
        <3>3. CASE i # k
            BY <3>1, <3>3
        <3> QED
            BY <3>2, <3>3
    <2>2. DOMAIN h = 0 .. client.next - 1 /\ DOMAIN w = Ids /\ 0 .. client.next - 1 \subseteq Ids
        BY <1>1
    <2> HIDE DEF h, w
    <2> QED
        BY <2>1, <2>2 DEF BlockOf
<1> HIDE DEF g, h, w, T
<1>7. IsFiniteSet(Blocks(g)) /\ server.data_recvd = Cardinality(Blocks(g))
    BY <1>5 DEF StreamInv, RecvCounted
<1>8. IsFiniteSet(Blocks(h)) /\ Cardinality(Blocks(h)) = server.data_recvd + (e - c)
    BY <1>3, <1>4, <1>7, BlocksGrow
<1>9. IsFiniteSet(Blocks(w)) /\ client.data_sent = Cardinality(Blocks(w))
    BY <1>5 DEF StreamInv, SentCounted
<1>10. Cardinality(Blocks(h)) <= Cardinality(Blocks(w))
    BY <1>6, <1>9, BlocksFewer
<1>11. /\ client.data_sent \in Int /\ client.max_data \in Int /\ server.local_max_data \in Int
       /\ client.data_sent <= client.max_data /\ client.max_data <= server.local_max_data
    BY DEF StreamInv, SentCounted, CreditsAgree, ClientTyped, ServerTyped, ServerOk
<1>12. Cardinality(Blocks(h)) \in Int
    BY <1>8, FS_CardinalityType
<1>13. Cardinality(Blocks(h)) <= server.local_max_data
    BY <1>9, <1>10, <1>11, <1>12
<1> QED
    BY <1>8, <1>13 DEF c

LEMMA CountedServer ==
    ASSUME NEW v, ServerOk(v), NEW d \in Int
    PROVE  LET u == [v EXCEPT !.data_recvd = d] IN
           /\ ServerOk(u) /\ u.data_recvd = d /\ u.stream_window = v.stream_window /\ u.max_remote = v.max_remote
           /\ u.local_max_data = v.local_max_data
<1>1. PICK u : u = [v EXCEPT !.data_recvd = d]
    OBVIOUS
<1>2. /\ DOMAIN u = ServerFields /\ u.data_recvd = d /\ u.local_max_data = v.local_max_data /\ u.debt = v.debt
      /\ u.max_remote = v.max_remote /\ u.sent_max_remote = v.sent_max_remote
      /\ u.allocated = v.allocated /\ u.concurrent = v.concurrent /\ u.next_remote = v.next_remote
      /\ u.stream_window = v.stream_window /\ u.window = v.window /\ u.sent_max_data = v.sent_max_data
      /\ u.free = v.free
    BY <1>1 DEF ServerOk, ServerFields
<1>3. ServerOk(u)
    BY <1>2 DEF ServerOk
<1> QED
    BY <1>1, <1>2, <1>3

\* The frame of stream k was counted, and its Recv changed: no other stream is concerned.
LEMMA CountedStep ==
    ASSUME StreamInv, UNCHANGED <<client, sends, written, waiting, taken>>, ChancesKept,
           NEW k \in DOMAIN recvs, k < client.next,
           NEW t, recvs' = [recvs EXCEPT ![k] = t], RecvFits(t, k), t.sent_max = recvs[k].sent_max,
           t.bytes_read = recvs[k].bytes_read,
           NEW v, ServerOk(v), v.stream_window = server.stream_window, v.max_remote = server.max_remote,
           v.local_max_data = server.local_max_data, Alike(v, server'),
           NEW e \in Nat, e = IF t.state = "ResetRecvd" THEN t.size ELSE t.end,
           Counted(k) <= e, v.data_recvd = server.data_recvd + (e - Counted(k)),
           \A p \in sent_packets' : p.frame.type = "STREAM" => p \in sent_packets,
           NEW Q, Brings(Q)
    PROVE  StreamInv'
<1>1. ServerMoves /\ server'.max_remote = server.max_remote /\ server'.data_recvd = v.data_recvd
    BY DEF StreamInv, ServerMoves, Alike, ServerTyped, ServerOk
<1>2. RecvsMoved(k) /\ k \in DOMAIN recvs' /\ recvs'[k] = t /\ k \in Nat
    BY <1>1, OneRecv
<1>3. CountMoves(k)
    <2>1. Counted(k)' = e
        BY <1>2 DEF Counted
    <2>2. k \in 0 .. client.next - 1
        BY <1>2 DEF StreamInv, ClientTyped
    <2>3. Counted(k) \in Nat
        BY <2>2, CountedWritten
    <2> QED
        BY <1>1, <2>1, <2>2, <2>3 DEF CountMoves
<1>4. ReadInOrder'
    BY <1>2, ReadKept
<1>5. recvs'[k].sent_max >= recvs[k].sent_max /\ RecvFits(recvs'[k], k)
    BY <1>2 DEF RecvFits, RecvOk
<1> QED
    BY <1>1, <1>2, <1>3, <1>4, <1>5, ReceiverStep

\* A packet leaves the network and is otherwise ignored.
LEMMA IgnoredStep ==
    ASSUME StreamInv, UNCHANGED <<client, sends, written, waiting, taken, chances, server, recvs, sent_packets>>,
           in_transit' \subseteq in_transit
    PROVE  StreamInv'
<1>1. Alike(server, server')
    BY DEF StreamInv, ServerTyped, ServerOk, Alike
<1>2. Brings({})
    BY DEF Brings
<1>3. UNCHANGED <<sendSide, taken, chances>>
    BY DEF sendSide
<1> QED
    BY <1>1, <1>2, <1>3, ControlStep

\* A stream the client opened is one the server is ready for.
LEMMA Announced ==
    ASSUME StreamInv, NEW k \in Nat, k < client.next
    PROVE  k \in 0 .. client.next - 1 /\ ~(k >= server.max_remote)
<1>1. /\ client.next \in Nat /\ client.max \in Int /\ client.next <= client.max /\ client.max <= server.max_remote
      /\ server.max_remote \in Nat
    BY DEF StreamInv, ClientTyped, CreditsAgree, ServerTyped, ServerOk
<1> QED
    BY <1>1

LEMMA ReceiveStreamStep ==
    ASSUME StreamInv, NEW f, FrameTyped(f), FrameOk(f), f.type = "STREAM", ReceiveStream(f),
           UNCHANGED <<client, sends, written, waiting, taken, chances, sent_packets>>, in_transit' \subseteq in_transit
    PROVE  StreamInv' /\ UNCHANGED failure
<1>1. PICK k, r, n : k = f.id /\ r = recvs[k] /\ n = (IF f.end > r.end THEN f.end - r.end ELSE 0)
    OBVIOUS
<1>2. PICK v : v = [server EXCEPT !.data_recvd = server.data_recvd + n]
    OBVIOUS
<1>3. /\ f \in StreamFrames /\ k \in Ids /\ k \in Nat /\ f.start \in Nat /\ f.end \in Nat /\ f.fin \in BOOLEAN
      /\ k < client.next /\ f.start <= f.end /\ f.end <= written[k]
      /\ f.fin => f.end = written[k] /\ Ceased(k)
      /\ k \in DOMAIN recvs => f.end <= recvs[k].sent_max
    <2>1. f \in StreamFrames
        BY DEF FrameTyped
    <2> QED
        BY <1>1, <2>1, IdsAreNats DEF FrameOk, StreamFrames
<1>4. k \in 0 .. client.next - 1 /\ ~(k >= server.max_remote)
    BY <1>3, Announced
<1>5. written[k] \in Nat /\ Wrote(k) = written[k]
    BY <1>4, CountedWritten
<1>6. CASE k \notin DOMAIN recvs \/ r.state # "Recv"
    <2>1. UNCHANGED <<server, recvs, failure>>
        BY <1>1, <1>4, <1>6 DEF ReceiveStream
    <2> QED
        BY <2>1, IgnoredStep
<1>7. CASE k \in DOMAIN recvs /\ r.state = "Recv"
    <2>1. RecvFits(r, k) /\ Counted(k) = r.end
        BY <1>1, <1>7 DEF StreamInv, RecvsTyped, RecvFits, Counted
    <2>2. r.end \in Nat /\ r.end <= written[k] /\ r.size \in {-1, r.end} /\ (r.size # -1 => r.size = written[k] /\ Ceased(k))
        BY <1>5, <1>7, <2>1 DEF RecvFits, RecvOk
    <2>3. PICK e \in Nat : e = (IF f.end > r.end THEN f.end ELSE r.end)
        BY <1>3, <2>2
    <2>4. r.end <= e /\ f.end <= e /\ e <= written[k] /\ n = e - r.end /\ n \in Nat
        BY <1>1, <1>3, <1>5, <2>2, <2>3
    <2>5. ServerOk(server) /\ server.data_recvd \in Int /\ server.local_max_data \in Int
        BY DEF StreamInv, ServerTyped, ServerOk
    <2>6. ~Exceeds(r, f.end)
        <3>1. server.data_recvd + n <= server.local_max_data
            BY <1>4, <2>1, <2>4, RoomForWritten
        <3>2. f.end <= r.sent_max /\ r.sent_max \in Int
            BY <1>1, <1>3, <1>7, <2>1 DEF RecvFits, RecvOk
        <3> QED
            BY <1>1, <1>3, <2>4, <2>5, <3>1, <3>2 DEF Exceeds
    <2>7. ~\E z \in (IF r.state = "ResetRecvd" \/ r.size # -1 THEN {r.size} ELSE {}) : f.end > z \/ (f.fin /\ f.end # z)
        BY <1>3, <1>5, <1>7, <2>2
    <2>8. /\ UNCHANGED failure
          /\ IF ~r.stopped
             THEN /\ server' = QueueMaxStreams(Seen(v, k))
                  /\ recvs' = [recvs EXCEPT ![k] = Ingested(r, f)]
             ELSE IF f.fin
             THEN /\ server' = QueueMaxStreams(AddReadCredits(FreedServer(v), n))
                  /\ recvs' = FreedRecvs(v, k)
             ELSE /\ server' = QueueMaxStreams(AddReadCredits(v, n))
                  /\ recvs' = [recvs EXCEPT ![k] = Ingested(r, f)]
        BY <1>1, <1>2, <1>4, <1>7, <2>6, <2>7 DEF ReceiveStream
    <2>9. /\ ServerOk(v) /\ v.data_recvd = server.data_recvd + n /\ v.stream_window = server.stream_window
          /\ v.max_remote = server.max_remote /\ v.local_max_data = server.local_max_data
        <3>1. server.data_recvd + n \in Int
            BY <2>4, <2>5
        <3> QED
            BY <1>2, <2>5, <3>1, CountedServer
    <2>10. Brings({}) /\ ChancesKept
        BY ChancesUsed DEF Brings
    <2>11. ASSUME recvs' = [recvs EXCEPT ![k] = Ingested(r, f)], Alike(v, server')
           PROVE  StreamInv'
        <3>1. PICK t : t = Ingested(r, f)
            OBVIOUS
        <3>2. /\ DOMAIN t = RecvFields /\ t.state = "Recv" /\ t.bytes_read = r.bytes_read /\ t.sent_max = r.sent_max
              /\ t.end = e /\ t.size = (IF f.fin /\ ~r.stopped THEN f.end ELSE r.size)
              /\ t.data \subseteq r.data \cup ({k} \X (0 .. f.end - 1))
            <4>1. {<<f.id, x>> : x \in {j \in f.start .. f.end - 1 : j >= r.bytes_read}} \subseteq {k} \X (0 .. f.end - 1)
                BY <1>1, <1>3
            <4> QED
                BY <1>7, <2>1, <2>3, <3>1, <4>1 DEF Ingested, RecvFits, RecvOk, RecvFields
        <3>3. t.size \in Int /\ t.size \in {-1, e} /\ (t.size # -1 => t.size = written[k] /\ Ceased(k))
            BY <1>3, <1>5, <2>2, <2>3, <3>2
        <3>4. t.data \subseteq {k} \X (0 .. e - 1)
            <4>1. r.data \subseteq {k} \X (0 .. r.end - 1)
                BY <2>1 DEF RecvFits, RecvOk
            <4>2. 0 .. r.end - 1 \subseteq 0 .. e - 1 /\ 0 .. f.end - 1 \subseteq 0 .. e - 1
                BY <1>3, <2>2, <2>4
            <4> QED
                BY <3>2, <4>1, <4>2
        <3>5. /\ r.bytes_read \in 0 .. e /\ r.sent_max \in Int /\ r.sent_max <= r.bytes_read + server.stream_window
              /\ r.sent_max >= server.stream_window
            BY <2>1, <2>2, <2>4 DEF RecvFits, RecvOk
        <3>6. RecvFits(t, k)
            BY <1>3, <1>5, <2>4, <3>2, <3>3, <3>4, <3>5 DEF RecvFits, RecvOk
        <3>7. Counted(k) <= e /\ v.data_recvd = server.data_recvd + (e - Counted(k))
            BY <2>1, <2>4, <2>9
        <3> QED
            BY <1>1, <1>3, <1>7, <2>9, <2>10, <2>11, <3>1, <3>2, <3>6, <3>7, CountedStep
    <2>12. CASE ~r.stopped
        <3>1. PICK u : u = Seen(v, k)
            OBVIOUS
        <3>2. Alike(v, u) /\ ServerOk(u)
            BY <1>3, <2>9, <3>1, SeenAlike DEF Alike
        <3>3. Alike(u, server')
            BY <2>8, <2>12, <3>1, <3>2, QueueAlike
        <3> QED
            BY <2>8, <2>9, <2>11, <2>12, <3>2, <3>3, AlikeTwice
    <2>13. CASE r.stopped /\ ~f.fin
        <3>1. PICK u : u = AddReadCredits(v, n)
            OBVIOUS
        <3>2. Alike(v, u) /\ ServerOk(u)
            BY <2>4, <2>9, <3>1, AddReadCreditsAlike DEF Alike
        <3>3. Alike(u, server')
            BY <2>8, <2>13, <3>1, <3>2, QueueAlike
        <3> QED
            BY <2>8, <2>9, <2>11, <2>13, <3>2, <3>3, AlikeTwice
    <2>14. CASE r.stopped /\ f.fin
        <3>1. PICK w, u : w = FreedServer(v) /\ u = AddReadCredits(w, n)
            OBVIOUS
        <3>2. ServerOk(w)
            BY <2>9, <3>1, FreedOk DEF LeavesOut
        <3>3. Alike(w, u) /\ ServerOk(u)
            BY <2>4, <3>1, <3>2, AddReadCreditsAlike DEF Alike
        <3>4. Alike(u, server')
            BY <2>8, <2>14, <3>1, <3>3, QueueAlike
        <3>5. Alike(FreedServer(v), server')
            BY <3>1, <3>2, <3>3, <3>4, AlikeTwice
        <3>6. e = written[k] /\ Ceased(k)
            BY <1>3, <1>5, <2>4, <2>14
        <3>7. Counted(k) <= written[k] /\ v.data_recvd = server.data_recvd + (written[k] - Counted(k))
            BY <2>1, <2>4, <2>9, <3>6
        <3>8. recvs' = FreedRecvs(v, k)
            BY <2>8, <2>14
        <3> QED
            BY <1>3, <1>7, <2>8, <2>9, <2>10, <3>5, <3>6, <3>7, <3>8, FreedStep
    <2> QED
        BY <2>8, <2>12, <2>13, <2>14
<1> QED
    BY <1>1, <1>6, <1>7, <1>4, <1>5

LEMMA ReceiveResetStep ==
    ASSUME StreamInv, NEW f, FrameTyped(f), FrameOk(f), f.type = "RESET_STREAM", ReceiveReset(f),
           UNCHANGED <<client, sends, written, waiting, taken, chances, sent_packets>>, in_transit' \subseteq in_transit
    PROVE  /\ StreamInv'
           /\ \/ UNCHANGED failure
              \/ failure' = "FLOW_CONTROL_ERROR" /\ \E i \in DOMAIN recvs' : ResetRefused(i)'
<1>1. PICK k, r, z, n : k = f.id /\ r = recvs[k] /\ z = f.final /\ n = IF r.bytes_read # z THEN z - r.end ELSE 0
    OBVIOUS
<1>2. PICK v : v = [server EXCEPT !.data_recvd = server.data_recvd + n]
    OBVIOUS
<1>3. /\ k \in Nat /\ z \in Nat /\ k < client.next /\ z = written[k] /\ Ceased(k)
      /\ k \in DOMAIN recvs => z <= recvs[k].sent_max
    <2>1. f \in ResetFrames
        BY DEF FrameTyped
    <2> QED
        BY <1>1, <2>1, IdsAreNats DEF FrameOk, ResetFrames
<1>4. k \in 0 .. client.next - 1 /\ ~(k >= server.max_remote)
    BY <1>3, Announced
<1>5. Wrote(k) = z
    BY <1>3, <1>4, CountedWritten
<1>6. CASE k \notin DOMAIN recvs
    <2>1. UNCHANGED <<server, recvs, failure>>
        BY <1>1, <1>4, <1>6 DEF ReceiveReset
    <2> QED
        BY <2>1, IgnoredStep
<1>7. CASE k \in DOMAIN recvs
    <2>1. RecvFits(r, k)
        BY <1>1, <1>7 DEF StreamInv, RecvsTyped, RecvFits
    <2>2. /\ r.end \in Nat /\ r.end <= z /\ (r.size # -1 => r.size = z) /\ r.bytes_read \in 0 .. r.end
          /\ r.state \in {"Recv", "ResetRecvd"} /\ (r.state = "ResetRecvd" => r.size # -1)
          /\ r.sent_max \in Int /\ z <= r.sent_max
        BY <1>1, <1>3, <1>5, <1>7, <2>1 DEF RecvFits, RecvOk
    <2>3. n = z - r.end /\ n \in Nat
        BY <1>1, <1>3, <2>2
    <2>4. ServerOk(server) /\ server.data_recvd \in Int /\ server.local_max_data \in Int
        BY DEF StreamInv, ServerTyped, ServerOk
    <2>5. ~((r.state = "ResetRecvd" \/ r.size # -1) /\ r.size # z) /\ ~(r.end > z)
        BY <1>3, <2>2
    <2>6. Exceeds(r, z) <=> server.data_recvd + n > server.local_max_data
        BY <1>3, <2>2, <2>3, <2>4 DEF Exceeds
    <2>7. CASE r.state = "ResetRecvd" /\ Exceeds(r, z)
        <3>1. failure' = "FLOW_CONTROL_ERROR" /\ UNCHANGED <<server, recvs>>
            BY <1>1, <1>4, <1>7, <2>5, <2>7 DEF ReceiveReset, Fail
        <3>2. StreamInv'
            BY <3>1, IgnoredStep
        <3>3. ResetRefused(k)
            <4>1. server.data_recvd + r.size - r.end > server.local_max_data
                BY <1>3, <2>2, <2>3, <2>4, <2>6, <2>7
            <4> QED
                BY <1>1, <2>7, <4>1 DEF ResetRefused
        <3>4. ResetRefused(k)'
            BY <3>1, <3>3 DEF ResetRefused
        <3> QED
            BY <1>7, <3>1, <3>2, <3>4
    <2>8. CASE r.state = "ResetRecvd" /\ ~Exceeds(r, z)
        <3>1. UNCHANGED <<server, recvs, failure>>
            BY <1>1, <1>4, <1>7, <2>5, <2>8 DEF ReceiveReset
        <3> QED
            BY <3>1, IgnoredStep
    <2>9. CASE r.state = "Recv"
        <3>1. Counted(k) = r.end
            BY <1>1, <1>7, <2>9 DEF Counted
        <3>2. ~Exceeds(r, z)
            <4>1. server.data_recvd + n <= server.local_max_data
                BY <1>3, <1>4, <2>2, <2>3, <3>1, RoomForWritten
            <4> QED
                BY <2>3, <2>4, <2>6, <4>1
        <3>3. PICK freed, seen, credited :
                /\ freed = (IF r.stopped THEN FreedServer(v) ELSE v) /\ seen = Seen(freed, k)
                /\ credited = (IF r.bytes_read # z THEN AddReadCredits(seen, ResetCredits(r, z)) ELSE seen)
            OBVIOUS
        <3>4. PICK t : t = [r EXCEPT !.state = "ResetRecvd", !.size = z, !.data = {}]
            OBVIOUS
        <3>5. /\ UNCHANGED failure /\ server' = QueueMaxStreams(credited)
              /\ recvs' = IF r.stopped THEN FreedRecvs(v, k) ELSE [recvs EXCEPT ![k] = t]
            BY <1>1, <1>2, <1>4, <1>7, <2>5, <2>9, <3>2, <3>3, <3>4 DEF ReceiveReset
        <3>6. /\ ServerOk(v) /\ v.data_recvd = server.data_recvd + n /\ v.stream_window = server.stream_window
              /\ v.max_remote = server.max_remote /\ v.local_max_data = server.local_max_data
            <4>1. server.data_recvd + n \in Int
                BY <2>3, <2>4
            <4> QED
                BY <1>2, <2>4, <4>1, CountedServer
        <3>7. ServerOk(freed)
            BY <3>3, <3>6, FreedOk DEF LeavesOut
        <3>8. Alike(freed, seen) /\ ServerOk(seen)
            BY <1>3, <3>3, <3>7, SeenAlike DEF Alike
        <3>9. Alike(seen, credited) /\ ServerOk(credited)
            <4>1. ResetCredits(r, z) \in Int
                BY <1>3, <2>2 DEF ResetCredits
            <4>2. Alike(seen, seen)
                BY <3>8 DEF Alike, ServerOk
            <4>3. Alike(seen, AddReadCredits(seen, ResetCredits(r, z)))
                BY <3>8, <4>1, AddReadCreditsAlike
            <4> QED
                BY <3>3, <4>2, <4>3 DEF Alike
        <3>10. Alike(credited, server')
            BY <3>5, <3>9, QueueAlike
        <3>11. Alike(freed, server')
            <4>1. Alike(freed, credited)
                BY <3>7, <3>8, <3>9, AlikeTwice
            <4> QED
                BY <3>7, <3>10, <4>1, AlikeTwice
        <3>12. Brings({}) /\ ChancesKept
            BY ChancesUsed DEF Brings
        <3>13. Counted(k) <= z /\ v.data_recvd = server.data_recvd + (z - Counted(k))
            BY <2>2, <2>3, <3>1, <3>6
        <3>14. CASE r.stopped
            <4>1. recvs' = FreedRecvs(v, k) /\ Alike(FreedServer(v), server')
                BY <3>3, <3>5, <3>11, <3>14
            <4> QED
                BY <1>3, <1>7, <3>5, <3>6, <3>12, <3>13, <4>1, FreedStep
        <3>15. CASE ~r.stopped
            <4>1. recvs' = [recvs EXCEPT ![k] = t] /\ Alike(v, server')
                BY <3>3, <3>5, <3>11, <3>15
            <4>2. /\ DOMAIN t = RecvFields /\ t.state = "ResetRecvd" /\ t.bytes_read = r.bytes_read
                  /\ t.sent_max = r.sent_max /\ t.end = r.end /\ t.size = z /\ t.data = {}
                BY <2>1, <3>4 DEF RecvFits, RecvOk, RecvFields
            <4>3. RecvFits(t, k)
                BY <1>3, <1>5, <2>1, <2>2, <4>2 DEF RecvFits, RecvOk
            <4>4. z = IF t.state = "ResetRecvd" THEN t.size ELSE t.end
                BY <4>2
            <4>5. t.sent_max = recvs[k].sent_max /\ t.bytes_read = recvs[k].bytes_read
                BY <1>1, <4>2
            <4> QED
                BY <1>3, <1>7, <3>5, <3>6, <3>12, <3>13, <4>1, <4>3, <4>4, <4>5, CountedStep
        <3> QED
            BY <3>14, <3>15
    <2> QED
        BY <2>2, <2>7, <2>8, <2>9
<1> QED
    BY <1>6, <1>7

-----------------------------------------------------------------------------
(* The invariant *)

LEMMA StreamInvInit ==
    ASSUME StreamInit
    PROVE  StreamInv /\ NoStreamError
<1>1. PICK s \in StreamSettings :
         /\ client = [next |-> 0, max |-> s.concurrent, max_data |-> s.window, data_sent |-> 0,
                      unacked_data |-> 0, send_window |-> s.send_window, blocked |-> {},
                      events |-> {}, reset |-> {}]
         /\ server = [max_remote |-> s.concurrent, sent_max_remote |-> s.concurrent,
                      allocated |-> s.concurrent, concurrent |-> s.concurrent, next_remote |-> 0,
                      stream_window |-> s.stream_window, window |-> s.window, debt |-> 0, local_max_data |-> s.window,
                      sent_max_data |-> s.window, data_recvd |-> 0, free |-> <<>>,
                      pending |-> NoPending]
         /\ recvs = [i \in 0 .. s.concurrent - 1 |-> NewRecv(s.stream_window)]
         /\ chances = s.chances
    BY DEF StreamInit
<1>2. /\ s.stream_window \in Nat /\ s.window \in Nat /\ s.send_window \in Nat /\ s.concurrent \in Nat
      /\ s.chances \in [length : Seq(Nat), loss : Nat, tune : Nat, abandon : Nat]
      /\ Len(s.chances.length) <= Streams /\ Streams \in Nat
    BY StreamConstants
<1>3. /\ sends = <<>> /\ sent_packets = {} /\ in_transit = {} /\ waiting = {} /\ failure = "none"
      /\ written = [i \in Ids |-> 0] /\ taken = [i \in Ids |-> <<>>]
    BY DEF StreamInit
<1>4. DOMAIN sends = {}
    BY <1>3
<1>5. ChancesTyped
    BY <1>1, <1>2 DEF ChancesTyped
<1>6. ClientTyped
    <2>1. Len(s.chances.length) \in Nat
        BY <1>2
    <2> QED
        BY <1>1, <1>2, <2>1 DEF ClientTyped, ClientFields
<1>7. SendsTyped
    BY <1>3, <1>4 DEF SendsTyped
<1>8. PacketsTyped /\ InFlightOnce /\ WireOk
    BY <1>3 DEF PacketsTyped, InFlightOnce, WireOk
<1>9. SentCounted
    <2>1. OutstandingBytes = {}
        BY <1>4 DEF OutstandingBytes, Blocks
    <2>2. WrittenBytes = {}
        <3>1. \A i \in Ids : 0 .. written[i] - 1 = {}
            BY <1>3
        <3> QED
            BY <3>1 DEF WrittenBytes, Blocks
    <2>3. IsFiniteSet({}) /\ Cardinality({}) = 0
        BY FS_EmptySet
    <2> QED
        BY <1>1, <1>2, <2>1, <2>2, <2>3 DEF SentCounted
<1>10. WaitersTold /\ ResetsCeased
    BY <1>1, <1>3 DEF WaitersTold, ResetsCeased
<1>11. ServerTyped
    BY <1>1, <1>2 DEF ServerTyped, ServerOk, ServerFields
<1>12. RecvsTyped
    <2>1. DOMAIN recvs = 0 .. s.concurrent - 1 /\ server.max_remote = s.concurrent /\ server.stream_window = s.stream_window
        BY <1>1
    <2>2. ASSUME NEW i \in DOMAIN recvs
          PROVE  /\ RecvOk(recvs[i], i, server.stream_window)
                 /\ recvs[i].end <= Wrote(i)
                 /\ recvs[i].size = -1 /\ recvs[i].state = "Recv"
        <3>1. recvs[i] = NewRecv(s.stream_window)
            BY <1>1, <2>1
        <3>2. RecvOk(NewRecv(s.stream_window), i, s.stream_window)
            BY <1>2 DEF NewRecv, RecvOk, RecvFields
        <3>3. Wrote(i) = 0
            BY <1>1, <1>2, <2>1, <2>2 DEF Wrote
        <3> QED
            BY <2>1, <3>1, <3>2, <3>3 DEF NewRecv
    <2> QED
        BY <2>1, <2>2 DEF RecvsTyped
<1>13. RecvCounted
    <2>1. 0 .. client.next - 1 = {} /\ server.data_recvd = 0
        BY <1>1
    <2>2. CountedBytes = {}
        BY <2>1 DEF CountedBytes, Blocks
    <2>3. IsFiniteSet({}) /\ Cardinality({}) = 0
        BY FS_EmptySet
    <2> QED
        BY <2>1, <2>2, <2>3 DEF RecvCounted
<1>14. CreditsAgree
    BY <1>1, <1>2, <1>4 DEF CreditsAgree
<1>15. ReadInOrder
    <2>1. ASSUME NEW i \in Ids
          PROVE  \E n \in 0 .. Wrote(i) :
                   /\ taken[i] = [k \in 1 .. n |-> <<i, k - 1>>]
                   /\ i \in DOMAIN recvs => n = recvs[i].bytes_read
        <3>1. i \in Nat /\ Wrote(i) = 0
            BY <1>1, <1>3, IdsAreNats DEF Wrote
        <3>2. i \in DOMAIN recvs => recvs[i].bytes_read = 0
            BY <1>1 DEF NewRecv
        <3>3. taken[i] = [k \in 1 .. 0 |-> <<i, k - 1>>]
            BY <1>3
        <3> QED
            BY <3>1, <3>2, <3>3
    <2> QED
        BY <1>3, <2>1 DEF ReadInOrder
<1> QED
    BY <1>3, <1>5, <1>6, <1>7, <1>8, <1>9, <1>10, <1>11, <1>12, <1>13, <1>14, <1>15 DEF StreamInv, NoStreamError

LEMMA DeliverStep ==
    ASSUME StreamInv, NEW p, Deliver(p), failure = "none"
    PROVE  StreamInv' /\ NoStreamError'
<1>1. FrameTyped(p.frame) /\ FrameOk(p.frame)
    BY DEF Deliver, StreamInv, PacketsTyped, WireOk
<1>2. in_transit' \subseteq in_transit /\ UNCHANGED <<taken, chances>>
    BY DEF Deliver
<1>3. CASE p.frame.type = "STREAM"
    <2>1. ReceiveStream(p.frame) /\ UNCHANGED <<client, sends, written, waiting, sent_packets>>
        BY <1>3 DEF Deliver, sendSide
    <2> QED
        BY <1>1, <1>2, <1>3, <2>1, ReceiveStreamStep DEF NoStreamError
<1>4. CASE p.frame.type = "RESET_STREAM"
    <2>1. ReceiveReset(p.frame) /\ UNCHANGED <<client, sends, written, waiting, sent_packets>>
        BY <1>4 DEF Deliver, sendSide
    <2>2. /\ StreamInv'
          /\ \/ UNCHANGED failure
             \/ failure' = "FLOW_CONTROL_ERROR" /\ \E i \in DOMAIN recvs' : ResetRefused(i)'
        BY <1>1, <1>2, <1>4, <2>1, ReceiveResetStep
    <2> QED
        BY <2>2 DEF NoStreamError
<1>5. CASE p.frame.type \in {"MAX_DATA", "MAX_STREAMS"}
    BY <1>5, CreditStep DEF Deliver, NoStreamError
<1>6. CASE p.frame.type \in {"MAX_STREAM_DATA", "STOP_SENDING"}
    BY <1>6, StreamCreditStep DEF Deliver, NoStreamError
<1> QED
    BY <1>1, <1>3, <1>4, <1>5, <1>6 DEF FrameTyped

LEMMA StreamInvStep ==
    ASSUME StreamInv, NoStreamError, [StreamNext]_streamVars
    PROVE  StreamInv' /\ NoStreamError'
<1>1. CASE UNCHANGED streamVars
    <2>1. /\ UNCHANGED <<client, sends, written, waiting, taken, chances, server, recvs, sent_packets>>
          /\ UNCHANGED <<in_transit, failure>>
        BY <1>1 DEF streamVars
    <2>2. NoStreamError'
        BY <2>1 DEF NoStreamError, ResetRefused
    <2> QED
        BY <2>1, <2>2, IgnoredStep
<1>2. CASE StreamNext
    <2>1. failure = "none"
        BY <1>2 DEF StreamNext
    <2>2. ASSUME UNCHANGED failure, StreamInv'
          PROVE  StreamInv' /\ NoStreamError'
        BY <2>1, <2>2 DEF NoStreamError
    <2>3. ASSUME OpenStream, UNCHANGED failure PROVE StreamInv' /\ NoStreamError'
        BY <2>2, <2>3, OpenStreamStep
    <2>4. ASSUME NEW i \in DOMAIN sends, NEW n \in 1 .. MaxFrame, Write(i, n), UNCHANGED failure
          PROVE  StreamInv' /\ NoStreamError'
        BY <2>2, <2>4, WriteStep
    <2>5. ASSUME NEW i \in DOMAIN sends, Finish(i) \/ Reset(i), UNCHANGED failure
          PROVE  StreamInv' /\ NoStreamError'
        BY <2>2, <2>5, FinishStep, ResetStep
    <2>6. ASSUME NEW i \in DOMAIN sends, NEW len \in 1 .. MaxFrame, TransmitStream(i, len), UNCHANGED failure
          PROVE  StreamInv' /\ NoStreamError'
        BY <2>2, <2>6, TransmitStreamStep
    <2>7. ASSUME NEW i \in Ids, TransmitReset(i), UNCHANGED failure
          PROVE  StreamInv' /\ NoStreamError'
        BY <2>2, <2>7, TransmitResetStep
    <2>8. ASSUME PollEvents \/ TransmitControl, UNCHANGED failure PROVE StreamInv' /\ NoStreamError'
        BY <2>2, <2>8, PollStep, TransmitControlStep
    <2>9. ASSUME NEW i \in Ids, ReadEnd(i) \/ StopReading(i), UNCHANGED failure
          PROVE  StreamInv' /\ NoStreamError'
        BY <2>2, <2>9, ReadEndStep, StopReadingStep
    <2>10. ASSUME NEW i \in Ids, NEW n \in 1 .. MaxFrame, ReadChunk(i, n), UNCHANGED failure
           PROVE  StreamInv' /\ NoStreamError'
        BY <2>2, <2>10, ReadChunkStep
    <2>11. ASSUME NEW w \in {1, 3}, SetReceiveWindow(w), UNCHANGED failure
           PROVE  StreamInv' /\ NoStreamError'
        BY <2>2, <2>11, SetReceiveWindowStep
    <2>12. ASSUME NEW n \in 0 .. 2, SetMaxConcurrent(n), UNCHANGED failure
           PROVE  StreamInv' /\ NoStreamError'
        BY <2>2, <2>12, SetMaxConcurrentStep
    <2>13. ASSUME NEW p, Deliver(p) PROVE StreamInv' /\ NoStreamError'
        BY <2>1, <2>13, DeliverStep
    <2>14. ASSUME NEW p, Acknowledge(p) PROVE StreamInv' /\ NoStreamError'
        <3>1. UNCHANGED failure
            BY <2>14 DEF Acknowledge
        <3> QED
            BY <2>2, <2>14, <3>1, AcknowledgeStep
    <2>15. ASSUME NEW p, NEW late \in BOOLEAN, DeclareLost(p, late) PROVE StreamInv' /\ NoStreamError'
        <3>1. UNCHANGED failure
            BY <2>15 DEF DeclareLost
        <3> QED
            BY <2>2, <2>15, <3>1, DeclareLostStep
    <2> QED
        BY <1>2, <2>3, <2>4, <2>5, <2>6, <2>7, <2>8, <2>9, <2>10, <2>11, <2>12, <2>13, <2>14, <2>15, Zenon DEF StreamNext
<1> QED
    BY <1>1, <1>2

-----------------------------------------------------------------------------
(* The theorems *)

\* The invariant holds throughout, and the error a connection may end with is the one
\* NoStreamError leaves.
THEOREM StreamInvariant == StreamSpec => [](StreamInv /\ NoStreamError)
<1>1. StreamInit => StreamInv /\ NoStreamError
    BY StreamInvInit
<1>2. (StreamInv /\ NoStreamError) /\ [StreamNext]_streamVars => (StreamInv /\ NoStreamError)'
    BY StreamInvStep
<1> QED
    BY <1>1, <1>2, PTL DEF StreamSpec

\* Two ends that keep to the code do not close the connection on each other: no frame is
\* refused for stream count, final size or credit, except the reset of a stream that was
\* reset before (StreamsState::received, received_reset, credit_consumed_by).
THEOREM StreamErrors == StreamSpec => []NoStreamError
BY StreamInvariant, PTL

\* The send window counts each unacknowledged byte once, and a writer that was told
\* Blocked and could go on has been or will be told (unacked_data, StreamsState::poll).
THEOREM SendsAccounted == StreamSpec => []SendAccounted
<1>1. StreamInv => SendAccounted
    <2> SUFFICES ASSUME StreamInv
                 PROVE  SendAccounted
        OBVIOUS
    <2>1. SendWindowAccounted
        BY UnackedIsOutstanding DEF StreamInv, SentCounted, SendWindowAccounted
    <2>2. NoLostWakeup
        <3> SUFFICES ASSUME NEW i \in waiting, ~sends[i].stopped, sends[i].max_data > sends[i].offset
                     PROVE  i \in client.events \cup client.blocked
            BY DEF NoLostWakeup
        <3>1. i \in DOMAIN sends /\ (sends[i].stopped \/ sends[i].offset = sends[i].max_data \/ i \in client.events \cup client.blocked)
            BY DEF StreamInv, WaitersTold
        <3>2. sends[i].offset \in Nat /\ sends[i].max_data \in Int
            BY <3>1 DEF StreamInv, SendsTyped, SendOk
        <3> QED
            BY <3>1, <3>2
    <2> QED
        BY <2>1, <2>2 DEF SendAccounted
<1> QED
    BY <1>1, StreamInvariant, PTL

\* What of stream i was read, as the channel sees it.
LEMMA OffsetsRead ==
    ASSUME NEW i, NEW n \in Nat, taken[i] = [k \in 1 .. n |-> <<i, k - 1>>]
    PROVE  Offsets(i) = [k \in 1 .. n |-> k - 1] /\ Len(Offsets(i)) = n
<1>1. Len(taken[i]) = n
    OBVIOUS
<1>2. \A k \in 1 .. n : taken[i][k] = <<i, k - 1>>
    OBVIOUS
<1>3. Offsets(i) = [k \in 1 .. n |-> k - 1]
    BY <1>1, <1>2 DEF Offsets
<1> QED
    BY <1>3

\* A step writes to a stream or reads from it.
LEMMA WritesOrReads ==
    ASSUME StreamInv, StreamInv', [StreamNext]_streamVars, NEW i \in Ids
    PROVE  \/ UNCHANGED taken /\ written'[i] >= written[i]
           \/ UNCHANGED written /\ (taken'[i] = taken[i] \/ \E n \in 1 .. MaxFrame : ReadChunk(i, n))
<1>1. written \in [Ids -> Nat] /\ written' \in [Ids -> Nat] /\ DOMAIN taken = Ids
    BY DEF StreamInv, SendsTyped, ReadInOrder
<1>2. UNCHANGED <<taken, written>> => UNCHANGED taken /\ written'[i] >= written[i]
    BY <1>1
<1>3. CASE UNCHANGED streamVars
    BY <1>2, <1>3 DEF streamVars
<1>4. ASSUME NEW j \in DOMAIN sends, NEW n \in 1 .. MaxFrame, Write(j, n)
      PROVE  UNCHANGED taken /\ written'[i] >= written[i]
    <2>1. UNCHANGED taken
        BY <1>4 DEF Write, recvSide
    <2>2. Appends(j)
        BY <1>4, WriteStep
    <2>3. ASSUME NEW m \in Nat, written' = [written EXCEPT ![j] = @ + m]
          PROVE  written'[i] >= written[i]
        BY <1>1, <2>3
    <2> QED
        BY <1>2, <2>1, <2>2, <2>3 DEF Appends
<1>5. ASSUME NEW j \in DOMAIN sends, NEW n, Finish(j) \/ Reset(j) \/ TransmitStream(j, n)
      PROVE  UNCHANGED <<taken, written>>
    BY <1>5 DEF Finish, Reset, TransmitStream, recvSide
<1>6. ASSUME NEW j \in Ids, TransmitReset(j) \/ ReadEnd(j) \/ StopReading(j)
      PROVE  UNCHANGED <<taken, written>>
    BY <1>6 DEF TransmitReset, ReadEnd, StopReading, recvSide, sendSide
<1>7. ASSUME OpenStream \/ PollEvents \/ TransmitControl
      PROVE  UNCHANGED <<taken, written>>
    BY <1>7 DEF OpenStream, PollEvents, TransmitControl, recvSide, sendSide
<1>8. ASSUME NEW n, SetReceiveWindow(n) \/ SetMaxConcurrent(n)
      PROVE  UNCHANGED <<taken, written>>
    BY <1>8 DEF SetReceiveWindow, SetMaxConcurrent, sendSide
<1>9. ASSUME NEW p, NEW late, Deliver(p) \/ Acknowledge(p) \/ DeclareLost(p, late)
      PROVE  UNCHANGED <<taken, written>>
    BY <1>9 DEF Deliver, Acknowledge, DeclareLost, sendSide, recvSide
<1>10. ASSUME NEW j \in Ids, NEW n \in 1 .. MaxFrame, ReadChunk(j, n)
       PROVE  UNCHANGED written /\ (taken'[i] = taken[i] \/ \E m \in 1 .. MaxFrame : ReadChunk(i, m))
    <2>1. UNCHANGED written
        BY <1>10 DEF ReadChunk, sendSide
    <2>2. \E t : taken' = [taken EXCEPT ![j] = t]
        BY <1>10 DEF ReadChunk
    <2>3. CASE j # i
        BY <1>1, <2>1, <2>2, <2>3
    <2> QED
        BY <1>10, <2>1, <2>3
<1>11. CASE StreamNext
    <2> DEFINE Goal == \/ UNCHANGED taken /\ written'[i] >= written[i]
                       \/ UNCHANGED written /\ (taken'[i] = taken[i] \/ \E n \in 1 .. MaxFrame : ReadChunk(i, n))
    <2>1. (UNCHANGED <<taken, written>>) => Goal
        BY <1>2
    <2>2. \A j \in DOMAIN sends : \A n \in 1 .. MaxFrame : Write(j, n) => Goal
        BY <1>4
    <2>3. \A j \in Ids : \A n \in 1 .. MaxFrame : ReadChunk(j, n) => Goal
        BY <1>10
    <2> HIDE DEF Goal
    <2>4. Goal
        BY <1>5, <1>6, <1>7, <1>8, <1>9, <1>11, <2>1, <2>2, <2>3, Zenon DEF StreamNext
    <2> QED
        BY <2>4 DEF Goal
<1> QED
    BY <1>3, <1>11

\* What a channel does: bytes are sent, or the next ones are handed over.
ChannelStep(i) ==
    \/ written'[i] \in Nat /\ written'[i] > written[i] /\ Offsets(i)' = Offsets(i)
    \/ /\ \E n \in Len(Offsets(i)) + 1 .. written[i] : Offsets(i)' = [k \in 1 .. n |-> k - 1]
       /\ written'[i] = written[i]
    \/ written'[i] = written[i] /\ Offsets(i)' = Offsets(i)

LEMMA StreamIsChannel ==
    ASSUME StreamInv, StreamInv', [StreamNext]_streamVars, NEW i \in Ids
    PROVE  ChannelStep(i)
<1>1. written[i] \in Nat /\ written'[i] \in Nat
    BY DEF StreamInv, SendsTyped
<1>2. taken'[i] = taken[i] => Offsets(i)' = Offsets(i)
    BY DEF Offsets
<1>3. CASE UNCHANGED taken /\ written'[i] >= written[i]
    BY <1>1, <1>2, <1>3 DEF ChannelStep
<1>4. CASE UNCHANGED written /\ taken'[i] = taken[i]
    BY <1>2, <1>4 DEF ChannelStep
<1>5. ASSUME UNCHANGED written, NEW n \in 1 .. MaxFrame, ReadChunk(i, n)
      PROVE  ChannelStep(i)
    <2>1. n \in Nat /\ n > 0 /\ i \in DOMAIN recvs
        BY <1>5, StreamConstants DEF ReadChunk, Opened
    <2>2. PICK r : recvs' = [recvs EXCEPT ![i] = r] /\ r.bytes_read = recvs[i].bytes_read + n
        <3>1. DOMAIN recvs[i] = RecvFields
            BY <2>1 DEF StreamInv, RecvsTyped, RecvOk
        <3>2. PICK d : recvs' = [recvs EXCEPT ![i] = [recvs[i] EXCEPT !.bytes_read = recvs[i].bytes_read + n, !.data = d]]
            BY <1>5 DEF ReadChunk
        <3>3. PICK r : r = [recvs[i] EXCEPT !.bytes_read = recvs[i].bytes_read + n, !.data = d]
            OBVIOUS
        <3>4. r.bytes_read = recvs[i].bytes_read + n
            BY <3>1, <3>3 DEF RecvFields
        <3> QED
            BY <3>2, <3>3, <3>4
    <2>3. PICK a \in 0 .. Wrote(i) : taken[i] = [k \in 1 .. a |-> <<i, k - 1>>] /\ a = recvs[i].bytes_read
        BY <2>1 DEF StreamInv, ReadInOrder
    <2>4. PICK b \in 0 .. Wrote(i)' : taken'[i] = [k \in 1 .. b |-> <<i, k - 1>>] /\ b = recvs'[i].bytes_read
        BY <2>1, <2>2 DEF StreamInv, ReadInOrder
    <2>5. Wrote(i)' = written[i]
        <3>1. i \in Nat /\ client'.next \in Nat /\ (i >= client'.next => written'[i] = 0)
            BY IdsAreNats DEF StreamInv, SendsTyped, ClientTyped
        <3> QED
            BY <1>5, <3>1 DEF Wrote
    <2>6. a \in Nat /\ b \in Nat /\ b = a + n /\ b <= written[i]
        <3>1. a \in Nat
            BY <1>1, <2>3 DEF Wrote, StreamInv, SendsTyped
        <3> QED
            BY <1>1, <2>1, <2>2, <2>3, <2>4, <2>5, <3>1
    <2>7. Len(Offsets(i)) = a
        BY <2>3, <2>6, OffsetsRead
    <2>8. Offsets(i)' = [k \in 1 .. b |-> k - 1]
        <3>1. Len(taken'[i]) = b /\ \A k \in 1 .. b : taken'[i][k] = <<i, k - 1>>
            BY <2>4, <2>6
        <3> QED
            BY <3>1 DEF Offsets
    <2>9. b \in a + 1 .. written[i]
        BY <1>1, <2>1, <2>6
    <2> QED
        BY <1>5, <2>7, <2>8, <2>9 DEF ChannelStep
<1> QED
    BY <1>3, <1>4, <1>5, WritesOrReads

\* A stream is a channel: what is read is what was written, in order and once, over any
\* loss and although a Recv is used again for a later stream (Assembler, Recv::reinit).
THEOREM StreamsRefineChannels == StreamSpec => StreamsAreChannels
<1>1. 0 \in Ids /\ 1 \in Ids
    BY StreamConstants DEF Ids
<1>2. StreamInit => FirstStream!Init /\ SecondStream!Init
    <2> SUFFICES ASSUME StreamInit
                 PROVE  FirstStream!Init /\ SecondStream!Init
        OBVIOUS
    <2>1. \A i \in Ids : written[i] = 0 /\ taken[i] = <<>>
        BY DEF StreamInit
    <2>2. \A i \in Ids : Offsets(i) = [k \in 1 .. 0 |-> k - 1]
        BY <2>1 DEF Offsets
    <2> QED
        BY <1>1, <2>1, <2>2 DEF FirstStream!Init, FirstStream!Messages, SecondStream!Init, SecondStream!Messages
<1>3. StreamInv /\ StreamInv' /\ [StreamNext]_streamVars
        => [FirstStream!Next]_<<written[0], Offsets(0)>> /\ [SecondStream!Next]_<<written[1], Offsets(1)>>
    <2> SUFFICES ASSUME StreamInv, StreamInv', [StreamNext]_streamVars
                 PROVE  [FirstStream!Next]_<<written[0], Offsets(0)>> /\ [SecondStream!Next]_<<written[1], Offsets(1)>>
        OBVIOUS
    <2>1. ChannelStep(0) /\ ChannelStep(1)
        BY <1>1, StreamIsChannel
    <2>2. [FirstStream!Next]_<<written[0], Offsets(0)>>
        BY <2>1 DEF ChannelStep, FirstStream!Next, FirstStream!Send, FirstStream!Deliver, FirstStream!Messages
    <2>3. [SecondStream!Next]_<<written[1], Offsets(1)>>
        BY <2>1 DEF ChannelStep, SecondStream!Next, SecondStream!Send, SecondStream!Deliver, SecondStream!Messages
    <2> QED
        BY <2>2, <2>3
<1> QED
    BY <1>2, <1>3, StreamInvariant, PTL DEF StreamSpec, StreamsAreChannels, FirstStream!Spec, SecondStream!Spec
=============================================================================
