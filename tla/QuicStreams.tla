---------------------------- MODULE QuicStreams ----------------------------
(***************************************************************************)
(* Streams and their flow control on a QUIC connection                     *)
(* (src/connection/streams/, send_buffer.rs, assembler.rs): a client that  *)
(* opens unidirectional streams, writes, finishes and resets them, and a   *)
(* server that reads and stops them.  Both ends are StreamsState; each is  *)
(* given the half of it that a unidirectional stream uses.                 *)
(*                                                                         *)
(* Packets carry one frame.  A packet is lost, arrives out of order, or    *)
(* arrives after its sender has declared it lost; a packet does not arrive *)
(* twice (Dedup).  A byte is named by its stream and its offset.  Streams  *)
(* with something to send are served in any order.  Reads are ordered.     *)
(***************************************************************************)
EXTENDS Integers, Sequences, FiniteSets, FiniteSetsExt, SequencesExt

CONSTANTS
    Streams,        \* bound: number of streams opened (2)
    MaxFrame,       \* bound: bytes in a write, a frame or a read
    MaxPackets,     \* bound: packets in flight or in transit at a time
    Fraction,       \* an update of less than this fraction of a window waits (8)
    StreamSettings  \* alternatives: windows, concurrency and, as
                    \* bounds, the length of each stream and how often things happen

ASSUME StreamConstants ==
    /\ Streams \in Nat /\ Streams > 1 /\ MaxFrame \in Nat /\ MaxPackets \in Nat /\ Fraction \in Nat \ {0}
    /\ \A s \in StreamSettings :
         /\ {s.stream_window, s.window, s.send_window, s.concurrent} \subseteq Nat
         /\ s.chances \in [length : Seq(Nat), loss : Nat, tune : Nat, abandon : Nat]
         /\ Len(s.chances.length) <= Streams

Ids == 0 .. Streams - 1
Slots == 1 .. MaxPackets

VARIABLES
    client,       \* StreamsState of the client: its side of flow control
    sends,        \* stream -> Send, for the streams not yet freed
    server,       \* StreamsState of the server
    recvs,        \* stream -> Recv, for the streams that are or may be opened
    sent_packets, \* packets neither acknowledged nor declared lost by their sender
    in_transit,   \* packets that may still arrive
    arrived,      \* the client's packets whose acknowledgment may still reach it
    written,      \* stream -> number of bytes the application wrote
    taken,        \* stream -> bytes the application read, in order
    waiting,      \* streams on which the application waits for Writable
    failure,      \* the transport error one end closed the connection with
    chances       \* bounds: the lengths of the streams, and how often a packet is
                  \* lost, a window changed, a stream abandoned

streamVars == <<client, sends, server, recvs, sent_packets, in_transit, arrived,
                written, taken, waiting, failure, chances>>
packets  == <<sent_packets, in_transit, arrived>>
sendSide == <<client, sends, written, waiting>>
recvSide == <<server, recvs, taken>>

-----------------------------------------------------------------------------
NewSend(max) ==
    [state |-> "Ready", fin_acked |-> FALSE, stopped |-> FALSE, offset |-> 0, unsent |-> 0,
     acks |-> {}, retransmits |-> {}, fin_pending |-> FALSE, max_data |-> max, blocked |-> FALSE]

NewRecv(window) ==
    [state |-> "Recv", size |-> -1, data |-> {}, bytes_read |-> 0, end |-> 0,
     stopped |-> FALSE, sent_max |-> window]

NoPending == [max_data |-> FALSE, max_stream_data |-> {}, max_streams |-> FALSE, stop |-> {}]

StreamInit ==
    /\ \E s \in StreamSettings :
         /\ client = [next |-> 0, max |-> s.concurrent, max_data |-> s.window, data_sent |-> 0,
                      unacked_data |-> 0, send_window |-> s.send_window, blocked |-> {},
                      events |-> {}, reset |-> {}]
         /\ server = [max_remote |-> s.concurrent, sent_max_remote |-> s.concurrent,
                      allocated |-> s.concurrent, concurrent |-> s.concurrent, next_remote |-> 0,
                      stream_window |-> s.stream_window, window |-> s.window, debt |-> 0, local_max_data |-> s.window,
                      sent_max_data |-> s.window, data_recvd |-> 0, free |-> <<>>,
                      pending |-> NoPending]
         /\ recvs = [i \in 0 .. s.concurrent - 1 |-> NewRecv(s.stream_window)]
         /\ chances = s.chances
    /\ sends = <<>>
    /\ sent_packets = {} /\ in_transit = {} /\ arrived = {}
    /\ written = [i \in Ids |-> 0]
    /\ taken = [i \in Ids |-> <<>>]
    /\ waiting = {}
    /\ failure = "none"

Chance(kind) == chances[kind] > 0 /\ chances' = [chances EXCEPT ![kind] = @ - 1]

Drop(f, x) == [y \in DOMAIN f \ {x} |-> f[y]]

\* Packet numbers only tell packets apart: a number is used again when no copy,
\* record or acknowledgment of its packet is left.
FreeSlots == Slots \ {p.slot : p \in sent_packets \cup in_transit \cup arrived}

Emit(frame) ==
    /\ FreeSlots # {}
    /\ LET p == [slot |-> Min(FreeSlots), frame |-> frame] IN
         /\ sent_packets' = sent_packets \cup {p}
         /\ in_transit' = in_transit \cup {p}
    /\ UNCHANGED arrived

-----------------------------------------------------------------------------
(* The client: Streams::open, SendStream::write, finish, reset             *)

Unacked(s) == Cardinality((0 .. s.offset - 1) \ s.acks)
FullyAcked(s) == Unacked(s) = 0
IsPending(s) == s.unsent # s.offset \/ s.retransmits # {} \/ s.fin_pending

\* Mutant: the peer's connection-level credit is not looked at.
WriteLimitLocal(c) == c.send_window - c.unacked_data

WriteLimit(c) ==
    LET credit == c.max_data - c.data_sent
        window == c.send_window - c.unacked_data
    IN  IF credit < window THEN credit ELSE window

OpenStream ==
    /\ client.next < client.max /\ client.next < Len(chances.length)
    /\ client' = [client EXCEPT !.next = @ + 1]
    /\ sends' = [i \in DOMAIN sends \cup {client.next} |->
                   IF i = client.next THEN NewSend(server.stream_window) ELSE sends[i]]
    /\ UNCHANGED <<written, waiting, recvSide, packets, chances>>

(* write_source: connection-level credit is looked at first, then whether  *)
(* the stream was stopped, then its own credit.  The application writes    *)
(* only to streams it has neither finished nor reset.                      *)
Write(i, n) ==
    LET s == sends[i]
        limit == WriteLimit(client)
        room == s.max_data - s.offset
        bytes == Min({n, limit, room, chances.length[i + 1] - s.offset})
    IN  /\ s.offset < chances.length[i + 1] /\ s.state = "Ready"
        /\ \/ /\ limit = 0
              /\ client' = [client EXCEPT !.blocked = @ \cup {i}]
              /\ sends' = [sends EXCEPT ![i].blocked = TRUE]
              /\ waiting' = waiting \cup {i}
              /\ UNCHANGED written
           \/ /\ limit > 0 /\ ~s.stopped /\ room = 0
              /\ waiting' = waiting \cup {i}
              /\ UNCHANGED <<client, sends, written>>
           \/ /\ limit > 0 /\ ~s.stopped /\ room > 0
              /\ sends' = [sends EXCEPT ![i].offset = @ + bytes]
              /\ client' = [client EXCEPT !.data_sent = @ + bytes, !.unacked_data = @ + bytes]
              /\ written' = [written EXCEPT ![i] = @ + bytes]
              /\ waiting' = waiting \ {i}
        /\ UNCHANGED <<recvSide, packets, chances>>

Finish(i) ==
    /\ sends[i].state = "Ready" /\ ~sends[i].stopped
    /\ sends' = [sends EXCEPT ![i].state = "DataSent", ![i].fin_pending = TRUE]
    /\ waiting' = waiting \ {i}
    /\ UNCHANGED <<client, written, recvSide, packets, chances>>

Reset(i) ==
    /\ sends[i].state # "ResetSent"
    /\ Chance("abandon")
    /\ client' = [client EXCEPT !.unacked_data = @ - Unacked(sends[i]), !.reset = @ \cup {i}]
    /\ sends' = [sends EXCEPT ![i].state = "ResetSent"]
    /\ waiting' = waiting \ {i}
    /\ UNCHANGED <<written, recvSide, packets>>

(* StreamsState::poll: one stream blocked on the connection is reported if *)
(* it can be written to, else the next event is taken.                     *)
PollEvents ==
    /\ \/ /\ WriteLimit(client) > 0
          /\ \E i \in client.blocked :
               /\ client' = [client EXCEPT !.blocked = @ \ {i}]
               /\ IF i \in DOMAIN sends
                  THEN /\ sends' = [sends EXCEPT ![i].blocked = FALSE]
                       /\ waiting' = IF sends[i].state = "Ready" /\ sends[i].max_data > sends[i].offset
                                     THEN waiting \ {i} ELSE waiting
                  ELSE UNCHANGED <<sends, waiting>>
       \/ /\ WriteLimit(client) = 0 \/ client.blocked = {}
          /\ \E i \in client.events :
               /\ client' = [client EXCEPT !.events = @ \ {i}]
               /\ waiting' = waiting \ {i}
          /\ UNCHANGED sends
    /\ UNCHANGED <<written, recvSide, packets, chances>>

-----------------------------------------------------------------------------
(* write_stream_frames with SendBuffer::poll_transmit: the first range     *)
(* deemed lost, else data not yet sent; at most len bytes.                 *)
NextRange(s, len) ==
    IF s.retransmits # {}
    THEN LET start == Min(s.retransmits) IN
         [start |-> start,
          end |-> Max({e \in start + 1 .. start + len : start .. e - 1 \subseteq s.retransmits})]
    ELSE [start |-> s.unsent, end |-> Min({s.offset, s.unsent + len})]

TransmitStream(i, len) ==
    LET s == sends[i]
        range == NextRange(s, len)
        fin == range.end = s.offset /\ s.state = "DataSent"
    IN  /\ s.state # "ResetSent" /\ IsPending(s)
        /\ Emit([type |-> "STREAM", id |-> i, start |-> range.start, end |-> range.end, fin |-> fin])
        /\ sends' = [sends EXCEPT
             ![i].retransmits = @ \ (range.start .. range.end - 1),
             ![i].unsent = IF s.retransmits = {} THEN range.end ELSE @,
             ![i].fin_pending = @ /\ ~fin]
        /\ UNCHANGED <<client, written, waiting, recvSide, chances>>

\* write_control_frames, RESET_STREAM.
TransmitReset(i) ==
    /\ i \in client.reset
    /\ client' = [client EXCEPT !.reset = @ \ {i}]
    /\ IF i \in DOMAIN sends
       THEN Emit([type |-> "RESET_STREAM", id |-> i, final |-> sends[i].offset])
       ELSE UNCHANGED packets
    /\ UNCHANGED <<sends, written, waiting, recvSide, chances>>

\* write_control_frames, the server's frames: one of those pending.
TransmitControl ==
    LET p == server.pending IN
    /\ \/ /\ p.max_data
          /\ Emit([type |-> "MAX_DATA", max |-> server.local_max_data])
          /\ server' = [server EXCEPT !.pending.max_data = FALSE, !.sent_max_data = server.local_max_data]
          /\ UNCHANGED recvs
       \/ \E i \in p.stop :
            /\ Emit([type |-> "STOP_SENDING", id |-> i])
            /\ server' = [server EXCEPT !.pending.stop = @ \ {i}]
            /\ UNCHANGED recvs
       \/ \E i \in p.max_stream_data :
            /\ server' = [server EXCEPT !.pending.max_stream_data = @ \ {i}]
            /\ IF i \in DOMAIN recvs /\ recvs[i].state = "Recv" /\ recvs[i].size = -1 /\ ~recvs[i].stopped
               THEN LET max == recvs[i].bytes_read + server.stream_window IN
                    /\ Emit([type |-> "MAX_STREAM_DATA", id |-> i, max |-> max])
                    /\ recvs' = [recvs EXCEPT ![i].sent_max = max]
               ELSE UNCHANGED <<packets, recvs>>
       \/ /\ p.max_streams
          /\ Emit([type |-> "MAX_STREAMS", max |-> server.max_remote])
          /\ server' = [server EXCEPT !.pending.max_streams = FALSE, !.sent_max_remote = server.max_remote]
          /\ UNCHANGED recvs
    /\ UNCHANGED <<sendSide, taken, chances>>

-----------------------------------------------------------------------------
(* The server's bookkeeping, as functions of its state                     *)

\* add_read_credits, and the MAX_DATA it asks for.
AddReadCredits(v, credits) ==
    LET net == IF credits > v.debt THEN credits - v.debt ELSE 0
        new == [v EXCEPT !.local_max_data = @ + net,
                         !.debt = IF credits > v.debt THEN 0 ELSE @ - credits]
    IN  [new EXCEPT !.pending.max_data =
           @ \/ new.local_max_data - new.sent_max_data >= new.window \div Fraction]

\* queue_max_stream_id.
QueueMaxStreams(v) ==
    [v EXCEPT !.pending.max_streams = @ \/ v.max_remote - v.sent_max_remote > v.concurrent \div Fraction]

\* ensure_remote_streams: how many streams are added for the peer to open.
Added(v) == IF v.concurrent > v.allocated THEN v.concurrent - v.allocated ELSE 0

\* Recv::reinit, before a Recv is used for another stream.
Reinit == NewRecv(server.stream_window)

\* insert: a new stream takes the Recv freed last.
InsertAll(rs, v) ==
    LET new == v.max_remote .. v.max_remote + Added(v) - 1 IN
    [i \in DOMAIN rs \cup new |->
       IF i \notin new THEN rs[i]
       ELSE LET k == Len(v.free) - (i - v.max_remote) IN IF k > 0 THEN v.free[k] ELSE NewRecv(v.stream_window)]

Grow(v) ==
    [v EXCEPT !.allocated = @ + Added(v), !.max_remote = @ + Added(v),
              !.free = SubSeq(@, 1, IF Len(@) > Added(v) THEN Len(@) - Added(v) ELSE 0)]

\* stream_recv_freed and stream_freed.
Freed(v) == [v EXCEPT !.allocated = @ - 1, !.free = Append(@, Reinit)]
FreedServer(v) == Grow(Freed(v))
FreedRecvs(v, i) == InsertAll(Drop(recvs, i), Freed(v))

-----------------------------------------------------------------------------
(* Reading: Chunks::new, next and finalize; RecvStream::stop               *)

Opened(i) == i \in DOMAIN recvs /\ i < server.next_remote

\* Mutant: the buffered chunk with the lowest offset is handed out over a gap.
NextBytesUnordered(r, n) ==
    LET first == Min({b[2] : b \in r.data} \cup {r.end}) IN {b \in r.data : b[2] \in first .. first + n - 1}

\* Assembler::read, ordered: the bytes that follow what was read.
NextBytes(r, n) == {b \in r.data : b[2] \in r.bytes_read .. r.bytes_read + n - 1}

\* Bytes in the order of their offsets.
ByOffset(bytes) ==
    [k \in 1 .. Cardinality(bytes) |->
       CHOOSE b \in bytes : Cardinality({a \in bytes : a[2] < b[2]}) = k - 1]

ReadChunk(i, n) ==
    LET r == recvs[i]
        bytes == NextBytes(r, n)
        read == [r EXCEPT !.bytes_read = @ + n, !.data = @ \ bytes]
        update == /\ r.size = -1 /\ r.state = "Recv"
                  /\ read.bytes_read + server.stream_window - r.sent_max >= server.stream_window \div Fraction
    IN  /\ Opened(i) /\ ~r.stopped
        /\ Cardinality(bytes) = n
        /\ taken' = [taken EXCEPT ![i] = @ \o ByOffset(bytes)]
        /\ recvs' = [recvs EXCEPT ![i] = read]
        /\ server' = AddReadCredits(
             [QueueMaxStreams(server) EXCEPT !.pending.max_stream_data = IF update THEN @ \cup {i} ELSE @], n)
        /\ UNCHANGED <<sendSide, packets, chances>>

\* The read that finds the stream finished or reset: its state is disposed of.
ReadEnd(i) ==
    LET r == recvs[i] IN
    /\ Opened(i) /\ ~r.stopped
    /\ \/ r.state = "ResetRecvd"
       \/ r.state = "Recv" /\ r.size = r.end /\ r.bytes_read = r.end
    /\ server' = QueueMaxStreams(FreedServer(server))
    /\ recvs' = FreedRecvs(server, i)
    /\ UNCHANGED <<sendSide, taken, packets, chances>>

StopReading(i) ==
    LET r == recvs[i]
        asked == [server EXCEPT !.pending.stop = IF r.state = "Recv" THEN @ \cup {i} ELSE @]
        ended == r.state # "Recv" \/ r.size # -1
    IN  /\ Opened(i) /\ ~r.stopped
        /\ Chance("abandon")
        /\ server' = AddReadCredits(IF ended THEN FreedServer(asked) ELSE asked, r.end - r.bytes_read)
        /\ recvs' = IF ended THEN FreedRecvs(asked, i)
                    ELSE [recvs EXCEPT ![i].stopped = TRUE, ![i].data = {}]
        /\ UNCHANGED <<sendSide, taken, packets>>

(* set_receive_window and set_max_concurrent_streams *)
SetReceiveWindow(w) ==
    /\ Chance("tune")
    /\ w # server.window
    /\ server' = [server EXCEPT
         !.window = w,
         !.local_max_data = IF w > server.window THEN @ + w - server.window ELSE @,
         !.debt = IF w > server.window THEN @ ELSE @ + server.window - w,
         !.pending.max_data = @ \/ w > server.window]
    /\ UNCHANGED <<sendSide, recvs, taken, packets>>

SetMaxConcurrent(n) ==
    LET v == [server EXCEPT !.concurrent = n] IN
    /\ Chance("tune")
    /\ n # server.concurrent
    /\ server' = QueueMaxStreams(Grow(v))
    /\ recvs' = InsertAll(recvs, v)
    /\ UNCHANGED <<sendSide, taken, packets>>

-----------------------------------------------------------------------------
(* Arriving frames                                                         *)

\* credit_consumed_by.
Exceeds(r, offset) ==
    \/ offset > r.sent_max
    \/ server.data_recvd + (IF offset > r.end THEN offset - r.end ELSE 0) > server.local_max_data

\* on_stream_frame.
Seen(v, i) == [v EXCEPT !.next_remote = IF i >= @ THEN i + 1 ELSE @]

\* Recv::ingest on a stream that is not stopped, or is.
Ingested(r, f) ==
    [r EXCEPT !.end = IF f.end > @ THEN f.end ELSE @,
              !.size = IF f.fin /\ ~r.stopped THEN f.end ELSE @,
              !.data = IF r.stopped THEN @
                       ELSE @ \cup {<<f.id, k>> : k \in {j \in f.start .. f.end - 1 : j >= r.bytes_read}}]

Fail(error) == failure' = error /\ UNCHANGED <<server, recvs>>

\* StreamsState::received.
ReceiveStream(f) ==
    LET r == recvs[f.id]
        new == IF f.end > r.end THEN f.end - r.end ELSE 0
        counted == [server EXCEPT !.data_recvd = @ + new]
        final == IF r.state = "ResetRecvd" \/ r.size # -1 THEN {r.size} ELSE {}
    IN  IF f.id >= server.max_remote THEN Fail("STREAM_LIMIT_ERROR")
        ELSE IF f.id \notin DOMAIN recvs \/ r.state # "Recv" THEN UNCHANGED <<server, recvs, failure>>
        ELSE IF \E z \in final : f.end > z \/ (f.fin /\ f.end # z) THEN Fail("FINAL_SIZE_ERROR")
        ELSE IF Exceeds(r, f.end) THEN Fail("FLOW_CONTROL_ERROR")
        ELSE /\ UNCHANGED failure
             /\ IF ~r.stopped
                THEN /\ server' = QueueMaxStreams(Seen(counted, f.id))
                     /\ recvs' = [recvs EXCEPT ![f.id] = Ingested(r, f)]
                ELSE IF f.fin
                THEN /\ server' = QueueMaxStreams(AddReadCredits(FreedServer(counted), new))
                     /\ recvs' = FreedRecvs(counted, f.id)
                ELSE /\ server' = QueueMaxStreams(AddReadCredits(counted, new))
                     /\ recvs' = [recvs EXCEPT ![f.id] = Ingested(r, f)]

\* received_reset: what a reset adds to the credit of the connection.
ResetCredits(r, final) == final - r.bytes_read

ReceiveReset(f) ==
    LET r == recvs[f.id]
        known == r.state = "ResetRecvd" \/ r.size # -1
        counted == [server EXCEPT !.data_recvd = @ + IF r.bytes_read # f.final THEN f.final - r.end ELSE 0]
        freed == IF r.stopped THEN FreedServer(counted) ELSE counted
    IN  IF f.id >= server.max_remote THEN Fail("STREAM_LIMIT_ERROR")
        ELSE IF f.id \notin DOMAIN recvs THEN UNCHANGED <<server, recvs, failure>>
        ELSE IF (known /\ r.size # f.final) \/ r.end > f.final THEN Fail("FINAL_SIZE_ERROR")
        ELSE IF Exceeds(r, f.final) THEN Fail("FLOW_CONTROL_ERROR")
        ELSE IF r.state = "ResetRecvd" THEN UNCHANGED <<server, recvs, failure>>
        ELSE /\ UNCHANGED failure
             /\ server' = QueueMaxStreams(LET v == Seen(freed, f.id) IN
                  IF r.bytes_read # f.final THEN AddReadCredits(v, ResetCredits(r, f.final)) ELSE v)
             /\ recvs' = IF r.stopped THEN FreedRecvs(counted, f.id)
                         ELSE [recvs EXCEPT ![f.id] = [r EXCEPT !.state = "ResetRecvd", !.size = f.final, !.data = {}]]

\* received_max_stream_data on a stream that had used up its credit.
Unblocked(i) ==
    IF WriteLimit(client) > 0 THEN [client EXCEPT !.events = @ \cup {i}]
                              ELSE [client EXCEPT !.blocked = @ \cup {i}]

ReceiveMaxStreamData(f) ==
    LET s == sends[f.id] IN
    IF f.id \in DOMAIN sends /\ f.max > s.max_data /\ s.state = "Ready"
    THEN /\ client' = IF s.offset = s.max_data THEN Unblocked(f.id) ELSE client
         /\ sends' = [sends EXCEPT ![f.id].max_data = f.max,
              ![f.id].blocked = @ \/ (s.offset = s.max_data /\ WriteLimit(client) = 0)]
    ELSE UNCHANGED <<client, sends>>

\* received_stop_sending: the application is told once.
ReceiveStop(f) ==
    IF f.id \in DOMAIN sends /\ ~sends[f.id].stopped
    THEN /\ sends' = [sends EXCEPT ![f.id].stopped = TRUE]
         /\ client' = [client EXCEPT !.events = @ \cup {f.id}]
    ELSE UNCHANGED <<client, sends>>

Higher(a, b) == IF a > b THEN a ELSE b

(* The acknowledgment of the server's frames has no effect on its streams, *)
(* and is taken to arrive with the frame.                                  *)
Deliver(p) ==
    LET f == p.frame IN
    /\ p \in in_transit
    /\ in_transit' = in_transit \ {p}
    /\ \/ /\ f.type \in {"STREAM", "RESET_STREAM"}
          /\ arrived' = arrived \cup ({p} \cap sent_packets)
          /\ UNCHANGED sent_packets
          /\ IF f.type = "STREAM" THEN ReceiveStream(f) ELSE ReceiveReset(f)
          /\ UNCHANGED sendSide
       \/ /\ f.type \in {"MAX_DATA", "MAX_STREAMS"}
          /\ sent_packets' = sent_packets \ {p}
          /\ client' = IF f.type = "MAX_DATA" THEN [client EXCEPT !.max_data = Higher(@, f.max)]
                                              ELSE [client EXCEPT !.max = Higher(@, f.max)]
          /\ UNCHANGED <<sends, written, waiting, server, recvs, failure, arrived>>
       \/ /\ f.type \in {"MAX_STREAM_DATA", "STOP_SENDING"}
          /\ sent_packets' = sent_packets \ {p}
          /\ IF f.type = "STOP_SENDING" THEN ReceiveStop(f) ELSE ReceiveMaxStreamData(f)
          /\ UNCHANGED <<written, waiting, server, recvs, failure, arrived>>
    /\ UNCHANGED <<taken, chances>>

-----------------------------------------------------------------------------
(* Acknowledgment and loss: on_packet_acked, detect_lost_packets           *)

\* Mutant: data acknowledged on a reset stream is taken off again.
CountedAckAlways(s) == TRUE

\* received_ack_of: outstanding data of a reset stream was accounted for when
\* it was reset.
CountedAck(s) == s.state # "ResetSent"

AckStream(f) ==
    LET s == sends[f.id]
        acked == [s EXCEPT !.acks = @ \cup (f.start .. f.end - 1),
                           !.fin_acked = @ \/ (f.fin /\ s.state = "DataSent")]
    IN  IF f.id \notin DOMAIN sends \/ ~CountedAck(s) THEN UNCHANGED <<client, sends>>
        ELSE /\ client' = [client EXCEPT !.unacked_data = @ - (f.end - f.start)]
             /\ sends' = IF s.state = "DataSent" /\ acked.fin_acked /\ FullyAcked(acked)
                         THEN Drop(sends, f.id) ELSE [sends EXCEPT ![f.id] = acked]

Acknowledge(p) ==
    LET f == p.frame IN
    /\ p \in arrived \cap sent_packets
    /\ sent_packets' = sent_packets \ {p}
    /\ arrived' = arrived \ {p}
    /\ \/ f.type = "STREAM" /\ AckStream(f)
       \/ /\ f.type = "RESET_STREAM"
          /\ sends' = IF f.id \in DOMAIN sends /\ sends[f.id].state = "ResetSent"
                      THEN Drop(sends, f.id) ELSE sends
          /\ UNCHANGED client
    /\ waiting' = waiting \cap DOMAIN sends'
    /\ UNCHANGED <<in_transit, written, recvSide, failure, chances>>

(* The packet is declared lost: what it carried is sent again, control     *)
(* frames with the values of that time.  It may have arrived, or arrive    *)
(* later.                                                                  *)
Resent(f) ==
    [server.pending EXCEPT
       !.max_data = @ \/ f.type = "MAX_DATA",
       !.max_streams = @ \/ f.type = "MAX_STREAMS",
       !.max_stream_data = IF f.type = "MAX_STREAM_DATA" THEN @ \cup {f.id} ELSE @,
       !.stop = IF f.type = "STOP_SENDING" THEN @ \cup {f.id} ELSE @]

DeclareLost(p, late) ==
    LET f == p.frame IN
    /\ p \in sent_packets
    /\ Chance("loss")
    /\ sent_packets' = sent_packets \ {p}
    /\ arrived' = arrived \ {p}
    /\ in_transit' = IF late THEN in_transit ELSE in_transit \ {p}
    /\ sends' = IF f.type = "STREAM" /\ f.id \in DOMAIN sends
                THEN [sends EXCEPT ![f.id].fin_pending = @ \/ f.fin,
                                   ![f.id].retransmits = @ \cup (f.start .. f.end - 1)]
                ELSE sends
    /\ client' = IF f.type = "RESET_STREAM" THEN [client EXCEPT !.reset = @ \cup {f.id}] ELSE client
    /\ server' = [server EXCEPT !.pending = Resent(f)]
    /\ UNCHANGED <<written, waiting, recvs, taken, failure>>

-----------------------------------------------------------------------------
StreamNext ==
    /\ failure = "none"
    /\ \/ /\ \/ OpenStream
             \/ \E i \in DOMAIN sends :
                  \/ \E n \in 1 .. MaxFrame : Write(i, n)
                  \/ Finish(i)
                  \/ Reset(i)
                  \/ \E len \in 1 .. MaxFrame : TransmitStream(i, len)
             \/ \E i \in Ids : TransmitReset(i)
             \/ PollEvents
             \/ TransmitControl
             \/ \E i \in Ids : ReadEnd(i) \/ StopReading(i) \/ \E n \in 1 .. MaxFrame : ReadChunk(i, n)
             \/ \E w \in {1, 3} : SetReceiveWindow(w)
             \/ \E n \in 0 .. 2 : SetMaxConcurrent(n)
          /\ UNCHANGED failure
       \/ \E p \in in_transit \cup sent_packets :
            Deliver(p) \/ Acknowledge(p) \/ \E late \in BOOLEAN : DeclareLost(p, late)

StreamSpec == StreamInit /\ [][StreamNext]_streamVars

-----------------------------------------------------------------------------
(* Properties *)

\* Whether the reset of stream i, if it arrived again, would be refused: it is held
\* against the credit of the connection as if it came first (Recv::reset).
ResetRefused(i) ==
    /\ recvs[i].state = "ResetRecvd"
    /\ server.data_recvd + recvs[i].size - recvs[i].end > server.local_max_data

\* Two ends that keep to the code do not close the connection on each other, whatever
\* is lost, late or resized: no frame is refused for stream count or final size, and
\* for flow control only the reset of a stream that was reset before
\* (credit_consumed_by, Recv::ingest, Recv::reset).
NoStreamError ==
    failure # "none" => failure = "FLOW_CONTROL_ERROR" /\ \E i \in DOMAIN recvs : ResetRefused(i)

\* "Returns `false` iff the reset was redundant": a reset that arrives again, as it
\* does when its first packet was declared lost, does not close the connection.
RedundantResetIgnored == failure # "none" => \A i \in DOMAIN recvs : ~ResetRefused(i)

\* What was read of stream i, as offsets; -1 stands for a byte of another stream.
Offsets(i) == [k \in 1 .. Len(taken[i]) |-> IF taken[i][k][1] = i THEN taken[i][k][2] ELSE -1]
FirstStream  == INSTANCE FifoChannel WITH sent <- written[0], delivered <- Offsets(0)
SecondStream == INSTANCE FifoChannel WITH sent <- written[1], delivered <- Offsets(1)
\* A stream is a channel: what is read is what was written, in order and once,
\* over any loss and although a Recv is used again for a later stream.
StreamsAreChannels == FirstStream!Spec /\ SecondStream!Spec

\* The bytes written and not acknowledged, of the streams that are not reset.
UnackedBytes ==
    UNION {{i} \X ((0 .. sends[i].offset - 1) \ sends[i].acks) :
             i \in {j \in DOMAIN sends : sends[j].state # "ResetSent"}}

\* The send window counts each unacknowledged byte once: resets, losses and late
\* acknowledgments neither leak it nor give it back twice (unacked_data).
SendWindowAccounted == client.unacked_data = Cardinality(UnackedBytes)

\* A writer that was told Blocked and could now write has been or will be told:
\* an event is queued, or poll will find the stream in connection_blocked.
NoLostWakeup ==
    \A i \in waiting :
        ~sends[i].stopped /\ WriteLimit(client) > 0 /\ sends[i].max_data > sends[i].offset
            => i \in client.events \cup client.blocked

\* What a sender may write: the window it counts against is true, and it is told
\* when it may go on.
SendAccounted == SendWindowAccounted /\ NoLostWakeup
=============================================================================
