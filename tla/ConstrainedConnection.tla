------------------------ MODULE ConstrainedConnection ------------------------
(***************************************************************************)
(* A constrained connection as a value: the connection state machine       *)
(* (src/constrained/state.rs), the packet headers (header.rs) and the      *)
(* operations of ConstrainedConnection (connection.rs), each an operator   *)
(* from a connection record to the connection record it leaves behind.     *)
(* ConstrainedEngine keeps one such record per connection id.              *)
(*                                                                         *)
(* Time is the caller's: a tick says what the clock lets one call of poll  *)
(* see (a timeout, the entries whose RTO expired, a keepalive that is due).*)
(***************************************************************************)
EXTENDS ArqWindows

-----------------------------------------------------------------------------
(* Headers: a set of flags, two sequence numbers and a payload. *)

NoPayload == 0

Packet(cid, flags, seq, ack, payload) ==
    [cid |-> cid, flags |-> flags, seq |-> seq, ack |-> ack, payload |-> payload]

Syn(cid)                  == Packet(cid, {"SYN"}, 0, 0, NoPayload)
SynAck(cid, ack)          == Packet(cid, {"SYN", "ACK"}, 0, ack, NoPayload)
Ack(cid, seq, ack)        == Packet(cid, {"ACK"}, seq, ack, NoPayload)
Data(cid, seq, ack, data) == Packet(cid, {"DATA", "ACK"}, seq, ack, data)
Fin(cid, seq, ack)        == Packet(cid, {"FIN", "ACK"}, seq, ack, NoPayload)
Rst(cid)                  == Packet(cid, {"RST"}, 0, 0, NoPayload)
Ping(cid, seq)            == Packet(cid, {"PING"}, seq, 0, NoPayload)
Pong(cid, ack)            == Packet(cid, {"PONG"}, 0, ack, NoPayload)

IsSyn(p) == "SYN" \in p.flags
IsAck(p) == "ACK" \in p.flags

\* Mutant: any SYN passes for a SYN-ACK.
IsAnySyn(p) == IsSyn(p)

IsSynAck(p) == IsSyn(p) /\ IsAck(p)

-----------------------------------------------------------------------------
(* The state machine. *)

ConnectionStates == {"Closed", "SynSent", "SynReceived", "Established",
                     "FinWait", "Closing", "TimeWait"}

CanSendData(state) == state \in {"Established", "FinWait"}
IsClosed(state)    == state \in {"Closed", "TimeWait"}

\* StateMachine::next_state, as triples <<from, event, to>>.
Transitions ==
    {<<"Closed", "Open", "SynSent">>, <<"Closed", "RecvSyn", "SynReceived">>,
     <<"SynSent", "RecvSynAck", "Established">>,
     <<"SynReceived", "RecvAck", "Established">>,
     <<"SynSent", "Close", "Closed">>, <<"SynReceived", "Close", "Closed">>,
     <<"Established", "RecvFin", "Closing">>, <<"Established", "Close", "FinWait">>,
     <<"FinWait", "RecvAck", "Closing">>, <<"FinWait", "RecvFin", "TimeWait">>,
     <<"Closing", "RecvAck", "TimeWait">>, <<"Closing", "RecvFin", "TimeWait">>}
    \cup (ConnectionStates \ {"Closed"}) \X {"RecvRst", "Timeout"} \X {"Closed"}

CanTransition(c, event) == \E to \in ConnectionStates : <<c.state, event, to>> \in Transitions

\* An event that is not valid in the state leaves the state as it is.
Transition(c, event) ==
    IF CanTransition(c, event)
    THEN [c EXCEPT !.state = CHOOSE to \in ConnectionStates :
                                <<c.state, event, to>> \in Transitions]
    ELSE c

-----------------------------------------------------------------------------
(* ConstrainedConnection *)

NewConnection(remote, initiator) ==
    [remote |-> remote, initiator |-> initiator, state |-> "Closed",
     local_seq |-> 0, base_seq |-> 0, unacked |-> <<>>,
     next_expected |-> 0, cumulative_ack |-> 0, out_of_order |-> {},
     outbound |-> <<>>, inbound |-> <<>>, events |-> <<>>]

Queue(c, packet) == [c EXCEPT !.outbound = Append(@, packet)]
Emit(c, event)   == [c EXCEPT !.events = Append(@, event)]

\* Sending count chunks, numbered from first; the caller has checked that the
\* window has room for them.
SendChunks(cid, c, first, count) ==
    LET seq(i)    == SeqAdd(c.local_seq, i - 1)
        entry(i)  == SendEntry(seq(i), first + i - 1)
        packet(i) == Data(cid, seq(i), c.cumulative_ack, first + i - 1)
    IN  [c EXCEPT !.local_seq = SeqAdd(@, count),
                  !.unacked   = @ \o [i \in 1 .. count |-> entry(i)],
                  !.outbound  = @ \o [i \in 1 .. count |-> packet(i)]]

\* The answer to a SYN-ACK: the receive window restarts behind the number
\* of the SYN-ACK, and an ACK completes the handshake.
CompleteHandshake(cid, c, p) ==
    LET open  == Transition(c, "RecvSynAck")
        start == SeqNext(p.seq)
        reset == [open EXCEPT !.next_expected = start,
                              !.cumulative_ack = start,
                              !.out_of_order = {}]
    IN  Emit(Queue(reset, Ack(cid, c.local_seq, start)), "Connected")

(* What an Established connection does with a packet, flag by flag. *)
OnAck(c, p) ==
    LET n == CHOOSE n \in AckedLengths(c.base_seq, c.unacked, p.ack) : TRUE
    IN  IF IsAck(p)
        THEN [c EXCEPT !.unacked  = SubSeq(@, n + 1, Len(@)),
                       !.base_seq = AckedBase(@, p.ack, n)]
        ELSE c

DeliverInOrder(cid, c, p) ==
    LET k   == CHOOSE k \in DrainLengths(c.next_expected, c.out_of_order) : TRUE
        run == <<p.payload>> \o DrainedData(c.next_expected, c.out_of_order, k)
        got == [c EXCEPT
                  !.next_expected  = SeqAdd(@, k + 1),
                  !.cumulative_ack = SeqAdd(c.next_expected, k),
                  !.out_of_order   = @ \ Drained(c.next_expected, @, k),
                  !.inbound        = @ \o run,
                  !.events         = @ \o [i \in 1 .. k + 1 |-> "DataReceived"]]
    IN  Queue(got, Ack(cid, c.local_seq, got.cumulative_ack))

OnData(cid, c, p) ==
    IF "DATA" \notin p.flags \/ p.payload = NoPayload
          \/ ~IsInWindow(c.next_expected, p.seq)
    THEN c
    ELSE IF p.seq = c.next_expected
         THEN DeliverInOrder(cid, c, p)
         ELSE [c EXCEPT !.out_of_order = BufferPacket(@, p.seq, p.payload)]

OnFin(cid, c, p) ==
    IF "FIN" \in p.flags
    THEN Emit(Queue(Transition(c, "RecvFin"), Ack(cid, c.local_seq, SeqNext(p.seq))), "Closed")
    ELSE c

OnPing(cid, c, p) == IF "PING" \in p.flags THEN Queue(c, Pong(cid, p.seq)) ELSE c

\* FIN_WAIT takes any ACK for the ACK of its FIN, and looks at no data.
OnFinWait(c, p) ==
    LET acked == IF IsAck(p) THEN Transition(c, "RecvAck") ELSE c
    IN  IF "FIN" \in p.flags THEN Emit(Transition(acked, "RecvFin"), "Closed") ELSE acked

\* ConstrainedConnection::process_packet.
ProcessPacket(cid, c, p) ==
    CASE "RST" \in p.flags -> Emit(Transition(c, "RecvRst"), "Reset")
      [] "RST" \notin p.flags /\ c.state = "SynSent" ->
            IF IsSynAck(p) THEN CompleteHandshake(cid, c, p) ELSE c
      [] "RST" \notin p.flags /\ c.state = "SynReceived" ->
            IF IsAck(p) THEN Emit(Transition(c, "RecvAck"), "Connected") ELSE c
      [] "RST" \notin p.flags /\ c.state = "Established" ->
            OnPing(cid, OnFin(cid, OnData(cid, OnAck(c, p), p), p), p)
      [] "RST" \notin p.flags /\ c.state = "FinWait" -> OnFinWait(c, p)
      [] "RST" \notin p.flags /\ c.state = "Closing" ->
            IF IsAck(p) \/ "FIN" \in p.flags THEN Transition(c, "RecvAck") ELSE c
      [] OTHER -> c

-----------------------------------------------------------------------------
(* ConstrainedConnection::poll *)

\* What the clock shows to one call of poll: nothing, a state or idle timeout,
\* a keepalive that is due, or entries older than the RTO.
Quiet        == [timed_out |-> FALSE, expired |-> {}, ping |-> FALSE]
TimedOut     == [Quiet EXCEPT !.timed_out = TRUE]
PingDue      == [Quiet EXCEPT !.ping = TRUE]
Expired(set) == [Quiet EXCEPT !.expired = set]

Ticks(c) ==
    {Quiet, TimedOut}
    \cup {t \in {PingDue} : c.state = "Established"}
    \cup {Expired(set) : set \in SUBSET (1 .. Len(c.unacked)) \ {{}}}

\* Mutant: a failed poll neither changes the state nor reports anything.
FailSilently(c) == [conn |-> c, packets |-> {}]

\* The connection fails: the timeout transition and the Error event; nothing
\* is transmitted and the outbound queue stays.
Fail(c) == [conn |-> Emit(Transition(c, "Timeout"), "Error"), packets |-> {}]

\* The packets one call of poll returns, as a set: the transport below may
\* reorder them.
Poll(cid, c, tick) ==
    LET resent(i) == Data(cid, c.unacked[i].seq, c.cumulative_ack, c.unacked[i].data)
        marked    == [c EXCEPT !.unacked = Retransmitted(@, tick.expired)]
    IN  IF tick.timed_out
        THEN Fail(c)
        ELSE IF RetriesExhausted(c.unacked, tick.expired) # {}
        THEN Fail(marked)
        ELSE [conn    |-> [marked EXCEPT !.outbound = <<>>],
              packets |-> {c.outbound[i] : i \in 1 .. Len(c.outbound)}
                            \cup {resent(i) : i \in tick.expired}
                            \cup {p \in {Ping(cid, c.local_seq)} : tick.ping}]
=============================================================================
