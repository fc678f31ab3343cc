-------------------------- MODULE ConstrainedEngine --------------------------
(***************************************************************************)
(* ConstrainedEngine (src/constrained/engine.rs) at every node of a small  *)
(* network: the table of connections, the address index, connection ids,   *)
(* routing of incoming packets, and maintenance.  The link between nodes   *)
(* delivers packets in any order, never (a packet that is never received   *)
(* is a lost one) or, within a bound, more than once.                      *)
(***************************************************************************)
EXTENDS ConstrainedConnection, FiniteSets

CONSTANTS
    Nodes,            \* the engines; a node's name is also its address
    MaxConnId,        \* largest connection id (65535 in the code)
    MaxChunks,        \* bound: chunks of one message
    Settings          \* the alternatives a behaviour begins with: the bound on who
                      \* may connect to whom (dials, pairs <<n, m>>),
                      \* EngineConfig.max_connections, and the bound on how often
                      \* each kind of occurrence may happen (budget)

\* Calls of connect, chunks sent, calls of close and reset, timeouts of an
\* Established connection (those of the other states are not bounded), RTO
\* expiries and due keepalives, packets delivered twice.
Occurrences == {"connect", "chunk", "ending", "timeout", "expiry", "duplicate"}

ASSUME EngineConstants ==
    /\ {MaxConnId, MaxChunks} \subseteq Nat \ {0}
    /\ Settings \subseteq [dials: SUBSET (Nodes \X Nodes), max_connections: Nat \ {0},
                            budget: [Occurrences -> Nat]]

ConnIds == 1 .. MaxConnId

VARIABLES
    connections,    \* node -> id -> connection, for the ids in use
    addr_to_conn,   \* node -> remote address -> id, for the addresses known
    next_conn_id,   \* node -> the next id to use
    events,         \* node -> the events handed to the application so far
    net,            \* packets in transit
    sent,           \* <<node, id>> -> the chunks the application sent
    received,       \* <<node, id>> -> the chunks the application took
    ended,          \* the <<node, id>> the application closed or reset
    setting,        \* the alternative of this behaviour
    budget          \* how often each kind of occurrence may still happen

engine  == <<connections, addr_to_conn, next_conn_id, events>>
history == <<sent, received, ended>>
vars    == <<engine, net, history, setting, budget>>

Init ==
    /\ connections  = [n \in Nodes |-> <<>>]
    /\ addr_to_conn = [n \in Nodes |-> <<>>]
    /\ next_conn_id = [n \in Nodes |-> 1]
    /\ events       = [n \in Nodes |-> {}]
    /\ net = {}
    /\ sent         = [x \in Nodes \X ConnIds |-> <<>>]
    /\ received     = [x \in Nodes \X ConnIds |-> <<>>]
    /\ ended = {}
    /\ setting \in Settings
    /\ budget = setting.budget

-----------------------------------------------------------------------------
\* amount[o] more of each occurrence, within the budget.
Use(amount) ==
    /\ \A o \in DOMAIN amount : amount[o] <= budget[o]
    /\ budget' = [o \in Occurrences |->
                    budget[o] - IF o \in DOMAIN amount THEN amount[o] ELSE 0]

(* HashMap insert and remove. *)

Inserted(map, key, value) ==
    [k \in DOMAIN map \cup {key} |-> IF k = key THEN value ELSE map[k]]

Without(map, keys) == [k \in DOMAIN map \ keys |-> map[k]]

HasConnection(n, id) == id \in DOMAIN connections[n]

CanAcceptConnection(n) == Cardinality(DOMAIN connections[n]) < setting.max_connections

\* generate_conn_id: the next id, wrapping past 0.
ConnIdAfter(id) == IF id = MaxConnId THEN 1 ELSE id + 1

Message(from, to, packet) == [from |-> from, to |-> to, packet |-> packet]

Addressed(from, to, packets) == {Message(from, to, p) : p \in packets}

Event(kind, id) == [kind |-> kind, id |-> id]

\* Mutant: a reset by the peer is not reported.
ReportedExceptReset(event) ==
    CASE event = "Connected" -> {"ConnectionEstablished"}
      [] event = "Closed" -> {"ConnectionClosed"}
      [] event = "Error" -> {"ConnectionError"}
      [] event \in {"Reset", "DataReceived"} -> {}

\* process_incoming reports every connection event but DataReceived; poll
\* reports only the ends of connections.
ReportedAs(event) ==
    CASE event = "Connected" -> {"ConnectionEstablished"}
      [] event \in {"Closed", "Reset"} -> {"ConnectionClosed"}
      [] event = "Error" -> {"ConnectionError"}
      [] event = "DataReceived" -> {}

EndsConnection(event) == event \in {"Closed", "Reset", "Error"}

\* next_event, until there is none.
EventsOf(c) == {c.events[i] : i \in 1 .. Len(c.events)}

EngineEvents(id, conn_events) ==
    {Event(kind, id) : kind \in UNION {ReportedAs(event) : event \in conn_events}}

-----------------------------------------------------------------------------
(* connect: refused when the table is full or the address is known. *)
Connect(n, m) ==
    LET id   == next_conn_id[n]
        conn == Transition(NewConnection(m, TRUE), "Open")
    IN  /\ <<n, m>> \in setting.dials
        /\ Use([connect |-> 1])
        /\ CanAcceptConnection(n)
        /\ m \notin DOMAIN addr_to_conn[n]
        /\ connections'  = [connections EXCEPT ![n] = Inserted(@, id, conn)]
        /\ addr_to_conn' = [addr_to_conn EXCEPT ![n] = Inserted(@, m, id)]
        /\ next_conn_id' = [next_conn_id EXCEPT ![n] = ConnIdAfter(@)]
        /\ net'          = net \cup {Message(n, m, Syn(id))}
        /\ UNCHANGED <<events, history>>

\* One connection is polled on behalf of process_incoming or send, and what
\* it returns is handed to the link.
PollAndTransmit(n, id, conn, tick, to, rest) ==
    LET polled == Poll(id, conn, tick)
    IN  /\ connections' = [connections EXCEPT ![n][id] = polled.conn]
        /\ net'         = rest \cup Addressed(n, to, polled.packets)

Timeouts(ticks, conns) ==
    Cardinality({id \in DOMAIN ticks : ticks[id].timed_out /\ conns[id].state = "Established"})
Expiries(ticks) ==
    Cardinality({id \in DOMAIN ticks : ticks[id].ping \/ ticks[id].expired # {}})

(* A packet for a known connection: processed, its events reported, and the *)
(* connection polled; whatever poll returns goes back to where the packet   *)
(* came from.  A state just entered cannot have timed out.                  *)
ProcessKnown(n, msg, rest, again) ==
    LET id   == msg.packet.cid
        c    == connections[n][id]
        seen == ProcessPacket(id, c, msg.packet)
        idle == [seen EXCEPT !.events = <<>>]
    IN  /\ HasConnection(n, id)
        /\ \E tick \in Ticks(idle) :
            /\ tick.timed_out => seen.state = c.state /\ c.state # "Closed"
            /\ Use([timeout   |-> Timeouts(<<tick>>, <<idle>>),
                    expiry    |-> Expiries(<<tick>>),
                    duplicate |-> again])
            /\ PollAndTransmit(n, id, idle, tick, msg.from, rest)
        /\ events' = [events EXCEPT ![n] = @ \cup EngineEvents(id, EventsOf(seen))]
        /\ UNCHANGED <<addr_to_conn, next_conn_id>>

(* A SYN that opens a connection: refused with RST when the table is full. *)
AcceptSyn(n, msg, rest, again) ==
    LET id   == msg.packet.cid
        conn == Transition(NewConnection(msg.from, FALSE), "RecvSyn")
    IN  /\ ~HasConnection(n, id)
        /\ IsSyn(msg.packet) /\ ~IsAck(msg.packet)
        /\ CanAcceptConnection(n)
        /\ connections'  = [connections EXCEPT ![n] = Inserted(@, id, conn)]
        /\ addr_to_conn' = [addr_to_conn EXCEPT ![n] = Inserted(@, msg.from, id)]
        /\ events' = [events EXCEPT ![n] = @ \cup {Event("ConnectionAccepted", id)}]
        /\ net' = rest \cup {Message(n, msg.from, SynAck(id, SeqNext(msg.packet.seq)))}
        /\ Use([duplicate |-> again])
        /\ UNCHANGED next_conn_id

RefuseSyn(n, msg, rest, again) ==
    /\ ~HasConnection(n, msg.packet.cid)
    /\ IsSyn(msg.packet) /\ ~IsAck(msg.packet)
    /\ ~CanAcceptConnection(n)
    /\ net' = rest \cup {Message(n, msg.from, Rst(msg.packet.cid))}
    /\ Use([duplicate |-> again])
    /\ UNCHANGED engine

(* Any other packet for an unknown connection is ignored. *)
IgnoreUnknown(n, msg, rest, again) ==
    /\ ~HasConnection(n, msg.packet.cid)
    /\ ~(IsSyn(msg.packet) /\ ~IsAck(msg.packet))
    /\ net' = rest
    /\ Use([duplicate |-> again])
    /\ UNCHANGED engine

(* process_incoming; the link may deliver the packet a second time. *)
ProcessIncoming(n) ==
    \E msg \in {x \in net : x.to = n} : \E again \in 0 .. 1 :
        LET rest == IF again = 1 THEN net ELSE net \ {msg}
        IN  /\ \/ ProcessKnown(n, msg, rest, again)
               \/ AcceptSyn(n, msg, rest, again)
               \/ RefuseSyn(n, msg, rest, again)
               \/ IgnoreUnknown(n, msg, rest, again)
            /\ UNCHANGED history

(* send of a message of several chunks.  Chunks are queued until the window *)
(* is full; only a message that fits whole is polled, otherwise the call    *)
(* fails with the queued chunks left behind.  An entry just queued cannot   *)
(* have expired.                                                            *)
Send(n, id) ==
    LET c     == connections[n][id]
        count == Len(sent[<<n, id>>])
        room  == WindowSize - Len(c.unacked)
    IN  /\ HasConnection(n, id)
        /\ CanSendData(c.state)
        /\ \E chunks \in 1 .. MaxChunks :
            LET fits   == IF chunks <= room THEN chunks ELSE room
                queued == SendChunks(id, c, count + 1, fits)
            IN  /\ sent' = [sent EXCEPT ![<<n, id>>] = @ \o [i \in 1 .. fits |-> count + i]]
                /\ \/ /\ fits < chunks
                      /\ connections' = [connections EXCEPT ![n][id] = queued]
                      /\ Use([chunk |-> chunks])
                      /\ UNCHANGED net
                   \/ /\ fits = chunks
                      /\ \E tick \in Ticks(c) :
                            /\ Use([chunk   |-> chunks,
                                    timeout |-> Timeouts(<<tick>>, <<c>>),
                                    expiry  |-> Expiries(<<tick>>)])
                            /\ PollAndTransmit(n, id, queued, tick, c.remote, net)
        /\ UNCHANGED <<addr_to_conn, next_conn_id, events, received, ended>>

(* recv *)
Recv(n, id) ==
    /\ HasConnection(n, id)
    /\ connections[n][id].inbound # <<>>
    /\ received'    = [received EXCEPT ![<<n, id>>] = Append(@, Head(connections[n][id].inbound))]
    /\ connections' = [connections EXCEPT ![n][id].inbound = Tail(@)]
    /\ UNCHANGED <<addr_to_conn, next_conn_id, events, net, sent, ended, budget>>

(* close: the FIN is handed to the link at once, past the outbound queue. *)
Close(n, id) ==
    LET c == connections[n][id]
    IN  /\ HasConnection(n, id)
        /\ CanTransition(c, "Close")
        /\ connections' = [connections EXCEPT ![n][id] = Transition(c, "Close")]
        /\ net' = net \cup {Message(n, c.remote, Fin(id, c.local_seq, c.cumulative_ack))}
        /\ ended' = ended \cup {<<n, id>>}
        /\ Use([ending |-> 1])
        /\ UNCHANGED <<addr_to_conn, next_conn_id, events, sent, received>>

\* Mutant: reset forgets the address index.
ResetKeepsAddress(n, id) ==
    /\ HasConnection(n, id)
    /\ net' = net \cup {Message(n, connections[n][id].remote, Rst(id))}
    /\ connections' = [connections EXCEPT ![n] = Without(@, {id})]
    /\ ended' = ended \cup {<<n, id>>}
    /\ Use([ending |-> 1])
    /\ UNCHANGED <<addr_to_conn, next_conn_id, events, sent, received>>

(* reset: the connection and every address that leads to it are dropped. *)
Reset(n, id) ==
    /\ HasConnection(n, id)
    /\ net' = net \cup {Message(n, connections[n][id].remote, Rst(id))}
    /\ connections'  = [connections EXCEPT ![n] = Without(@, {id})]
    /\ addr_to_conn' = [addr_to_conn EXCEPT ![n] =
                          Without(@, {a \in DOMAIN @ : @[a] = id})]
    /\ ended' = ended \cup {<<n, id>>}
    /\ Use([ending |-> 1])
    /\ UNCHANGED <<next_conn_id, events, sent, received>>

\* The connections a poll drops: those that reported their end, and those
\* that are Closed or in TIME_WAIT after the poll.
ToRemove(polled) ==
    {id \in DOMAIN polled :
        \/ \E event \in EventsOf(polled[id].conn) : EndsConnection(event)
        \/ IsClosed(polled[id].conn.state)}

PollEvents(polled) ==
    UNION {EngineEvents(id, {event \in EventsOf(polled[id].conn) : EndsConnection(event)}) :
             id \in DOMAIN polled}

\* The addresses whose index entries poll removes.
AddressesOf(polled, gone) == {polled[id].conn.remote : id \in gone}

(* poll: every connection is polled, its end reported, and what is closed *)
(* is dropped together with the index entry of its address.               *)
PollWith(n, ticks) ==
    LET polled == [id \in DOMAIN ticks |-> Poll(id, connections[n][id], ticks[id])]
        gone   == ToRemove(polled)
    IN  /\ Use([timeout |-> Timeouts(ticks, connections[n]), expiry |-> Expiries(ticks)])
        /\ connections' = [connections EXCEPT ![n] =
             [id \in DOMAIN ticks \ gone |-> [polled[id].conn EXCEPT !.events = <<>>]]]
        /\ addr_to_conn' = [addr_to_conn EXCEPT ![n] =
             Without(@, AddressesOf(polled, gone))]
        /\ events' = [events EXCEPT ![n] = @ \cup PollEvents(polled)]
        /\ net' = net \cup UNION {Addressed(n, polled[id].conn.remote, polled[id].packets) :
                                    id \in DOMAIN ticks}
        /\ UNCHANGED <<next_conn_id, history>>

PollEngine(n) ==
    LET conns == connections[n]
    IN  \E ticks \in [DOMAIN conns -> UNION {Ticks(conns[id]) : id \in DOMAIN conns}] :
            /\ \A id \in DOMAIN conns : ticks[id] \in Ticks(conns[id])
            /\ PollWith(n, ticks)

Next ==
    /\ UNCHANGED setting
    /\ \E n \in Nodes :
        \/ \E m \in Nodes : Connect(n, m)
        \/ ProcessIncoming(n)
        \/ PollEngine(n)
        \/ \E id \in ConnIds : Send(n, id) \/ Recv(n, id) \/ Close(n, id) \/ Reset(n, id)

Spec == Init /\ [][Next]_vars

\* poll after the timeout of connection id, which is not Established, ran out.
TimeoutOf(n, id) ==
    /\ HasConnection(n, id)
    /\ connections[n][id].state # "Established"
    /\ PollWith(n, [x \in DOMAIN connections[n] |-> IF x = id THEN TimedOut ELSE Quiet])
    /\ UNCHANGED setting

\* Every state but Established runs out within 30 seconds, and poll is called
\* periodically; nothing is assumed of the link or of the application.
Fairness == \A n \in Nodes : \A id \in ConnIds : WF_vars(TimeoutOf(n, id))

FairSpec == Spec /\ Fairness

-----------------------------------------------------------------------------
(* Properties *)

Payloads == Nat \ {0}

ConnectionOK(n, id) ==
    LET c == connections[n][id]
    IN  /\ c.remote \in Nodes
        /\ c.state \in ConnectionStates
        /\ {c.local_seq, c.base_seq, c.next_expected, c.cumulative_ack} \subseteq SeqNumbers
        /\ Len(c.unacked) <= WindowSize
        /\ \A i \in 1 .. Len(c.unacked) :
              c.unacked[i] \in [seq : SeqNumbers, data : Payloads, transmissions : 1 .. MaxRetries + 1]
        /\ c.out_of_order \subseteq [seq : SeqNumbers, data : Payloads]
        /\ c.inbound \in Seq(Payloads)

TypeOK ==
    /\ \A n \in Nodes : DOMAIN connections[n] \subseteq ConnIds
    /\ \A n \in Nodes : \A id \in DOMAIN connections[n] : ConnectionOK(n, id)
    /\ \A n \in Nodes : \A a \in DOMAIN addr_to_conn[n] :
          a \in Nodes /\ addr_to_conn[n][a] \in ConnIds
    /\ next_conn_id \in [Nodes -> ConnIds]
    /\ budget \in [Occurrences -> Nat]

Reported(n, kinds, id) == \E kind \in kinds : Event(kind, id) \in events[n]

Ended(n, id) == Reported(n, {"ConnectionClosed", "ConnectionError"}, id)

\* What the application of n has been given on connection id, taken or not.
Delivered(n, id) ==
    received[<<n, id>>] \o IF HasConnection(n, id) THEN connections[n][id].inbound ELSE <<>>

IsPrefixOf(s, t) == Len(s) <= Len(t) /\ s = SubSeq(t, 1, Len(s))

\* Handshake agreement: an initiator that sees its connection established talks
\* to a peer that accepted it, whatever was duplicated, reordered or timed out
\* (the SynSent arm of process_packet, and process_incoming of the peer).
InitiatorAgreement ==
    \A n \in Nodes : \A id \in DOMAIN connections[n] :
        LET c == connections[n][id]
        IN  c.initiator /\ c.state \in {"Established", "FinWait"}
              => Event("ConnectionAccepted", id) \in events[c.remote]

\* What the initiator sends arrives in order, complete up to some point and
\* once, also when the first packet overtakes the end of the handshake
\* (send, process_packet, poll).
InitiatorDelivery ==
    \A n, m \in Nodes : \A id \in ConnIds :
        <<n, m>> \in setting.dials => IsPrefixOf(Delivered(m, id), sent[<<n, id>>])

\* What the node that dials can rely on: an established connection was accepted
\* by the peer, and what is sent over it arrives in order and once.
InitiatorServed == InitiatorDelivery /\ InitiatorAgreement

\* The application learns of the end of every connection it was told of and
\* did not end itself: no poll drops one silently (process_incoming, poll).
EndReported ==
    \A n \in Nodes : \A id \in ConnIds :
        Reported(n, {"ConnectionAccepted", "ConnectionEstablished"}, id)
          => HasConnection(n, id) \/ <<n, id>> \in ended \/ Ended(n, id)

\* An address in the index leads to a live connection to that address, so
\* connect refuses an address only while there is a connection to it
\* ("Check if we already have a connection to this address").
AddressIndex ==
    \A n \in Nodes : \A a \in DOMAIN addr_to_conn[n] :
        /\ HasConnection(n, addr_to_conn[n][a])
        /\ connections[n][addr_to_conn[n][a]].remote = a

\* No connection is stuck in a handshake or in closing: it becomes established
\* or leaves the table (the timeouts of poll).
NoLinger ==
    \A n \in Nodes : \A id \in ConnIds :
        (HasConnection(n, id) /\ connections[n][id].state # "Established")
          ~> (HasConnection(n, id) => connections[n][id].state = "Established")

-----------------------------------------------------------------------------
(* What the documentation says and the code does not do. *)

\* "reliable messaging": what the responder sends arrives in order and without
\* a gap at the initiator.
ResponderDelivery ==
    \A n, m \in Nodes : \A id \in ConnIds :
        <<n, m>> \in setting.dials => IsPrefixOf(Delivered(n, id), sent[<<m, id>>])
=============================================================================
