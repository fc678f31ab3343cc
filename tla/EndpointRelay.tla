---------------------------- MODULE EndpointRelay ----------------------------
(***************************************************************************)
(* The endpoint of a node that coordinates hole punching for its peers:    *)
(* the slab of connections, the peer-id index for relaying PUNCH_ME_NOW    *)
(* (Endpoint in src/endpoint.rs) and the driver that passes events between *)
(* the endpoint and the connections' tasks (State::handle_events in        *)
(* src/high_level/endpoint.rs).                                            *)
(*                                                                         *)
(* Connections run as tasks of their own: they send endpoint events over   *)
(* one channel and have a bounded mailbox each.  The endpoint handles one   *)
(* event at a time under its lock.  The driver forwards relayed frames     *)
(* after a batch of events, still under the lock; here they are forwarded  *)
(* with the event that caused them.  The two differ only for a connection  *)
(* whose Drained event is in the same batch, and that connection's task    *)
(* has stopped reading its mailbox.                                        *)
(*                                                                         *)
(* A peer has one address, which stands for the peer in the slab, and one  *)
(* identity; it may have several connections, as when it reconnects before *)
(* its old connection has drained.                                         *)
(***************************************************************************)
EXTENDS Naturals, Sequences, FiniteSets

CONSTANTS
    Peers,
    NoPeer,          \* ConnectionMeta.peer_id = None
    MaxHandles,      \* bound: connections in the slab at a time
    MailboxSize,     \* capacity of a connection's event channel
    HasPunchChannel, \* hole_punch_tx is set
    MaxConnections,  \* bound: connections made
    MaxRequests,     \* bound: relay requests and hole punches
    MaxQueue         \* bound: events waiting for the endpoint

ASSUME RelayConstants ==
    /\ NoPeer \notin Peers
    /\ {MaxHandles, MailboxSize, MaxConnections, MaxRequests, MaxQueue} \subseteq Nat
    /\ HasPunchChannel \in BOOLEAN

Handles == 1 .. MaxHandles

VARIABLES
    slab,             \* handle -> [remote, peer_id], for the handles in use
    free,             \* the free handles in the order in which they will be used
    peer_connections, \* peer -> handle
    mailroom,         \* handle -> events for the connection, for the senders known
    queue,            \* events from the connections to the endpoint
    tasks,            \* handle -> peer, for the connections whose task runs
    unregistered,     \* handles whose peer has not been registered yet
    relayed,          \* relayed frames transmitted: frame, and the peer it went to
    connects,         \* connections made
    requests          \* relay requests and hole punches made

punchVars == <<slab, free, peer_connections, mailroom, queue, tasks, unregistered,
          relayed, connects, requests>>

PunchInit ==
    /\ slab = <<>>
    /\ free = [i \in Handles |-> i]
    /\ peer_connections = <<>>
    /\ mailroom = <<>>
    /\ queue = <<>>
    /\ tasks = <<>>
    /\ unregistered = {}
    /\ relayed = {}
    /\ connects = 0
    /\ requests = 0

Put(f, x, v) == [y \in DOMAIN f \cup {x} |-> IF y = x THEN v ELSE f[y]]
Without(f, x) == [y \in DOMAIN f \ {x} |-> f[y]]

\* connection_handle_for_addr: the first entry of the slab with the address.
HandlesAt(p) == {h \in DOMAIN slab : slab[h].remote = p}
First(S) == CHOOSE h \in S : \A g \in S : h <= g

-----------------------------------------------------------------------------
(* Endpoint::connect or accept, with the task and the mailroom that the     *)
(* high-level endpoint makes for the connection.                           *)
Establish(p) ==
    /\ connects < MaxConnections
    /\ free # <<>>
    /\ LET h == Head(free) IN
         /\ slab' = Put(slab, h, [remote |-> p, peer_id |-> NoPeer])
         /\ mailroom' = Put(mailroom, h, <<>>)
         /\ tasks' = Put(tasks, h, p)
         /\ unregistered' = unregistered \cup {h}
    /\ free' = Tail(free)
    /\ connects' = connects + 1
    /\ UNCHANGED <<peer_connections, queue, relayed, requests>>

(* register_connection_peer_id, once the peer of a connection is           *)
(* authenticated: by the address of the peer, whichever connection has it. *)
Register(h) ==
    /\ h \in unregistered \cap DOMAIN tasks
    /\ unregistered' = unregistered \ {h}
    /\ LET p == tasks[h]
           found == First(HandlesAt(p))
       IN /\ slab' = [slab EXCEPT ![found].peer_id = p]
          /\ peer_connections' = Put(peer_connections, p, found)
    /\ UNCHANGED <<free, mailroom, queue, tasks, relayed, connects, requests>>

-----------------------------------------------------------------------------
(* The connections' tasks *)

Enqueue(h, event) ==
    /\ Len(queue) < MaxQueue
    /\ queue' = Append(queue, [handle |-> h, event |-> event])

(* A connection has drained, or was dropped: its last event. *)
Drain(h) ==
    /\ Enqueue(h, [type |-> "Drained"])
    /\ tasks' = Without(tasks, h)
    /\ unregistered' = unregistered \ {h}
    /\ UNCHANGED <<slab, free, peer_connections, mailroom, relayed, connects, requests>>

(* handle_punch_me_now with a target: the peer, by its id or by the wire   *)
(* id of its address.                                                      *)
RequestRelay(h, p, by) ==
    /\ requests < MaxRequests
    /\ requests' = requests + 1
    /\ Enqueue(h, [type |-> "RelayPunchMeNow", target |-> p, by |-> by, n |-> requests])
    /\ UNCHANGED <<slab, free, peer_connections, mailroom, tasks, unregistered, relayed, connects>>

(* handle_punch_me_now without a target: a peer to punch a hole to. *)
RequestPunch(h, p) ==
    /\ requests < MaxRequests
    /\ requests' = requests + 1
    /\ Enqueue(h, [type |-> "InitiateHolePunch", target |-> p])
    /\ UNCHANGED <<slab, free, peer_connections, mailroom, tasks, unregistered, relayed, connects>>

(* The task takes QueuePunchMeNow from its mailroom and sends the frame. *)
TakeEvent(h) ==
    /\ mailroom[h] # <<>>
    /\ relayed' = relayed \cup {[frame |-> Head(mailroom[h]), to |-> tasks[h]]}
    /\ mailroom' = [mailroom EXCEPT ![h] = Tail(@)]
    /\ UNCHANGED <<slab, free, peer_connections, queue, tasks, unregistered, connects, requests>>

-----------------------------------------------------------------------------
(* handle_events: the endpoint's side *)

\* Mutant: the index keeps the peer of a drained connection.
PeersAfterKept(h) == peer_connections

\* Drained: the index entry of the connection's peer goes.
PeersAfter(h) ==
    IF slab[h].peer_id # NoPeer THEN Without(peer_connections, slab[h].peer_id) ELSE peer_connections

\* Mutant: only a connection with a registered peer is removed from the slab.
RemovedIfRegistered(h) == {g \in {h} : slab[h].peer_id # NoPeer}

\* Drained: what is removed from the slab.
Removed(h) == {h}

ReleaseDrained(h) ==
    /\ mailroom' = Without(mailroom, h)
    /\ slab' = [g \in DOMAIN slab \ Removed(h) |-> slab[g]]
    /\ free' = IF h \in Removed(h) THEN <<h>> \o free ELSE free
    /\ peer_connections' = PeersAfter(h)
    /\ UNCHANGED <<tasks, unregistered, relayed, connects, requests>>

\* RelayPunchMeNow: by peer id, else by address.
Found(e) ==
    IF e.by = "id" THEN {peer_connections[p] : p \in {e.target} \cap DOMAIN peer_connections}
                   ELSE {First(S) : S \in {HandlesAt(e.target)} \ {{}}}

\* relay_frame_to_connection and forward_or_drop: a full mailroom sheds the frame.
ForwardFrame(h, frame) ==
    mailroom' = IF h \in DOMAIN slab \cap DOMAIN mailroom /\ Len(mailroom[h]) < MailboxSize
               THEN [mailroom EXCEPT ![h] = Append(@, frame)] ELSE mailroom

HandleRelay(e) ==
    /\ \/ \E h \in Found(e) : ForwardFrame(h, [n |-> e.n, target |-> e.target])
       \/ Found(e) = {} /\ UNCHANGED mailroom
    /\ UNCHANGED <<slab, free, peer_connections, tasks, unregistered, relayed, connects, requests>>

(* InitiateHolePunch: forwarded to the upper layer or, without a channel   *)
(* to it, a connection is made whose object is dropped at once.            *)
HandlePunch(e) ==
    /\ \/ /\ HasPunchChannel \/ free = <<>>
          /\ UNCHANGED <<slab, free>>
       \/ /\ ~HasPunchChannel /\ free # <<>>
          /\ slab' = Put(slab, Head(free), [remote |-> e.target, peer_id |-> NoPeer])
          /\ free' = Tail(free)
    /\ UNCHANGED <<peer_connections, mailroom, tasks, unregistered, relayed, connects, requests>>

HandleEvent ==
    /\ queue # <<>>
    /\ queue' = Tail(queue)
    /\ LET e == Head(queue).event IN
         \/ e.type = "Drained" /\ ReleaseDrained(Head(queue).handle)
         \/ e.type = "RelayPunchMeNow" /\ HandleRelay(e)
         \/ e.type = "InitiateHolePunch" /\ HandlePunch(e)

PunchNext ==
    \/ \E p \in Peers : Establish(p)
    \/ \E h \in Handles : Register(h)
    \/ \E h \in DOMAIN tasks :
         \/ Drain(h)
         \/ TakeEvent(h)
         \/ \E p \in Peers : RequestPunch(h, p) \/ \E by \in {"id", "addr"} : RequestRelay(h, p, by)
    \/ HandleEvent

(* The driver is woken by every event and handles it. *)
PunchFairness == WF_punchVars(HandleEvent)

PunchSpec == PunchInit /\ [][PunchNext]_punchVars /\ PunchFairness

-----------------------------------------------------------------------------
(* Properties *)

\* A relayed PUNCH_ME_NOW goes to the peer it is meant for, although handles
\* are used again and the index, the mailbox and the connection's task let go
\* of a handle at different times (lookup_peer_connection, Drained).
RelayReachesTarget == \A d \in relayed : d.to = d.frame.target

\* What a drained connection held is released: its handle can be used again.
HandlesReleased ==
    \A h \in Handles : (h \in DOMAIN mailroom \ DOMAIN tasks) ~> (h \notin DOMAIN slab)
=============================================================================
