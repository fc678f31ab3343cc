# Verification of saorsa-transport

TLA+ models of the parts of saorsa-transport in which several actors, an
unreliable network and timeouts meet, checked with TLC on small instances, and
theorems about most of them proved with TLAPS for every value of the constants:
the reliable-delivery core, keepalives and the transport around it; migration,
key updates, connection ids and the close of a QUIC connection; the endpoint's
relay of frames; dials; both sides of a MASQUE relay; the WebRTC listener. `PROJECT.json` lists the runs, the source lines behind every
definition, the hazards, the disagreements found and the theorems.

## The system

saorsa-transport is a QUIC library for peer-to-peer networks. All paths below
are relative to `src/src/`.

| Component | Source | State it keeps | Operations | Hard part | Module |
|---|---|---|---|---|---|
| Constrained ARQ | `constrained/arq.rs`, `types.rs` | send window (base, unacked entries, RTO), receive window (next expected, buffer) | send, acknowledge, retransmit, receive | 8-bit wrapping numbers; loss, duplication, reordering | `ArqWindows`, `ConstrainedArq` |
| Constrained connection | `constrained/connection.rs`, `state.rs`, `header.rs` | seven-state machine, two windows, queues, clocks | initiate, accept, send, recv, close, reset, process_packet, poll | handshake and close over the same lossy link; three timeouts | `ConstrainedConnection`, `ConstrainedKeepalive` |
| Constrained engine | `constrained/engine.rs` | connections by id, ids by address, events | connect, process_incoming, send, recv, close, reset, poll | ids chosen independently at both ends, a bounded table | `ConstrainedEngine` |
| Constrained adapter and transport | `constrained/adapter.rs`, `transport.rs` | synthetic addresses, outbound channel, handles | connect, process_incoming, send, close, poll, handle, take_outbound_rx | a channel that is replaced while handles hold its sender | `ConstrainedTransport` |
| NAT traversal of a connection | `connection/nat_traversal.rs`, `connection/mod.rs` | candidates, pairs, validations, coordination round | frame handlers, poll_transmit, NAT timer, local calls | stale echoes, two retry paths, simultaneous punching | `NatTraversal` |
| Streams and flow control | `connection/streams/`, `send_buffer.rs`, `assembler.rs` | streams of both ends, credit per stream and connection, send window | open, write, finish, reset, read, stop, frame handlers, ack and loss | final sizes, credit and reuse over reordering and loss | `QuicStreams` |
| Connection ids | `cid_queue.rs`, `connection/cid_state.rs`, `endpoint.rs` | ids issued, ids known to the endpoint, ids of the peer in use | issue, retire, expire, migrate | two tables joined by events, frames sent again | `ConnectionIds` |
| MTU discovery | `connection/mtud.rs` | search state, black hole detector | probe, acknowledge, lose | bursts of losses around a search | `MtuDiscovery` |
| Key update | `connection/packet_crypto.rs`, `mod.rs` | previous, current and next keys of each end | initiate, seal, open, discard | one bit tells three generations apart | `KeyUpdate` |
| Path migration | `connection/paths.rs`, `mod.rs` | path in use, previous path, packets in flight of each | migrate, challenge, response, timer, ack and loss | overlapping migrations | `QuicPaths` |
| Connection close | `connection/mod.rs`, `high_level/connection.rs`, `high_level/endpoint.rs` | state and timers, driver, mailbox, endpoint's entry | close by seven causes, packets, timers, driver polls | two causes at once, a lost close | `ConnectionClose` |
| Endpoint relay | `endpoint.rs`, `high_level/endpoint.rs` | slab of connections, peer index, mailboxes | connect/accept, register, handle_event, driver loop | handles are used again; three tables let go of them at different times | `EndpointRelay` |
| Incoming connections, tokens | `endpoint.rs`, `token.rs`, `high_level/incoming.rs` | routes by id, buffers of unanswered attempts, tokens | handle, accept, refuse, retry, ignore | slab indices used again, limits by count, size and sum | `IncomingConnections` |
| Dialling | `p2p_endpoint.rs`, `connection_strategy.rs`, `happy_eyeballs.rs` | pending dials, stage of a dial, attempts of a race | connect_with_fallback and its drop, transitions, races | futures dropped at any await, calls that wait for each other | `DialLadder` |
| Peer connections | `p2p_endpoint.rs`, `nat_traversal_api.rs` | connections, peers, readers, events of a node | dial, accept, reader exit, reaper, disconnect, poll | many tasks over tables under separate locks, simultaneous dials | `PeerConnections` |
| MASQUE relay server | `masque/relay_server.rs` | sessions, index, reservations, ports, loops | CONNECT, forward, close, expire | handover of a port between sessions | `MasqueRelay` |
| MASQUE relay client | `nat_traversal_api.rs`, `masque/relay_socket.rs`, `p2p_endpoint.rs` | allocations, shared session table, tunnels, health | prepare, publish, take, drop, monitor, shut down | a future dropped at any await; sessions owned once | `RelayLifecycle` |
| WebRTC listener | `webrtc/direct.rs` | slots, routes by credential and source, accept queue | admit, accept, register, five ways to end | tasks that outlive their association | `WebRtcMux` |
| Candidate discovery, router, relay limits, pending buffer | `candidate_discovery.rs`, `connection_router.rs`, `relay/`, `bounded_pending_buffer.rs` | tables behind one lock | - | limits | not modelled |
| Congestion, crypto, codecs, config, logging, device I/O | `congestion/`, `crypto/`, `frame/`, `config/`, `transport/`, ... | - | - | not control logic | not modelled |

How they interact: a radio provider hands packets to the constrained transport,
whose adapter translates addresses and calls the engine; the engine routes a
packet by connection id to a connection, which runs the state machine and the
two windows and answers with packets; the transport queues them on a channel
the provider polls. On the QUIC side the endpoint routes datagrams by id into
bounded mailboxes and keeps attempts the application has not answered; a
connection's task handles frames and timers (streams, ids, paths, keys, MTU,
NAT traversal and close among them) and sends events to the endpoint over one
channel. Above, the NAT traversal endpoint keeps connections by address and
runs accept loops, the P2P endpoint keeps peers and readers, climbs the ladder
of a dial and watches the relay; relay server and relay client are tasks over
tables of their own. The WebRTC listener shares one socket among browsers.

What makes each correct: what is delivered was sent, in order and once; two
ends that run this code never find each other in breach of the protocol; every
end of a connection is told, once; nothing lingers in a table and nothing is
taken from one by a task whose turn is over; packets reach the peer they are
for; an address is used after it has answered; a port, a session or a slot has
one owner and is given back; every dial, request and round comes to an end.

## Modules

**`FifoChannel`** - the abstract specification: a channel that hands over
messages in the order in which they were sent, each once and none before it was
sent. `ConstrainedArq` implements it with the identity mapping of `sent` and
`delivered` (`ImplementsFifo`); `QuicStreams` implements it once per stream,
with the bytes written as messages and what was read, by offset, as what is
delivered (`StreamsAreChannels`).

**`ArqWindows`** - sequence numbers and the two windows as operators on values.
The loops of `acknowledge` and `receive` are given by what they compute: the
length of the acknowledged prefix, the length of the run that became
deliverable. Assumptions: half the sequence space is at least 3, the window
leaves two numbers of it free (the code's comment "assumes window size is less
than 128"; the receive window is inclusive).

**`ConstrainedArq`** - one send window against one receive window, driven as an
Established connection drives them. The transport is two sets of packets: a
packet can be lost, handed over again and overtaken. It cannot outlive
`Lifetime` later sends, the assumption without which no protocol with wrapping
numbers works. Message *n* carries *n*, so the model knows which message a wire
number was minted for. RTO expiry is a free choice of entries at every poll.

**`ConstrainedConnection`** - headers, the transition table and all operations
of a connection as operators on a record. A *tick* says what the clock lets one
`poll` see: a timeout, expired entries, a due keepalive, or nothing.

**`ConstrainedEngine`** - an engine per node and a link that reorders, loses (by
never delivering) and, within a budget, repeats packets. One action per engine
call; the whole of `process_incoming`, with the poll at its end, is one step, as
is the whole of `poll`.

**`ConstrainedKeepalive`** - the three clocks of an established connection at
both ends, on a timely and lossless link. Clocks are ages in ticks.

**`ConstrainedTransport`** - address translation and channels. Every operation
holds the adapter's mutex to its last `try_send`, so it is one step.

**`NatTraversal`** - `NatTraversalState` of one connection. Deadlines are free
choices (any pending deadline may have passed at any call); challenges are
numbered. `poll_transmit` does, in one step and in the code's order: the
coordination timeout, the validation timeouts, the request, the switch to
punching and one challenge. Security refusals without effect are stuttering
steps. `generate_predicted_candidates` may add any of the predictor's guesses.
`initiate_nat_traversal_coordination` and the local candidate calls are public
operations without a caller in the library; they are actions. The quality score
behind `is_suitable_for_coordination` is a free choice once something answered.

**`QuicStreams`** - a client that opens unidirectional streams, writes, finishes
and resets them, and a server that reads and stops them, each with its half of
`StreamsState`. A packet carries one frame; it is lost, overtaken, or arrives
after its sender gave it up. A byte is named by stream and offset.

**`ConnectionIds`** - the ids one end issues and the other uses: `CidState`, the
endpoint's table and `CidQueue`, with the events and frames between them.

**`MtuDiscovery`** - the binary search and the black hole detector with what the
connection tells them, over a path whose MTU may change and may be below the
initial MTU (`get_initial_mtu`, 1350 by default against 1200 of `min_mtu`).
`searched` marks a
search that began with an admitted MTU on the path as it is; one that begins
after the path shrank completes without lowering the MTU, which is left to the
black hole detector. `holes` counts the losses that tell of a hole: of datagrams
too big for the path since its last change, and nothing else with them.

**`KeyUpdate`** - the 1-RTT keys of both ends as generations; a packet shows the
parity of its own. The discard timer is the one that 0-RTT keys share.

**`QuicPaths`** - `migrate`, path validation and its timer, the return to the
previous path, and what each path counts as in flight.

**`ConnectionClose`** - both ends of a connection with driver, mailbox and
endpoint: closes by the application, a dropped handle, a transport error, a
stateless reset, the idle timer, the peer and the endpoint.

**`EndpointRelay`** - the coordinator's endpoint. A connection is an entry of
the slab, a mailbox and a task, which come and go separately; handles are used
again most recent first, as a slab does.

**`PeerConnections`** - two peers that know each other by one address: the
connection table, the peers, readers and events of each and every task that
writes them, with each await a step of its own.

**`DialLadder`** - `connect_with_fallback`: calls for one target share one dial
through the table of pending dials; the owner climbs from the raced direct
addresses over hole punching to a relay. Futures are dropped at any await.

**`IncomingConnections`** - first datagrams, the buffers of unanswered attempts,
the answers of the application and the address tokens. Datagrams for any id in
use arrive at any time and any number of times.

**`MasqueRelay`** - CONNECTs, forwarding loops and closes of the relay server as
tasks whose awaits are steps; a port stands for its bound socket.

**`RelayLifecycle`** - acquisitions of a relay as futures that may be dropped,
the actor that owns the current allocation, the session table shared with
relayed dials, tunnels, the health monitor and the shutdown.

**`WebRtcMux`** - slots, the tables by credential and by source, and the tasks
that write them: driver, accept task, expiry, setup deadline, watcher, closers
and the cleanup of a dropped owner. ICE and DTLS are external.

**`MCConstrainedEngine`, `MCNatTraversal`, `MCParts`, `MCReach`, `MCQuic`,
`MCRelay`, `MCPeers`** - instances. The last five put parts side by side that
share no state: the variable `focus` names the part whose steps a behaviour
takes, and the others keep an initial state in which their fairness asks for
nothing. A part's settings (`...Settings`, `...Plans`) are records of what a
behaviour begins with and of how often each rare occurrence may happen in it;
every behaviour begins with one of them.

**`ConstrainedArqProofs`** (windows), **`ConstrainedLinkProofs`** (keepalives,
transport, engine), **`StreamProofs`** (streams and flow control),
**`QuicConnectionProofs`** (paths, keys, ids, MTU, and the parts of a connection
together), **`PeerProofs`** (close, endpoint relay, peer tables),
**`ReachProofs`** (dials, NAT traversal), **`RelayProofs`** (relay server and
client) and **`ListenerProofs`** (WebRTC associations, incoming connections) -
the theorems; see Proofs below.

Definitions named in a comment as a mutant are plausible bugs. They are used by
no specification: putting one in the place of the definition below it must make
the property listed with it in `PROJECT.json` fail.

## Runs that pass

| Run | Checks | Bounds, and why they are enough |
|---|---|---|
| `parts` | windows: `TypeOK`, `WindowsAgree`, `ImplementsFifo`; keepalives: `KeptAlive`; transport: `DestinationIsPeer`; incoming connections: `AttemptsKept`; WebRTC: `AssociationsKept`, `SlotsReleased` | eight sequence numbers and ten messages, so numbers wrap; several keepalive periods in one state timeout; three addresses and a channel that overflows; two clients, or one that moves and is given tokens, at a server with room for two attempts and three datagrams; two associations with one credential, from one port, from one host at its limit, and one that fails, is closed or loses its listener |
| `engine` | `EndReported`, `InitiatorServed`, `AddressIndex`, `NoLinger` | one node dials or both, colliding ids; messages of two chunks, window 2, one retransmission, one duplicate, so the window fills and data overtakes the handshake; a table of one connection and two ids, so ids wrap and are used again |
| `reach` | candidates: `PairIndexBest`, `UsableIsProven`; dials: `OneDialInTime`, `DialsAreOwned`, `FailedTriedAll`, `DialsEnd` | two remote and two local addresses, a prediction of one of them, fewer pairs allowed than possible; up to three calls over seven ladders that have or lack each stage, with drops, overruns, arrivals and a shutdown |
| `nat_rounds` | `PunchIsSynchronized`, `PathMovesAfterPunch`, `RoundEnds` | two punches from the peer, a round of ours, rounds too far apart, both retry paths, four challenges: enough for two validations, a round and the migration |
| `quic` | `NoPeerError`, `SendAccounted`, `StreamsAreChannels`, `IdsRoute`, `MtuFound`, `KeysAreTold`, `MigrationSafe` | two streams of up to two bytes under windows that stop them in mid-stream, one loss, two streams given up, one resized window; five ids through a queue of two with loss, expiry and migration; every path MTU between the bounds, two step sizes, an initial MTU above the minimum that the path carries, that it does not and that the peer cuts, a restart, and two changes of the path before or after one; two updates of each end, and both at once; three migrations, or a NAT traversal round |
| `relay` | `PortExclusive`, `SessionTablesAgree`, `RequestsAnswered`; client: `RelayIsOwned`, `DeadIsWithdrawn`, `ShutdownLeavesNothing` | two or three CONNECTs with one identity, two or none, from one address or two, one of them cut off, and room for one reservation; two acquisitions of one relay or two, of which one may be dropped, or one beside a relayed dial: supersession and teardown meet |
| `peers` | `EndsOnce`, `BothForget`; `PeerTablesAgree`, `DeadPeerForgotten`; `RelayReachesTarget`, `HandlesReleased` | every cause of a close with one loss and a mailbox of two; two dials in every direction with a cut, a disconnect, and tasks of one node or of both; three connections of two peers on two handles, so handles are used again by the other peer |

`CHECK_DEADLOCK FALSE` stands where the bounds or a closed connection stop the
system.

Several properties are conjunctions of named parts, each stated and commented
by itself: `EndsOnce` is `DrainedOnce`, `CloseTimed` and `EndIsTold`;
`PeerTablesAgree` is `ReadersAreHandled` and `UsableWhenAlone`;
`SessionTablesAgree` is `OneSessionPerPeer`, `IndexedIsKnown` and
`CountedWhenQuiet`; `NoPeerError` is `NoStreamError`, `NoKeyUpdateError` and
`LimitKept`; and likewise `WindowsAgree`, `InitiatorServed`, `DialsAreOwned`,
`AttemptsKept`, `AssociationsKept`, `IdsRoute`, `MtuFound`, `MigrationSafe` and
`SendAccounted`.

### Fairness

Only weak fairness, and only of what the code's own scheduling runs: tasks that
have been woken or spawned, and timers that are armed. Nothing is assumed of an
application, of a peer or of the network.

- `engine`: `poll` is called periodically and every state but Established times
  out, so a timeout that stays possible is taken.
- `nat_rounds`: `poll_timeout` arms the NAT timer for every deadline of the
  state and the connection's driver calls `handle_timeout`.
- `parts` (WebRTC): the spawned tasks of an association and their timers run;
  nobody has to accept, drop or close.
- `reach` (dials): futures that can go on are polled by their callers unless
  they are dropped, which is a step; attempts end by their own timeouts.
- `relay`: tasks go on, a forwarding loop that was cancelled sees it; each await
  of an acquisition has a timeout, the monitor runs on an interval, a tunnel
  fails with its carrier.
- `peers`: woken drivers run, the endpoint takes packets and events, the close
  timer fires, and so does the idle timer of an end whose peer is gone; the
  reaper runs on an interval; the endpoint driver is woken by its event channel.

## Where the code does not do what it says

Five runs are expected to fail, with the quoted line and the cause in
`PROJECT.json` under `findings`:

- `engine_responder` (`ResponderDelivery`): the first message of the accepting
  side is skipped. The initiator expects number 1 after the SYN-ACK, which does
  not use up number 0, and the responder sends its first message as number 0.
- `nat_survives` (`ConnectionSurvives`): a coordination round that fails removes
  the NAT state, and the peer's next ADD_ADDRESS, REMOVE_ADDRESS or PUNCH_ME_NOW
  is then answered with PROTOCOL_VIOLATION: the relayed connection is closed.
- `quic_reset` (`RedundantResetIgnored`): a RESET_STREAM that arrives again, as it
  does when the packet that carried it was declared lost too early, is held
  against the credit of the connection before it is found redundant. With little
  credit left the receiver closes the connection with FLOW_CONTROL_ERROR.
- `relay_kept` (`CurrentIsKept`): an acquisition that finds a session to its
  relay is given a second armed owner of it, fails for want of streams, and
  closes the session another acquisition has published.
- `peers_same` (`SameConnectionKept`): two peers that dial each other at once
  may keep different connections.

### Open observations

Met while modelling, by reading and in counterexamples of earlier versions of
the models; no run of this version checks them.

- ARQ: a duplicate is dropped without an ACK (`arq.rs:383` says "ignore but
  update ACK"), so a lost ACK is not made good and the sender gives up; a
  receiver that has nothing yet piggybacks `cumulative_ack` 0, which
  acknowledges message 0 (the exception in `ProgressInv` below).
- Engine: the FIN of an aborted dial carries ACK and completes the responder's
  handshake; `close` sends its FIN past queued and unacknowledged data, which
  the peer then drops (`engine.rs:326`); `poll` drops a connection in TIME_WAIT
  at once, so its id is used again while packets are in flight (`state.rs:45`);
  ids of different initiators collide in one table when a node has two peers,
  which can replace a connection, leave a stale address behind and send data to
  the wrong peer (`AddressIndex` is checked with two nodes); a message of
  several chunks that fills the window fails half way and its first chunks are
  sent all the same (`engine.rs:299`).
- Keepalives: the timeout of the Established state is measured from its entry,
  so a connection in use ends after five minutes (`state.rs:86` says "5 minute
  idle timeout"). `KeptAlive` is about the idle timeout.
- Transport: `take_outbound_rx` returns the old receiver and keeps a new sender,
  so what the transport and later handles send goes to a receiver nobody holds
  (`transport.rs:250`).
- NAT traversal: a removed candidate is revived when its address is advertised
  again and answers; a lost challenge is not repeated and its candidate stays
  Validating (`nat_traversal.rs:2979`); `trigger_candidate_validation` ignores
  the limit of concurrent validations (`nat_traversal.rs:2427`); timer and
  `poll_transmit` count retries separately and together exceed the limit; a
  round that succeeded is undone by the coordination timeout; the answer to a
  coordinated challenge is refused because the challenge was never entered in
  `active_validations` (`connection/mod.rs:1412`); a client discards answers
  from any address but its server's (`connection/mod.rs:1729`).
- Paths: after a path was validated the previous one is kept, and a NAT
  traversal challenge of the path in use that times out returns to it
  (`connection/mod.rs:4907`); a path made from another one copies a probe that
  is in flight on it; packets of a path that was left and restored are counted
  off a path that did not send them (`paths.rs:235`).
- Connection ids: a NEW_CONNECTION_ID that is sent again may ask for the
  retirement of the id it issues, which the peer answers by closing
  (`connection/mod.rs:4309` against `:3754`). `LimitKept` leaves out lifetimes
  for this reason.
- Keys: an update that the responder of the last one forces after its discard
  timer meets an initiator whose timer has not fired (`connection/mod.rs:1952`,
  `packet_crypto.rs:107`). An end whose update was not answered may begin a
  second one once its discard timer has fired: `force_key_update` looks at the
  previous keys only and not, as RFC 9001 6.1 asks, at whether something sealed
  with the current ones was acknowledged. Where both ends initiate (the client
  with its packet 0, the server with its packet 1) TLC finds a packet that is
  then opened with the wrong keys. The settings of the run `quic`
  avoid the case and the hypothesis `OneInitiator` of the theorem excludes it.
- Streams: a writer blocked on a stream that the peer has stopped, with the
  credit of the connection used up, is not woken. A stream that is stopped and
  then reset gives its unread bytes back to the connection twice, so the receive
  window of the connection widens for good (`streams/state.rs:352` against
  `config/transport.rs:143`).
- MTU: a search that begins when the path has become narrower than the MTU in
  use finds nothing above it and completes; datagrams of the MTU are lost until
  the black hole detector has seen more than its threshold of bursts.
  The same holds of a path narrower than the initial MTU, of which the comment
  at `config/transport.rs:203` says that 1200 "is the default"; it is 1350
  (`DEFAULT_INITIAL_MTU`, line 25).
- Close: `Endpoint::close` sends its event by `try_send`, and a connection with
  a full mailbox stays open; an encoding error closes a connection without an
  error to report, which reaches an `unreachable!` (`connection/mod.rs:4055`,
  `high_level/connection.rs:389`).
- Endpoint: a peer that reconnects before its old connection has drained is
  registered under the old handle and forgotten when that one drains
  (`endpoint.rs:469`); a relayed frame that meets a full mailbox is lost for
  good; the connection of a fire-and-forget hole punch stays in the slab
  (`high_level/endpoint.rs:899`).
- Incoming connections: `accept` without a server configuration, or with a TLS
  session that does not start, leaves the route by initial id (and a local id)
  behind; a later datagram for it finds an empty slab entry or another attempt's
  buffer (`endpoint.rs:909`, `:995`). `RoutesAreLive` leaves these routes out.
- Relay server: the capacity is checked before the awaits of a CONNECT and the
  session inserted after them; a reconnecting peer can be refused for its own
  old session (`relay_server.rs:1001`); `cleanup_expired_sessions` has no caller
  in the node, so a session whose response could not be written stays.
- Relay client: a relayed dial through a relay with an active session fails
  (`p2p_endpoint.rs:2830`); `prepare` dropped after the actor completed it
  leaves a provisional allocation; `relay_event_sent` stays set when an
  allocation is superseded.
- Peers: a reader's exit can clear the reader of its replacement
  (`p2p_endpoint.rs:1332`); `is_connected` removes a connection and leaves its
  address announced, so the next one is not handed to `accept`
  (`nat_traversal_api.rs:5681`, `:5833`); the reaper can remove a peer that has
  reconnected since it looked (`p2p_endpoint.rs:4025`).
- Dials: only the first of several relays is tried (`connection_strategy.rs:194`
  says "tried in order"; `transition_to_next_relay` has no caller); the time a
  call waits for another's dial comes from its own configuration, so a call with
  a shorter ladder displaces a longer dial (`p2p_endpoint.rs:2084`); with IPv6
  disabled and no relay the second transition overwrites the errors of Failed;
  a guard dropped outside a runtime leaves its entry (`p2p_endpoint.rs:219`); an
  error of `finalize_direct_connection` ends the dial without its fallbacks.
- WebRTC: the expiry task looks whether an association is pending and then
  waits for a lock; one whose agent registers in between is closed, and its
  handshake, if it has begun, is left waiting (`direct.rs:1400`; excepted in
  `NoStrandedHandshake`); a registration that races `close` may leave a source
  routed after the tables were cleared; an owner dropped outside a runtime keeps
  its slot.

### Hazards beyond the list

`PROJECT.json` lists forty hazards, at most one for each way in which a part can
go wrong. The same properties also cover: acknowledgments of nothing
(`arq.rs:231`) and the drain after a gap (`arq.rs:390`, `WindowsAgree`); colliding
ids (`engine.rs:222`, `AddressIndex`) and a full table (`engine.rs:159`,
`EndReported`); REMOVE_ADDRESS out of order (`nat_traversal.rs:2016`,
`UsableIsProven`); two retry counters (`nat_traversal.rs:2904`, `RoundEnds`); the
move of the path in mid-round (`connection/mod.rs:3983`, `PathMovesAfterPunch`);
a `Recv` used again (`streams/recv.rs:47`, `StreamsAreChannels`) and a writer
blocked twice (`streams/state.rs:784`, `SendAccounted`); the endpoint's and the
connection's table of ids (`endpoint.rs:327`, `IdsRoute`); a lost probe
(`connection/mod.rs:2470`) and a shrinking path (`mtud.rs:446`, `MtuFound`); the
shared discard timer (`connection/mod.rs:1818`, `KeysAreTold`); overlapping
CONNECTs (`relay_server.rs:996`, `SessionTablesAgree`); late completion of an
allocation (`nat_traversal_api.rs:868`, `RelayIsOwned`); timers of a closing
connection (`connection/mod.rs:1878`, `EndsOnce`); a reader that ends before its
peer is known (`p2p_endpoint.rs:3997`, `DeadPeerForgotten`); the losers of a race
(`happy_eyeballs.rs:241`, `DialsAreOwned`); the sum of all buffers
(`endpoint.rs:565`) and tokens that come back late or from elsewhere
(`token.rs:151`, `AttemptsKept`). The open observations are the hazards the code
does not meet.

## Proofs

Eight modules hold the theorems. Each extends the modules it is about, states the
inductive invariant first, then one lemma or step per action of the
next-state relation and, under it, one per conjunct the action can disturb, and
ends with the temporal theorem. Every invariant was checked with TLC, as an
invariant of the part's own specification under the bounds of its run, before
it was proved. The theorems hold for every value of the constants, and so for
every setting (`...Settings`, `...Plans`), that the named assumptions allow; a
hypothesis beyond these is stated in the theorem and below. The assumptions are
those of the modules' `ASSUME`s: types of the constants and settings, and beyond
types that the windows fit the sequence space (`ArqWindows`, `ConstrainedArq`),
the sum of keepalive times (`KeepaliveAssumption`), that the two peers differ,
that there is an address, and that the path carries `MinMtu` (`MtuConstants`;
the configuration asks this of `min_mtu`, 1200 by default).

| Module | Theorems | For every |
|---|---|---|
| `ConstrainedArqProofs` | `TypeCorrectness`, `WindowsAgreeHold`, `WindowsImplementFifo` | sequence space, window, retry limit, packet lifetime, number of messages |
| `ConstrainedLinkProofs` | `KeepaliveWorks`, `TransportDelivers`; `EndsReported`, `IndexedAddresses`, `HandshakeAgreed` | interval, timeout, transit time and poll gap; set of addresses, channel size; number of engines, connections and ids, window, sequence space |
| `StreamProofs` | `StreamErrors`, `SendsAccounted`, `StreamsRefineChannels` | number and length of streams, windows, losses |
| `QuicConnectionProofs` | `MigrationCorrect`, `KeyUpdatesCorrect`, `IdsCorrect`, `IdLimitKept`, `NoPeerErrorHolds`, `MtuDiscovered` | set of addresses, number of migrations and packets; number of updates; length of the queue of ids; path, limits, step and threshold of MTU discovery |
| `PeerProofs` | `ConnectionEndsOnce`; `RelayCorrect`, `TablesAgree`; `PeersAgree` | mailbox size, number of events a poll finds, causes of the end; number of peers, handles, connections; of dials, cuts and disconnects |
| `ReachProofs` | `DialsAreShared`, `DialsOwned`, `LadderIsClimbed`; `PairIndexCorrect`, `UsableCorrect`, `PunchCorrect`, `PathMoves` | number of calls, addresses, rounds, relays; of candidates, pairs, priorities, challenges |
| `RelayProofs` | `PortsCorrect`, `SessionsCorrect`, `AllocationsOwned` | number of CONNECTs, identities, addresses, reservations; of acquisitions and relays |
| `ListenerProofs` | `AssociationsCorrect`; `AttemptsCorrect` | limits, number of credentials, sources, associations; of clients, addresses, attempts, tokens |

**Windows.** The refinement `Spec => ImplementsFifo` rests on the state predicate
`InOrderDelivery`: what is delivered is known from its length, `receive` only
appends, and what is delivered was sent; so a step of the windows is a step of
the channel or leaves it alone. `InOrderDelivery` is not inductive: whether the
next delivery is right depends on what the numbers in transit stand for. The
invariant `ArqInv` (in `ConstrainedArq`) says so: every number, at its signed
distance from the window that will read it, stands for the message it was
minted for. Its parts are the send window (`SenderInv`: entries are consecutive
and lie at distances 0, 1, ... from the base), the receive window
(`ReceiverInv`), packets in transit and buffered (`DataInv`, `BufferedAhead`),
acknowledgments in transit (`AckInv`), and how far the two ends may be apart
(`ProgressInv`). The last has the one exception the code has: message 0 may
leave the send window undelivered. Lemmas on distances, on the acknowledged
prefix and on the drain loop carry the proof.

**Keepalives.** `KeptAlive` is not inductive, since it does not say why an end
will be heard of in time. `KeepInv` adds that a ping follows the poll at which
it was due (`PingPaced`), that data and pongs under way are as fresh as their
sender's clocks say (`DataFresh`, `AnswersPing`), and that an end that has heard
nothing for long has something under way to it (`Heard`). The hypotheses are
that keepalives are enabled and `Keepalive + PollGap + 2 * Delay <= IdleTimeout`
(`KeepaliveAssumption`). The sum is sharp: without the assumption TLC refutes
`KeptAlive` where the sum exceeds the timeout by one (keepalive 3, poll gap 1,
transit 2, timeout 7; or 3, 2, 2 and 8).

**Transport.** `TransportInv`: the two maps of the adapter are inverse to each
other and hold only counters already drawn, the engine knows its peers by them,
and every channel, given up or not, holds only packets that go where they are
meant to.

**Engine.** `EngineInv` types connections and packets (what is buffered is ahead of
`next_expected` and inside the window, without which the drain loop need not
end) and says that a connection that is ending was ended by the application, was
reported, or still holds the event that reports it (`EndInv`); `EndReported`
follows for any network. The other two theorems have the hypothesis `OnePeer`:
no node exchanges packets with two. Ids are chosen by the node that dials, so
two peers of one node can choose the same, the second connection replaces the
first, and `AddressIndex` fails. `PeerInv`: connections and packets are between
peers, an indexed address leads to a connection to it, a SYN-ACK is sent only by
a node that accepted, and an initiator is open only after its peer accepted.

**Streams.** A property like `SendAccounted` says nothing of what is under way.
`StreamInv` does: a byte that was sent is acknowledged, to be sent again or in
flight, in one of these ways only (`InFlightOnce`), and `unacked_data` and
`data_sent` count accordingly (`SentCounted`); a writer marked blocked that
could go on has an event coming (`WaitersTold`); a credit in flight or at the
client was granted, and the server never takes one back (`CreditsAgree`,
`WireOk`); what the server counts of a stream is at most what was written to it
(`RecvCounted`); and what was read of a stream is its first bytes in order
(`ReadInOrder`), which is the refinement of the channel. The sums over streams
are cardinalities of sets of bytes, so no induction over data is needed.
Proving `NoStreamError` is what showed its exception: the redundant reset of the
run `quic_reset`.

**Migration.** `PathInv`: a token is returned by the address it was sent to, the
path to return to was proven, and until a validation fails the packets since
the first one of a path are its own (`OwnPackets`), which is what makes the
counts in flight right. The hypothesis `OneKindOfValidation` keeps migrations
and NAT traversal rounds that challenge the path in use apart, as the settings
of the run do: mixed, the code returns to a path it need not (see the open
observations).

**Keys.** `KeyInv`: generations grow in the order of packet numbers, the end that
leads is at most one generation ahead and none once answered (`Ahead`), an
update not acknowledged yet is one the leader still waits for (`Unanswered`),
and what an end has received parts the packets under way by generation
(`Parted`), so that one bit and a packet number tell three generations apart.
The hypothesis `OneInitiator`: one end begins updates, and it is not the one
whose discard timer 0-RTT keys share. Both initiating at once is checked by the
run `quic`; initiating in turn is the open observation about keys.

**Connection ids.** `IdsRoute` alone is not inductive: it does not see the ids on
their way. `IdsInv` follows them: ids are numbered in order over the endpoint's
answers, the connection's frames and the user's queue (`TakenInv`), the user has
moved on from an id wherever it is being retired (`RetireInv`), ids from the
user's active one on are in the endpoint's table (`UserInv`), and what is in
that table is known to the connection or the subject of an event under way
(`AgreeInv`).

`LimitInv` adds, for connections whose ids have no lifetime, why the user's queue
has room: the endpoint issues as many ids as the queue holds and then one for
each that is retired (`RoomInv`), numbered without gaps over the answers on
their way (`NumberedInv`). With lifetimes the code breaks the limit (open
observations). `NoPeerErrorHolds` puts the streams, keys and ids of `MCQuic`
together: each invariant is kept by the steps of its own part, and by the other
parts because they share no variable with it.

**MTU.** `MtuInv` relates three things. The search: the bracket of a search that
counts holds what is to be found, its lower end is the MTU in use, and what was
probed last is that end, is in flight, or is known not to fit and lies just
above the upper end (`BracketOk`); so when no size is left to probe, two steps
at most remain. The probe in flight is tracked and has the size probed last
(`ProbeOk`). The detector: between two detections no burst is open, at most
`Threshold` bursts are remembered, each named by a packet no longer tracked, and
a bigger datagram that got through did so before the path changed (`DetectorOk`);
so a loss that counts in `holes` adds a burst that is too big for the path, or
the MTU falls back. The losses of one detection are handled by a recursive
function, along which an invariant of the walk is carried by well-founded
induction on a set of numbers. An earlier version of the model let a search that
began on a shrunken path count as a search for that path's MTU; the attempt to
prove it showed the gap in the property, which the settings of the run had not
reached, and both were corrected.

**Close.** `CloseInv`: a connection has the timers of its state, one that is not
open has a reason that was told or will be by the poll under way, and the driver
is done exactly when its connection has drained, counted once. Within a poll
the events are handled by a recursive function; that the function exists is
shown from the least counterexample in the natural numbers.

**Endpoint relay.** `RelayInv` relates the five tables that let go of a handle at
different times: a handle is free once and not in the slab (`FreeInv`); an
indexed peer leads to a connection of that peer (`IndexInv`); mailbox and task
of a handle belong to the connection the slab has there (`MailInv`, `TaskInv`);
a connection is reported drained once, after its task and before its slab entry
is gone (`QueueInv`). `TablesAgree` states these for themselves.

**Peer tables.** `PeersInv`: a reader has its handle, or the task that spawned it is
about to store it (`ReadersOwned`), which is `ReadersAreHandled` at rest; and for
a dial that nothing disturbed, how far it has come at each node and in which
tables it then is (`AloneOk`).

**Dials.** `DialInv`: a call owns an entry from its registration to its end, an
entry has one owner, the entry of a dial that has not overrun is the pending one,
and a stage of the ladder is reached when those below it were tried or cannot
be.

**NAT traversal.** `NatInv`: valid candidates and succeeded pairs have proven
addresses; the index has exactly the addresses of the pairs and leads to none
worse than another (`IndexOf`), which every sort, addition and regeneration must
restore; a validation waits for a challenge that was sent to its address; a
round is past its negotiation only when the peer has asked for it. The action
property `PathMovesAfterPunch` follows from the invariant and the step.

**Relay server.** `RelayInv`: a session is in the table from insertion to close
(`TableInv`), the lock of an identity admits one request, which has found no
other live session of it (`LockInv`), the index points to sessions not yet
unmapped (`IndexInv`), a loop's slot is claimed while it works and a close has
waited for it (`LoopInv`), a port is held by one session or reserved for one peer
(`PortInv`), and the counter counts (`CountInv`, by cardinalities of finite
sets). `PortExclusive` needs all but the last: that a closing session has given
up its port depends on its loop, and that on the lock.

**Relay client.** `RelayIsOwned` is inductive once the domains of the tables are
known (`LifecycleInv`). The work is in the steps that let go of several things
at once.

**WebRTC listener.** `RtcInv`: the tables by credential and by source name only
the generation that holds the slot (`SlotInv`), the accept queue holds each
association once with its owner (`QueueInv`), and a handshake that waits has an
open connection to be told through until a closer has ended it (`HandshakeOk`).

**Incoming connections.** `IncomingInv`: ids and tokens that clients hold were
given to them (`ClientInv`), every attempt has its route and a buffer of its own
(`AttemptInv`), the keys of the two slabs that are in use and those that are
spare are the keys drawn so far, each once (`SlabOf`), the total is the number of
buffered datagrams (`BufferInv`), and a connection has the routes of its ids
(`ConnInv`). That a buffer belongs to one attempt only, though its index is used
again, is where all of these are needed.

Only model-checked:

- all liveness (`SlotsReleased`, `NoLinger`, `DialsEnd`, `RoundEnds`,
  `RequestsAnswered`, `DeadIsWithdrawn`, `ShutdownLeavesNothing`, `BothForget`,
  `DeadPeerForgotten`, `HandlesReleased`), which this prover does not do;
- `InitiatorDelivery`, the half of `InitiatorServed` that is about data. For the
  windows by themselves it is the theorem `WindowsImplementFifo`; in the engine
  it also depends on packets of an earlier connection with the same id, which
  the engine does not tell apart (open observations), so it can hold only where
  ids are not used again while packets are in flight;
- both ends initiating key updates at once, and mixed kinds of path validation,
  which the hypotheses of their theorems leave out.

## Not modelled

The components marked `not_modelled` in `PROJECT.json`, with their reasons, and
what the notes of the components marked `partly` leave out. Within modelled
components: header bytes, the RTT estimator (expiry is free), statistics, the
security heuristics of NAT traversal that only refuse, the bootstrap
coordinator's bookkeeping, events that the adapter renames, the choice of
congestion controller.

Much of the repository's code is outside what a state machine adds to: its
largest files end in tests (half of `webrtc/direct.rs`, a quarter of
`relay_server.rs`), others are device and operating-system I/O (`transport/ble.rs`, `candidate_discovery.rs`),
cryptography, congestion control laws, codecs, configuration and diagnostics.

## Plan

1. Done: constrained windows, connection, engine, keepalives, transport; NAT
   traversal of a connection; streams, ids, MTU, keys and paths; close; endpoint
   relay; incoming connections and tokens; dials; peer tables; relay server and
   client; WebRTC listener; `FifoChannel` and two refinements. Proved: the
   theorems of the eight proof modules above.
2. Next theorems: `InitiatorDelivery` under a hypothesis on the lifetime of
   packets, by composing `ArqInv` with `EngineInv`; `KeysAreTold` for both ends
   initiating, once the open observation about keys is resolved.
3. Next models: loss recovery timers of `connection/mod.rs`; hole-punch sessions
   and their coordinators in `nat_traversal_api.rs`; BLE fragmentation and pool
   (`transport/ble.rs`); `candidate_discovery.rs` sessions.
4. Another abstract specification worth stating: a directory of live peers,
   implemented by `EndpointRelay` and by `PeerConnections`.
