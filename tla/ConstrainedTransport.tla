------------------------ MODULE ConstrainedTransport ------------------------
(***************************************************************************)
(* The layer between the constrained engine and a transport provider: the  *)
(* adapter's synthetic socket addresses (src/constrained/adapter.rs) and   *)
(* the outbound channel with its handles (src/constrained/transport.rs).   *)
(*                                                                         *)
(* The engine is reduced to what the layer sees of it: it is given socket  *)
(* addresses by connect and process_incoming, remembers them, and may      *)
(* answer any call with packets for any of them.  Every operation holds    *)
(* the adapter's mutex until its last try_send, so it is one step.         *)
(*                                                                         *)
(* A synthetic address is the counter it is made from: its low 24 bits in  *)
(* 127.x.x.x and its remainder by 65535 as the port, which no two 32-bit   *)
(* counters share.  UDP addresses are passed through and left out; they    *)
(* are not of that form.                                                   *)
(***************************************************************************)
EXTENDS Naturals, Sequences, FiniteSets

CONSTANTS
    Addrs,        \* the TransportAddrs that are not UDP (BLE, LoRa)
    BufferSize,   \* ConstrainedTransportConfig.outbound_buffer_size
    MaxTakes,     \* bound: calls of take_outbound_rx
    MaxOutputs    \* bound: packets the engine produces

VARIABLES
    addr_map,        \* transport address -> synthetic socket address
    reverse_map,     \* synthetic socket address -> transport address
    next_synthetic,
    peers,           \* the engine's connections: socket address, transport address meant
    channels,        \* one queue per mpsc channel made so far; the transport's own is the last
    handles,         \* the channels that some ConstrainedHandle sends on
    wire,            \* what the provider took from its receivers and sent
    produced         \* number of packets the engine produced

transportVars == <<addr_map, reverse_map, next_synthetic, peers, channels, handles, wire, produced>>
adapter == <<addr_map, reverse_map, next_synthetic, peers>>

TransportInit ==
    /\ addr_map = <<>>
    /\ reverse_map = <<>>
    /\ next_synthetic = 1
    /\ peers = {}
    /\ channels = << <<>> >>
    /\ handles = {}
    /\ wire = {}
    /\ produced = 0

\* HashMap::insert.
MapInsert(map, key, value) == [k \in DOMAIN map \cup {key} |-> IF k = key THEN value ELSE map[k]]

Current == Len(channels)
Taken   == 1 .. Len(channels) - 1

\* Mutant: the counter is not advanced.
GetOrCreateStuck(a) ==
    /\ addr_map' = IF a \in DOMAIN addr_map THEN addr_map ELSE MapInsert(addr_map, a, next_synthetic)
    /\ reverse_map' = IF a \in DOMAIN addr_map THEN reverse_map ELSE MapInsert(reverse_map, next_synthetic, a)
    /\ UNCHANGED next_synthetic

(* get_or_create_socket_addr *)
GetOrCreateSocketAddr(a) ==
    IF a \in DOMAIN addr_map
    THEN UNCHANGED <<addr_map, reverse_map, next_synthetic>>
    ELSE /\ addr_map' = MapInsert(addr_map, a, next_synthetic)
         /\ reverse_map' = MapInsert(reverse_map, next_synthetic, a)
         /\ next_synthetic' = next_synthetic + 1

(* socket_to_transport, on addresses that get_or_create_socket_addr made.  *)
SocketToTransport(s) == reverse_map'[s]

\* An engine packet: its serial number, the peer meant, and where it is sent.
EngineOutput(n, peer) == [n |-> n, meant |-> peer[2], destination |-> SocketToTransport(peer[1])]

(* try_send on one channel: what does not fit is dropped, without notice.  *)
TrySend(c, out) ==
    channels' = [channels EXCEPT ![c] = IF Len(@) < BufferSize THEN Append(@, out) ELSE @]

\* The engine answers with one packet for a connection, or with none.
Outputs(c) ==
    \/ UNCHANGED <<channels, produced>>
    \/ /\ produced < MaxOutputs
       /\ produced' = produced + 1
       /\ \E peer \in peers' : TrySend(c, EngineOutput(produced, peer))

(* connect and process_incoming: the address is translated before the      *)
(* engine sees it; a connection may exist for it already.                  *)
ConnectOrIncoming(c, a) ==
    /\ GetOrCreateSocketAddr(a)
    /\ peers' = peers \cup {<<addr_map'[a], a>>}
    /\ Outputs(c)
    /\ UNCHANGED <<handles, wire>>

(* send, close and poll: no new address. *)
SendCloseOrPoll(c) ==
    /\ UNCHANGED adapter
    /\ Outputs(c)
    /\ UNCHANGED <<handles, wire>>

(* ConstrainedTransport::handle clones the current sender. *)
Handle ==
    /\ Current \notin handles
    /\ handles' = handles \cup {Current}
    /\ UNCHANGED <<adapter, channels, wire, produced>>

(* ConstrainedTransport::take_outbound_rx: both ends are replaced. *)
TakeOutboundRx ==
    /\ Cardinality(Taken) < MaxTakes
    /\ channels' = Append(channels, <<>>)
    /\ UNCHANGED <<adapter, handles, wire, produced>>

(* The provider (external) polls a receiver it has taken. *)
ProviderSends(c) ==
    /\ channels[c] # <<>>
    /\ wire' = wire \cup {Head(channels[c])}
    /\ channels' = [channels EXCEPT ![c] = Tail(@)]
    /\ UNCHANGED <<adapter, handles, produced>>

TransportNext ==
    \/ \E c \in handles \cup {Current} :
          SendCloseOrPoll(c) \/ \E a \in Addrs : ConnectOrIncoming(c, a)
    \/ Handle
    \/ TakeOutboundRx
    \/ \E c \in Taken : ProviderSends(c)

TransportSpec == TransportInit /\ [][TransportNext]_transportVars

-----------------------------------------------------------------------------
(* Properties *)

\* Packets leave for the peer they were made for: no two transport addresses
\* share a synthetic socket address, which the engine would take for one peer,
\* and the way back gives the address the engine's connection was made for
\* (get_or_create_socket_addr, socket_to_transport).
DestinationIsPeer ==
    /\ \A p, q \in peers : p[1] = q[1] => p[2] = q[2]
    /\ \A out \in wire : out.destination = out.meant
=============================================================================
