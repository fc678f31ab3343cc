------------------------- MODULE IncomingConnections -------------------------
(***************************************************************************)
(* The server's side of an endpoint before there is a connection: the      *)
(* routing of first datagrams, the buffers of attempts the application has *)
(* not answered yet, and the address tokens (Endpoint::handle,             *)
(* handle_first_packet, accept, refuse, retry and ignore in                *)
(* src/endpoint.rs, IncomingToken in src/token.rs).                        *)
(*                                                                         *)
(* Clients keep the destination ids they have used; a datagram for any of  *)
(* them may arrive at any time and any number of times, as the network     *)
(* delays and repeats.  Ids are numbered and never collide.  Malformed and *)
(* unauthentic datagrams, and the exhaustion of ids shorter than five      *)
(* bytes, are left out.                                                    *)
(*                                                                         *)
(* Buffers and connections live in slabs: an index that was freed is the   *)
(* next to be used, so a route that outlives its buffer leads to another   *)
(* attempt's.                                                              *)
(***************************************************************************)
EXTENDS Naturals, Sequences, FiniteSets

CONSTANTS
    Clients,
    Addresses,     \* the addresses clients send from
    MaxIncoming,   \* ServerConfig.max_incoming
    IncomingBufferSize,    \* incoming_buffer_size, in datagrams
    IncomingBufferTotal,   \* incoming_buffer_size_total, in datagrams
    IncomingSettings  \* bounds: how many ids a client uses, and how often clients
                      \* change their address, tokens are sent and connections end

ASSUME IncomingConstants ==
    /\ Addresses # {}
    /\ {MaxIncoming, IncomingBufferSize, IncomingBufferTotal} \subseteq Nat
    /\ IncomingSettings \subseteq
         [ids : [Clients -> Nat], rebinds : Nat, tokens : Nat, drains : Nat]

VARIABLES
    clients,        \* client -> [addr, ids: the ids it has used, with their tokens]
    initial,        \* connection_ids_initial: id -> [to, at]
    connection_ids, \* local id -> handle
    buffers,        \* incoming_buffers: index -> datagrams, for the indices in use
    spareBuffers,   \* freed indices, the last freed first
    total,          \* all_incoming_buffers_total_bytes
    incomings,      \* the Incoming values the application or its queue holds
    conns,          \* connections: handle -> [init, cid]
    spareConns,     \* freed handles, the last freed first
    serving,        \* server_config is set
    closing,        \* the endpoint is closed: new attempts are refused
    usedNonces,     \* the token log
    issued,         \* local ids issued
    left,           \* what is left of the bounds
    strayed,        \* ids whose route an accept has left behind
    sentTo,         \* addresses a token was sent to
    panicked
incomingVars == <<clients, initial, connection_ids, buffers, spareBuffers, total, incomings,
                  conns, spareConns, serving, closing, usedNonces, issued, left,
                  strayed, sentTo, panicked>>

NoToken == [kind |-> "none", addr |-> "", id |-> <<>>, old |-> FALSE]

\* The next id client c uses, and a local id.
NextId(c) == <<c, Len(clients[c].ids) + 1>>
LocalId == <<"local", issued + 1>>

Spend(what) == left[what] > 0 /\ left' = [left EXCEPT ![what] = @ - 1]

With(f, x, v) == [y \in DOMAIN f \cup {x} |-> IF y = x THEN v ELSE f[y]]
Less(f, S) == [y \in DOMAIN f \ S |-> f[y]]

\* The key a slab will use next.
VacantKey(slab, spare) == IF spare # <<>> THEN Head(spare) ELSE Cardinality(DOMAIN slab) + 1
Spared(spare) == IF spare # <<>> THEN Tail(spare) ELSE spare

IncomingInit ==
    /\ clients = [c \in Clients |-> [addr |-> CHOOSE a \in Addresses : TRUE, ids |-> <<>>]]
    /\ initial = <<>> /\ connection_ids = <<>>
    /\ buffers = <<>> /\ spareBuffers = <<>> /\ total = 0
    /\ incomings = {}
    /\ conns = <<>> /\ spareConns = <<>>
    /\ serving = TRUE /\ closing = FALSE
    /\ usedNonces = {} /\ issued = 0
    /\ left \in IncomingSettings
    /\ strayed = {} /\ sentTo = {} /\ panicked = FALSE

------------------------------------------------------------------------------
(* Clients.                                                                *)

\* A client begins an attempt with an id of its own; it uses a token it has
\* been given before, if there is one.
Connects(c, token) ==
    /\ Len(clients[c].ids) < left.ids[c]
    /\ clients' = [clients EXCEPT ![c].ids =
                     Append(@, [id |-> NextId(c), token |-> token, next |-> NoToken])]
    /\ UNCHANGED <<initial, connection_ids, buffers, spareBuffers, total, incomings, conns,
                   spareConns, serving, closing, usedNonces, issued, left, strayed, sentTo, panicked>>

\* The client's address changes.
Rebinds(c, a) ==
    /\ a # clients[c].addr /\ clients[c].ids # <<>>
    /\ Spend("rebinds")
    /\ clients' = [clients EXCEPT ![c].addr = a]
    /\ UNCHANGED <<initial, connection_ids, buffers, spareBuffers, total, incomings, conns,
                   spareConns, serving, closing, usedNonces, issued, strayed, sentTo, panicked>>

\* A token becomes older than its lifetime.
TokenExpires(c) ==
    /\ \E i \in DOMAIN clients[c].ids :
         /\ clients[c].ids[i].token # NoToken /\ ~clients[c].ids[i].token.old
         /\ clients' = [clients EXCEPT ![c].ids[i].token.old = TRUE]
    /\ UNCHANGED <<initial, connection_ids, buffers, spareBuffers, total, incomings, conns,
                   spareConns, serving, closing, usedNonces, issued, left, strayed, sentTo, panicked>>

------------------------------------------------------------------------------
(* Datagrams.                                                              *)

Unvalidated(id) == [validated |-> FALSE, retried |-> FALSE, orig |-> id]

\* IncomingToken::from_header; orig = <<>> stands for InvalidRetryTokenError.
FromHeader(id, token, addr) ==
    CASE token.kind = "none" -> Unvalidated(id)
      [] token.kind = "retry" ->
           IF token.addr # addr \/ token.old THEN [validated |-> FALSE, retried |-> TRUE, orig |-> <<>>]
           ELSE [validated |-> TRUE, retried |-> TRUE, orig |-> token.id]
      [] token.kind = "validation" ->
           IF token.addr # addr \/ token.old \/ token.id \in usedNonces THEN Unvalidated(id)
           ELSE [validated |-> TRUE, retried |-> FALSE, orig |-> id]

\* A validation token is logged when it counts.
Logged(token, t) ==
    IF token.kind = "validation" /\ t.validated THEN usedNonces \cup {token.id} ELSE usedNonces

\* handle: the datagram goes to a connection, into the buffer of an attempt
\* as far as the limits allow, or may begin an attempt.  A route to a buffer
\* that is gone ends the endpoint.
DatagramBuffered(d) ==
    /\ d.id \in DOMAIN initial /\ initial[d.id].to = "incoming"
    /\ LET at == initial[d.id].at
       IN  IF at \notin DOMAIN buffers
             THEN panicked' = TRUE /\ UNCHANGED <<buffers, total>>
             ELSE /\ serving /\ Len(buffers[at]) < IncomingBufferSize /\ total < IncomingBufferTotal
                  /\ buffers' = [buffers EXCEPT ![at] = Append(@, d.id)]
                  /\ total' = total + 1
                  /\ UNCHANGED panicked
    /\ UNCHANGED <<clients, initial, connection_ids, spareBuffers, incomings, conns,
                   spareConns, serving, closing, usedNonces, issued, left, strayed, sentTo>>

\* handle_first_packet: the attempt is refused when there are too many or
\* when it bears an invalid retry token, and by a closed endpoint after it
\* has been entered into the tables and taken out again.
FirstPacket(c, d) ==
    /\ d.id \notin DOMAIN initial /\ serving
    /\ Cardinality(DOMAIN buffers) < MaxIncoming
    /\ LET t  == FromHeader(d.id, d.token, clients[c].addr)
           at == VacantKey(buffers, spareBuffers)
       IN  /\ t.orig # <<>>
           /\ usedNonces' = Logged(d.token, t)
           /\ IF closing
                THEN UNCHANGED <<initial, buffers, spareBuffers, incomings>>
                ELSE /\ initial' = With(initial, d.id, [to |-> "incoming", at |-> at])
                     /\ buffers' = With(buffers, at, <<>>)
                     /\ spareBuffers' = Spared(spareBuffers)
                     /\ incomings' = incomings \cup
                          {[client |-> c, addr |-> clients[c].addr, id |-> d.id, at |-> at,
                            validated |-> t.validated, retried |-> t.retried, orig |-> t.orig]}
    /\ UNCHANGED <<clients, connection_ids, total, conns, spareConns, serving, closing,
                   issued, left, strayed, sentTo, panicked>>

------------------------------------------------------------------------------
(* The application's answers.                                              *)

\* The attempt leaves the buffers, in every answer.
BufferGoes(i) ==
    /\ incomings' = incomings \ {i}
    /\ buffers' = Less(buffers, {i.at})
    /\ spareBuffers' = <<i.at>> \o spareBuffers
    /\ total' = total - Len(buffers[i.at])

CleanUpIncoming(i) == BufferGoes(i) /\ initial' = Less(initial, {i.id})

\* refuse, ignore, and the drop of an Incoming.
Refuse(i) ==
    /\ CleanUpIncoming(i)
    /\ UNCHANGED <<clients, connection_ids, conns, spareConns, serving, closing,
                   usedNonces, issued, left, strayed, sentTo, panicked>>

\* retry: the client gets an id to continue with and a token for its address,
\* unless the answer is lost.  Without a configuration, and for an attempt
\* that bears a retry token, the application keeps the Incoming.
Retry(i, arrives) ==
    /\ serving /\ ~i.retried
    /\ Spend("tokens")
    /\ CleanUpIncoming(i)
    /\ sentTo' = sentTo \cup {i.addr}
    /\ clients' =
         IF arrives /\ clients[i.client].addr = i.addr /\ Len(clients[i.client].ids) < left.ids[i.client]
           THEN [clients EXCEPT ![i.client].ids =
                   Append(@, [id |-> NextId(i.client), next |-> NoToken,
                              token |-> [kind |-> "retry", addr |-> i.addr, id |-> i.id, old |-> FALSE]])]
           ELSE clients
    /\ UNCHANGED <<connection_ids, conns, spareConns, serving, closing, usedNonces, issued,
                   strayed, panicked>>

\* Mutant: a stale attempt leaves its route.
AcceptLateRouted(i) ==
    /\ serving
    /\ BufferGoes(i)
    /\ UNCHANGED <<clients, initial, connection_ids, conns, spareConns, serving, closing,
                   usedNonces, issued, left, strayed, sentTo, panicked>>

\* accept of an attempt that has waited longer than the idle timeout, or
\* whose first packet does not authenticate, or whose handshake fails when
\* the connection handles it (which is added and drained again).
AcceptLate(i) ==
    /\ serving
    /\ CleanUpIncoming(i)
    /\ UNCHANGED <<clients, connection_ids, conns, spareConns, serving, closing,
                   usedNonces, issued, left, strayed, sentTo, panicked>>

\* accept without a configuration, and accept when the TLS session does not
\* start: the route of the attempt stays, in the second case with a local id
\* that was made for the connection.
AcceptStrays(i) ==
    /\ BufferGoes(i)
    /\ strayed' = strayed \cup {i.id} \cup (IF serving THEN {LocalId} ELSE {})
    /\ IF serving
         THEN /\ issued' = issued + 1
              /\ connection_ids' = With(connection_ids, LocalId, VacantKey(conns, spareConns))
         ELSE UNCHANGED <<issued, connection_ids>>
    /\ UNCHANGED <<clients, initial, conns, spareConns, serving, closing, usedNonces, left,
                   sentTo, panicked>>

\* accept: a connection takes the route, and the buffered datagrams.
Accept(i) ==
    /\ serving
    /\ BufferGoes(i)
    /\ LET ch == VacantKey(conns, spareConns)
       IN  /\ conns' = With(conns, ch, [init |-> i.id, cid |-> LocalId, client |-> i.client])
           /\ spareConns' = Spared(spareConns)
           /\ connection_ids' = With(connection_ids, LocalId, ch)
           /\ initial' = With(initial, i.id, [to |-> "connection", at |-> ch])
    /\ issued' = issued + 1
    /\ UNCHANGED <<clients, serving, closing, usedNonces, left, strayed, sentTo, panicked>>

\* The server sends a NEW_TOKEN for the address of the client's attempt.
NewToken(ch) ==
    /\ Spend("tokens")
    /\ LET c == conns[ch].client
           k == conns[ch].init[2]
       IN  /\ clients[c].ids[k].next = NoToken
           /\ sentTo' = sentTo \cup {clients[c].addr}
           /\ clients' = [clients EXCEPT ![c].ids[k].next =
                [kind |-> "validation", addr |-> clients[c].addr, id |-> <<c, k>>, old |-> FALSE]]
    /\ UNCHANGED <<initial, connection_ids, buffers, spareBuffers, total, incomings, conns,
                   spareConns, serving, closing, usedNonces, issued, strayed, panicked>>

\* Drained: the connection leaves the slab and the index.
ConnectionDrained(ch) ==
    /\ Spend("drains")
    /\ conns' = Less(conns, {ch})
    /\ spareConns' = <<ch>> \o spareConns
    /\ initial' = Less(initial, {conns[ch].init})
    /\ connection_ids' = Less(connection_ids, {conns[ch].cid})
    /\ UNCHANGED <<clients, buffers, spareBuffers, total, incomings, serving, closing,
                   usedNonces, issued, strayed, sentTo, panicked>>

\* Endpoint::close, and set_server_config(None).
CloseEndpoint ==
    /\ ~closing /\ incomings # {}
    /\ closing' = TRUE
    /\ UNCHANGED <<clients, initial, connection_ids, buffers, spareBuffers, total, incomings,
                   conns, spareConns, serving, usedNonces, issued, left, strayed, sentTo, panicked>>

SetServerConfig ==
    /\ serving /\ incomings # {}
    /\ serving' = FALSE
    /\ UNCHANGED <<clients, initial, connection_ids, buffers, spareBuffers, total, incomings,
                   conns, spareConns, closing, usedNonces, issued, left, strayed, sentTo, panicked>>

IncomingNext ==
    /\ ~panicked
    /\ \/ \E c \in Clients :
            \/ \E token \in {NoToken} \cup {clients[c].ids[i].next : i \in DOMAIN clients[c].ids} :
                 Connects(c, token)
            \/ \E a \in Addresses : Rebinds(c, a)
            \/ TokenExpires(c)
            \/ \E i \in DOMAIN clients[c].ids :
                 \/ DatagramBuffered(clients[c].ids[i])
                 \/ FirstPacket(c, clients[c].ids[i])
       \/ \E i \in incomings :
            \/ Refuse(i) \/ AcceptLate(i) \/ AcceptStrays(i) \/ Accept(i)
            \/ \E arrives \in BOOLEAN : Retry(i, arrives)
       \/ \E ch \in DOMAIN conns : NewToken(ch) \/ ConnectionDrained(ch)
       \/ CloseEndpoint \/ SetServerConfig

IncomingSpec == IncomingInit /\ [][IncomingNext]_incomingVars

------------------------------------------------------------------------------
(* Properties.                                                             *)

\* The id of a first datagram leads to the attempt or the connection that was
\* made for this id, and a local id to its connection: no route outlives what
\* it leads to, though slab indices are used again.  The routes excepted are
\* those accept leaves behind when there is no server configuration any more
\* or the TLS session does not start (Endpoint::accept; see the README).
RoutesAreLive ==
    /\ \A id \in DOMAIN initial \ strayed :
         IF initial[id].to = "incoming"
           THEN \E i \in incomings : i.id = id /\ i.at = initial[id].at
           ELSE initial[id].at \in DOMAIN conns /\ conns[initial[id].at].init = id
    /\ \A cid \in DOMAIN connection_ids \ strayed :
         connection_ids[cid] \in DOMAIN conns /\ conns[connection_ids[cid]].cid = cid

\* An attempt has one buffer of its own until it is answered, nothing else
\* has one, and the datagrams they hold are as many as the total says, within
\* its limit, whichever way attempts are answered (incoming_buffers,
\* all_incoming_buffers_total_bytes).
BuffersOwned ==
    /\ DOMAIN buffers = {i.at : i \in incomings}
    /\ Cardinality(DOMAIN buffers) = Cardinality(incomings)
    /\ total = Cardinality(UNION {{k} \X (1 .. Len(buffers[k])) : k \in DOMAIN buffers})
    /\ total <= IncomingBufferTotal

\* An attempt counts as validated only when a token was sent to the very
\* address it came from; after a retry it carries the id of the client's
\* first packet (IncomingToken::from_header, Endpoint::retry).
ValidatedWasSent ==
    \A i \in incomings :
      /\ i.validated => i.addr \in sentTo
      /\ i.retried => \E k \in DOMAIN clients[i.client].ids :
                        clients[i.client].ids[k].id = i.orig /\ i.orig # i.id

\* Attempts are kept apart, accounted for and believed rightly until they are
\* answered (Endpoint's index, incoming_buffers and IncomingToken).
AttemptsKept == RoutesAreLive /\ BuffersOwned /\ ValidatedWasSent
=============================================================================
