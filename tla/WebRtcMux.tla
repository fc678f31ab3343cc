------------------------------ MODULE WebRtcMux ------------------------------
(***************************************************************************)
(* The listener of WebRTC Direct (src/webrtc/direct.rs): one UDP socket    *)
(* shared by the associations of many browsers, told apart by ICE          *)
(* credential and by source address.  A slot is given to a source that has *)
(* shown it can be reached; from then on an association is known by its    *)
(* generation, because the tables are written by tasks that outlive it:    *)
(* the driver, the accept task, the expiry of unaccepted associations, the *)
(* setup deadline, the watcher of a closed connection and the cleanup of a *)
(* dropped owner.                                                          *)
(*                                                                         *)
(* ICE and DTLS are external: an agent sends once it runs, DTLS begins     *)
(* when ICE connects and ends when it is told to or never.  How a source   *)
(* proves its return path (admission.rs) and data channels are left out.   *)
(***************************************************************************)
EXTENDS Naturals, Sequences, FiniteSets

CONSTANTS
    Credentials,     \* server username fragments; each holds its browser's password
    Sources,         \* <<ip, port>>
    MaxConnections,  \* WebRtcAdmissionLimits
    QueueSize,       \* MAX_PENDING_ASSOCIATIONS
    MaxGeneration,   \* bound: associations in a behaviour
    RtcSettings      \* limits per address, and bounds of a behaviour (may, below)

ASSUME WebRtcConstants ==
    /\ {MaxConnections, QueueSize, MaxGeneration} \subseteq Nat
    /\ RtcSettings \subseteq 
         [asks : Seq(Sources \X Credentials), per_ip : Nat, closes : Nat, fails : Nat,
          ends : BOOLEAN]
    /\ \A m \in RtcSettings : Len(m.asks) <= MaxGeneration

Generations == 1 .. MaxGeneration
None == 0

VARIABLES
    assoc,        \* generation -> the association (below)
    next_generation,
    admitted,     \* credential -> generation
    pendings,     \* pending: credential -> generation
    routes,       \* conns: credential -> generation of its UDPMuxConn
    address_map,  \* source -> generation of the connection routed to
    queued,       \* the incoming channel
    accepting,    \* the association of the accept task
    mux,          \* "open", "closing" (closed is set), "closed" (tables cleared)
    driving,      \* the listener exists, its driver runs
    may           \* who asks for associations, in turn, max_connections_per_ip,
                  \* how many associations the application closes itself and how
                  \* many fail in setup; whether the listener closes or is dropped
rtcVars == <<assoc, next_generation, admitted, pendings, routes,
             address_map, queued, accepting, mux, driving, may>>

(* owner: who has the AssociationOwner; conn: the UDPMuxConn; dtls: the      *)
(* state of RTCDtlsTransport; expiry: the task spawned at admission; setup,  *)
(* cleanup, closer: three users of close_inbound_peer.                       *)
Unused == [cred |-> "", src |-> <<>>, owner |-> "none", conn |-> "none", peer |-> "none",
           dtls |-> "New", expiry |-> "done", expired |-> FALSE,
           setup |-> "no", cleanup |-> "no", closer |-> "no"]

Ip(src) == src[1]
Admitted(g) == assoc[g].cred \in Credentials /\ admitted[assoc[g].cred] = g

RtcInit ==
    /\ assoc = [g \in Generations |-> Unused] /\ next_generation = 1
    /\ admitted = [k \in Credentials |-> None]
    /\ pendings = [k \in Credentials |-> None]
    /\ routes = [k \in Credentials |-> None]
    /\ address_map = [s \in Sources |-> None]
    /\ queued = <<>> /\ accepting = None
    /\ mux = "open" /\ driving = TRUE
    /\ may \in RtcSettings

-----------------------------------------------------------------------------
(* The driver.                                                             *)

\* connection_for_packet: a binding request goes by its credential, and only
\* from the source the credential was admitted for; the rest by its source.
ForRequest(src, k) ==
    IF \/ admitted[k] # None /\ assoc[admitted[k]].src # src
       \/ admitted[k] = None /\ address_map[src] = None
    THEN None ELSE routes[k]
ForOther(src) == address_map[src]

Refused(src) ==
    LET held == {k \in Credentials : admitted[k] # None}
    IN  \/ Cardinality(held) >= MaxConnections
        \/ Cardinality({k \in Credentials : pendings[k] # None}) >= QueueSize
        \/ Cardinality({k \in held : Ip(assoc[admitted[k]].src) = Ip(src)}) >= may.per_ip

\* A request that belongs to no connection and comes with the proof that its
\* source can be reached: it takes a generation, and a slot unless its
\* credential has one or there is none left; without room in the channel it is
\* taken back.
Admit(src, k) ==
    /\ driving /\ mux = "open" /\ ForRequest(src, k) = None
    /\ next_generation' = next_generation + 1
    /\ IF admitted[k] # None \/ pendings[k] # None \/ Refused(src)
         THEN UNCHANGED <<assoc, admitted, pendings, queued>>
         ELSE LET room == Len(queued) < QueueSize
              IN  /\ assoc' = [assoc EXCEPT ![next_generation] =
                                 [Unused EXCEPT !.cred = k, !.src = src, !.expiry = "armed",
                                                !.owner = IF room THEN "queue" ELSE "none"]]
                  /\ IF room
                       THEN /\ admitted' = [admitted EXCEPT ![k] = next_generation]
                            /\ pendings' = [pendings EXCEPT ![k] = next_generation]
                            /\ queued' = Append(queued, next_generation)
                       ELSE UNCHANGED <<admitted, pendings, queued>>
    /\ UNCHANGED <<routes, address_map, accepting, mux, driving, may>>

-----------------------------------------------------------------------------
(* The tables.                                                             *)

\* Mutant: the generation is not compared.
RemoveOwnedAny(g, was) ==
    LET k == was[g].cred
        r == routes[k]
    IN  IF admitted[k] # None
        THEN /\ admitted' = [admitted EXCEPT ![k] = None]
             /\ pendings' = [pendings EXCEPT ![k] = None]
             /\ routes' = [routes EXCEPT ![k] = None]
             /\ address_map' = [s \in Sources |->
                  IF r # None /\ address_map[s] # None /\ was[address_map[s]].cred = k
                  THEN None ELSE address_map[s]]
             /\ assoc' = IF r # None THEN [was EXCEPT ![r].conn = "closed"] ELSE was
        ELSE assoc' = was /\ UNCHANGED <<admitted, pendings, routes, address_map>>

\* remove_owned_connection, by a task of generation g that leaves the
\* associations as in was.
RemoveOwned(g, was) ==
    LET k == was[g].cred
        r == routes[k]
    IN  IF admitted[k] = g
        THEN /\ admitted' = [admitted EXCEPT ![k] = None]
             /\ pendings' = [pendings EXCEPT ![k] = None]
             /\ routes' = [routes EXCEPT ![k] = None]
             /\ address_map' = [s \in Sources |->
                  IF r # None /\ address_map[s] # None /\ was[address_map[s]].cred = k
                  THEN None ELSE address_map[s]]
             /\ assoc' = IF r # None THEN [was EXCEPT ![r].conn = "closed"] ELSE was
        ELSE assoc' = was /\ UNCHANGED <<admitted, pendings, routes, address_map>>

\* AssociationOwner::drop: the credential is no longer pending, and a task
\* closes the peer and takes the slot back.
OwnerDrops(g) ==
    /\ pendings' = IF Admitted(g) /\ pendings[assoc[g].cred] = g
                     THEN [pendings EXCEPT ![assoc[g].cred] = None] ELSE pendings
    /\ assoc' = [assoc EXCEPT ![g].owner = "gone",
                   ![g].cleanup = IF assoc[g].peer = "none" THEN "removing" ELSE "ending"]

-----------------------------------------------------------------------------
(* Accepting.                                                              *)

\* WebRtcDirectListener::accept receives an association; one that is no longer
\* pending is passed over.
AcceptReceives ==
    /\ driving /\ mux = "open" /\ accepting = None /\ queued # <<>>
    /\ LET g == Head(queued)
           takes == Admitted(g) /\ pendings[assoc[g].cred] = g
       IN  /\ accepting' = IF takes THEN g ELSE None
           /\ assoc' = [assoc EXCEPT ![g].owner = IF takes THEN "starts" ELSE "none"]
    /\ queued' = Tail(queued)
    /\ UNCHANGED <<next_generation, admitted, pendings, routes, address_map,
                   mux, driving, may>>

\* create_inbound_connection: the connection is made for this generation,
TakesConn(g) ==
    /\ assoc[g].owner = "starts"
    /\ IF mux = "open" /\ Admitted(g)
         THEN /\ routes' = [routes EXCEPT ![assoc[g].cred] = IF @ = None THEN g ELSE @]
              /\ assoc' = [assoc EXCEPT ![g].owner = "connects", ![g].conn = "open"]
              /\ UNCHANGED pendings
         ELSE OwnerDrops(g) /\ UNCHANGED routes
    /\ UNCHANGED <<next_generation, admitted, address_map, queued,
                   accepting, mux, driving, may>>

\* given the request that proved the source, and a peer with its deadline,
MakesPeer(g) ==
    /\ assoc[g].owner = "connects"
    /\ IF assoc[g].conn = "open"
         THEN assoc' = [assoc EXCEPT ![g].owner = "describes", ![g].peer = "up", ![g].setup = "armed"]
              /\ UNCHANGED pendings
         ELSE OwnerDrops(g)
    /\ UNCHANGED <<next_generation, admitted, routes, address_map, queued,
                   accepting, mux, driving, may>>

\* and returned, to whoever accepts next.
Described(g) ==
    /\ assoc[g].owner = "describes"
    /\ assoc' = [assoc EXCEPT ![g].owner = "task"]
    /\ UNCHANGED <<next_generation, admitted, pendings, routes, address_map,
                   queued, accepting, mux, driving, may>>

\* Any of these steps may fail.
SetupFails(g) ==
    /\ assoc[g].owner \in {"connects", "describes"}
    /\ may.fails > 0 /\ may' = [may EXCEPT !.fails = @ - 1]
    /\ OwnerDrops(g)
    /\ UNCHANGED <<next_generation, admitted, routes, address_map, queued,
                   accepting, mux, driving>>

\* accept returns the connection, or the error of a task that failed.
AcceptReturns ==
    /\ driving /\ mux = "open" /\ accepting # None /\ assoc[accepting].owner \in {"task", "gone"}
    /\ assoc' = [assoc EXCEPT ![accepting].owner = IF @ = "task" THEN "app" ELSE @]
    /\ accepting' = None
    /\ UNCHANGED <<next_generation, admitted, pendings, routes, address_map,
                   queued, mux, driving, may>>

AppDrops(g) ==
    /\ assoc[g].owner = "app"
    /\ OwnerDrops(g)
    /\ UNCHANGED <<next_generation, admitted, routes, address_map, queued,
                   accepting, mux, driving, may>>

-----------------------------------------------------------------------------
(* ICE and DTLS of a peer.                                                 *)

\* The agent sends: its address is registered, which ends pending.
RegisterAddress(g) ==
    /\ assoc[g].peer = "up" /\ assoc[g].conn = "open"
    /\ mux = "open" /\ Admitted(g)
    /\ address_map' = [address_map EXCEPT ![assoc[g].src] =
                         IF @ # None /\ assoc[@].cred = assoc[g].cred THEN @ ELSE g]
    /\ pendings' = [pendings EXCEPT ![assoc[g].cred] = None]
    /\ UNCHANGED <<assoc, next_generation, admitted, routes, queued,
                   accepting, mux, driving, may>>

\* ICE connects, and DTLS starts from New only; it may complete.
Dtls(g) ==
    /\ assoc[g].peer = "up" /\ assoc[g].conn = "open" /\ address_map[assoc[g].src] = g
    /\ \/ assoc[g].dtls = "New" /\ assoc' = [assoc EXCEPT ![g].dtls = "Connecting"]
       \/ assoc[g].dtls = "Connecting" /\ assoc' = [assoc EXCEPT ![g].dtls = "Connected"]
    /\ UNCHANGED <<next_generation, admitted, pendings, routes, address_map,
                   queued, accepting, mux, driving, may>>

-----------------------------------------------------------------------------
(* Tasks that end an association.                                          *)

\* The task spawned at admission: after ten seconds it looks whether the
\* association is still pending, and then takes the slot back.
ExpiryLooks(g) ==
    /\ assoc[g].expiry = "armed"
    /\ assoc' = [assoc EXCEPT ![g].expiry =
                   IF Admitted(g) /\ pendings[assoc[g].cred] = g THEN "found" ELSE "done"]
    /\ UNCHANGED <<next_generation, admitted, pendings, routes, address_map,
                   queued, accepting, mux, driving, may>>
ExpiryRemoves(g) ==
    /\ assoc[g].expiry = "found"
    /\ RemoveOwned(g, [assoc EXCEPT ![g].expiry = "done", ![g].expired = TRUE])
    /\ UNCHANGED <<next_generation, queued, accepting, mux, driving, may>>

\* The watcher of get_owned_conn; the ICE agent, when it closes, asks for the
\* same (AssociationMux::remove_conn_by_ufrag).
ConnClosed(g) ==
    /\ assoc[g].conn = "closed"
    /\ RemoveOwned(g, [assoc EXCEPT ![g].conn = "released"])
    /\ UNCHANGED <<next_generation, queued, accepting, mux, driving, may>>

\* Mutant: the deadline passes a handshake that has begun.
SetupDeadlineOnce(g) ==
    /\ assoc[g].setup = "armed"
    /\ assoc' = [assoc EXCEPT ![g].setup =
                   IF assoc[g].cleanup \in {"no", "ending", "closing"} /\ assoc[g].dtls = "New"
                     THEN "ending" ELSE "done"]
    /\ UNCHANGED <<next_generation, admitted, pendings, routes, address_map,
                   queued, accepting, mux, driving, may>>

\* The setup deadline, ten seconds after the peer was made, while it exists.
SetupDeadline(g) ==
    /\ assoc[g].setup = "armed"
    /\ assoc' = [assoc EXCEPT ![g].setup =
                   IF assoc[g].cleanup \in {"no", "ending", "closing"} /\ assoc[g].dtls # "Connected"
                     THEN "ending" ELSE "done"]
    /\ UNCHANGED <<next_generation, admitted, pendings, routes, address_map,
                   queued, accepting, mux, driving, may>>

\* WebRtcDirectConnection::close.
AppCloses(g) ==
    /\ assoc[g].owner = "app" /\ assoc[g].closer = "no"
    /\ may.closes > 0 /\ may' = [may EXCEPT !.closes = @ - 1]
    /\ assoc' = [assoc EXCEPT ![g].closer = "ending"]
    /\ UNCHANGED <<next_generation, admitted, pendings, routes, address_map,
                   queued, accepting, mux, driving>>

\* close_inbound_peer first ends the handshake: DTLS that has not started is
\* stopped, DTLS that waits is told through the connection while that lives,
EndsHandshake(g, by) ==
    /\ assoc[g][by] = "ending"
    /\ assoc' = [assoc EXCEPT ![g][by] = "closing",
                   ![g].dtls = IF \/ @ = "New"
                                  \/ @ = "Connecting" /\ assoc[g].conn = "open" /\ assoc[g].peer = "up"
                               THEN "Closed" ELSE @]
    /\ UNCHANGED <<next_generation, admitted, pendings, routes, address_map,
                   queued, accepting, mux, driving, may>>

\* then closes the peer: ICE closes its connection.
ClosesPeer(g, by) ==
    /\ assoc[g][by] = "closing"
    /\ assoc' = [assoc EXCEPT ![g][by] = IF by = "cleanup" THEN "removing" ELSE "done",
                   ![g].peer = "closed",
                   ![g].conn = IF @ = "open" THEN "closed" ELSE @,
                   ![g].dtls = IF @ = "Connected" THEN "Closed" ELSE @]
    /\ UNCHANGED <<next_generation, admitted, pendings, routes, address_map,
                   queued, accepting, mux, driving, may>>

\* The cleanup of a dropped owner ends by taking the slot back.
CleanupRemoves(g) ==
    /\ assoc[g].cleanup = "removing"
    /\ RemoveOwned(g, [assoc EXCEPT ![g].cleanup = "done"])
    /\ UNCHANGED <<next_generation, queued, accepting, mux, driving, may>>

-----------------------------------------------------------------------------
(* The end of the listener.                                                *)

\* WebRtcDirectListener::close aborts the accept task and closes the mux: the
\* connections first,
ListenerCloses ==
    /\ mux = "open" /\ driving /\ may.ends
    /\ mux' = "closing"
    /\ routes' = [k \in Credentials |-> None]
    /\ assoc' = [g \in Generations |->
         LET a == [assoc[g] EXCEPT !.conn = IF @ = "open" THEN "closed" ELSE @]
         IN  IF g = accepting /\ a.owner \in {"starts", "connects", "describes"}
               THEN [a EXCEPT !.owner = "gone",
                              !.cleanup = IF a.peer = "none" THEN "removing" ELSE "ending"]
               ELSE a]
    /\ UNCHANGED <<next_generation, admitted, pendings, address_map, queued,
                   accepting, driving, may>>

\* then the tables.
MuxClosed ==
    /\ mux = "closing"
    /\ mux' = "closed"
    /\ admitted' = [k \in Credentials |-> None]
    /\ pendings' = [k \in Credentials |-> None]
    /\ address_map' = [s \in Sources |-> None]
    /\ UNCHANGED <<assoc, next_generation, routes, queued, accepting, driving, may>>

\* The listener is dropped, with the accept task, its result and the channel.
ListenerDrops ==
    /\ driving /\ mux # "closing" /\ may.ends
    /\ driving' = FALSE
    /\ queued' = <<>>
    /\ accepting' = None
    /\ IF accepting # None /\ assoc[accepting].owner # "gone"
         THEN OwnerDrops(accepting) ELSE UNCHANGED <<assoc, pendings>>
    /\ UNCHANGED <<next_generation, admitted, routes, address_map, mux, may>>

RtcNext ==
    \/ /\ next_generation <= Len(may.asks)
       /\ LET ask == may.asks[next_generation] IN Admit(ask[1], ask[2])
    \/ AcceptReceives \/ AcceptReturns
    \/ \E g \in Generations :
         \/ TakesConn(g) \/ MakesPeer(g) \/ Described(g) \/ SetupFails(g)
         \/ AppDrops(g) \/ AppCloses(g) \/ RegisterAddress(g) \/ Dtls(g)
         \/ ExpiryLooks(g) \/ ExpiryRemoves(g) \/ ConnClosed(g) \/ SetupDeadline(g)
         \/ \E by \in {"setup", "cleanup", "closer"} : EndsHandshake(g, by) \/ ClosesPeer(g, by)
         \/ CleanupRemoves(g)
    \/ ListenerCloses \/ MuxClosed \/ ListenerDrops

\* Spawned tasks run and timers fire; nobody has to accept, drop or close.
RtcFairness ==
    /\ WF_rtcVars(MuxClosed)
    /\ \A g \in Generations :
         /\ WF_rtcVars(TakesConn(g) \/ MakesPeer(g) \/ Described(g))
         /\ WF_rtcVars(ExpiryLooks(g) \/ ExpiryRemoves(g)) /\ WF_rtcVars(ConnClosed(g))
         /\ WF_rtcVars(SetupDeadline(g) \/ EndsHandshake(g, "setup") \/ ClosesPeer(g, "setup"))
         /\ WF_rtcVars(EndsHandshake(g, "cleanup") \/ ClosesPeer(g, "cleanup") \/ CleanupRemoves(g))

RtcSpec == RtcInit /\ [][RtcNext]_rtcVars /\ RtcFairness

-----------------------------------------------------------------------------
(* Properties.                                                             *)

\* While the mux is open, a connection that is open has its slot, so it counts
\* against the limits, and the routes of its generation: no late task of
\* another generation with the same credential or source takes them away
\* (remove_owned_connection).
OpenHasSlot ==
    mux = "open" =>
      /\ \A g \in Generations : assoc[g].conn = "open" => Admitted(g) /\ routes[assoc[g].cred] = g
      /\ \A k \in Credentials : pendings[k] # None => pendings[k] = admitted[k]

\* A packet reaches a connection only from the source that proved its return
\* path, whatever credential the packet bears and whichever associations have
\* used its port before (connection_for_packet, register_owned_address).
RoutedFromSource ==
    \A s \in Sources :
      /\ ForOther(s) # None => assoc[ForOther(s)].src = s
      /\ \A k \in Credentials :
           ForRequest(s, k) # None => assoc[ForRequest(s, k)].src = s /\ Admitted(ForRequest(s, k))

\* No handshake is left waiting when the tasks of its association are over,
\* whichever of its closers came first (close_inbound_peer; ADR-017).  The
\* exceptions: a listener that was closed, as the ADR says, and an expiry that
\* had looked before the agent registered (see the README).
NoStrandedHandshake ==
    \A g \in Generations :
      assoc[g].cleanup = "done" /\ mux = "open" /\ ~assoc[g].expired
        => assoc[g].dtls = "Closed" \/ assoc[g].peer = "none"

\* The associations of a listener are kept apart and closed in full.
AssociationsKept == OpenHasSlot /\ RoutedFromSource /\ NoStrandedHandshake

\* A slot is not lost: it is given back, or its association gets connected,
\* whether or not anyone accepts it, however far its setup came and whoever
\* gave it up (the tasks spawned by run, get_owned_conn and
\* create_inbound_connection, and AssociationOwner::drop).
SlotsReleased ==
    []<>(\A g \in Generations :
           Admitted(g) => assoc[g].dtls = "Connected" /\ assoc[g].owner # "gone")
=============================================================================
