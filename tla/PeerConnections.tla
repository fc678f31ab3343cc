--------------------------- MODULE PeerConnections ---------------------------
(***************************************************************************)
(* Two peers that know each other by one address: the connection table of   *)
(* NatTraversalEndpoint, the peers, reader tasks and events of P2pEndpoint  *)
(* above it, and the tasks that fill and clear them: dials (connect and     *)
(* finalize_direct_connection), the accept loop and accept(), the handler   *)
(* of reader exits, the stale reaper, disconnect() and poll().  Each await  *)
(* of a task is a step of its own.  A connection is named by its dial; the  *)
(* QUIC handshake is one step and a close reaches the other end later.      *)
(***************************************************************************)
EXTENDS Naturals, Sequences, FiniteSets, SequencesExt

CONSTANTS Dials,      \* 1 .. n: connections, dialled in any order
          NodeA, NodeB, \* the peers; NodeA has the lower fingerprint
          PeerSettings \* records [dials, cuts, disconnects, acting]: dials is a sequence of
                       \* [by, how], how is "connect" or "fallback"; of a peer that is
                       \* not acting only its handshakes and closes are seen

ASSUME NodesDiffer == NodeA # NodeB

Nodes == {NodeA, NodeB}

ASSUME PeerConstants ==
    /\ Dials \subseteq Nat \ {0}
    /\ PeerSettings \subseteq [dials : Seq([by : Nodes, how : {"connect", "fallback"}]),
                              cuts : Nat, disconnects : Nat, acting : SUBSET Nodes]

Other(n) == IF n = NodeA THEN NodeB ELSE NodeA
Cleaners == {"exit", "reaper", "user"}

VARIABLES
    dialer,     \* the future of each dial
    closed,     \* closed[n]: connections for which n's end has a close_reason
    established, \* connections whose handshake is done, at each end
    conns,      \* connections: what the table holds for the peer's address, 0
    emitted,    \* emitted_established_events has the address
    lost,       \* ConnectionEstablished events not yet drained by poll
    peers,      \* connected_peers has the address
    told,       \* emitted_peer_connected has the address
    last_event, \* the last of PeerConnected and PeerDisconnected
    readers,    \* reader tasks that run
    handle,     \* reader_handles: whose reader it is, 0
    exits,      \* reader_exit channel
    inbox,      \* handshake channel
    acceptor,   \* the application's accept()
    cleaner,    \* runs of do_cleanup_connection
    allowance,  \* how many connections may still be cut and peers disconnected
    acting      \* the peers whose tasks are modelled

peerVars == <<dialer, closed, established, conns, emitted, lost, peers, told, last_event,
              readers, handle, exits, inbox, acceptor, cleaner, allowance, acting>>
quicState == <<closed, established>>
natState == <<conns, emitted, lost>>
eventState == <<told, last_event>>
readerState == <<readers, handle, exits>>

\* The dials of a setting, before they start.
DialsOf(s) ==
    [d \in Dials |->
       IF d > Len(s.dials) THEN [pc |-> "absent", by |-> NodeA, how |-> "connect", reads |-> 0]
       ELSE [pc |-> "idle", by |-> s.dials[d].by, how |-> s.dials[d].how, reads |-> 0]]

StartsAs(s) ==
    /\ dialer = DialsOf(s)
    /\ allowance = [cuts |-> s.cuts, disconnects |-> s.disconnects]
    /\ acting = s.acting

PeersInit ==
    /\ \E s \in PeerSettings : StartsAs(s)
    /\ closed = [n \in Nodes |-> {}]
    /\ established = [n \in Nodes |-> {}]
    /\ conns = [n \in Nodes |-> 0]
    /\ emitted = [n \in Nodes |-> FALSE]
    /\ lost = [n \in Nodes |-> 0]
    /\ peers = [n \in Nodes |-> FALSE]
    /\ told = [n \in Nodes |-> FALSE]
    /\ last_event = [n \in Nodes |-> "none"]
    /\ readers = [n \in Nodes |-> {}]
    /\ handle = [n \in Nodes |-> 0]
    /\ exits = [n \in Nodes |-> <<>>]
    /\ inbox = [n \in Nodes |-> <<>>]
    /\ acceptor = [n \in Nodes |-> [pc |-> "idle", conn |-> 0]]
    /\ cleaner = [n \in Nodes |-> [k \in Cleaners |-> [pc |-> "idle", expected |-> 0, removed |-> FALSE]]]

Live(n) == conns[n] # 0 /\ conns[n] \notin closed[n]
Goes(d, pc) == dialer' = [dialer EXCEPT ![d].pc = pc]

\* is_connected takes a dead connection out of the table.
Reaped(n) == [conns EXCEPT ![n] = IF Live(n) THEN @ ELSE 0]

\* broadcast_peer_connected_once
Broadcast(n) ==
    /\ told' = [told EXCEPT ![n] = TRUE]
    /\ last_event' = [last_event EXCEPT ![n] = IF told[n] THEN @ ELSE "PeerConnected"]

\* spawn_reader and the handle that replaces, and aborts, the former reader's.
Spawned(n, c) ==
    /\ readers' = [readers EXCEPT ![n] = @ \cup {c}]
    /\ UNCHANGED <<handle, exits>>

\* Mutant: the former reader goes on.
HandledBoth(n, c) == handle' = [handle EXCEPT ![n] = c] /\ UNCHANGED <<readers, exits>>

Handled(n, c) ==
    /\ handle' = [handle EXCEPT ![n] = c]
    /\ readers' = [readers EXCEPT ![n] = IF handle[n] = c THEN @ ELSE @ \ {handle[n]}]
    /\ UNCHANGED exits

\* --- a dial -----------------------------------------------------------------

\* connect: a live connection is used again, a dead one is forgotten.
DialStarts(d) ==
    LET n == dialer[d].by IN
    /\ dialer[d].pc = "idle" /\ n \in acting
    /\ conns' = Reaped(n)
    /\ IF dialer[d].how = "connect"
       THEN /\ Goes(d, IF peers[n] /\ Live(n) THEN "reused" ELSE "handshake")
            /\ peers' = [peers EXCEPT ![n] = @ /\ Live(n)]
       ELSE Goes(d, IF Live(n) THEN "reused" ELSE "handshake") /\ UNCHANGED peers
    /\ UNCHANGED <<quicState, emitted, lost, eventState, readerState, inbox, acceptor, cleaner, allowance>>

\* A dial of a peer that is not acting.
ForeignDial(d) ==
    LET n == dialer[d].by IN
    /\ dialer[d].pc = "idle" /\ n \notin acting
    /\ Goes(d, "done")
    /\ established' = [established EXCEPT ![n] = @ \cup {d}]
    /\ UNCHANGED <<closed, natState, peers, eventState, readerState, inbox, acceptor, cleaner, allowance>>

\* The handshake is done at the dialling end, or the dial gives up.
Handshake(d) ==
    LET n == dialer[d].by IN
    /\ dialer[d].pc = "handshake"
    /\ \/ /\ Goes(d, "established")
          /\ established' = [established EXCEPT ![n] = @ \cup {d}]
          /\ UNCHANGED closed
       \/ /\ Goes(d, "failed")
          /\ closed' = [closed EXCEPT ![n] = @ \cup {d}]
          /\ UNCHANGED established
    /\ UNCHANGED <<natState, peers, eventState, readerState, inbox, acceptor, cleaner, allowance>>

\* The fingerprints decide a simultaneous open.
WeKeepClient(n) == n = NodeA

\* finalize_direct_connection of the peer with the higher fingerprint: a live
\* connection is there, so the outgoing one is closed.
TieLost(d) ==
    LET n == dialer[d].by IN
    /\ dialer[d].pc = "established" /\ dialer[d].how = "fallback"
    /\ Live(n) /\ ~WeKeepClient(n)
    /\ closed' = [closed EXCEPT ![n] = @ \cup {d}]
    /\ Goes(d, "yielded")
    /\ UNCHANGED <<established, natState, peers, eventState, readerState, inbox, acceptor, cleaner, allowance>>

\* add_connection overwrites the table and wakes the accept loop.
AddConnection(d) ==
    LET n == dialer[d].by IN
    /\ dialer[d].pc = "established"
    /\ dialer[d].how = "connect" \/ ~Live(n) \/ WeKeepClient(n)
    /\ conns' = [conns EXCEPT ![n] = d]
    /\ Goes(d, "added")
    /\ UNCHANGED <<quicState, emitted, lost, peers, eventState, readerState, inbox, acceptor, cleaner, allowance>>

\* spawn_connection_handler announces the address, and the connection to read
\* is looked up: it is the one that the table holds now, if any.
SpawnHandler(d) ==
    LET n == dialer[d].by IN
    /\ dialer[d].pc = "added"
    /\ emitted' = [emitted EXCEPT ![n] = TRUE]
    /\ lost' = [lost EXCEPT ![n] = IF emitted[n] THEN @ ELSE @ + 1]
    /\ dialer' = [dialer EXCEPT ![d].pc = IF conns[n] = 0 THEN "register" ELSE "spawn", ![d].reads = conns[n]]
    /\ UNCHANGED <<quicState, conns, peers, eventState, readerState, inbox, acceptor, cleaner, allowance>>

\* The rest of the registration, one lock after the other.
DialGoesOn(d) ==
    LET n == dialer[d].by
        c == dialer[d].reads
    IN
    /\ \/ dialer[d].pc = "spawn" /\ Goes(d, "handle") /\ Spawned(n, c) /\ UNCHANGED <<peers, eventState>>
       \/ dialer[d].pc = "handle" /\ Goes(d, "register") /\ Handled(n, c) /\ UNCHANGED <<peers, eventState>>
       \/ /\ dialer[d].pc = "register" /\ Goes(d, "announce")
          /\ peers' = [peers EXCEPT ![n] = TRUE]
          /\ UNCHANGED <<readerState, eventState>>
       \/ dialer[d].pc = "announce" /\ Goes(d, "done") /\ Broadcast(n) /\ UNCHANGED <<readerState, peers>>
    /\ UNCHANGED <<quicState, natState, inbox, acceptor, cleaner, allowance>>

\* --- accepting --------------------------------------------------------------

Announces(n) == ~emitted[n]

\* The accept loop: a second connection beside a live one gets a relay handler
\* only; one that is the first of its address goes to accept().
AcceptLoop(d) ==
    LET n == Other(dialer[d].by) IN
    /\ n \in acting /\ dialer[d].pc # "absent" /\ d \in established[dialer[d].by] /\ d \notin established[n] \cup closed[n]
    /\ established' = [established EXCEPT ![n] = @ \cup {d}]
    /\ \/ Live(n) /\ UNCHANGED <<conns, emitted, inbox>>
       \/ /\ ~Live(n)
          /\ conns' = [conns EXCEPT ![n] = d]
          /\ emitted' = [emitted EXCEPT ![n] = TRUE]
          /\ inbox' = [inbox EXCEPT ![n] = IF Announces(n) THEN Append(@, d) ELSE @]
    /\ UNCHANGED <<dialer, closed, lost, peers, eventState, readerState, acceptor, cleaner, allowance>>

\* add_connection wakes the accept loop, which forwards what was not announced.
Forward(n) ==
    /\ conns[n] # 0 /\ ~emitted[n]
    /\ emitted' = [emitted EXCEPT ![n] = TRUE]
    /\ inbox' = [inbox EXCEPT ![n] = Append(@, conns[n])]
    /\ UNCHANGED <<dialer, quicState, conns, lost, peers, eventState, readerState, acceptor, cleaner, allowance>>

\* accept_with_connection
Accept(n) ==
    LET c == acceptor[n].conn
        at == acceptor[n].pc
    IN
    /\ \/ /\ at = "idle" /\ inbox[n] # <<>>
          /\ acceptor' = [acceptor EXCEPT ![n] = [pc |-> "spawn", conn |-> Head(inbox[n])]]
          /\ inbox' = [inbox EXCEPT ![n] = Tail(@)]
          /\ emitted' = [emitted EXCEPT ![n] = TRUE]
          /\ lost' = [lost EXCEPT ![n] = IF emitted[n] THEN @ ELSE @ + 1]
          /\ UNCHANGED <<peers, eventState, readerState>>
       \/ /\ at = "spawn" /\ acceptor' = [acceptor EXCEPT ![n].pc = "handle"] /\ Spawned(n, c)
          /\ UNCHANGED <<inbox, emitted, lost, peers, eventState>>
       \/ /\ at = "handle" /\ acceptor' = [acceptor EXCEPT ![n].pc = "register"] /\ Handled(n, c)
          /\ UNCHANGED <<inbox, emitted, lost, peers, eventState>>
       \/ /\ at = "register" /\ acceptor' = [acceptor EXCEPT ![n].pc = "announce"]
          /\ peers' = [peers EXCEPT ![n] = TRUE]
          /\ UNCHANGED <<inbox, emitted, lost, eventState, readerState>>
       \/ /\ at = "announce" /\ acceptor' = [acceptor EXCEPT ![n].pc = "idle"] /\ Broadcast(n)
          /\ UNCHANGED <<inbox, emitted, lost, peers, readerState>>
    /\ UNCHANGED <<dialer, quicState, conns, cleaner, allowance>>

\* --- the end of a connection ------------------------------------------------

\* A connection is lost to both ends at once (a timeout), or a close arrives.
Cut(d) ==
    /\ allowance.cuts > 0 /\ \E n \in Nodes : d \in established[n] \ closed[n]
    /\ allowance' = [allowance EXCEPT !.cuts = @ - 1]
    /\ \E n \in Nodes : closed' = [closed EXCEPT ![n] = @ \cup {d}]
    /\ UNCHANGED <<dialer, established, natState, peers, eventState, readerState, inbox, acceptor, cleaner>>

CloseArrives(n) ==
    /\ closed[Other(n)] \ closed[n] # {}
    /\ closed' = [closed EXCEPT ![n] = @ \cup closed[Other(n)]]
    /\ UNCHANGED <<dialer, established, natState, peers, eventState, readerState, inbox, acceptor, cleaner, allowance>>

\* A reader sees the close and reports it.
ReaderExits(n, c) ==
    /\ c \in readers[n] \cap closed[n]
    /\ readers' = [readers EXCEPT ![n] = @ \ {c}]
    /\ exits' = [exits EXCEPT ![n] = Append(@, c)]
    /\ UNCHANGED <<dialer, quicState, natState, peers, eventState, handle, inbox, acceptor, cleaner, allowance>>

\* do_cleanup_connection, up to its first await: remove_connection, forced
\* (c = 0) or for the exact connection c only.
Removes(n, c) == conns[n] # 0 /\ (c = 0 \/ conns[n] = c)
CleanupStarts(n, k, from, c) ==
    /\ cleaner[n][k].pc = from
    /\ IF Removes(n, c)
       THEN /\ closed' = [closed EXCEPT ![n] = @ \cup {conns[n]}]
            /\ conns' = [conns EXCEPT ![n] = 0]
            /\ emitted' = [emitted EXCEPT ![n] = FALSE]
       ELSE UNCHANGED <<closed, conns, emitted>>
    /\ cleaner' = IF c # 0 /\ ~Removes(n, c) /\ conns[n] # 0 THEN cleaner
                  ELSE [cleaner EXCEPT ![n][k] = [pc |-> "peers", expected |-> c, removed |-> FALSE]]
    /\ UNCHANGED <<dialer, established, lost, peers, eventState, inbox, acceptor>>

ExitHandler(n) ==
    /\ exits[n] # <<>>
    /\ CleanupStarts(n, "exit", "idle", Head(exits[n]))
    /\ exits' = [exits EXCEPT ![n] = Tail(@)]
    /\ UNCHANGED <<readers, handle, allowance>>

\* Mutant: a peer that is not in the table any more is not seen.
StaleTabled(n) == peers[n] /\ conns[n] # 0 /\ ~Live(n)

Stale(n) == peers[n] /\ ~Live(n)

\* The reaper asks is_connected under the lock of connected_peers, and removes
\* by force when it has cleaned up after other peers.
StaleReaper(n) ==
    /\ Stale(n) /\ cleaner[n]["reaper"].pc = "idle"
    /\ conns' = Reaped(n)
    /\ cleaner' = [cleaner EXCEPT ![n]["reaper"].pc = "stale"]
    /\ UNCHANGED <<dialer, quicState, emitted, lost, peers, eventState, readerState, inbox, acceptor, allowance>>

ReaperRemoves(n) ==
    /\ CleanupStarts(n, "reaper", "stale", 0)
    /\ UNCHANGED <<readerState, allowance>>

Disconnect(n) ==
    /\ peers[n] /\ allowance.disconnects > 0
    /\ allowance' = [allowance EXCEPT !.disconnects = @ - 1]
    /\ CleanupStarts(n, "user", "idle", 0)
    /\ UNCHANGED readerState

\* The rest of do_cleanup_connection, one lock after the other.
CleanupGoesOn(n, k) ==
    /\ \/ /\ cleaner[n][k].pc = "peers"
          /\ cleaner' = [cleaner EXCEPT ![n][k].pc = "handles", ![n][k].removed = peers[n]]
          /\ peers' = [peers EXCEPT ![n] = FALSE]
          /\ told' = [told EXCEPT ![n] = FALSE]
          /\ UNCHANGED <<readers, handle, last_event>>
       \/ /\ cleaner[n][k].pc = "handles"
          /\ cleaner' = [cleaner EXCEPT ![n][k].pc = "event"]
          /\ readers' = [readers EXCEPT ![n] = @ \ {handle[n]}]
          /\ handle' = [handle EXCEPT ![n] = 0]
          /\ UNCHANGED <<peers, eventState>>
       \/ /\ cleaner[n][k].pc = "event"
          /\ cleaner' = [cleaner EXCEPT ![n][k] = [pc |-> "idle", expected |-> 0, removed |-> FALSE]]
          /\ last_event' = [last_event EXCEPT ![n] = IF cleaner[n][k].removed THEN "PeerDisconnected" ELSE @]
          /\ UNCHANGED <<peers, told, readers, handle>>
    /\ UNCHANGED <<dialer, quicState, natState, exits, inbox, acceptor, allowance>>

\* poll: events of established connections are announced, and a dead
\* connection leaves the table after its grace period.
Poll(n) ==
    /\ \/ /\ lost[n] > 0
          /\ lost' = [lost EXCEPT ![n] = @ - 1]
          /\ Broadcast(n)
          /\ UNCHANGED conns
       \/ /\ conns[n] \in closed[n]
          /\ conns' = [conns EXCEPT ![n] = 0]
          /\ UNCHANGED <<lost, eventState>>
    /\ UNCHANGED <<dialer, quicState, emitted, peers, readerState, inbox, acceptor, cleaner, allowance>>

DialStep(d) ==
    Handshake(d) \/ TieLost(d) \/ AddConnection(d) \/ SpawnHandler(d) \/ DialGoesOn(d) \/ AcceptLoop(d)
NodeStep(n) ==
    \/ Forward(n) \/ Accept(n) \/ CloseArrives(n) \/ ExitHandler(n) \/ Poll(n) \/ ReaperRemoves(n)
    \/ \E c \in Dials : ReaderExits(n, c)
    \/ \E k \in Cleaners : CleanupGoesOn(n, k)

PeersNext ==
    /\ UNCHANGED acting
    /\ \/ \E d \in Dials : DialStarts(d) \/ ForeignDial(d) \/ DialStep(d) \/ Cut(d)
       \/ \E n \in acting : NodeStep(n) \/ StaleReaper(n) \/ Disconnect(n)

\* The reaper runs on a timer and tasks go on.
PeersFairness ==
    /\ \A d \in Dials : WF_peerVars(DialStep(d) /\ UNCHANGED acting)
    /\ \A n \in Nodes : /\ WF_peerVars(n \in acting /\ NodeStep(n) /\ UNCHANGED acting)
                        /\ WF_peerVars(n \in acting /\ StaleReaper(n) /\ UNCHANGED acting)

PeersSpec == PeersInit /\ [][PeersNext]_peerVars /\ PeersFairness

-----------------------------------------------------------------------------
Resting(n) ==
    /\ inbox[n] = <<>> /\ exits[n] = <<>> /\ acceptor[n].pc = "idle" /\ lost[n] = 0
    /\ \A k \in Cleaners : cleaner[n][k].pc = "idle"
    /\ \A d \in Dials : dialer[d].pc \in {"absent", "idle", "reused", "failed", "yielded", "done"}
    /\ readers[n] \cap closed[n] = {}
    /\ closed[Other(n)] \subseteq closed[n] /\ established[Other(n)] \subseteq established[n] \cup closed[n]
AtRest == \A n \in acting : Resting(n)

(* Hazard: the peers of P2pEndpoint and the connections below are kept by    *)
(* tasks that do not lock each other out.  A peer whose connection is dead   *)
(* is eventually forgotten or connected again.                               *)
DeadPeerForgotten ==
    \A n \in Nodes : (peers[n] /\ ~Live(n)) ~> (~peers[n] \/ Live(n))

(* Hazard: a reader is spawned before its handle is stored, and handles are  *)
(* replaced and taken away by other tasks.  At rest no reader runs that      *)
(* nobody can abort.                                                         *)
ReadersAreHandled == \A n \in Nodes : Resting(n) => readers[n] \subseteq {handle[n]}

(* One dial between two peers, with nothing cut: at rest both ends have it   *)
(* in their tables, have registered each other and read from it.             *)
UsableWhenAlone ==
    AtRest => \A d \in Dials :
       (/\ dialer[d].pc = "done" /\ \A e \in Dials \ {d} : dialer[e].pc \in {"absent", "idle", "reused"}
        /\ closed[NodeA] = {} /\ closed[NodeB] = {})
         => \A n \in acting : conns[n] = d /\ peers[n] /\ d \in readers[n] /\ last_event[n] = "PeerConnected"

(* When the tasks of both nodes are at rest their tables agree: readers have  *)
(* handles, and a dial that nothing disturbed can be used at both ends.      *)
PeerTablesAgree == ReadersAreHandled /\ UsableWhenAlone

(* connect: "a deterministic tiebreaker ensures both sides keep the same     *)
(* connection".                                                              *)
SameConnectionKept ==
    AtRest /\ acting = Nodes /\ (\A n \in Nodes : Live(n)) => conns[NodeA] = conns[NodeB]
=============================================================================
