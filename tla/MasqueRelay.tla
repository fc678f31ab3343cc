----------------------------- MODULE MasqueRelay -----------------------------
(***************************************************************************)
(* The session table of the MASQUE relay server (masque/relay_server.rs):   *)
(* CONNECT requests, forwarding loops and closes run as tasks of their own  *)
(* and meet in tables under separate locks, so every await is a step here.  *)
(* A session is named by the request that created it.  A port stands for    *)
(* the bound UDP socket, which a closed session of an authenticated peer    *)
(* leaves behind as a reservation (ADR-011).                                *)
(***************************************************************************)
EXTENDS Integers, Sequences, FiniteSets, SequencesExt

CONSTANTS Requests,        \* 1 .. n: CONNECT requests, sent in this order
          NoPeer,          \* the identity of an unauthenticated client
          ClientAddrs,     \* client addresses
          MaxSessions,     \* max_sessions
          MaxReservations, \* max_reservations
          RelayPlans       \* sequences of [peer, addr, cut]: who sends which request,
                           \* and may its response fail to be written

\* A request is numbered from 1, so that 0 stands for none.
ASSUME RequestsAssumption == IsFiniteSet(Requests) /\ Requests \subseteq Nat \ {0}

VARIABLES
    req,          \* the task of each request
    port,         \* the port of each session, 0 before it has one
    sessions,     \* sessions: the requests whose session is in the table
    client_map,   \* client_to_session
    active,       \* stats.active_sessions
    forwarding,   \* sessions whose forwarding slot is claimed
    loop,         \* the forwarding loop of each session
    cancelled,    \* ForwardingControl::cancel
    done,         \* ForwardingControl::done holds a permit
    closing,      \* close_session's task for each session
    reservations, \* <<[peer, port], ...>>, the least recently released first
    ports         \* ports bound so far

relayVars == <<req, port, sessions, client_map, active, forwarding, loop, cancelled, done,
               closing, reservations, ports>>
tableVars == <<sessions, client_map, active, reservations, ports, port>>
loopVars == <<forwarding, loop, cancelled, done>>

\* The requests of a plan, before they are sent.
RequestsOf(plan) ==
    [r \in Requests |->
       [pc |-> IF r > Len(plan) THEN "absent" ELSE "unsent",
        peer |-> IF r > Len(plan) THEN NoPeer ELSE plan[r].peer,
        addr |-> IF r > Len(plan) THEN CHOOSE a \in ClientAddrs : TRUE ELSE plan[r].addr,
        cut |-> r <= Len(plan) /\ plan[r].cut, old |-> 0]]

RelayInit ==
    /\ req \in {RequestsOf(plan) : plan \in RelayPlans}
    /\ port = [r \in Requests |-> 0]
    /\ sessions = {} /\ forwarding = {} /\ reservations = <<>> /\ ports = 0 /\ active = 0
    /\ client_map = [a \in ClientAddrs |-> 0]
    /\ loop = [r \in Requests |-> "none"]
    /\ cancelled = [r \in Requests |-> FALSE]
    /\ done = [r \in Requests |-> FALSE]
    /\ closing = [r \in Requests |-> "no"]

Step(r, from, to) == req[r].pc = from /\ req' = [req EXCEPT ![r].pc = to]
PeerIs(s, p) == p # NoPeer /\ req[s].peer = p
InProgress == {r \in Requests : req[r].pc \notin {"absent", "unsent", "accepted", "refused"}}

\* --- handle_connect_request -------------------------------------------------

\* A request arrives.  It may be declined before any state is read: the node
\* does not serve as a relay, or the IP policy refuses the client.
Arrive(r) ==
    /\ req[r].pc = "unsent"
    /\ \A q \in Requests : q < r => req[q].pc # "unsent"
    /\ \E pc \in {"lock", "refused"} : req' = [req EXCEPT ![r].pc = pc]
    /\ UNCHANGED <<tableVars, loopVars, closing>>

\* The stripe of the identity (peer_lock) is held from here to the response.
HoldsLock(q) ==
    req[q].pc \in {"handover", "retire", "retiring", "capacity", "duplicate", "bind", "insert", "index", "count"}

Lock(r) ==
    /\ Step(r, "lock", "handover")
    /\ \A q \in Requests \ {r} : PeerIs(q, req[r].peer) => ~HoldsLock(q)
    /\ UNCHANGED <<tableVars, loopVars, closing>>

LiveSessions(r) == {s \in sessions : PeerIs(s, req[r].peer)}

\* Look for a live session of this identity, under the read lock.
Handover(r) ==
    /\ req[r].pc = "handover"
    /\ \/ LiveSessions(r) = {} /\ req' = [req EXCEPT ![r].pc = "capacity"]
       \/ \E s \in LiveSessions(r) : req' = [req EXCEPT ![r].pc = "retire", ![r].old = s]
    /\ UNCHANGED <<tableVars, loopVars, closing>>

\* Mutant: a session that somebody else has removed is closed again.
TakeSessionAgain(s) == sessions' = sessions \ {s} /\ closing' = [closing EXCEPT ![s] = "removed"]

\* close_session removes the session first: whoever removes it closes it, any
\* other closer gets NotFound.
TakeSession(s) ==
    IF s \in sessions
    THEN sessions' = sessions \ {s} /\ closing' = [closing EXCEPT ![s] = "removed"]
    ELSE UNCHANGED <<sessions, closing>>

Retire(r) ==
    /\ Step(r, "retire", IF req[r].old \in sessions THEN "retiring" ELSE "capacity")
    /\ TakeSession(req[r].old)
    /\ UNCHANGED <<client_map, active, reservations, ports, port, loopVars>>

Retired(r) ==
    /\ Step(r, "retiring", "capacity")
    /\ closing[req[r].old] = "done"
    /\ UNCHANGED <<tableVars, loopVars, closing>>

Capacity(r) ==
    /\ Step(r, "capacity", IF active >= MaxSessions THEN "refused" ELSE "duplicate")
    /\ UNCHANGED <<tableVars, loopVars, closing>>

\* The client's address has a session already, or bridging is not possible,
\* or the relay does not know its own address yet.
Duplicate(r) ==
    /\ \/ Step(r, "duplicate", "refused")
       \/ client_map[req[r].addr] = 0 /\ Step(r, "duplicate", "bind")
    /\ UNCHANGED <<tableVars, loopVars, closing>>

\* The map of reservations is keyed by the peer: its entry, and the map without it.
ReservedAt(peer) == {i \in DOMAIN reservations : reservations[i].peer = peer}
Unreserved(peer) ==
    IF ReservedAt(peer) = {} THEN reservations
    ELSE RemoveAt(reservations, CHOOSE i \in ReservedAt(peer) : TRUE)

\* reclaim_reservation, or a fresh port: a reservation that is too old or of
\* the wrong address family is given up.  The bind may fail.
Bind(r) ==
    /\ reservations' = Unreserved(req[r].peer)
    /\ \/ /\ Step(r, "bind", "insert")
          /\ \E i \in ReservedAt(req[r].peer) : port' = [port EXCEPT ![r] = reservations[i].port]
          /\ UNCHANGED ports
       \/ Step(r, "bind", "insert") /\ port' = [port EXCEPT ![r] = ports + 1] /\ ports' = ports + 1
       \/ Step(r, "bind", "refused") /\ UNCHANGED <<port, ports>>
    /\ UNCHANGED <<sessions, client_map, active, loopVars, closing>>

Insert(r) ==
    /\ Step(r, "insert", "index")
    /\ sessions' = sessions \cup {r}
    /\ UNCHANGED <<client_map, active, reservations, ports, port, loopVars, closing>>

Index(r) ==
    /\ Step(r, "index", "count")
    /\ client_map' = [client_map EXCEPT ![req[r].addr] = r]
    /\ UNCHANGED <<sessions, active, reservations, ports, port, loopVars, closing>>

\* record_session_created and the response.  A response that cannot be written
\* leaves the session without a forwarding loop.
Respond(r) ==
    /\ Step(r, "count", "accepted")
    /\ active' = active + 1
    /\ \/ loop' = [loop EXCEPT ![r] = "starting"]
       \/ req[r].cut /\ UNCHANGED loop
    /\ UNCHANGED <<sessions, client_map, reservations, ports, port, forwarding, cancelled, done, closing>>

\* --- run_stream_forwarding_loop ---------------------------------------------

LoopStep(s, from, to) == loop[s] = from /\ loop' = [loop EXCEPT ![s] = to]

Claim(s) ==
    /\ LoopStep(s, "starting", "claimed")
    /\ forwarding' = forwarding \cup {s}
    /\ UNCHANGED <<req, tableVars, cancelled, done, closing>>

\* The session's socket, or none when the session was removed meanwhile.
TakeSocket(s) ==
    /\ LoopStep(s, "claimed", IF s \in sessions THEN "running" ELSE "unstarted")
    /\ UNCHANGED <<req, tableVars, forwarding, cancelled, done, closing>>

\* The stream ends, or the loop sees that it was cancelled; its tasks are
\* drained before it goes on.
LoopEnds(s) ==
    /\ LoopStep(s, "running", "drained")
    /\ UNCHANGED <<req, tableVars, forwarding, cancelled, done, closing>>

\* Mutant: the loop leaves without releasing its waiter.
FinishSilently(s) == forwarding' = forwarding \ {s} /\ UNCHANGED done

\* finish_forwarding: the slot is given back and a waiter released.
FinishForwarding(s) == forwarding' = forwarding \ {s} /\ done' = [done EXCEPT ![s] = TRUE]

Finish(s) ==
    /\ \/ LoopStep(s, "drained", "finished")
       \/ LoopStep(s, "unstarted", "over")
    /\ FinishForwarding(s)
    /\ UNCHANGED <<req, tableVars, cancelled, closing>>

\* The natural end of a loop closes its session; a cancelled loop leaves that
\* to the task that cancelled it.
CloseAfterLoop(s) ==
    /\ LoopStep(s, "finished", "over")
    /\ IF cancelled[s] THEN UNCHANGED <<sessions, closing>> ELSE TakeSession(s)
    /\ UNCHANGED <<req, client_map, active, reservations, ports, port, forwarding, cancelled, done>>

\* --- close_session, after the session was removed ---------------------------

CloseStep(s, from, to) == closing[s] = from /\ closing' = [closing EXCEPT ![s] = to]

\* Mutant: the loop is cancelled and not awaited.
CancelUnawaited(s) ==
    /\ CloseStep(s, "removed", "quiet")
    /\ cancelled' = [cancelled EXCEPT ![s] = s \in forwarding]

\* A live loop is cancelled and awaited.
CancelLoop(s) ==
    /\ CloseStep(s, "removed", IF s \in forwarding THEN "waiting" ELSE "quiet")
    /\ cancelled' = [cancelled EXCEPT ![s] = s \in forwarding]

Cancel(s) ==
    /\ CancelLoop(s)
    /\ UNCHANGED <<req, tableVars, forwarding, loop, done>>

LoopExited(s) ==
    /\ done[s]
    /\ CloseStep(s, "waiting", "quiet")
    /\ done' = [done EXCEPT ![s] = FALSE]
    /\ UNCHANGED <<req, tableVars, forwarding, loop, cancelled>>

Unmapped(s) == [client_map EXCEPT ![req[s].addr] = 0]

Unmap(s) ==
    /\ CloseStep(s, "quiet", "unmapped")
    /\ client_map' = Unmapped(s)
    /\ UNCHANGED <<req, sessions, active, reservations, ports, port, loopVars>>

\* lease_reservation: the port replaces an earlier reservation of the peer, or
\* takes the place of the least recently released one when the cap is reached.
Leased(peer, p) ==
    LET evicts == Len(reservations) >= MaxReservations /\ ReservedAt(peer) = {} /\ reservations # <<>>
    IN Append(IF evicts THEN Tail(reservations) ELSE Unreserved(peer), [peer |-> peer, port |-> p])

Lease(s) ==
    /\ CloseStep(s, "unmapped", "leased")
    /\ reservations' = IF req[s].peer = NoPeer THEN reservations ELSE Leased(req[s].peer, port[s])
    /\ UNCHANGED <<req, sessions, client_map, active, ports, port, loopVars>>

Closed(s) ==
    /\ CloseStep(s, "leased", "done")
    /\ active' = active - 1
    /\ UNCHANGED <<req, sessions, client_map, reservations, ports, port, loopVars>>

\* cleanup_expired_reservations: the expired ones are the oldest.
ExpireReservations ==
    /\ reservations # <<>>
    /\ \E n \in 1 .. Len(reservations) : reservations' = SubSeq(reservations, n + 1, Len(reservations))
    /\ UNCHANGED <<req, sessions, client_map, active, ports, port, loopVars, closing>>

RequestStep(r) ==
    \/ Lock(r) \/ Handover(r) \/ Retire(r) \/ Retired(r) \/ Capacity(r) \/ Duplicate(r)
    \/ Bind(r) \/ Insert(r) \/ Index(r) \/ Respond(r)
ForwardStep(s) == Claim(s) \/ TakeSocket(s) \/ Finish(s) \/ CloseAfterLoop(s)
CloseTask(s) == Cancel(s) \/ LoopExited(s) \/ Unmap(s) \/ Lease(s) \/ Closed(s)

RelayNext ==
    \/ \E r \in Requests : Arrive(r) \/ RequestStep(r) \/ ForwardStep(r) \/ LoopEnds(r) \/ CloseTask(r)
    \/ ExpireReservations

\* Tasks that can go on do, and a loop that was cancelled sees it.
RelayFairness ==
    \A r \in Requests :
       /\ WF_relayVars(RequestStep(r)) /\ WF_relayVars(ForwardStep(r))
       /\ WF_relayVars(CloseTask(r)) /\ WF_relayVars(cancelled[r] /\ LoopEnds(r))

RelaySpec == RelayInit /\ [][RelayNext]_relayVars /\ RelayFairness

-----------------------------------------------------------------------------
(* Hazard: a port is handed from a closing session to its successor while   *)
(* tasks of the old session may still read from the socket.  A running      *)
(* forwarding loop is the only user of its port: no reservation and no      *)
(* other session has it ("the socket is exclusively owned by the time it    *)
(* can be leased").                                                         *)
PortExclusive ==
    \A s \in Requests : loop[s] = "running" =>
       /\ \A v \in ToSet(reservations) : v.port # port[s]
       /\ \A t \in Requests \ {s} : port[t] = port[s] => closing[t] \in {"leased", "done"}

(* Hazard: two CONNECTs of one identity overlap, with each other and with    *)
(* the close of an earlier session.  One identity never has two sessions.    *)
OneSessionPerPeer ==
    \A s, t \in sessions : PeerIs(s, req[t].peer) => s = t

(* Hazard: the index by client address is written after the session table    *)
(* and cleared before the close is over; an entry that outlives its session  *)
(* would refuse the address for ever.                                        *)
IndexedIsKnown ==
    \A a \in ClientAddrs : LET s == client_map[a] IN
       s # 0 => s \in sessions \/ closing[s] \in {"removed", "waiting", "quiet"}

(* Hazard: two closers of one session, and a close that races the end of its *)
(* loop.  When all tasks are at rest the counter that admits new sessions    *)
(* counts the sessions of the table.                                         *)
CountedWhenQuiet ==
    (InProgress = {} /\ \A s \in Requests : closing[s] \in {"no", "done"})
       => active = Cardinality(sessions)

(* The session table, its index by address and its counter agree, although    *)
(* each has a lock of its own (RelayServer's sessions, client_to_session,     *)
(* active_sessions).                                                         *)
SessionTablesAgree == OneSessionPerPeer /\ IndexedIsKnown /\ CountedWhenQuiet

(* Hazard: a handover waits under the identity's lock for a loop that ends   *)
(* by itself, at the same time.  Every request is answered.                  *)
RequestsAnswered ==
    \A r \in Requests : (req[r].pc = "lock") ~> (req[r].pc \in {"accepted", "refused"})
=============================================================================
