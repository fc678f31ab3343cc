----------------------------- MODULE RelayProofs -----------------------------
(***************************************************************************)
(* Proofs about the two sides of MASQUE relaying: the session table of the  *)
(* relay (MasqueRelay), for any number of CONNECT requests, identities and  *)
(* addresses, and the allocations of a client (RelayLifecycle), for any     *)
(* number of attempts and relays.                                           *)
(***************************************************************************)
EXTENDS MasqueRelay, RelayLifecycle, SequenceTheorems, FiniteSetTheorems, TLAPS

-----------------------------------------------------------------------------
(* The relay: the inductive invariant *)

RequestPcs ==
    {"absent", "unsent", "lock", "refused", "handover", "retire", "retiring", "capacity", "duplicate",
     "bind", "insert", "index", "count", "accepted"}
LoopPcs == {"none", "starting", "claimed", "running", "unstarted", "drained", "finished", "over"}
ClosePcs == {"no", "removed", "waiting", "quiet", "unmapped", "leased", "done"}

RelayPeers == {RequestsOf(plan)[r].peer : plan \in RelayPlans, r \in Requests}
Reservations == [peer : RelayPeers, port : Nat]

RelayType ==
    /\ DOMAIN req = Requests
    /\ \A r \in Requests : /\ DOMAIN req[r] = {"pc", "peer", "addr", "cut", "old"}
                           /\ req[r].pc \in RequestPcs /\ req[r].peer \in RelayPeers
    /\ port \in [Requests -> Nat] /\ ports \in Nat
    /\ sessions \subseteq Requests /\ forwarding \subseteq Requests
    /\ client_map \in [ClientAddrs -> Requests \cup {0}]
    /\ loop \in [Requests -> LoopPcs]
    /\ done \in [Requests -> BOOLEAN]
    /\ closing \in [Requests -> ClosePcs]
    /\ reservations \in Seq(Reservations)

\* The session of a request is in the table from its insertion until a close takes it.
TableInv ==
    \A r \in Requests :
      /\ r \in sessions <=> req[r].pc \in {"index", "count", "accepted"} /\ closing[r] = "no"
      /\ closing[r] # "no" => req[r].pc = "accepted"
      /\ req[r].pc \in {"retire", "retiring"} => req[r].old \in Requests
      /\ req[r].pc = "retire" => PeerIs(req[r].old, req[r].peer)

\* The stripe of an identity admits one request at a time, which has found no other live
\* session of the identity, or only the one it retires.
LockInv ==
    /\ \A q, r \in Requests : HoldsLock(q) /\ HoldsLock(r) /\ PeerIs(q, req[r].peer) => q = r
    /\ \A r \in Requests, s \in sessions :
         PeerIs(s, req[r].peer) =>
           /\ req[r].pc \notin {"retiring", "capacity", "duplicate", "bind", "insert"}
           /\ req[r].pc = "retire" => req[r].old = s

\* The index holds a session from after its insertion until its close unmaps it.
IndexInv ==
    \A a \in ClientAddrs : LET s == client_map[a] IN
      s # 0 => /\ req[s].addr = a /\ req[s].pc \in {"count", "accepted"}
               /\ closing[s] \notin {"unmapped", "leased", "done"}

\* The slot of a loop is claimed while the loop is at work, and a close that goes on has
\* waited for it.
LoopInv ==
    \A s \in Requests :
      /\ loop[s] # "none" => req[s].pc = "accepted"
      /\ s \in forwarding <=> loop[s] \in {"claimed", "running", "unstarted", "drained"}
      /\ loop[s] \in {"running", "drained"} => closing[s] \in {"no", "removed", "waiting"}
      /\ done[s] => loop[s] \in {"finished", "over"}

\* A request has its port from the bind until its close leases it.
Holds(r) == port[r] # 0 /\ closing[r] \notin {"leased", "done"}

\* A port is held by one request or reserved for one peer.
PortInv ==
    /\ \A r \in Requests : /\ port[r] # 0 <=> req[r].pc \in {"insert", "index", "count", "accepted"}
                           /\ port[r] <= ports
    /\ \A r, t \in Requests : Holds(r) /\ Holds(t) /\ port[r] = port[t] => r = t
    /\ \A i \in DOMAIN reservations :
         /\ reservations[i].port # 0 /\ reservations[i].port <= ports
         /\ \A r \in Requests : Holds(r) => port[r] # reservations[i].port

DistinctReservations(rs) ==
    \A i, j \in DOMAIN rs : i # j => rs[i].port # rs[j].port /\ rs[i].peer # rs[j].peer

\* active_sessions counts the responses whose session is not closed.
Counted == {r \in Requests : req[r].pc = "accepted" /\ closing[r] # "done"}
CountInv == active = Cardinality(Counted)

RelayInv ==
    /\ RelayType
    /\ TableInv
    /\ OneSessionPerPeer
    /\ LockInv
    /\ IndexInv
    /\ LoopInv
    /\ PortInv
    /\ DistinctReservations(reservations)
    /\ CountInv

-----------------------------------------------------------------------------
(* The relay: its requests *)

\* The program counter of r moves, and may note the session to retire.
Moved(r, to, old) ==
    /\ DOMAIN req' = Requests
    /\ \A q \in Requests : /\ DOMAIN req'[q] = {"pc", "peer", "addr", "cut", "old"}
                           /\ req'[q].peer = req[q].peer /\ req'[q].addr = req[q].addr
                           /\ q # r => req'[q] = req[q]
    /\ req'[r].pc = to /\ req'[r].old = old

\* Step moves one request.
LEMMA StepMoves ==
    ASSUME RelayType, NEW r \in Requests, NEW from, NEW to, Step(r, from, to)
    PROVE  Moved(r, to, req[r].old) /\ req[r].pc = from
<1>1. req' = [req EXCEPT ![r] = [req[r] EXCEPT !.pc = to]] /\ req[r].pc = from
    BY DEF Step
<1>2. DOMAIN req = Requests /\ \A q \in Requests : DOMAIN req[q] = {"pc", "peer", "addr", "cut", "old"}
    BY DEF RelayType
<1> DEFINE moved == [req[r] EXCEPT !.pc = to]
<1>3. /\ DOMAIN moved = {"pc", "peer", "addr", "cut", "old"}
      /\ moved.pc = to /\ moved.peer = req[r].peer /\ moved.addr = req[r].addr /\ moved.old = req[r].old
    BY <1>2
<1> HIDE DEF moved
<1>4. DOMAIN req' = Requests /\ req'[r] = moved /\ \A q \in Requests : q # r => req'[q] = req[q]
    BY <1>1, <1>2 DEF moved
<1> QED
    BY <1>1, <1>2, <1>3, <1>4 DEF Moved

\* The parts of the invariant that speak of the loops and the tables only.
LEMMA Unmoved ==
    ASSUME RelayInv, UNCHANGED <<tableVars, loopVars, closing>>,
           DOMAIN req' = Requests,
           \A q \in Requests : /\ DOMAIN req'[q] = {"pc", "peer", "addr", "cut", "old"}
                               /\ req'[q].pc \in RequestPcs /\ req'[q].peer = req[q].peer /\ req'[q].addr = req[q].addr,
           \A q \in Requests, pc \in {"insert", "index", "count", "accepted"} : req'[q].pc = pc <=> req[q].pc = pc
    PROVE  /\ RelayType' /\ OneSessionPerPeer' /\ IndexInv' /\ LoopInv' /\ PortInv'
           /\ DistinctReservations(reservations)' /\ CountInv'
<1>1. /\ RelayType /\ OneSessionPerPeer /\ IndexInv /\ LoopInv /\ PortInv
      /\ DistinctReservations(reservations) /\ CountInv /\ TableInv
    BY DEF RelayInv
<1>2. UNCHANGED <<port, ports, sessions, client_map, active, reservations, forwarding, loop, cancelled, done, closing>>
    BY DEF tableVars, loopVars
<1>3. RelayType'
    BY <1>1, <1>2 DEF RelayType
<1>4. OneSessionPerPeer'
    BY <1>1, <1>2 DEF OneSessionPerPeer, PeerIs, RelayType
<1>5. IndexInv'
    <2>1. \A a \in ClientAddrs : client_map[a] # 0 => client_map[a] \in Requests
        BY <1>1 DEF RelayType
    <2> QED
        BY <1>1, <1>2, <2>1 DEF IndexInv
<1>6. LoopInv'
    BY <1>1, <1>2 DEF LoopInv
<1>7. PortInv'
    BY <1>1, <1>2 DEF PortInv, Holds
<1>8. DistinctReservations(reservations)'
    BY <1>1, <1>2 DEF DistinctReservations
<1>9. CountInv'
    <2>1. Counted' = Counted
        BY <1>2 DEF Counted
    <2> QED
        BY <1>1, <1>2, <2>1 DEF CountInv
<1> QED
    BY <1>3, <1>4, <1>5, <1>6, <1>7, <1>8, <1>9

\* A request goes on before it has a port: under the stripe of its identity it has seen
\* no other session of it.
LEMMA WaitStep ==
    ASSUME RelayInv, NEW r \in Requests, NEW to \in RequestPcs, Moved(r, to, req[r].old),
           UNCHANGED <<tableVars, loopVars, closing>>,
           req[r].pc \notin {"insert", "index", "count", "accepted"},
           to \notin {"insert", "index", "count", "accepted", "retire", "retiring"},
           to \in {"handover", "capacity", "duplicate", "bind"} =>
             HoldsLock(r) \/ \A q \in Requests \ {r} : PeerIs(q, req[r].peer) => ~HoldsLock(q),
           to \in {"capacity", "duplicate", "bind"} => LiveSessions(r) = {}
    PROVE  RelayInv'
<1>1. RelayType /\ TableInv /\ LockInv
    BY DEF RelayInv
<1>2. sessions' = sessions /\ closing' = closing
    BY DEF tableVars
<1>3. /\ RelayType' /\ OneSessionPerPeer' /\ IndexInv' /\ LoopInv' /\ PortInv'
      /\ DistinctReservations(reservations)' /\ CountInv'
    BY <1>1, Unmoved DEF Moved, RelayType
<1>4. TableInv'
    BY <1>1, <1>2 DEF TableInv, Moved, PeerIs
<1>5. LockInv'
    <2>1. ASSUME NEW q \in Requests, NEW p \in Requests, HoldsLock(q)', HoldsLock(p)', PeerIs(q, req[p].peer)'
          PROVE  q = p
        <3>1. q # r => HoldsLock(q)
            BY <2>1 DEF Moved, HoldsLock
        <3>2. p # r => HoldsLock(p)
            BY <2>1 DEF Moved, HoldsLock
        <3>3. PeerIs(q, req[p].peer) /\ PeerIs(p, req[q].peer)
            BY <2>1 DEF Moved, PeerIs
        <3>4. HoldsLock(r)' => to \in {"handover", "capacity", "duplicate", "bind"}
            BY DEF Moved, HoldsLock
        <3> QED
            BY <1>1, <2>1, <3>1, <3>2, <3>3, <3>4 DEF LockInv
    <2>2. ASSUME NEW q \in Requests, NEW s \in sessions, PeerIs(s, req[q].peer)'
          PROVE  /\ req'[q].pc \notin {"retiring", "capacity", "duplicate", "bind", "insert"}
                 /\ req'[q].pc = "retire" => req'[q].old = s
        <3>1. s \in Requests /\ PeerIs(s, req[q].peer)
            BY <1>1, <2>2 DEF Moved, PeerIs, RelayType
        <3>2. CASE q = r
            BY <3>1, <3>2 DEF Moved, LiveSessions
        <3>3. CASE q # r
            BY <1>1, <3>1, <3>3 DEF Moved, LockInv
        <3> QED
            BY <3>2, <3>3
    <2> QED
        BY <1>2, <2>1, <2>2 DEF LockInv
<1> QED
    BY <1>3, <1>4, <1>5 DEF RelayInv

\* handle_connect_request, up to the bind, but for the retirement of a session.
LEMMA EarlySteps ==
    ASSUME RelayInv, NEW r \in Requests,
           Arrive(r) \/ Lock(r) \/ (Handover(r) /\ LiveSessions(r) = {}) \/ Retired(r) \/ Capacity(r) \/ Duplicate(r)
    PROVE  RelayInv'
<1>1. RelayType /\ TableInv /\ LockInv
    BY DEF RelayInv
<1>2. \A s \in sessions : s \in Requests
    BY <1>1 DEF RelayType
<1>3. req[r].pc \in {"retiring", "capacity", "duplicate", "bind"} => LiveSessions(r) = {} /\ HoldsLock(r)
    BY <1>1 DEF LockInv, LiveSessions, HoldsLock
<1>4. CASE Arrive(r)
    <2>1. PICK to \in {"lock", "refused"} : Step(r, "unsent", to)
        BY <1>4 DEF Arrive, Step
    <2>2. Moved(r, to, req[r].old) /\ req[r].pc = "unsent"
        BY <1>1, <2>1, StepMoves
    <2>3. UNCHANGED <<tableVars, loopVars, closing>> /\ to \in RequestPcs
        BY <1>4 DEF Arrive, RequestPcs
    <2> QED
        BY <2>2, <2>3, WaitStep
<1>5. CASE Lock(r)
    <2>1. Moved(r, "handover", req[r].old) /\ req[r].pc = "lock"
        BY <1>1, <1>5, StepMoves DEF Lock
    <2>2. UNCHANGED <<tableVars, loopVars, closing>> /\ "handover" \in RequestPcs
        BY <1>5 DEF Lock, RequestPcs
    <2>3. \A q \in Requests \ {r} : PeerIs(q, req[r].peer) => ~HoldsLock(q)
        BY <1>5 DEF Lock
    <2> QED
        BY <2>1, <2>2, <2>3, WaitStep
<1>6. CASE Handover(r) /\ LiveSessions(r) = {}
    <2>1. Step(r, "handover", "capacity")
        BY <1>6 DEF Handover, Step
    <2>2. Moved(r, "capacity", req[r].old) /\ req[r].pc = "handover"
        BY <1>1, <2>1, StepMoves
    <2>3. UNCHANGED <<tableVars, loopVars, closing>> /\ "capacity" \in RequestPcs /\ HoldsLock(r)
        BY <1>6, <2>2 DEF Handover, RequestPcs, HoldsLock
    <2> QED
        BY <1>6, <2>2, <2>3, WaitStep
<1>7. CASE Retired(r)
    <2>1. Moved(r, "capacity", req[r].old) /\ req[r].pc = "retiring"
        BY <1>1, <1>7, StepMoves DEF Retired
    <2>2. UNCHANGED <<tableVars, loopVars, closing>> /\ "capacity" \in RequestPcs
        BY <1>7 DEF Retired, RequestPcs
    <2> QED
        BY <1>3, <2>1, <2>2, WaitStep
<1>8. CASE Capacity(r)
    <2>1. PICK to \in {"refused", "duplicate"} : Step(r, "capacity", to)
        BY <1>8 DEF Capacity
    <2>2. Moved(r, to, req[r].old) /\ req[r].pc = "capacity"
        BY <1>1, <2>1, StepMoves
    <2>3. UNCHANGED <<tableVars, loopVars, closing>> /\ to \in RequestPcs
        BY <1>8 DEF Capacity, RequestPcs
    <2> QED
        BY <1>3, <2>2, <2>3, WaitStep
<1>9. CASE Duplicate(r)
    <2>1. PICK to \in {"refused", "bind"} : Step(r, "duplicate", to)
        BY <1>9 DEF Duplicate
    <2>2. Moved(r, to, req[r].old) /\ req[r].pc = "duplicate"
        BY <1>1, <2>1, StepMoves
    <2>3. UNCHANGED <<tableVars, loopVars, closing>> /\ to \in RequestPcs
        BY <1>9 DEF Duplicate, RequestPcs
    <2> QED
        BY <1>3, <2>2, <2>3, WaitStep
<1> QED
    BY <1>4, <1>5, <1>6, <1>7, <1>8, <1>9

\* The handover finds the one live session of the identity.
LEMMA HandoverStep ==
    ASSUME RelayInv, NEW r \in Requests, NEW s \in LiveSessions(r), req[r].pc = "handover",
           req' = [req EXCEPT ![r].pc = "retire", ![r].old = s], UNCHANGED <<tableVars, loopVars, closing>>
    PROVE  RelayInv'
<1>1. RelayType /\ TableInv /\ LockInv /\ OneSessionPerPeer
    BY DEF RelayInv
<1>2. s \in sessions /\ s \in Requests /\ PeerIs(s, req[r].peer) /\ sessions' = sessions /\ closing' = closing
    BY <1>1 DEF LiveSessions, tableVars, RelayType
<1>3. Moved(r, "retire", s)
    <2>1. DOMAIN req = Requests /\ \A q \in Requests : DOMAIN req[q] = {"pc", "peer", "addr", "cut", "old"}
        BY <1>1 DEF RelayType
    <2> DEFINE moved == [req[r] EXCEPT !.pc = "retire", !.old = s]
    <2>2. /\ DOMAIN moved = {"pc", "peer", "addr", "cut", "old"}
          /\ moved.pc = "retire" /\ moved.peer = req[r].peer /\ moved.addr = req[r].addr /\ moved.old = s
        BY <2>1
    <2>3. req' = [req EXCEPT ![r] = moved]
        OBVIOUS
    <2> HIDE DEF moved
    <2>4. DOMAIN req' = Requests /\ req'[r] = moved /\ \A q \in Requests : q # r => req'[q] = req[q]
        BY <2>1, <2>3
    <2> QED
        BY <2>1, <2>2, <2>4 DEF Moved
<1>4. /\ RelayType' /\ OneSessionPerPeer' /\ IndexInv' /\ LoopInv' /\ PortInv'
      /\ DistinctReservations(reservations)' /\ CountInv'
    <2>1. \A q \in Requests : req'[q].pc \in RequestPcs
        BY <1>1, <1>3 DEF Moved, RelayType, RequestPcs
    <2> QED
        BY <1>3, <2>1, Unmoved DEF Moved
<1>5. TableInv'
    BY <1>1, <1>2, <1>3 DEF TableInv, Moved, PeerIs
<1>6. LockInv'
    <2>1. ASSUME NEW q \in Requests, NEW p \in Requests, HoldsLock(q)', HoldsLock(p)', PeerIs(q, req[p].peer)'
          PROVE  q = p
        <3>1. HoldsLock(q) /\ HoldsLock(p)
            BY <1>3, <2>1 DEF Moved, HoldsLock
        <3>2. PeerIs(q, req[p].peer)
            BY <1>3, <2>1 DEF Moved, PeerIs
        <3> QED
            BY <1>1, <3>1, <3>2 DEF LockInv
    <2>2. ASSUME NEW q \in Requests, NEW t \in sessions, PeerIs(t, req[q].peer)'
          PROVE  /\ req'[q].pc \notin {"retiring", "capacity", "duplicate", "bind", "insert"}
                 /\ req'[q].pc = "retire" => req'[q].old = t
        <3>1. t \in Requests /\ PeerIs(t, req[q].peer)
            BY <1>1, <1>3, <2>2 DEF Moved, PeerIs, RelayType
        <3>2. CASE q = r
            BY <1>1, <1>2, <1>3, <3>1, <3>2 DEF Moved, OneSessionPerPeer, PeerIs
        <3>3. CASE q # r
            BY <1>1, <1>3, <3>1, <3>3 DEF Moved, LockInv
        <3> QED
            BY <3>2, <3>3
    <2> QED
        BY <1>2, <2>1, <2>2 DEF LockInv
<1> QED
    BY <1>4, <1>5, <1>6 DEF RelayInv

\* The handover retires the session it found, unless another close has taken it.
LEMMA RetireStep ==
    ASSUME RelayInv, NEW r \in Requests, Retire(r)
    PROVE  RelayInv'
<1>1. /\ RelayType /\ TableInv /\ LockInv /\ OneSessionPerPeer /\ IndexInv /\ LoopInv /\ PortInv
      /\ DistinctReservations(reservations) /\ CountInv
    BY DEF RelayInv
<1> DEFINE old == req[r].old
<1>2. req[r].pc = "retire" /\ old \in Requests /\ PeerIs(old, req[r].peer)
    BY <1>1 DEF Retire, Step, TableInv
<1>3. UNCHANGED <<client_map, active, reservations, ports, port, loopVars>>
    BY DEF Retire
<1>4. CASE old \notin sessions
    <2>1. Moved(r, "capacity", req[r].old)
        BY <1>1, <1>4, StepMoves DEF Retire
    <2>2. UNCHANGED <<tableVars, loopVars, closing>> /\ "capacity" \in RequestPcs
        BY <1>3, <1>4 DEF Retire, TakeSession, RequestPcs, tableVars
    <2>3. HoldsLock(r) /\ LiveSessions(r) = {}
        BY <1>1, <1>2, <1>4 DEF HoldsLock, LiveSessions, LockInv
    <2> QED
        BY <1>2, <2>1, <2>2, <2>3, WaitStep
<1>5. CASE old \in sessions
    <2>1. Moved(r, "retiring", old) /\ r # old
        BY <1>1, <1>2, <1>5, StepMoves DEF Retire, TableInv
    <2>2. sessions' = sessions \ {old} /\ closing' = [closing EXCEPT ![old] = "removed"]
        BY <1>5 DEF Retire, TakeSession
    <2>3. req[old].pc = "accepted" /\ closing[old] = "no"
        <3>1. req[old].pc \in {"index", "count", "accepted"} /\ closing[old] = "no"
            BY <1>1, <1>2, <1>5 DEF TableInv
        <3>2. HoldsLock(r) /\ (req[old].pc \in {"index", "count"} => HoldsLock(old))
            BY <1>2 DEF HoldsLock
        <3> QED
            BY <1>1, <1>2, <2>1, <3>1, <3>2 DEF LockInv
    <2>4. /\ closing' \in [Requests -> ClosePcs] /\ closing'[old] = "removed"
          /\ \A q \in Requests : q # old => closing'[q] = closing[q]
        BY <1>1, <1>2, <2>2 DEF RelayType, ClosePcs
    <2>5. UNCHANGED <<port, ports, client_map, active, reservations, forwarding, loop, cancelled, done>>
        BY <1>3 DEF loopVars
    <2>6. RelayType'
        <3>1. \A q \in Requests : /\ DOMAIN req'[q] = {"pc", "peer", "addr", "cut", "old"}
                                 /\ req'[q].pc \in RequestPcs /\ req'[q].peer \in RelayPeers
            BY <1>1, <2>1 DEF Moved, RelayType, RequestPcs
        <3>2. DOMAIN req' = Requests /\ sessions' \subseteq Requests
            BY <1>1, <2>1, <2>2 DEF Moved, RelayType
        <3> QED
            BY <1>1, <2>4, <2>5, <3>1, <3>2 DEF RelayType
    <2>7. TableInv'
        <3>1. ASSUME NEW q \in Requests
              PROVE  q \in sessions' <=> req'[q].pc \in {"index", "count", "accepted"} /\ closing'[q] = "no"
            BY <1>1, <1>2, <2>1, <2>2, <2>3, <2>4 DEF TableInv, Moved
        <3>2. ASSUME NEW q \in Requests
              PROVE  closing'[q] # "no" => req'[q].pc = "accepted"
            BY <1>1, <1>2, <2>1, <2>3, <2>4 DEF TableInv, Moved
        <3>3. ASSUME NEW q \in Requests
              PROVE  /\ req'[q].pc \in {"retire", "retiring"} => req'[q].old \in Requests
                     /\ req'[q].pc = "retire" => PeerIs(req[q].old, req[q].peer)'
            BY <1>1, <1>2, <2>1 DEF TableInv, Moved, PeerIs
        <3> QED
            BY <3>1, <3>2, <3>3 DEF TableInv
    <2>8. OneSessionPerPeer'
        BY <1>1, <2>1, <2>2 DEF OneSessionPerPeer, PeerIs, Moved, RelayType
    <2>9. LockInv'
        <3>1. ASSUME NEW q \in Requests, NEW p \in Requests, HoldsLock(q)', HoldsLock(p)', PeerIs(q, req[p].peer)'
              PROVE  q = p
            <4>1. HoldsLock(q) /\ HoldsLock(p)
                BY <1>2, <2>1, <3>1 DEF Moved, HoldsLock
            <4>2. PeerIs(q, req[p].peer)
                BY <2>1, <3>1 DEF Moved, PeerIs
            <4> QED
                BY <1>1, <4>1, <4>2 DEF LockInv
        <3>2. ASSUME NEW q \in Requests, NEW t \in sessions', PeerIs(t, req[q].peer)'
              PROVE  /\ req'[q].pc \notin {"retiring", "capacity", "duplicate", "bind", "insert"}
                     /\ req'[q].pc = "retire" => req'[q].old = t
            <4>1. t \in Requests /\ PeerIs(t, req[q].peer) /\ t \in sessions /\ t # old
                BY <1>1, <2>1, <2>2, <3>2 DEF Moved, PeerIs, RelayType
            <4>2. CASE q = r
                BY <1>1, <1>2, <4>1, <4>2 DEF LockInv
            <4>3. CASE q # r
                BY <1>1, <2>1, <4>1, <4>3 DEF Moved, LockInv
            <4> QED
                BY <4>2, <4>3
        <3> QED
            BY <3>1, <3>2 DEF LockInv
    <2>10. IndexInv'
        <3>1. \A a \in ClientAddrs : client_map[a] # 0 => client_map[a] \in Requests /\ client_map[a] # r
            BY <1>1, <1>2 DEF RelayType, IndexInv
        <3> QED
            BY <1>1, <2>1, <2>4, <2>5, <3>1 DEF IndexInv, Moved
    <2>11. LoopInv'
        BY <1>1, <1>2, <2>1, <2>4, <2>5 DEF LoopInv, Moved
    <2>12. PortInv'
        <3>1. \A q \in Requests : Holds(q)' <=> Holds(q)
            BY <2>3, <2>4, <2>5 DEF Holds
        <3> QED
            BY <1>1, <1>2, <2>1, <2>5, <3>1 DEF PortInv, Moved
    <2>13. DistinctReservations(reservations)' /\ CountInv'
        <3>1. Counted' = Counted
            BY <1>2, <2>1, <2>3, <2>4 DEF Counted, Moved
        <3> QED
            BY <1>1, <2>5, <3>1 DEF DistinctReservations, CountInv
    <2> QED
        BY <2>6, <2>7, <2>8, <2>9, <2>10, <2>11, <2>12, <2>13 DEF RelayInv
<1> QED
    BY <1>4, <1>5

-----------------------------------------------------------------------------
(* The relay: its reservations *)

\* Reservations that were made before, fewer perhaps.
Kept(rs) ==
    /\ rs \in Seq(Reservations)
    /\ DistinctReservations(rs)
    /\ \A i \in DOMAIN rs : \E j \in DOMAIN reservations : rs[i] = reservations[j]

\* The oldest reservations are dropped.
LEMMA DroppedKept ==
    ASSUME reservations \in Seq(Reservations), DistinctReservations(reservations),
           NEW n \in 1 .. Len(reservations)
    PROVE  Kept(SubSeq(reservations, n + 1, Len(reservations)))
<1> DEFINE len == Len(reservations)
           rs == SubSeq(reservations, n + 1, len)
<1>1. len \in Nat /\ DOMAIN reservations = 1 .. len /\ \A i \in 1 .. len : reservations[i] \in Reservations
    BY LenProperties, ElementOfSeq
<1>2. n + 1 \in Int /\ len \in Int /\ \A i \in n + 1 .. len : reservations[i] \in Reservations
    BY <1>1
<1>3. /\ rs \in Seq(Reservations) /\ Len(rs) = (IF n + 1 <= len THEN len - (n + 1) + 1 ELSE 0)
      /\ \A i \in 1 .. len - (n + 1) + 1 : rs[i] = reservations[(n + 1) + i - 1]
    BY <1>2, SubSeqProperties
<1> HIDE DEF len, rs
<1>4. DOMAIN rs = 1 .. Len(rs) /\ Len(rs) = len - n
    BY <1>1, <1>3, LenProperties
<1>5. ASSUME NEW i \in DOMAIN rs
      PROVE  i + n \in DOMAIN reservations /\ rs[i] = reservations[i + n]
    <2>1. i \in 1 .. len - (n + 1) + 1 /\ (n + 1) + i - 1 = i + n
        BY <1>1, <1>4
    <2> QED
        BY <1>1, <1>3, <1>4, <2>1
<1>6. DistinctReservations(rs)
    <2>1. ASSUME NEW i \in DOMAIN rs, NEW j \in DOMAIN rs, i # j
          PROVE  rs[i].port # rs[j].port /\ rs[i].peer # rs[j].peer
        <3>1. i + n # j + n
            BY <1>1, <1>4, <2>1
        <3> QED
            BY <1>5, <3>1 DEF DistinctReservations
    <2> QED
        BY <2>1 DEF DistinctReservations
<1> QED
    BY <1>3, <1>5, <1>6 DEF Kept, rs, len

\* The reservation of a peer is taken out.
LEMMA UnreservedKept ==
    ASSUME reservations \in Seq(Reservations), DistinctReservations(reservations), NEW peer
    PROVE  Kept(Unreserved(peer)) /\ \A i \in DOMAIN Unreserved(peer) : Unreserved(peer)[i].peer # peer
<1>1. CASE ReservedAt(peer) = {}
    BY <1>1 DEF Unreserved, ReservedAt, Kept
<1>2. CASE ReservedAt(peer) # {}
    <2> DEFINE k == CHOOSE i \in ReservedAt(peer) : TRUE
               len == Len(reservations)
               left == SubSeq(reservations, 1, k - 1)
               right == SubSeq(reservations, k + 1, len)
               rs == left \o right
    <2>1. k \in DOMAIN reservations /\ reservations[k].peer = peer
        BY <1>2 DEF ReservedAt
    <2>2. Unreserved(peer) = rs
        BY <1>2 DEF Unreserved, RemoveAt
    <2>3. len \in Nat /\ DOMAIN reservations = 1 .. len /\ \A i \in 1 .. len : reservations[i] \in Reservations
        BY LenProperties, ElementOfSeq
    <2> HIDE DEF k, len
    <2>4. /\ left \in Seq(Reservations) /\ Len(left) = k - 1
          /\ \A i \in 1 .. k - 1 : left[i] = reservations[i]
        <3>1. 1 \in Int /\ k - 1 \in Int /\ \A i \in 1 .. k - 1 : reservations[i] \in Reservations
            BY <2>1, <2>3
        <3>2. /\ left \in Seq(Reservations) /\ Len(left) = (IF 1 <= k - 1 THEN (k - 1) - 1 + 1 ELSE 0)
              /\ \A i \in 1 .. (k - 1) - 1 + 1 : left[i] = reservations[1 + i - 1]
            BY <3>1, SubSeqProperties
        <3> HIDE DEF left
        <3>3. \A i \in 1 .. k - 1 : i \in 1 .. (k - 1) - 1 + 1 /\ 1 + i - 1 = i
            BY <2>1, <2>3
        <3>4. \A i \in 1 .. k - 1 : left[i] = reservations[i]
            BY <3>2, <3>3
        <3> QED
            BY <2>1, <2>3, <3>2, <3>4
    <2>5. /\ right \in Seq(Reservations) /\ Len(right) = len - k
          /\ \A i \in 1 .. len - k : right[i] = reservations[k + i]
        <3>1. k + 1 \in Int /\ len \in Int /\ \A i \in k + 1 .. len : reservations[i] \in Reservations
            BY <2>1, <2>3
        <3>2. /\ right \in Seq(Reservations) /\ Len(right) = (IF k + 1 <= len THEN len - (k + 1) + 1 ELSE 0)
              /\ \A i \in 1 .. len - (k + 1) + 1 : right[i] = reservations[(k + 1) + i - 1]
            BY <3>1, SubSeqProperties
        <3> HIDE DEF right
        <3>3. \A i \in 1 .. len - k : i \in 1 .. len - (k + 1) + 1 /\ (k + 1) + i - 1 = k + i
            BY <2>1, <2>3
        <3>4. \A i \in 1 .. len - k : right[i] = reservations[k + i]
            BY <3>2, <3>3
        <3> QED
            BY <2>1, <2>3, <3>2, <3>4
    <2> HIDE DEF left, right
    <2>6. rs \in Seq(Reservations) /\ Len(rs) = len - 1 /\ DOMAIN rs = 1 .. len - 1
        <3>1. rs \in Seq(Reservations) /\ Len(rs) = Len(left) + Len(right)
            BY <2>4, <2>5, ConcatProperties
        <3>2. DOMAIN rs = 1 .. Len(rs)
            BY <3>1, LenProperties
        <3> QED
            BY <2>1, <2>3, <2>4, <2>5, <3>1, <3>2
    <2> DEFINE from(i) == IF i < k THEN i ELSE i + 1
    <2>7. ASSUME NEW i \in DOMAIN rs
          PROVE  from(i) \in DOMAIN reservations /\ from(i) # k /\ rs[i] = reservations[from(i)]
        <3>1. CASE i < k
            <4>1. i \in 1 .. Len(left)
                BY <2>1, <2>3, <2>4, <2>6, <3>1
            <4>2. rs[i] = left[i]
                BY <2>4, <2>5, <4>1
            <4> QED
                BY <2>1, <2>3, <2>4, <2>6, <3>1, <4>1, <4>2
        <3>2. CASE ~(i < k)
            <4>1. i \in Len(left) + 1 .. Len(left) + Len(right)
                BY <2>1, <2>3, <2>4, <2>5, <2>6, <3>2
            <4>2. rs[i] = right[i - Len(left)]
                BY <2>4, <2>5, <4>1
            <4>3. i - Len(left) \in 1 .. len - k /\ k + (i - Len(left)) = i + 1
                BY <2>1, <2>3, <2>4, <2>5, <4>1, SMTT(30)
            <4>4. right[i - Len(left)] = reservations[i + 1]
                BY <2>5, <4>3
            <4>5. i + 1 \in 1 .. len /\ i + 1 # k
                BY <2>1, <2>3, <2>6, <3>2
            <4> QED
                BY <2>3, <3>2, <4>2, <4>4, <4>5
        <3> QED
            BY <3>1, <3>2
    <2>8. ASSUME NEW i \in DOMAIN rs, NEW j \in DOMAIN rs, i # j
          PROVE  from(i) # from(j)
        BY <2>1, <2>3, <2>6, <2>8
    <2> HIDE DEF from, rs
    <2>9. DistinctReservations(rs)
        BY <2>7, <2>8 DEF DistinctReservations
    <2>10. \A i \in DOMAIN rs : rs[i].peer # peer
        BY <2>1, <2>7 DEF DistinctReservations
    <2>11. Kept(rs)
        BY <2>6, <2>7, <2>9 DEF Kept
    <2> QED
        BY <2>2, <2>10, <2>11
<1> QED
    BY <1>1, <1>2

-----------------------------------------------------------------------------
(* The relay: a request from its port to its response *)

\* A request has its port, reclaimed or fresh, or gives up.
LEMMA BindStep ==
    ASSUME RelayInv, NEW r \in Requests, Bind(r)
    PROVE  RelayInv'
<1>1. /\ RelayType /\ TableInv /\ LockInv /\ OneSessionPerPeer /\ IndexInv /\ LoopInv /\ PortInv
      /\ DistinctReservations(reservations) /\ CountInv
    BY DEF RelayInv
<1>2. PICK to \in {"insert", "refused"} : Step(r, "bind", to) /\ (to = "refused" => UNCHANGED <<port, ports>>)
    BY DEF Bind
<1>3. Moved(r, to, req[r].old) /\ req[r].pc = "bind" /\ to \in RequestPcs
    BY <1>1, <1>2, StepMoves DEF RequestPcs
<1>4. UNCHANGED <<sessions, client_map, active, forwarding, loop, cancelled, done, closing>>
    BY DEF Bind, loopVars
<1>5. Kept(reservations') /\ \A i \in DOMAIN reservations' : reservations'[i].peer # req[r].peer
    <2>1. reservations' = Unreserved(req[r].peer)
        BY DEF Bind
    <2>2. /\ Kept(Unreserved(req[r].peer))
          /\ \A i \in DOMAIN Unreserved(req[r].peer) : Unreserved(req[r].peer)[i].peer # req[r].peer
        BY <1>1, UnreservedKept DEF RelayType
    <2> QED
        BY <2>1, <2>2
<1>6. to = "insert" =>
        \/ /\ \E i \in DOMAIN reservations :
                reservations[i].peer = req[r].peer /\ port' = [port EXCEPT ![r] = reservations[i].port]
           /\ ports' = ports
        \/ port' = [port EXCEPT ![r] = ports + 1] /\ ports' = ports + 1
    <2>1. to = "insert" => req'[r].pc # "refused"
        BY <1>3 DEF Moved
    <2>2. Step(r, "bind", "refused") => req'[r].pc = "refused"
        BY <1>1, StepMoves DEF Moved
    <2> QED
        BY <2>1, <2>2 DEF Bind, ReservedAt
<1>7. port[r] = 0 /\ closing[r] = "no" /\ port \in [Requests -> Nat] /\ ports \in Nat
    BY <1>1, <1>3 DEF PortInv, TableInv, RelayType
<1>8. ASSUME NEW i \in DOMAIN reservations'
      PROVE  \E j \in DOMAIN reservations : reservations'[i] = reservations[j] /\ reservations[j].peer # req[r].peer
    BY <1>5 DEF Kept
<1>9. \A j \in DOMAIN reservations : reservations[j].port \in Nat /\ reservations[j].port # 0 /\ reservations[j].port <= ports
    <2>1. \A j \in DOMAIN reservations : reservations[j] \in Reservations
        BY <1>1 DEF RelayType
    <2>2. \A j \in DOMAIN reservations : reservations[j].port \in Nat
        BY <2>1 DEF Reservations
    <2> QED
        BY <1>1, <2>2 DEF PortInv
<1>10. /\ port' \in [Requests -> Nat] /\ ports' \in Nat /\ ports <= ports'
       /\ \A q \in Requests : q # r => port'[q] = port[q]
       /\ (port'[r] # 0 <=> to = "insert") /\ port'[r] <= ports'
       /\ \A q \in Requests : Holds(q) => port'[r] # port[q]
       /\ \A i \in DOMAIN reservations' : reservations'[i].port # port'[r]
    <2>1. CASE to = "refused"
        <3>1. UNCHANGED <<port, ports>> /\ to # "insert"
            BY <1>2, <2>1
        <3>2. port'[r] = 0 /\ ports <= ports'
            BY <1>7, <3>1
        <3> QED
            BY <1>7, <1>8, <1>9, <3>1, <3>2 DEF Holds
    <2>2. CASE to = "insert" /\ ports' = ports + 1 /\ port' = [port EXCEPT ![r] = ports + 1]
        <3>1. port'[r] = ports + 1 /\ port' \in [Requests -> Nat] /\ \A q \in Requests : q # r => port'[q] = port[q]
            BY <1>7, <2>2
        <3>2. \A q \in Requests : port[q] \in Nat /\ port[q] <= ports
            BY <1>1 DEF PortInv, RelayType
        <3>3. \A i \in DOMAIN reservations' : reservations'[i].port \in Nat /\ reservations'[i].port <= ports
            BY <1>8, <1>9
        <3> QED
            BY <1>7, <2>2, <3>1, <3>2, <3>3
    <2>3. CASE to = "insert" /\ ports' = ports /\ \E k \in DOMAIN reservations :
                 reservations[k].peer = req[r].peer /\ port' = [port EXCEPT ![r] = reservations[k].port]
        <3>1. PICK k \in DOMAIN reservations :
                 reservations[k].peer = req[r].peer /\ port' = [port EXCEPT ![r] = reservations[k].port]
            BY <2>3
        <3>2. /\ port'[r] = reservations[k].port /\ port' \in [Requests -> Nat]
              /\ \A q \in Requests : q # r => port'[q] = port[q]
            BY <1>7, <1>9, <3>1
        <3>3. \A q \in Requests : Holds(q) => port'[r] # port[q]
            BY <1>1, <3>2 DEF PortInv
        <3>4. \A i \in DOMAIN reservations' : reservations'[i].port # port'[r]
            BY <1>1, <1>8, <3>1, <3>2 DEF DistinctReservations
        <3> QED
            BY <1>7, <1>9, <2>3, <3>2, <3>3, <3>4
    <2> QED
        BY <1>6, <2>1, <2>2, <2>3
<1>11. RelayType'
    <2>1. \A q \in Requests : /\ DOMAIN req'[q] = {"pc", "peer", "addr", "cut", "old"}
                             /\ req'[q].pc \in RequestPcs /\ req'[q].peer \in RelayPeers
        BY <1>1, <1>3 DEF Moved, RelayType
    <2>2. DOMAIN req' = Requests
        BY <1>3 DEF Moved
    <2> QED
        BY <1>1, <1>4, <1>5, <1>10, <2>1, <2>2 DEF RelayType, Kept
<1>12. TableInv'
    BY <1>1, <1>3, <1>4 DEF TableInv, Moved, PeerIs
<1>13. OneSessionPerPeer'
    BY <1>1, <1>3, <1>4 DEF OneSessionPerPeer, PeerIs, Moved, RelayType
<1>14. LockInv'
    <2>1. ASSUME NEW q \in Requests, NEW p \in Requests, HoldsLock(q)', HoldsLock(p)', PeerIs(q, req[p].peer)'
          PROVE  q = p
        <3>1. HoldsLock(q) /\ HoldsLock(p)
            BY <1>3, <2>1 DEF Moved, HoldsLock
        <3>2. PeerIs(q, req[p].peer)
            BY <1>3, <2>1 DEF Moved, PeerIs
        <3> QED
            BY <1>1, <3>1, <3>2 DEF LockInv
    <2>2. ASSUME NEW q \in Requests, NEW t \in sessions, PeerIs(t, req[q].peer)'
          PROVE  /\ req'[q].pc \notin {"retiring", "capacity", "duplicate", "bind", "insert"}
                 /\ req'[q].pc = "retire" => req'[q].old = t
        <3>1. t \in Requests /\ PeerIs(t, req[q].peer)
            BY <1>1, <1>3, <2>2 DEF Moved, PeerIs, RelayType
        <3>2. q # r
            BY <1>1, <1>3, <3>1 DEF LockInv
        <3> QED
            BY <1>1, <1>3, <3>1, <3>2 DEF Moved, LockInv
    <2> QED
        BY <1>4, <2>1, <2>2 DEF LockInv
<1>15. IndexInv'
    <2>1. \A a \in ClientAddrs : client_map[a] # 0 => client_map[a] \in Requests /\ client_map[a] # r
        BY <1>1, <1>3 DEF RelayType, IndexInv
    <2> QED
        BY <1>1, <1>3, <1>4, <2>1 DEF IndexInv, Moved
<1>16. LoopInv'
    BY <1>1, <1>3, <1>4 DEF LoopInv, Moved
<1>17. PortInv'
    <2>1. ASSUME NEW q \in Requests
          PROVE  /\ port'[q] # 0 <=> req'[q].pc \in {"insert", "index", "count", "accepted"}
                 /\ port'[q] <= ports'
        <3>1. CASE q = r
            BY <1>3, <1>10, <3>1 DEF Moved
        <3>2. CASE q # r
            <4>1. port'[q] = port[q] /\ req'[q] = req[q] /\ port[q] <= ports /\ port[q] \in Nat
                BY <1>1, <1>3, <1>7, <1>10, <3>2 DEF Moved, PortInv
            <4> QED
                BY <1>1, <1>7, <1>10, <4>1 DEF PortInv
        <3> QED
            BY <3>1, <3>2
    <2>2. \A q \in Requests : q # r => (Holds(q)' <=> Holds(q))
        BY <1>4, <1>10 DEF Holds
    <2>3. ASSUME NEW q \in Requests, NEW t \in Requests, Holds(q)', Holds(t)', port'[q] = port'[t]
          PROVE  q = t
        BY <1>1, <1>10, <2>2, <2>3 DEF PortInv
    <2>4. ASSUME NEW i \in DOMAIN reservations'
          PROVE  /\ reservations'[i].port # 0 /\ reservations'[i].port <= ports'
                 /\ \A q \in Requests : Holds(q)' => port'[q] # reservations'[i].port
        <3>1. PICK j \in DOMAIN reservations : reservations'[i] = reservations[j]
            BY <1>8
        <3>2. reservations'[i].port # 0 /\ reservations'[i].port <= ports'
            BY <1>7, <1>9, <1>10, <3>1
        <3>3. ASSUME NEW q \in Requests, Holds(q)'
              PROVE  port'[q] # reservations'[i].port
            BY <1>1, <1>10, <2>2, <3>1, <3>3 DEF PortInv
        <3> QED
            BY <3>2, <3>3
    <2> QED
        BY <2>1, <2>3, <2>4 DEF PortInv
<1>18. CountInv'
    <2>1. Counted' = Counted
        BY <1>3, <1>4 DEF Counted, Moved
    <2> QED
        BY <1>1, <1>4, <2>1 DEF CountInv
<1>19. DistinctReservations(reservations)'
    BY <1>5 DEF Kept, DistinctReservations
<1> QED
    BY <1>11, <1>12, <1>13, <1>14, <1>15, <1>16, <1>17, <1>18, <1>19 DEF RelayInv

\* The session is entered into the table.
LEMMA InsertStep ==
    ASSUME RelayInv, NEW r \in Requests, Insert(r)
    PROVE  RelayInv'
<1>1. /\ RelayType /\ TableInv /\ LockInv /\ OneSessionPerPeer /\ IndexInv /\ LoopInv /\ PortInv
      /\ DistinctReservations(reservations) /\ CountInv
    BY DEF RelayInv
<1>2. Moved(r, "index", req[r].old) /\ req[r].pc = "insert" /\ "index" \in RequestPcs
    BY <1>1, StepMoves DEF Insert, RequestPcs
<1>3. sessions' = sessions \cup {r} /\ closing[r] = "no" /\ HoldsLock(r)
    BY <1>1, <1>2 DEF Insert, TableInv, HoldsLock
<1>4. UNCHANGED <<client_map, active, reservations, ports, port, forwarding, loop, cancelled, done, closing>>
    BY DEF Insert, loopVars
<1>5. RelayType'
    <2>1. \A q \in Requests : /\ DOMAIN req'[q] = {"pc", "peer", "addr", "cut", "old"}
                             /\ req'[q].pc \in RequestPcs /\ req'[q].peer \in RelayPeers
        BY <1>1, <1>2 DEF Moved, RelayType
    <2>2. DOMAIN req' = Requests /\ sessions' \subseteq Requests
        BY <1>1, <1>2, <1>3 DEF Moved, RelayType
    <2> QED
        BY <1>1, <1>4, <2>1, <2>2 DEF RelayType
<1>6. TableInv'
    <2>1. ASSUME NEW q \in Requests
          PROVE  q \in sessions' <=> req'[q].pc \in {"index", "count", "accepted"} /\ closing'[q] = "no"
        BY <1>1, <1>2, <1>3, <1>4 DEF TableInv, Moved
    <2>2. ASSUME NEW q \in Requests
          PROVE  /\ closing'[q] # "no" => req'[q].pc = "accepted"
                 /\ req'[q].pc \in {"retire", "retiring"} => req'[q].old \in Requests
                 /\ req'[q].pc = "retire" => PeerIs(req[q].old, req[q].peer)'
        BY <1>1, <1>2, <1>3, <1>4 DEF TableInv, Moved, PeerIs
    <2> QED
        BY <2>1, <2>2 DEF TableInv
<1>7. OneSessionPerPeer'
    <2>1. ASSUME NEW s \in sessions', NEW t \in sessions', PeerIs(s, req[t].peer)'
          PROVE  s = t
        <3>1. s \in Requests /\ t \in Requests /\ PeerIs(s, req[t].peer) /\ PeerIs(t, req[s].peer)
            BY <1>1, <1>2, <1>3, <2>1 DEF Moved, PeerIs, RelayType
        <3>2. (s # r => s \in sessions) /\ (t # r => t \in sessions)
            BY <1>3
        <3> QED
            BY <1>1, <1>2, <3>1, <3>2 DEF OneSessionPerPeer, LockInv
    <2> QED
        BY <2>1 DEF OneSessionPerPeer
<1>8. LockInv'
    <2>1. ASSUME NEW q \in Requests, NEW p \in Requests, HoldsLock(q)', HoldsLock(p)', PeerIs(q, req[p].peer)'
          PROVE  q = p
        <3>1. HoldsLock(q) /\ HoldsLock(p)
            BY <1>2, <1>3, <2>1 DEF Moved, HoldsLock
        <3>2. PeerIs(q, req[p].peer)
            BY <1>2, <2>1 DEF Moved, PeerIs
        <3> QED
            BY <1>1, <3>1, <3>2 DEF LockInv
    <2>2. ASSUME NEW q \in Requests, NEW t \in sessions', PeerIs(t, req[q].peer)'
          PROVE  /\ req'[q].pc \notin {"retiring", "capacity", "duplicate", "bind", "insert"}
                 /\ req'[q].pc = "retire" => req'[q].old = t
        <3>1. t \in Requests /\ PeerIs(t, req[q].peer) /\ (t # r => t \in sessions)
            BY <1>1, <1>2, <1>3, <2>2 DEF Moved, PeerIs, RelayType
        <3>2. CASE q = r
            BY <1>2, <3>2 DEF Moved
        <3>3. CASE q # r /\ t # r
            BY <1>1, <1>2, <3>1, <3>3 DEF Moved, LockInv
        <3>4. CASE q # r /\ t = r
            <4>1. ~HoldsLock(q) /\ req'[q] = req[q]
                BY <1>1, <1>2, <1>3, <3>1, <3>4 DEF LockInv, Moved
            <4> QED
                BY <4>1 DEF HoldsLock
        <3> QED
            BY <3>2, <3>3, <3>4
    <2> QED
        BY <2>1, <2>2 DEF LockInv
<1>9. IndexInv'
    <2>1. \A a \in ClientAddrs : client_map[a] # 0 => client_map[a] \in Requests
        BY <1>1 DEF RelayType
    <2>2. \A a \in ClientAddrs : client_map[a] # 0 => client_map[a] # r
        BY <1>1, <1>2 DEF IndexInv
    <2> QED
        BY <1>1, <1>2, <1>4, <2>1, <2>2 DEF IndexInv, Moved
<1>10. LoopInv'
    BY <1>1, <1>2, <1>4 DEF LoopInv, Moved
<1>11. PortInv'
    <2>1. \A q \in Requests : Holds(q)' <=> Holds(q)
        BY <1>4 DEF Holds
    <2> QED
        BY <1>1, <1>2, <1>4, <2>1 DEF PortInv, Moved
<1>12. DistinctReservations(reservations)' /\ CountInv'
    <2>1. Counted' = Counted
        BY <1>2, <1>4 DEF Counted, Moved
    <2> QED
        BY <1>1, <1>4, <2>1 DEF CountInv, DistinctReservations
<1> QED
    BY <1>5, <1>6, <1>7, <1>8, <1>9, <1>10, <1>11, <1>12 DEF RelayInv

\* The table, the stripe and the ports when a request with a session goes on.
LEMMA EnteredStep ==
    ASSUME RelayInv, NEW r \in Requests, NEW to \in {"count", "accepted"}, Moved(r, to, req[r].old),
           req[r].pc \in {"index", "count"},
           UNCHANGED <<sessions, reservations, ports, port, closing>>
    PROVE  /\ TableInv' /\ LockInv' /\ OneSessionPerPeer' /\ PortInv' /\ DistinctReservations(reservations)'
           /\ DOMAIN req' = Requests /\ r \in sessions /\ closing[r] = "no"
           /\ \A q \in Requests : /\ DOMAIN req'[q] = {"pc", "peer", "addr", "cut", "old"}
                                  /\ req'[q].pc \in RequestPcs /\ req'[q].peer \in RelayPeers
<1>1. /\ RelayType /\ TableInv /\ LockInv /\ OneSessionPerPeer /\ PortInv /\ DistinctReservations(reservations)
    BY DEF RelayInv
<1>2. r \in sessions /\ closing[r] = "no"
    BY <1>1 DEF TableInv
<1>3. TableInv'
    <2>1. ASSUME NEW q \in Requests
          PROVE  q \in sessions' <=> req'[q].pc \in {"index", "count", "accepted"} /\ closing'[q] = "no"
        BY <1>1, <1>2 DEF TableInv, Moved
    <2>2. ASSUME NEW q \in Requests
          PROVE  /\ closing'[q] # "no" => req'[q].pc = "accepted"
                 /\ req'[q].pc \in {"retire", "retiring"} => req'[q].old \in Requests
                 /\ req'[q].pc = "retire" => PeerIs(req[q].old, req[q].peer)'
        BY <1>1, <1>2 DEF TableInv, Moved, PeerIs
    <2> QED
        BY <2>1, <2>2 DEF TableInv
<1>4. OneSessionPerPeer'
    BY <1>1 DEF OneSessionPerPeer, PeerIs, Moved, RelayType
<1>5. LockInv'
    <2>1. ASSUME NEW q \in Requests, NEW p \in Requests, HoldsLock(q)', HoldsLock(p)', PeerIs(q, req[p].peer)'
          PROVE  q = p
        <3>1. HoldsLock(q) /\ HoldsLock(p)
            BY <2>1 DEF Moved, HoldsLock
        <3>2. PeerIs(q, req[p].peer)
            BY <2>1 DEF Moved, PeerIs
        <3> QED
            BY <1>1, <3>1, <3>2 DEF LockInv
    <2>2. ASSUME NEW q \in Requests, NEW t \in sessions, PeerIs(t, req[q].peer)'
          PROVE  /\ req'[q].pc \notin {"retiring", "capacity", "duplicate", "bind", "insert"}
                 /\ req'[q].pc = "retire" => req'[q].old = t
        <3>1. t \in Requests /\ PeerIs(t, req[q].peer)
            BY <1>1, <2>2 DEF Moved, PeerIs, RelayType
        <3>2. CASE q = r
            BY <3>2 DEF Moved
        <3>3. CASE q # r
            BY <1>1, <3>1, <3>3 DEF Moved, LockInv
        <3> QED
            BY <3>2, <3>3
    <2> QED
        BY <2>1, <2>2 DEF LockInv
<1>6. PortInv'
    <2>1. \A q \in Requests : Holds(q)' <=> Holds(q)
        BY DEF Holds
    <2> QED
        BY <1>1, <2>1 DEF PortInv, Moved
<1>7. \A q \in Requests : req'[q].pc \in RequestPcs /\ req'[q].peer \in RelayPeers
    BY <1>1 DEF Moved, RelayType, RequestPcs
<1> QED
    BY <1>1, <1>2, <1>3, <1>4, <1>5, <1>6, <1>7 DEF Moved, DistinctReservations

\* The address of the client is indexed.
LEMMA IndexStep ==
    ASSUME RelayInv, NEW r \in Requests, Index(r)
    PROVE  RelayInv'
<1>1. RelayType /\ TableInv /\ IndexInv /\ LoopInv /\ CountInv
    BY DEF RelayInv
<1>2. Moved(r, "count", req[r].old) /\ req[r].pc = "index"
    BY <1>1, StepMoves DEF Index
<1>3. /\ client_map' = [client_map EXCEPT ![req[r].addr] = r]
      /\ UNCHANGED <<sessions, active, reservations, ports, port, forwarding, loop, cancelled, done, closing>>
    BY DEF Index, loopVars
<1>4. /\ TableInv' /\ LockInv' /\ OneSessionPerPeer' /\ PortInv' /\ DistinctReservations(reservations)'
      /\ DOMAIN req' = Requests /\ r \in sessions /\ closing[r] = "no"
      /\ \A q \in Requests : /\ DOMAIN req'[q] = {"pc", "peer", "addr", "cut", "old"}
                             /\ req'[q].pc \in RequestPcs /\ req'[q].peer \in RelayPeers
    BY <1>2, <1>3, EnteredStep
<1>5. client_map' \in [ClientAddrs -> Requests \cup {0}]
    BY <1>1, <1>3 DEF RelayType
<1>6. RelayType'
    BY <1>1, <1>3, <1>4, <1>5 DEF RelayType
<1>7. IndexInv'
    <2>1. ASSUME NEW a \in ClientAddrs, client_map'[a] # 0
          PROVE  /\ req'[client_map'[a]].addr = a /\ req'[client_map'[a]].pc \in {"count", "accepted"}
                 /\ closing'[client_map'[a]] \notin {"unmapped", "leased", "done"}
        <3>1. CASE a = req[r].addr
            <4>1. client_map'[a] = r
                BY <1>1, <1>3, <3>1 DEF RelayType
            <4> QED
                BY <1>2, <1>3, <1>4, <3>1, <4>1 DEF Moved
        <3>2. CASE a # req[r].addr
            <4>1. client_map'[a] = client_map[a] /\ client_map[a] \in Requests
                BY <1>1, <1>3, <2>1, <3>2 DEF RelayType
            <4>2. client_map[a] # r
                BY <1>1, <2>1, <3>2, <4>1 DEF IndexInv
            <4> QED
                BY <1>1, <1>2, <1>3, <2>1, <4>1, <4>2 DEF IndexInv, Moved
        <3> QED
            BY <3>1, <3>2
    <2> QED
        BY <2>1 DEF IndexInv
<1>8. LoopInv'
    BY <1>1, <1>2, <1>3 DEF LoopInv, Moved
<1>9. CountInv'
    <2>1. Counted' = Counted
        BY <1>2, <1>3 DEF Counted, Moved
    <2> QED
        BY <1>1, <1>3, <2>1 DEF CountInv
<1> QED
    BY <1>4, <1>6, <1>7, <1>8, <1>9 DEF RelayInv

\* The response: the session is counted, and its loop may start.
LEMMA RespondStep ==
    ASSUME RelayInv, NEW r \in Requests, Respond(r)
    PROVE  RelayInv'
<1>1. RelayType /\ TableInv /\ IndexInv /\ LoopInv /\ CountInv
    BY DEF RelayInv
<1>2. Moved(r, "accepted", req[r].old) /\ req[r].pc = "count"
    BY <1>1, StepMoves DEF Respond
<1>3. /\ active' = active + 1 /\ (loop' = [loop EXCEPT ![r] = "starting"] \/ loop' = loop)
      /\ UNCHANGED <<sessions, client_map, reservations, ports, port, forwarding, cancelled, done, closing>>
    BY DEF Respond
<1>4. /\ TableInv' /\ LockInv' /\ OneSessionPerPeer' /\ PortInv' /\ DistinctReservations(reservations)'
      /\ DOMAIN req' = Requests /\ r \in sessions /\ closing[r] = "no"
      /\ \A q \in Requests : /\ DOMAIN req'[q] = {"pc", "peer", "addr", "cut", "old"}
                             /\ req'[q].pc \in RequestPcs /\ req'[q].peer \in RelayPeers
    BY <1>2, <1>3, EnteredStep
<1>5. /\ loop' \in [Requests -> LoopPcs] /\ loop[r] = "none" /\ loop'[r] \in {"none", "starting"}
      /\ \A q \in Requests : q # r => loop'[q] = loop[q]
    BY <1>1, <1>2, <1>3 DEF RelayType, LoopPcs, LoopInv
<1>6. RelayType'
    BY <1>1, <1>3, <1>4, <1>5 DEF RelayType
<1>7. IndexInv'
    <2>1. \A a \in ClientAddrs : client_map[a] # 0 => client_map[a] \in Requests
        BY <1>1 DEF RelayType
    <2>2. \A q \in Requests : req[q].pc \in {"count", "accepted"} => req'[q].pc \in {"count", "accepted"}
        BY <1>2 DEF Moved
    <2> QED
        BY <1>1, <1>2, <1>3, <2>1, <2>2 DEF IndexInv, Moved
<1>8. LoopInv'
    <2>1. ASSUME NEW q \in Requests
          PROVE  /\ loop'[q] # "none" => req'[q].pc = "accepted"
                 /\ q \in forwarding' <=> loop'[q] \in {"claimed", "running", "unstarted", "drained"}
                 /\ loop'[q] \in {"running", "drained"} => closing'[q] \in {"no", "removed", "waiting"}
                 /\ done'[q] => loop'[q] \in {"finished", "over"}
        <3>1. CASE q = r
            BY <1>1, <1>2, <1>3, <1>5, <3>1 DEF Moved, LoopInv
        <3>2. CASE q # r
            BY <1>1, <1>2, <1>3, <1>5, <3>2 DEF Moved, LoopInv
        <3> QED
            BY <3>1, <3>2
    <2> QED
        BY <2>1 DEF LoopInv
<1>9. CountInv'
    <2>1. Counted' = Counted \cup {r} /\ r \notin Counted
        BY <1>2, <1>3, <1>4 DEF Counted, Moved
    <2>2. IsFiniteSet(Counted)
        BY RequestsAssumption, FS_Subset DEF Counted
    <2>3. Cardinality(Counted \cup {r}) = Cardinality(Counted) + 1
        BY <2>1, <2>2, FS_AddElement
    <2> QED
        BY <1>1, <1>3, <2>1, <2>3 DEF CountInv
<1> QED
    BY <1>4, <1>6, <1>7, <1>8, <1>9 DEF RelayInv

-----------------------------------------------------------------------------
(* The relay: its forwarding loops *)

\* A loop at work touches its slot only.
LEMMA LoopFrame ==
    ASSUME RelayInv, UNCHANGED <<req, tableVars, closing>>, LoopInv',
           loop' \in [Requests -> LoopPcs], forwarding' \subseteq Requests, done' \in [Requests -> BOOLEAN]
    PROVE  RelayInv'
<1>1. /\ RelayType /\ TableInv /\ LockInv /\ OneSessionPerPeer /\ IndexInv /\ PortInv
      /\ DistinctReservations(reservations) /\ CountInv
    BY DEF RelayInv
<1>2. UNCHANGED <<req, sessions, client_map, active, reservations, ports, port, closing>>
    BY DEF tableVars
<1>3. RelayType'
    BY <1>1, <1>2 DEF RelayType
<1>4. TableInv' /\ OneSessionPerPeer'
    BY <1>1, <1>2 DEF TableInv, OneSessionPerPeer, PeerIs
<1>5. LockInv'
    BY <1>1, <1>2 DEF LockInv, PeerIs, HoldsLock
<1>6. IndexInv'
    BY <1>1, <1>2 DEF IndexInv
<1>7. PortInv' /\ DistinctReservations(reservations)'
    BY <1>1, <1>2 DEF PortInv, Holds, DistinctReservations
<1>8. CountInv'
    <2>1. Counted' = Counted
        BY <1>2 DEF Counted
    <2> QED
        BY <1>1, <1>2, <2>1 DEF CountInv
<1> QED
    BY <1>3, <1>4, <1>5, <1>6, <1>7, <1>8 DEF RelayInv

\* LoopStep moves one loop.
LEMMA LoopMoves ==
    ASSUME RelayType, NEW s \in Requests, NEW from, NEW to \in LoopPcs, LoopStep(s, from, to)
    PROVE  /\ loop' \in [Requests -> LoopPcs] /\ loop[s] = from /\ loop'[s] = to
           /\ \A q \in Requests : q # s => loop'[q] = loop[q]
BY DEF LoopStep, RelayType

\* run_stream_forwarding_loop, until it has given back its slot.
LEMMA ForwardingSteps ==
    ASSUME RelayInv, NEW s \in Requests, Claim(s) \/ TakeSocket(s) \/ LoopEnds(s) \/ Finish(s)
    PROVE  RelayInv'
<1>1. RelayType /\ TableInv /\ LoopInv
    BY DEF RelayInv
<1> DEFINE LoopOk(q) ==
             /\ loop'[q] # "none" => req'[q].pc = "accepted"
             /\ q \in forwarding' <=> loop'[q] \in {"claimed", "running", "unstarted", "drained"}
             /\ loop'[q] \in {"running", "drained"} => closing'[q] \in {"no", "removed", "waiting"}
             /\ done'[q] => loop'[q] \in {"finished", "over"}
<1>2. CASE Claim(s)
    <2>1. "claimed" \in LoopPcs /\ LoopStep(s, "starting", "claimed")
        BY <1>2 DEF Claim, LoopPcs
    <2>2. /\ loop' \in [Requests -> LoopPcs] /\ loop[s] = "starting" /\ loop'[s] = "claimed"
          /\ \A q \in Requests : q # s => loop'[q] = loop[q]
        BY <1>1, <2>1, LoopMoves
    <2>3. UNCHANGED <<req, tableVars, done, closing>> /\ forwarding' = forwarding \cup {s}
        BY <1>2 DEF Claim
    <2>4. LoopOk(s)
        BY <1>1, <2>2, <2>3 DEF LoopInv
    <2>5. ASSUME NEW q \in Requests, q # s PROVE LoopOk(q)
        BY <1>1, <2>2, <2>3, <2>5 DEF LoopInv
    <2>6. LoopInv'
        BY <2>4, <2>5 DEF LoopInv
    <2> QED
        BY <1>1, <2>2, <2>3, <2>6, LoopFrame DEF RelayType
<1>3. CASE TakeSocket(s)
    <2>1. PICK to \in {"running", "unstarted"} : LoopStep(s, "claimed", to) /\ (to = "running" => s \in sessions)
        BY <1>3 DEF TakeSocket
    <2>2. /\ loop' \in [Requests -> LoopPcs] /\ loop[s] = "claimed" /\ loop'[s] = to
          /\ \A q \in Requests : q # s => loop'[q] = loop[q]
        <3>1. to \in LoopPcs
            BY DEF LoopPcs
        <3> QED
            BY <1>1, <2>1, <3>1, LoopMoves
    <2>3. UNCHANGED <<req, tableVars, forwarding, done, closing>>
        BY <1>3 DEF TakeSocket
    <2>4. LoopOk(s)
        <3>1. to = "running" => closing[s] = "no"
            BY <1>1, <2>1 DEF TableInv
        <3> QED
            BY <1>1, <2>2, <2>3, <3>1 DEF LoopInv
    <2>5. ASSUME NEW q \in Requests, q # s PROVE LoopOk(q)
        BY <1>1, <2>2, <2>3, <2>5 DEF LoopInv
    <2>6. LoopInv'
        BY <2>4, <2>5 DEF LoopInv
    <2> QED
        BY <1>1, <2>2, <2>3, <2>6, LoopFrame DEF RelayType
<1>4. CASE LoopEnds(s)
    <2>1. "drained" \in LoopPcs /\ LoopStep(s, "running", "drained")
        BY <1>4 DEF LoopEnds, LoopPcs
    <2>2. /\ loop' \in [Requests -> LoopPcs] /\ loop[s] = "running" /\ loop'[s] = "drained"
          /\ \A q \in Requests : q # s => loop'[q] = loop[q]
        BY <1>1, <2>1, LoopMoves
    <2>3. UNCHANGED <<req, tableVars, forwarding, done, closing>>
        BY <1>4 DEF LoopEnds
    <2>4. LoopOk(s)
        BY <1>1, <2>2, <2>3 DEF LoopInv
    <2>5. ASSUME NEW q \in Requests, q # s PROVE LoopOk(q)
        BY <1>1, <2>2, <2>3, <2>5 DEF LoopInv
    <2>6. LoopInv'
        BY <2>4, <2>5 DEF LoopInv
    <2> QED
        BY <1>1, <2>2, <2>3, <2>6, LoopFrame DEF RelayType
<1>5. CASE Finish(s)
    <2>1. PICK from \in {"drained", "unstarted"}, to \in {"finished", "over"} : LoopStep(s, from, to)
        BY <1>5 DEF Finish
    <2>2. /\ loop' \in [Requests -> LoopPcs] /\ loop[s] = from /\ loop'[s] = to
          /\ \A q \in Requests : q # s => loop'[q] = loop[q]
        <3>1. to \in LoopPcs
            BY DEF LoopPcs
        <3> QED
            BY <1>1, <2>1, <3>1, LoopMoves
    <2>3. UNCHANGED <<req, tableVars, closing>> /\ forwarding' = forwarding \ {s} /\ done' = [done EXCEPT ![s] = TRUE]
        BY <1>5 DEF Finish, FinishForwarding
    <2>4. LoopOk(s)
        BY <1>1, <2>2, <2>3 DEF LoopInv
    <2>5. ASSUME NEW q \in Requests, q # s PROVE LoopOk(q)
        <3>1. done'[q] = done[q]
            BY <1>1, <2>3, <2>5 DEF RelayType
        <3> QED
            BY <1>1, <2>2, <2>3, <2>5, <3>1 DEF LoopInv
    <2>6. LoopInv'
        BY <2>4, <2>5 DEF LoopInv
    <2>7. forwarding' \subseteq Requests /\ done' \in [Requests -> BOOLEAN]
        BY <1>1, <2>3 DEF RelayType
    <2> QED
        BY <2>2, <2>3, <2>6, <2>7, LoopFrame
<1> QED
    BY <1>2, <1>3, <1>4, <1>5

\* The end of a loop closes its session, unless another close has taken it.
LEMMA CloseAfterLoopStep ==
    ASSUME RelayInv, NEW s \in Requests, CloseAfterLoop(s)
    PROVE  RelayInv'
<1>1. /\ RelayType /\ TableInv /\ LockInv /\ OneSessionPerPeer /\ IndexInv /\ LoopInv /\ PortInv
      /\ DistinctReservations(reservations) /\ CountInv
    BY DEF RelayInv
<1>2. "over" \in LoopPcs /\ LoopStep(s, "finished", "over")
    BY DEF CloseAfterLoop, LoopPcs
<1>3. /\ loop' \in [Requests -> LoopPcs] /\ loop[s] = "finished" /\ loop'[s] = "over"
      /\ \A q \in Requests : q # s => loop'[q] = loop[q]
    BY <1>1, <1>2, LoopMoves
<1>4. UNCHANGED <<req, client_map, active, reservations, ports, port, forwarding, cancelled, done>>
    BY DEF CloseAfterLoop
<1>5. CASE UNCHANGED <<sessions, closing>>
    <2>1. UNCHANGED <<req, tableVars, closing>>
        BY <1>4, <1>5 DEF tableVars
    <2>2. LoopInv'
        BY <1>1, <1>3, <1>4, <1>5 DEF LoopInv
    <2> QED
        BY <1>1, <1>3, <1>4, <2>1, <2>2, LoopFrame DEF RelayType
<1>6. CASE s \in sessions /\ sessions' = sessions \ {s} /\ closing' = [closing EXCEPT ![s] = "removed"]
    <2>1. /\ closing' \in [Requests -> ClosePcs] /\ closing'[s] = "removed" /\ closing[s] = "no"
          /\ \A q \in Requests : q # s => closing'[q] = closing[q]
        BY <1>1, <1>6 DEF RelayType, ClosePcs, TableInv
    <2>2. req[s].pc = "accepted"
        BY <1>1, <1>3 DEF LoopInv
    <2>3. RelayType'
        <3>1. sessions' \subseteq Requests
            BY <1>1, <1>6 DEF RelayType
        <3> QED
            BY <1>1, <1>3, <1>4, <2>1, <3>1 DEF RelayType
    <2>4. TableInv'
        <3>1. ASSUME NEW q \in Requests
              PROVE  /\ q \in sessions' <=> req'[q].pc \in {"index", "count", "accepted"} /\ closing'[q] = "no"
                     /\ closing'[q] # "no" => req'[q].pc = "accepted"
            BY <1>1, <1>4, <1>6, <2>1, <2>2 DEF TableInv
        <3>2. ASSUME NEW q \in Requests
              PROVE  /\ req'[q].pc \in {"retire", "retiring"} => req'[q].old \in Requests
                     /\ req'[q].pc = "retire" => PeerIs(req[q].old, req[q].peer)'
            BY <1>1, <1>4 DEF TableInv, PeerIs
        <3> QED
            BY <3>1, <3>2 DEF TableInv
    <2>5. OneSessionPerPeer'
        BY <1>1, <1>4, <1>6 DEF OneSessionPerPeer, PeerIs
    <2>6. LockInv'
        BY <1>1, <1>4, <1>6 DEF LockInv, PeerIs, HoldsLock
    <2>7. IndexInv'
        <3>1. \A a \in ClientAddrs : client_map[a] # 0 => client_map[a] \in Requests
            BY <1>1 DEF RelayType
        <3> QED
            BY <1>1, <1>4, <2>1, <3>1 DEF IndexInv
    <2>8. LoopInv'
        BY <1>1, <1>3, <1>4, <2>1 DEF LoopInv
    <2>9. PortInv'
        <3>1. \A q \in Requests : Holds(q)' <=> Holds(q)
            BY <1>4, <2>1 DEF Holds
        <3> QED
            BY <1>1, <1>4, <3>1 DEF PortInv
    <2>10. DistinctReservations(reservations)' /\ CountInv'
        <3>1. Counted' = Counted
            BY <1>4, <2>1 DEF Counted
        <3> QED
            BY <1>1, <1>4, <3>1 DEF DistinctReservations, CountInv
    <2> QED
        BY <2>3, <2>4, <2>5, <2>6, <2>7, <2>8, <2>9, <2>10 DEF RelayInv
<1> QED
    BY <1>5, <1>6 DEF CloseAfterLoop, TakeSession

-----------------------------------------------------------------------------
(* The relay: closing a session *)

\* A close under way leaves the table and the stripes alone.
LEMMA CloseFrame ==
    ASSUME RelayInv, NEW s \in Requests, NEW from \in ClosePcs \ {"no"}, NEW to \in ClosePcs \ {"no"},
           CloseStep(s, from, to), UNCHANGED <<req, sessions>>
    PROVE  /\ closing' \in [Requests -> ClosePcs] /\ closing[s] = from /\ closing'[s] = to
           /\ \A q \in Requests : q # s => closing'[q] = closing[q]
           /\ req[s].pc = "accepted"
           /\ TableInv' /\ OneSessionPerPeer' /\ LockInv'
<1>1. RelayType /\ TableInv /\ LockInv /\ OneSessionPerPeer
    BY DEF RelayInv
<1>2. /\ closing' \in [Requests -> ClosePcs] /\ closing[s] = from /\ closing'[s] = to
      /\ \A q \in Requests : q # s => closing'[q] = closing[q]
    BY <1>1 DEF RelayType, CloseStep
<1>3. req[s].pc = "accepted"
    BY <1>1, <1>2 DEF TableInv
<1>4. TableInv'
    <2>1. ASSUME NEW q \in Requests
          PROVE  /\ q \in sessions' <=> req'[q].pc \in {"index", "count", "accepted"} /\ closing'[q] = "no"
                 /\ closing'[q] # "no" => req'[q].pc = "accepted"
        BY <1>1, <1>2, <1>3 DEF TableInv
    <2>2. ASSUME NEW q \in Requests
          PROVE  /\ req'[q].pc \in {"retire", "retiring"} => req'[q].old \in Requests
                 /\ req'[q].pc = "retire" => PeerIs(req[q].old, req[q].peer)'
        BY <1>1 DEF TableInv, PeerIs
    <2> QED
        BY <2>1, <2>2 DEF TableInv
<1>5. OneSessionPerPeer' /\ LockInv'
    BY <1>1 DEF OneSessionPerPeer, LockInv, PeerIs, HoldsLock
<1> QED
    BY <1>2, <1>3, <1>4, <1>5

\* A close waits for the loop of its session before it goes on.
LEMMA WaitForLoop ==
    ASSUME RelayInv, NEW s \in Requests, Cancel(s) \/ LoopExited(s)
    PROVE  RelayInv'
<1>1. /\ RelayType /\ IndexInv /\ LoopInv /\ PortInv /\ DistinctReservations(reservations) /\ CountInv
    BY DEF RelayInv
<1>2. UNCHANGED <<req, sessions, client_map, active, reservations, ports, port, forwarding, loop>>
    BY DEF Cancel, LoopExited, tableVars
<1>3. PICK from \in {"removed", "waiting"}, to \in {"waiting", "quiet"} :
        /\ CloseStep(s, from, to)
        /\ to = "quiet" => s \notin forwarding \/ done[s]
    BY DEF Cancel, CancelLoop, LoopExited
<1>4. /\ closing' \in [Requests -> ClosePcs] /\ closing[s] = from /\ closing'[s] = to
      /\ \A q \in Requests : q # s => closing'[q] = closing[q]
      /\ TableInv' /\ OneSessionPerPeer' /\ LockInv'
    <2>1. from \in ClosePcs \ {"no"} /\ to \in ClosePcs \ {"no"}
        BY DEF ClosePcs
    <2> QED
        BY <1>2, <1>3, <2>1, CloseFrame
<1>5. done' \in [Requests -> BOOLEAN] /\ \A q \in Requests : done'[q] => done[q]
    BY <1>1 DEF Cancel, LoopExited, RelayType
<1>6. RelayType'
    BY <1>1, <1>2, <1>4, <1>5 DEF RelayType
<1>7. IndexInv'
    <2>1. \A a \in ClientAddrs : client_map[a] # 0 => client_map[a] \in Requests
        BY <1>1 DEF RelayType
    <2> QED
        BY <1>1, <1>2, <1>4, <2>1 DEF IndexInv
<1>8. LoopInv'
    <2>1. to = "quiet" => loop[s] \notin {"running", "drained"}
        BY <1>1, <1>3 DEF LoopInv
    <2> QED
        BY <1>1, <1>2, <1>4, <1>5, <2>1 DEF LoopInv
<1>9. PortInv'
    <2>1. \A q \in Requests : Holds(q)' <=> Holds(q)
        BY <1>2, <1>4 DEF Holds
    <2> QED
        BY <1>1, <1>2, <2>1 DEF PortInv
<1>10. DistinctReservations(reservations)' /\ CountInv'
    <2>1. Counted' = Counted
        BY <1>2, <1>4 DEF Counted
    <2> QED
        BY <1>1, <1>2, <2>1 DEF DistinctReservations, CountInv
<1> QED
    BY <1>4, <1>6, <1>7, <1>8, <1>9, <1>10 DEF RelayInv

\* The index forgets the session.
LEMMA UnmapStep ==
    ASSUME RelayInv, NEW s \in Requests, Unmap(s)
    PROVE  RelayInv'
<1>1. /\ RelayType /\ IndexInv /\ LoopInv /\ PortInv /\ DistinctReservations(reservations) /\ CountInv
    BY DEF RelayInv
<1>2. /\ client_map' = [client_map EXCEPT ![req[s].addr] = 0] /\ CloseStep(s, "quiet", "unmapped")
      /\ UNCHANGED <<req, sessions, active, reservations, ports, port, forwarding, loop, cancelled, done>>
    BY DEF Unmap, Unmapped, loopVars
<1>3. /\ closing' \in [Requests -> ClosePcs] /\ closing[s] = "quiet" /\ closing'[s] = "unmapped"
      /\ \A q \in Requests : q # s => closing'[q] = closing[q]
      /\ TableInv' /\ OneSessionPerPeer' /\ LockInv'
    BY <1>2, CloseFrame DEF ClosePcs
<1>4. RelayType'
    <2>1. client_map' \in [ClientAddrs -> Requests \cup {0}]
        BY <1>1, <1>2 DEF RelayType
    <2> QED
        BY <1>1, <1>2, <1>3, <2>1 DEF RelayType
<1>5. IndexInv'
    <2>1. ASSUME NEW a \in ClientAddrs, client_map'[a] # 0
          PROVE  client_map'[a] = client_map[a] /\ client_map[a] \in Requests /\ client_map[a] # s
        <3>1. a # req[s].addr /\ client_map'[a] = client_map[a]
            BY <1>1, <1>2, <2>1 DEF RelayType
        <3>2. client_map[a] \in Requests
            BY <1>1, <2>1, <3>1 DEF RelayType
        <3> QED
            BY <1>1, <2>1, <3>1, <3>2 DEF IndexInv
    <2> QED
        BY <1>1, <1>2, <1>3, <2>1 DEF IndexInv
<1>6. LoopInv'
    BY <1>1, <1>2, <1>3 DEF LoopInv
<1>7. PortInv'
    <2>1. \A q \in Requests : Holds(q)' <=> Holds(q)
        BY <1>2, <1>3 DEF Holds
    <2> QED
        BY <1>1, <1>2, <2>1 DEF PortInv
<1>8. DistinctReservations(reservations)' /\ CountInv'
    <2>1. Counted' = Counted
        BY <1>2, <1>3 DEF Counted
    <2> QED
        BY <1>1, <1>2, <2>1 DEF DistinctReservations, CountInv
<1> QED
    BY <1>3, <1>4, <1>5, <1>6, <1>7, <1>8 DEF RelayInv

\* The port of the closed session becomes a reservation of its peer.
LEMMA LeaseStep ==
    ASSUME RelayInv, NEW s \in Requests, Lease(s)
    PROVE  RelayInv'
<1>1. /\ RelayType /\ IndexInv /\ LoopInv /\ PortInv /\ DistinctReservations(reservations) /\ CountInv
    BY DEF RelayInv
<1>2. /\ CloseStep(s, "unmapped", "leased")
      /\ reservations' = IF req[s].peer = NoPeer THEN reservations ELSE Leased(req[s].peer, port[s])
      /\ UNCHANGED <<req, sessions, client_map, active, ports, port, forwarding, loop, cancelled, done>>
    BY DEF Lease, loopVars
<1>3. /\ closing' \in [Requests -> ClosePcs] /\ closing[s] = "unmapped" /\ closing'[s] = "leased"
      /\ \A q \in Requests : q # s => closing'[q] = closing[q]
      /\ req[s].pc = "accepted" /\ TableInv' /\ OneSessionPerPeer' /\ LockInv'
    BY <1>2, CloseFrame DEF ClosePcs
<1>4. Holds(s) /\ port[s] \in Nat /\ port[s] <= ports /\ port[s] # 0
    BY <1>1, <1>3 DEF Holds, PortInv, RelayType
<1>5. \A q \in Requests : Holds(q)' <=> Holds(q) /\ q # s
    BY <1>2, <1>3 DEF Holds
<1> DEFINE new == [peer |-> req[s].peer, port |-> port[s]]
<1>6. new \in Reservations /\ new.port = port[s] /\ new.peer = req[s].peer
    BY <1>1, <1>4 DEF RelayType, Reservations
<1> HIDE DEF new
<1>7. /\ reservations' \in Seq(Reservations) /\ DistinctReservations(reservations')
      /\ \A i \in DOMAIN reservations' :
           reservations'[i] = new \/ \E j \in DOMAIN reservations : reservations'[i] = reservations[j]
    <2>1. CASE req[s].peer = NoPeer
        BY <1>1, <1>2, <2>1 DEF RelayType
    <2>2. CASE req[s].peer # NoPeer
        <3> DEFINE evicts == Len(reservations) >= MaxReservations /\ ReservedAt(req[s].peer) = {} /\ reservations # <<>>
                   base == IF evicts THEN Tail(reservations) ELSE Unreserved(req[s].peer)
        <3>1. reservations' = Append(base, new)
            BY <1>2, <2>2 DEF Leased, new
        <3>2. Kept(base) /\ \A i \in DOMAIN base : base[i].peer # req[s].peer
            <4>1. reservations \in Seq(Reservations)
                BY <1>1 DEF RelayType
            <4>2. CASE evicts
                <5>1. Len(reservations) \in Nat /\ Len(reservations) # 0
                    BY <4>1, <4>2, EmptySeq, LenProperties
                <5>2. 1 \in 1 .. Len(reservations) /\ Tail(reservations) = SubSeq(reservations, 1 + 1, Len(reservations))
                    BY <4>1, <4>2, <5>1, TailIsSubSeq
                <5>3. Kept(SubSeq(reservations, 1 + 1, Len(reservations)))
                    BY <1>1, <4>1, <5>2, DroppedKept
                <5>4. \A j \in DOMAIN reservations : reservations[j].peer # req[s].peer
                    BY <4>2 DEF ReservedAt
                <5>5. base = SubSeq(reservations, 1 + 1, Len(reservations))
                    BY <4>2, <5>2
                <5> HIDE DEF base
                <5> QED
                    BY <5>3, <5>4, <5>5 DEF Kept
            <4>3. CASE ~evicts
                <5>1. base = Unreserved(req[s].peer)
                    BY <4>3
                <5> HIDE DEF base
                <5> QED
                    BY <1>1, <4>1, <5>1, UnreservedKept
            <4> QED
                BY <4>2, <4>3
        <3> HIDE DEF base
        <3>3. base \in Seq(Reservations)
            BY <3>2 DEF Kept
        <3>4. /\ reservations' \in Seq(Reservations) /\ Len(reservations') = Len(base) + 1
              /\ \A i \in 1 .. Len(base) : reservations'[i] = base[i]
              /\ reservations'[Len(base) + 1] = new
            BY <1>6, <3>1, <3>3, AppendProperties
        <3>5. Len(base) \in Nat /\ DOMAIN base = 1 .. Len(base) /\ DOMAIN reservations' = 1 .. Len(base) + 1
            BY <3>3, <3>4, LenProperties
        <3>6. ASSUME NEW i \in DOMAIN reservations'
              PROVE  (i = Len(base) + 1 /\ reservations'[i] = new) \/ (i \in DOMAIN base /\ reservations'[i] = base[i])
            BY <3>4, <3>5
        <3>7. ASSUME NEW i \in DOMAIN base
              PROVE  base[i].port # port[s] /\ base[i].peer # req[s].peer
            <4>1. PICK j \in DOMAIN reservations : base[i] = reservations[j]
                BY <3>2 DEF Kept
            <4> QED
                BY <1>1, <1>4, <3>2, <4>1 DEF PortInv
        <3>8. ASSUME NEW i \in DOMAIN reservations', NEW j \in DOMAIN reservations', i # j
              PROVE  reservations'[i].port # reservations'[j].port /\ reservations'[i].peer # reservations'[j].peer
            <4>1. CASE i \in DOMAIN base /\ reservations'[i] = base[i] /\ j \in DOMAIN base /\ reservations'[j] = base[j]
                BY <3>2, <3>8, <4>1 DEF Kept, DistinctReservations
            <4>2. CASE i \in DOMAIN base /\ reservations'[i] = base[i] /\ reservations'[j] = new
                BY <1>6, <3>7, <4>2
            <4>3. CASE reservations'[i] = new /\ j \in DOMAIN base /\ reservations'[j] = base[j]
                BY <1>6, <3>7, <4>3
            <4> QED
                BY <3>6, <3>8, <4>1, <4>2, <4>3
        <3>9. DistinctReservations(reservations')
            BY <3>8 DEF DistinctReservations
        <3> QED
            BY <3>2, <3>4, <3>6, <3>9 DEF Kept
    <2> QED
        BY <2>1, <2>2
<1>8. RelayType'
    BY <1>1, <1>2, <1>3, <1>7 DEF RelayType
<1>9. IndexInv'
    <2>1. \A a \in ClientAddrs : client_map[a] # 0 => client_map[a] \in Requests /\ client_map[a] # s
        BY <1>1, <1>3 DEF RelayType, IndexInv
    <2> QED
        BY <1>1, <1>2, <1>3, <2>1 DEF IndexInv
<1>10. LoopInv'
    BY <1>1, <1>2, <1>3 DEF LoopInv
<1>11. PortInv'
    <2>1. ASSUME NEW i \in DOMAIN reservations'
          PROVE  /\ reservations'[i].port # 0 /\ reservations'[i].port <= ports'
                 /\ \A q \in Requests : Holds(q)' => port'[q] # reservations'[i].port
        <3>1. CASE reservations'[i] = new
            BY <1>1, <1>2, <1>4, <1>5, <1>6, <3>1 DEF PortInv
        <3>2. CASE \E j \in DOMAIN reservations : reservations'[i] = reservations[j]
            BY <1>1, <1>2, <1>5, <3>2 DEF PortInv
        <3> QED
            BY <1>7, <3>1, <3>2
    <2> QED
        BY <1>1, <1>2, <1>5, <2>1 DEF PortInv
<1>12. CountInv'
    <2>1. Counted' = Counted
        BY <1>2, <1>3 DEF Counted
    <2> QED
        BY <1>1, <1>2, <2>1 DEF CountInv
<1>13. DistinctReservations(reservations)'
    BY <1>7 DEF DistinctReservations
<1> QED
    BY <1>3, <1>8, <1>9, <1>10, <1>11, <1>12, <1>13 DEF RelayInv

\* The close is over: the session is no longer counted.
LEMMA ClosedStep ==
    ASSUME RelayInv, NEW s \in Requests, Closed(s)
    PROVE  RelayInv'
<1>1. /\ RelayType /\ IndexInv /\ LoopInv /\ PortInv /\ DistinctReservations(reservations) /\ CountInv
    BY DEF RelayInv
<1>2. /\ CloseStep(s, "leased", "done") /\ active' = active - 1
      /\ UNCHANGED <<req, sessions, client_map, reservations, ports, port, forwarding, loop, cancelled, done>>
    BY DEF Closed, loopVars
<1>3. /\ closing' \in [Requests -> ClosePcs] /\ closing[s] = "leased" /\ closing'[s] = "done"
      /\ \A q \in Requests : q # s => closing'[q] = closing[q]
      /\ req[s].pc = "accepted" /\ TableInv' /\ OneSessionPerPeer' /\ LockInv'
    BY <1>2, CloseFrame DEF ClosePcs
<1>4. RelayType'
    BY <1>1, <1>2, <1>3 DEF RelayType
<1>5. IndexInv'
    <2>1. \A a \in ClientAddrs : client_map[a] # 0 => client_map[a] \in Requests /\ client_map[a] # s
        BY <1>1, <1>3 DEF RelayType, IndexInv
    <2> QED
        BY <1>1, <1>2, <1>3, <2>1 DEF IndexInv
<1>6. LoopInv'
    BY <1>1, <1>2, <1>3 DEF LoopInv
<1>7. PortInv'
    <2>1. \A q \in Requests : Holds(q)' <=> Holds(q)
        BY <1>2, <1>3 DEF Holds
    <2> QED
        BY <1>1, <1>2, <2>1 DEF PortInv
<1>8. CountInv'
    <2>1. Counted' = Counted \ {s} /\ s \in Counted
        BY <1>2, <1>3 DEF Counted
    <2>2. IsFiniteSet(Counted)
        BY RequestsAssumption, FS_Subset DEF Counted
    <2>3. Cardinality(Counted \ {s}) = Cardinality(Counted) - 1
        BY <2>1, <2>2, FS_RemoveElement
    <2> QED
        BY <1>1, <1>2, <2>1, <2>3 DEF CountInv
<1>9. DistinctReservations(reservations)'
    BY <1>1, <1>2 DEF DistinctReservations
<1> QED
    BY <1>3, <1>4, <1>5, <1>6, <1>7, <1>8, <1>9 DEF RelayInv

\* Reservations expire.
LEMMA ExpireStep ==
    ASSUME RelayInv, ExpireReservations
    PROVE  RelayInv'
<1>1. /\ RelayType /\ TableInv /\ LockInv /\ OneSessionPerPeer /\ IndexInv /\ LoopInv /\ PortInv
      /\ DistinctReservations(reservations) /\ CountInv
    BY DEF RelayInv
<1>2. UNCHANGED <<req, sessions, client_map, active, ports, port, forwarding, loop, cancelled, done, closing>>
    BY DEF ExpireReservations, loopVars
<1>3. Kept(reservations')
    <2>1. PICK n \in 1 .. Len(reservations) : reservations' = SubSeq(reservations, n + 1, Len(reservations))
        BY DEF ExpireReservations
    <2> QED
        BY <1>1, <2>1, DroppedKept DEF RelayType
<1>4. RelayType'
    BY <1>1, <1>2, <1>3 DEF RelayType, Kept
<1>5. TableInv' /\ OneSessionPerPeer' /\ LockInv'
    BY <1>1, <1>2 DEF TableInv, OneSessionPerPeer, LockInv, PeerIs, HoldsLock
<1>6. IndexInv' /\ LoopInv'
    BY <1>1, <1>2 DEF IndexInv, LoopInv
<1>7. PortInv'
    BY <1>1, <1>2, <1>3 DEF PortInv, Holds, Kept
<1>8. CountInv' /\ DistinctReservations(reservations)'
    <2>1. Counted' = Counted
        BY <1>2 DEF Counted
    <2> QED
        BY <1>1, <1>2, <1>3, <2>1 DEF CountInv, Kept, DistinctReservations
<1> QED
    BY <1>4, <1>5, <1>6, <1>7, <1>8 DEF RelayInv

-----------------------------------------------------------------------------
(* The relay: its theorems *)

\* A relay starts without sessions.
LEMMA RelayInitInv == RelayInit => RelayInv
<1> SUFFICES ASSUME RelayInit PROVE RelayInv
    OBVIOUS
<1>1. PICK plan \in RelayPlans : req = RequestsOf(plan)
    BY DEF RelayInit
<1>2. DOMAIN req = Requests
    BY <1>1 DEF RequestsOf
<1>3. ASSUME NEW r \in Requests
      PROVE  /\ DOMAIN req[r] = {"pc", "peer", "addr", "cut", "old"}
             /\ req[r].pc \in {"absent", "unsent"} /\ req[r].peer \in RelayPeers
    BY <1>1, <1>3 DEF RequestsOf, RelayPeers
<1>4. /\ port = [r \in Requests |-> 0] /\ ports = 0 /\ sessions = {} /\ forwarding = {} /\ reservations = <<>>
      /\ active = 0 /\ client_map = [a \in ClientAddrs |-> 0] /\ loop = [r \in Requests |-> "none"]
      /\ done = [r \in Requests |-> FALSE] /\ closing = [r \in Requests |-> "no"]
    BY DEF RelayInit
<1>5. RelayType
    <2>1. \A r \in Requests : req[r].pc \in RequestPcs
        BY <1>3 DEF RequestPcs
    <2>2. <<>> \in Seq(Reservations)
        BY EmptySeq
    <2>3. loop \in [Requests -> LoopPcs] /\ closing \in [Requests -> ClosePcs] /\ done \in [Requests -> BOOLEAN]
        BY <1>4 DEF LoopPcs, ClosePcs
    <2> QED
        BY <1>2, <1>3, <1>4, <2>1, <2>2, <2>3 DEF RelayType
<1>6. TableInv /\ OneSessionPerPeer /\ LockInv
    BY <1>3, <1>4 DEF TableInv, OneSessionPerPeer, LockInv, HoldsLock
<1>7. IndexInv /\ LoopInv
    BY <1>3, <1>4 DEF IndexInv, LoopInv
<1>8. PortInv /\ DistinctReservations(reservations)
    <2>1. DOMAIN reservations = {}
        BY <1>4
    <2> QED
        BY <1>3, <1>4, <2>1 DEF PortInv, Holds, DistinctReservations
<1>9. CountInv
    <2>1. Counted = {}
        BY <1>3 DEF Counted
    <2> QED
        BY <1>4, <2>1, FS_EmptySet DEF CountInv
<1> QED
    BY <1>5, <1>6, <1>7, <1>8, <1>9 DEF RelayInv

\* Every step of the relay keeps the invariant.
LEMMA RelayNextInv == RelayInv /\ [RelayNext]_relayVars => RelayInv'
<1> SUFFICES ASSUME RelayInv, [RelayNext]_relayVars PROVE RelayInv'
    OBVIOUS
<1>1. ASSUME NEW r \in Requests, Arrive(r) \/ RequestStep(r) PROVE RelayInv'
    <2>1. CASE Arrive(r) \/ Lock(r) \/ Retired(r) \/ Capacity(r) \/ Duplicate(r)
        BY <2>1, EarlySteps
    <2>2. CASE Handover(r)
        <3>1. CASE LiveSessions(r) = {}
            BY <2>2, <3>1, EarlySteps
        <3>2. CASE \E s \in LiveSessions(r) : req' = [req EXCEPT ![r].pc = "retire", ![r].old = s]
            BY <2>2, <3>2, HandoverStep DEF Handover
        <3> QED
            BY <2>2, <3>1, <3>2 DEF Handover
    <2> QED
        BY <1>1, <2>1, <2>2, RetireStep, BindStep, InsertStep, IndexStep, RespondStep DEF RequestStep
<1>2. ASSUME NEW s \in Requests, ForwardStep(s) \/ LoopEnds(s) PROVE RelayInv'
    BY <1>2, ForwardingSteps, CloseAfterLoopStep DEF ForwardStep
<1>3. ASSUME NEW s \in Requests, CloseTask(s) PROVE RelayInv'
    BY <1>3, WaitForLoop, UnmapStep, LeaseStep, ClosedStep DEF CloseTask
<1>4. CASE UNCHANGED relayVars
    <2>1. UNCHANGED <<req, tableVars, closing>> /\ UNCHANGED <<loop, forwarding, done>>
        BY <1>4 DEF relayVars, tableVars
    <2>2. RelayType /\ LoopInv
        BY DEF RelayInv
    <2>3. LoopInv'
        BY <2>1, <2>2 DEF LoopInv
    <2> QED
        BY <2>1, <2>2, <2>3, LoopFrame DEF RelayType
<1> QED
    BY <1>1, <1>2, <1>3, <1>4, ExpireStep DEF RelayNext

\* The inductive invariant of the relay's tables.
LEMMA RelayInvHolds == RelaySpec => []RelayInv
BY RelayInitInv, RelayNextInv, PTL DEF RelaySpec

\* A running forwarding loop is the only user of its port: close_session waits for the
\* loop before it leases the socket, and a reservation is handed out once
\* (masque/relay_server.rs, close_session and reclaim_reservation).
THEOREM PortsCorrect == RelaySpec => []PortExclusive
<1>1. RelayInv => PortExclusive
    <2> SUFFICES ASSUME RelayInv, NEW s \in Requests, loop[s] = "running"
                 PROVE  /\ \A v \in ToSet(reservations) : v.port # port[s]
                        /\ \A t \in Requests \ {s} : port[t] = port[s] => closing[t] \in {"leased", "done"}
        BY DEF PortExclusive
    <2>1. RelayType /\ LoopInv /\ PortInv
        BY DEF RelayInv
    <2>2. Holds(s) /\ port[s] # 0
        BY <2>1 DEF LoopInv, PortInv, Holds
    <2>3. \A v \in ToSet(reservations) : \E i \in DOMAIN reservations : v = reservations[i]
        BY DEF ToSet
    <2>4. \A v \in ToSet(reservations) : v.port # port[s]
        BY <2>1, <2>2, <2>3 DEF PortInv
    <2>5. \A t \in Requests \ {s} : port[t] = port[s] => closing[t] \in {"leased", "done"}
        BY <2>1, <2>2 DEF PortInv, Holds
    <2> QED
        BY <2>4, <2>5
<1> QED
    BY <1>1, RelayInvHolds, PTL

\* The session table, the index by address and the counter agree, whichever of the
\* requests, loops and closes interleave (masque/relay_server.rs, handle_connect_request,
\* run_stream_forwarding_loop and close_session).
THEOREM SessionsCorrect == RelaySpec => []SessionTablesAgree
<1>1. RelayInv => SessionTablesAgree
    <2> SUFFICES ASSUME RelayInv PROVE SessionTablesAgree
        OBVIOUS
    <2>1. RelayType /\ TableInv /\ OneSessionPerPeer /\ IndexInv /\ CountInv
        BY DEF RelayInv
    <2>2. IndexedIsKnown
        <3>1. ASSUME NEW a \in ClientAddrs, client_map[a] # 0
              PROVE  client_map[a] \in sessions \/ closing[client_map[a]] \in {"removed", "waiting", "quiet"}
            <4>1. client_map[a] \in Requests /\ closing[client_map[a]] \in ClosePcs
                BY <2>1, <3>1 DEF RelayType
            <4>2. /\ req[client_map[a]].pc \in {"count", "accepted"}
                  /\ closing[client_map[a]] \notin {"unmapped", "leased", "done"}
                BY <2>1, <3>1 DEF IndexInv
            <4> QED
                BY <2>1, <4>1, <4>2 DEF TableInv, ClosePcs
        <3> QED
            BY <3>1 DEF IndexedIsKnown
    <2>3. CountedWhenQuiet
        <3>1. ASSUME InProgress = {}, \A s \in Requests : closing[s] \in {"no", "done"}
              PROVE  Counted = sessions
            <4>1. ASSUME NEW r \in Requests PROVE r \in sessions <=> r \in Counted
                <5>1. req[r].pc \in {"absent", "unsent", "accepted", "refused"}
                    BY <3>1 DEF InProgress
                <5> QED
                    BY <2>1, <3>1, <5>1 DEF TableInv, Counted
            <4> QED
                BY <2>1, <4>1 DEF RelayType, Counted
        <3> QED
            BY <2>1, <3>1 DEF CountedWhenQuiet, CountInv
    <2> QED
        BY <2>1, <2>2, <2>3 DEF SessionTablesAgree
<1> QED
    BY <1>1, RelayInvHolds, PTL

-----------------------------------------------------------------------------
(* The client: the inductive invariant *)

TaskType(t) ==
    /\ DOMAIN t = Attempts
    /\ \A a \in Attempts : /\ DOMAIN t[a] = {"pc", "server", "kind", "drops", "gen", "prev", "gone"}
                           /\ t[a].server \in RelayServers

LifecycleType ==
    /\ TaskType(task)
    /\ DOMAIN table = RelayServers
    /\ DOMAIN carrier = Attempts /\ DOMAIN tunnel = Attempts
    /\ DOMAIN inner = Attempts /\ DOMAIN teardown = Attempts
    /\ DOMAIN lifecycle = {"state", "relay"}
    /\ lifecycle.state = "None" => lifecycle.relay = 0

LifecycleInv == LifecycleType /\ RelayIsOwned

\* The future of a moves to pc; nothing else changes about who asks for what.
TaskMoved(a, pc) ==
    /\ TaskType(task')
    /\ \A b \in Attempts : /\ task'[b].server = task[b].server /\ task'[b].kind = task[b].kind
                           /\ b # a => task'[b].pc = task[b].pc
    /\ task'[a].pc = pc

\* A future goes on, and may note what happened to it.
LEMMA TaskMoves ==
    ASSUME LifecycleType, NEW a \in Attempts, NEW pc
    PROVE  /\ Goes(a, pc) => TaskMoved(a, pc)
           /\ task' = [task EXCEPT ![a].pc = pc, ![a].gone = TRUE] => TaskMoved(a, pc)
           /\ task' = [task EXCEPT ![a].gone = TRUE] => TaskMoved(a, task[a].pc)
           /\ \A gen, prev : task' = [task EXCEPT ![a].pc = pc, ![a].gen = gen, ![a].prev = prev]
                               => TaskMoved(a, pc)
<1>1. TaskType(task)
    BY DEF LifecycleType
<1>2. ASSUME NEW new, DOMAIN new = DOMAIN task[a], new.server = task[a].server, new.kind = task[a].kind,
             task' = [task EXCEPT ![a] = new]
      PROVE  TaskMoved(a, new.pc)
    <2>1. DOMAIN task' = Attempts /\ task'[a] = new /\ \A b \in Attempts : b # a => task'[b] = task[b]
        BY <1>1, <1>2 DEF TaskType
    <2>2. TaskType(task')
        BY <1>1, <1>2, <2>1 DEF TaskType
    <2> QED
        BY <1>2, <2>1, <2>2 DEF TaskMoved
<1>3. DOMAIN task[a] = {"pc", "server", "kind", "drops", "gen", "prev", "gone"}
    BY <1>1 DEF TaskType
<1>4. Goes(a, pc) => TaskMoved(a, pc)
    <2> DEFINE new == [task[a] EXCEPT !.pc = pc]
    <2>1. DOMAIN new = DOMAIN task[a] /\ new.server = task[a].server /\ new.kind = task[a].kind /\ new.pc = pc
        BY <1>3
    <2>2. Goes(a, pc) => task' = [task EXCEPT ![a] = new]
        BY DEF Goes
    <2> HIDE DEF new
    <2> QED
        BY <1>2, <2>1, <2>2
<1>5. task' = [task EXCEPT ![a].pc = pc, ![a].gone = TRUE] => TaskMoved(a, pc)
    <2> DEFINE new == [task[a] EXCEPT !.pc = pc, !.gone = TRUE]
    <2>1. DOMAIN new = DOMAIN task[a] /\ new.server = task[a].server /\ new.kind = task[a].kind /\ new.pc = pc
        BY <1>3
    <2>2. task' = [task EXCEPT ![a].pc = pc, ![a].gone = TRUE] => task' = [task EXCEPT ![a] = new]
        OBVIOUS
    <2> HIDE DEF new
    <2> QED
        BY <1>2, <2>1, <2>2
<1>6. task' = [task EXCEPT ![a].gone = TRUE] => TaskMoved(a, task[a].pc)
    <2> DEFINE new == [task[a] EXCEPT !.gone = TRUE]
    <2>1. /\ DOMAIN new = DOMAIN task[a] /\ new.server = task[a].server /\ new.kind = task[a].kind
          /\ new.pc = task[a].pc
        BY <1>3
    <2>2. task' = [task EXCEPT ![a].gone = TRUE] => task' = [task EXCEPT ![a] = new]
        OBVIOUS
    <2> HIDE DEF new
    <2> QED
        BY <1>2, <2>1, <2>2
<1>7. ASSUME NEW gen, NEW prev, task' = [task EXCEPT ![a].pc = pc, ![a].gen = gen, ![a].prev = prev]
      PROVE  TaskMoved(a, pc)
    <2> DEFINE new == [task[a] EXCEPT !.pc = pc, !.gen = gen, !.prev = prev]
    <2>1. DOMAIN new = DOMAIN task[a] /\ new.server = task[a].server /\ new.kind = task[a].kind /\ new.pc = pc
        BY <1>3
    <2>2. task' = [task EXCEPT ![a] = new]
        BY <1>7
    <2> HIDE DEF new
    <2> QED
        BY <1>2, <2>1, <2>2
<1> QED
    BY <1>4, <1>5, <1>6, <1>7

\* What an acquisition may hold, and who answers for it.
Owned(b) ==
    task[b].kind = "prepare" =>
      /\ inner[b] = "open" => Current(b) \/ At(b, "complete")
      /\ tunnel[b] = "Live" => Current(b) \/ At(b, "complete") \/ teardown[b] = "draining"
      /\ table[Server(b)] = b => \/ Current(b) \/ task[b].pc \in {"inserted", "complete"}
                                 \/ teardown[b] \in {"draining", "stopping"}

\* The table without the session of a holds no session it did not hold before.
LEMMA RemovedOnly ==
    ASSUME LifecycleType, NEW a, table' = RemovedFrom(table, a)
    PROVE  /\ DOMAIN table' = RelayServers
           /\ \A s \in RelayServers, b \in Attempts : table'[s] = b => table[s] = b /\ b # a
<1>1. \A b \in Attempts : b # 0
    BY AttemptsAssumption
<1> QED
    BY <1>1 DEF RemovedFrom

\* A step that begins no allocation's life or end, and gives nothing to a future.
LEMMA QuietStep ==
    ASSUME LifecycleInv, TaskType(task'), DOMAIN lifecycle' = {"state", "relay"}, DOMAIN table' = RelayServers,
           DOMAIN carrier' = Attempts, DOMAIN inner' = Attempts, DOMAIN tunnel' = Attempts, UNCHANGED teardown,
           lifecycle'.relay = lifecycle.relay, lifecycle'.state = "None" => lifecycle.state = "None",
           \A s \in RelayServers, b \in Attempts : table'[s] = b => table[s] = b,
           \A b \in Attempts : /\ task'[b].server = task[b].server /\ task'[b].kind = task[b].kind
                               /\ task[b].pc \in {"inserted", "complete"} => task'[b].pc = task[b].pc
                               /\ inner'[b] = "open" => inner[b] = "open"
                               /\ tunnel'[b] = "Live" => tunnel[b] = "Live"
    PROVE  LifecycleInv'
<1>1. LifecycleType /\ RelayIsOwned
    BY DEF LifecycleInv
<1>2. LifecycleType'
    BY <1>1 DEF LifecycleType
<1>3. ASSUME NEW b \in Attempts PROVE Owned(b)'
    <2>1. Owned(b)
        BY <1>1 DEF RelayIsOwned, Owned
    <2>2. Server(b)' = Server(b) /\ Server(b) \in RelayServers /\ task'[b].kind = task[b].kind
        BY <1>1 DEF Server, LifecycleType, TaskType
    <2>3. /\ Current(b) => Current(b)'
          /\ At(b, "complete") => At(b, "complete")'
          /\ task[b].pc \in {"inserted", "complete"} => task'[b].pc \in {"inserted", "complete"}
        BY DEF At, Current
    <2> QED
        BY <2>1, <2>2, <2>3 DEF Owned
<1> QED
    BY <1>2, <1>3 DEF LifecycleInv, RelayIsOwned, Owned

\* An allocation is given up: it was current, or no future holds it any more.
LEMMA BeginsTeardown ==
    ASSUME LifecycleInv, NEW r \in Attempts, TeardownBegins(r), UNCHANGED <<table, carrier>>,
           TaskType(task'), DOMAIN tunnel' = Attempts, DOMAIN lifecycle' = {"state", "relay"},
           lifecycle'.state = "None" => lifecycle'.relay = 0,
           \A b \in Attempts : /\ task'[b].server = task[b].server /\ task'[b].kind = task[b].kind
                               /\ b # r /\ task[b].pc \in {"inserted", "complete"} => task'[b].pc = task[b].pc
                               /\ tunnel'[b] = "Live" => tunnel[b] = "Live"
                               /\ b # r => ~Current(b) \/ Current(b)'
    PROVE  LifecycleInv'
<1>1. LifecycleType /\ RelayIsOwned
    BY DEF LifecycleInv
<1>2. /\ DOMAIN inner' = Attempts /\ DOMAIN teardown' = Attempts
      /\ inner'[r] = "closed" /\ teardown'[r] = "draining"
      /\ \A b \in Attempts : b # r => inner'[b] = inner[b] /\ teardown'[b] = teardown[b]
    BY <1>1 DEF TeardownBegins, LifecycleType
<1>3. LifecycleType'
    BY <1>1, <1>2 DEF LifecycleType
<1>4. ASSUME NEW b \in Attempts PROVE Owned(b)'
    <2>1. CASE b = r
        BY <1>2, <2>1 DEF Owned
    <2>2. CASE b # r
        <3>1. Owned(b)
            BY <1>1 DEF RelayIsOwned, Owned
        <3>2. task'[b].kind = task[b].kind /\ Server(b)' = Server(b) /\ table' = table
            BY DEF Server
        <3>3. /\ Current(b) => Current(b)'
              /\ At(b, "complete") => At(b, "complete")'
              /\ task[b].pc \in {"inserted", "complete"} => task'[b].pc \in {"inserted", "complete"}
            BY <2>2 DEF At
        <3>4. inner'[b] = inner[b] /\ teardown'[b] = teardown[b] /\ (tunnel'[b] = "Live" => tunnel[b] = "Live")
            BY <1>2, <2>2
        <3> QED
            BY <3>1, <3>2, <3>3, <3>4 DEF Owned
    <2> QED
        BY <2>1, <2>2
<1> QED
    BY <1>3, <1>4 DEF LifecycleInv, RelayIsOwned, Owned

\* What r held is released at once, or is not there.
LEMMA ReleasesAll ==
    ASSUME LifecycleInv, NEW r, table' = RemovedFrom(table, r), DOMAIN carrier' = Attempts,
           DOMAIN inner' = Attempts, DOMAIN tunnel' = Attempts, DOMAIN teardown' = Attempts,
           TaskType(task'), UNCHANGED lifecycle,
           \A b \in Attempts : /\ task'[b].server = task[b].server /\ task'[b].kind = task[b].kind
                               /\ b # r => /\ inner'[b] = inner[b] /\ tunnel'[b] = tunnel[b]
                                           /\ teardown'[b] = teardown[b]
                                           /\ task[b].pc \in {"inserted", "complete"} => task'[b].pc = task[b].pc,
           r \in Attempts /\ task[r].kind = "prepare" =>
             /\ inner'[r] = "open" => Current(r) \/ At(r, "complete")'
             /\ tunnel'[r] = "Live" => Current(r) \/ At(r, "complete")' \/ teardown'[r] = "draining"
    PROVE  LifecycleInv'
<1>1. LifecycleType /\ RelayIsOwned
    BY DEF LifecycleInv
<1>2. /\ DOMAIN table' = RelayServers
      /\ \A s \in RelayServers, b \in Attempts : table'[s] = b => table[s] = b /\ b # r
    BY <1>1, RemovedOnly
<1>3. LifecycleType'
    BY <1>1, <1>2 DEF LifecycleType
<1>4. ASSUME NEW b \in Attempts PROVE Owned(b)'
    <2>1. Server(b)' = Server(b) /\ Server(b) \in RelayServers /\ task'[b].kind = task[b].kind
        BY <1>1 DEF Server, LifecycleType, TaskType
    <2>2. Current(b)' <=> Current(b)
        BY DEF Current
    <2>3. CASE b = r
        BY <1>2, <2>1, <2>2, <2>3 DEF Owned
    <2>4. CASE b # r
        <3>1. Owned(b)
            BY <1>1 DEF RelayIsOwned, Owned
        <3>2. /\ At(b, "complete") => At(b, "complete")'
              /\ task[b].pc \in {"inserted", "complete"} => task'[b].pc \in {"inserted", "complete"}
            BY <2>4 DEF At
        <3>3. inner'[b] = inner[b] /\ teardown'[b] = teardown[b] /\ tunnel'[b] = tunnel[b]
            BY <2>4
        <3>4. table'[Server(b)] = b => table[Server(b)] = b
            BY <1>2, <2>1
        <3> QED
            BY <2>1, <2>2, <3>1, <3>2, <3>3, <3>4 DEF Owned
    <2> QED
        BY <2>3, <2>4
<1> QED
    BY <1>3, <1>4 DEF LifecycleInv, RelayIsOwned, Owned

-----------------------------------------------------------------------------
(* The client: its steps *)

\* Steps of a future that neither takes nor gives.
LEMMA FutureGoesOn ==
    ASSUME LifecycleInv, NEW a \in Attempts,
           \/ Superseded(a) \/ BeginDial(a) \/ Dial(a) \/ Reuse(a) \/ Publish(a)
           \/ BeginPrepare(a) /\ lifecycle.state = "Shutdown"
    PROVE  LifecycleInv'
<1>1. LifecycleType
    BY DEF LifecycleInv
<1>2. PICK pc : Goes(a, pc) /\ task[a].pc \in {"supersede", "unsent", "acquire", "prepared"}
    BY DEF Superseded, BeginDial, Dial, Reuse, Publish, BeginPrepare, At
<1>3. TaskMoved(a, pc)
    BY <1>1, <1>2, TaskMoves
<1>4. /\ TaskType(task')
      /\ \A b \in Attempts : /\ task'[b].server = task[b].server /\ task'[b].kind = task[b].kind
                             /\ task[b].pc \in {"inserted", "complete"} => task'[b].pc = task[b].pc
    BY <1>2, <1>3 DEF TaskMoved
<1>5. UNCHANGED <<tunnel, inner, teardown>>
    BY DEF Superseded, BeginDial, Dial, Reuse, Publish, BeginPrepare, resources
<1>6. /\ lifecycle'.relay = lifecycle.relay /\ DOMAIN lifecycle' = {"state", "relay"}
      /\ lifecycle'.state = "None" => lifecycle.state = "None"
    BY <1>1 DEF Superseded, BeginDial, Dial, Reuse, Publish, BeginPrepare, LifecycleType
<1>7. /\ DOMAIN table' = RelayServers /\ DOMAIN carrier' = Attempts
      /\ \A s \in RelayServers, b \in Attempts : table'[s] = b => table[s] = b
    <2>1. CASE Reuse(a) /\ task[a].kind # "dial"
        <3>1. RemoveOwned(table[Server(a)])
            BY <2>1 DEF Reuse
        <3>2. table' = RemovedFrom(table, table[Server(a)]) /\ DOMAIN carrier' = Attempts
            BY <1>1, <3>1 DEF RemoveOwned, LifecycleType
        <3> QED
            BY <1>1, <3>2, RemovedOnly
    <2>2. CASE UNCHANGED <<table, carrier>>
        BY <1>1, <2>2 DEF LifecycleType
    <2> QED
        BY <2>1, <2>2 DEF Superseded, BeginDial, Dial, Reuse, Publish, BeginPrepare, resources
<1> QED
    BY <1>1, <1>4, <1>5, <1>6, <1>7, QuietStep DEF LifecycleType

\* An allocation that was current, if any, is given up by the actor.
LEMMA ActorGivesUp ==
    ASSUME LifecycleInv, TaskType(task'), DOMAIN tunnel' = Attempts, UNCHANGED <<table, carrier>>,
           lifecycle'.relay = 0, DOMAIN lifecycle' = {"state", "relay"},
           (lifecycle.relay = 0 /\ UNCHANGED <<inner, teardown>>) \/ TeardownBegins(lifecycle.relay),
           \A b \in Attempts : /\ task'[b].server = task[b].server /\ task'[b].kind = task[b].kind
                               /\ task[b].pc \in {"inserted", "complete"} => task'[b].pc = task[b].pc
                               /\ tunnel'[b] = "Live" => tunnel[b] = "Live"
    PROVE  LifecycleInv'
<1>1. LifecycleType
    BY DEF LifecycleInv
<1>2. \A b \in Attempts : b # 0
    BY AttemptsAssumption
<1>3. CASE lifecycle.relay \in Attempts
    <2> DEFINE r == lifecycle.relay
    <2>1. TeardownBegins(r)
        BY <1>2, <1>3
    <2>2. \A b \in Attempts : b # r => ~Current(b) \/ Current(b)'
        BY DEF Current
    <2> QED
        BY <1>3, <2>1, <2>2, BeginsTeardown
<1>4. CASE lifecycle.relay \notin Attempts
    <2>1. /\ DOMAIN inner' = Attempts /\ DOMAIN teardown' = Attempts
          /\ \A b \in Attempts : inner'[b] = inner[b] /\ teardown'[b] = teardown[b]
        BY <1>1, <1>4 DEF TeardownBegins, LifecycleType
    <2>2. \A b \in Attempts : ~Current(b)
        BY <1>4 DEF Current
    <2>3. LifecycleType'
        BY <1>1, <2>1 DEF LifecycleType
    <2>4. ASSUME NEW b \in Attempts PROVE Owned(b)'
        <3>1. Owned(b)
            BY DEF LifecycleInv, RelayIsOwned, Owned
        <3> QED
            BY <2>1, <2>2, <3>1 DEF Owned, At, Server
    <2> QED
        BY <2>3, <2>4 DEF LifecycleInv, RelayIsOwned, Owned
<1> QED
    BY <1>3, <1>4

\* begin_prepare supersedes the current allocation, and Shutdown gives it up.
LEMMA GivesUpSteps ==
    ASSUME LifecycleInv, Shutdown \/ \E a \in Attempts : BeginPrepare(a) /\ lifecycle.state # "Shutdown"
    PROVE  LifecycleInv'
<1>1. LifecycleType
    BY DEF LifecycleInv
<1>2. CASE Shutdown
    <2>1. /\ UNCHANGED <<task, table, carrier, tunnel>> /\ lifecycle' = [state |-> "Shutdown", relay |-> 0]
          /\ IF lifecycle.relay = 0 THEN UNCHANGED <<inner, teardown>> ELSE TeardownBegins(lifecycle.relay)
        BY <1>2 DEF Shutdown
    <2>2. lifecycle'.relay = 0 /\ DOMAIN lifecycle' = {"state", "relay"}
        BY <2>1
    <2> QED
        BY <1>1, <2>1, <2>2, ActorGivesUp DEF LifecycleType
<1>3. ASSUME NEW a \in Attempts, BeginPrepare(a), lifecycle.state # "Shutdown"
      PROVE  LifecycleInv'
    <2>1. /\ UNCHANGED <<table, carrier, tunnel>> /\ lifecycle' = [state |-> "None", relay |-> 0]
          /\ IF lifecycle.relay = 0 THEN UNCHANGED <<inner, teardown>> ELSE TeardownBegins(lifecycle.relay)
          /\ task' = [task EXCEPT ![a].pc = IF lifecycle.relay = 0 THEN "acquire" ELSE "supersede",
                                  ![a].gen = generation + 1, ![a].prev = lifecycle.relay]
        BY <1>3 DEF BeginPrepare
    <2>2. task[a].pc = "unsent"
        BY <1>3 DEF BeginPrepare, At
    <2>3. TaskMoved(a, IF lifecycle.relay = 0 THEN "acquire" ELSE "supersede")
        BY <1>1, <2>1, TaskMoves
    <2>4. /\ TaskType(task')
          /\ \A b \in Attempts : /\ task'[b].server = task[b].server /\ task'[b].kind = task[b].kind
                                 /\ task[b].pc \in {"inserted", "complete"} => task'[b].pc = task[b].pc
        BY <2>2, <2>3 DEF TaskMoved
    <2>5. lifecycle'.relay = 0 /\ DOMAIN lifecycle' = {"state", "relay"}
        BY <2>1
    <2> QED
        BY <1>1, <2>1, <2>4, <2>5, ActorGivesUp DEF LifecycleType
<1> QED
    BY <1>2, <1>3

\* take_matching, for a caller that has judged the allocation.
LEMMA TakeSteps ==
    ASSUME LifecycleInv, MonitorAborts \/ \E a \in Attempts : Abort(a)
    PROVE  LifecycleInv'
<1>1. LifecycleType
    BY DEF LifecycleInv
<1>2. PICK a : /\ Take(a) /\ UNCHANGED <<table, carrier>>
               /\ tunnel' = tunnel \/ (Current(a) /\ tunnel' = [tunnel EXCEPT ![a] = Settled(a, "Failed")])
    BY DEF MonitorAborts, Abort
<1>3. DOMAIN tunnel' = Attempts /\ \A b \in Attempts : tunnel'[b] = "Live" => tunnel[b] = "Live"
    BY <1>1, <1>2 DEF LifecycleType, Settled
<1>4. /\ TaskType(task')
      /\ \A b \in Attempts : /\ task'[b].server = task[b].server /\ task'[b].kind = task[b].kind
                             /\ task[b].pc \in {"inserted", "complete"} => task'[b].pc = task[b].pc
    <2>1. CASE MonitorAborts
        BY <1>1, <2>1 DEF MonitorAborts, LifecycleType
    <2>2. ASSUME NEW b \in Attempts, Abort(b)
          PROVE  TaskMoved(b, "aborted") /\ task[b].pc \in {"prepared", "rejected", "published"}
        BY <1>1, <2>2, TaskMoves DEF Abort
    <2> QED
        BY <2>1, <2>2 DEF TaskMoved
<1>5. CASE Current(a)
    <2>1. a = lifecycle.relay /\ TeardownBegins(a) /\ lifecycle' = [state |-> "None", relay |-> 0]
        BY <1>2, <1>5 DEF Take, Current
    <2>2. lifecycle'.relay = 0 /\ DOMAIN lifecycle' = {"state", "relay"}
        BY <2>1
    <2> QED
        BY <1>2, <1>3, <1>4, <2>1, <2>2, ActorGivesUp
<1>6. CASE ~Current(a)
    <2>1. UNCHANGED <<lifecycle, inner, teardown>>
        BY <1>2, <1>6 DEF Take
    <2> QED
        BY <1>1, <1>2, <1>3, <1>4, <2>1, QuietStep DEF LifecycleType
<1> QED
    BY <1>5, <1>6

\* A future gets its session, and builds its allocation.
LEMMA BuildSteps ==
    ASSUME LifecycleInv, NEW a \in Attempts, Connected(a) \/ Build(a)
    PROVE  LifecycleInv'
<1>1. LifecycleType /\ RelayIsOwned
    BY DEF LifecycleInv
<1>2. \A b \in Attempts : Server(b) \in RelayServers
    BY <1>1 DEF LifecycleType, TaskType, Server
<1>3. CASE Connected(a) /\ Goes(a, "failed")
    <2>1. UNCHANGED <<table, tunnel, inner, teardown, lifecycle>> /\ DOMAIN carrier' = Attempts /\ task[a].pc = "dialing"
        <3>1. /\ TaskMoved(a, "failed") /\ (Goes(a, "dialled") => TaskMoved(a, "dialled"))
              /\ (Goes(a, "inserted") => TaskMoved(a, "inserted"))
            BY <1>1, <1>3, TaskMoves
        <3>2. ~Goes(a, "dialled") /\ ~Goes(a, "inserted")
            BY <3>1 DEF TaskMoved
        <3> QED
            BY <1>1, <1>3, <3>2 DEF Connected, At, LifecycleType
    <2>2. TaskMoved(a, "failed")
        BY <1>1, <1>3, TaskMoves
    <2>3. /\ TaskType(task')
          /\ \A b \in Attempts : /\ task'[b].server = task[b].server /\ task'[b].kind = task[b].kind
                                 /\ task[b].pc \in {"inserted", "complete"} => task'[b].pc = task[b].pc
        BY <2>1, <2>2 DEF TaskMoved
    <2> QED
        BY <1>1, <2>1, <2>3, QuietStep DEF LifecycleType
<1>4. CASE Connected(a) /\ ~Goes(a, "failed")
    <2>1. /\ table' = [table EXCEPT ![Server(a)] = a] /\ carrier' = [carrier EXCEPT ![a] = "open"]
          /\ UNCHANGED <<inner, teardown, lifecycle>> /\ task[a].pc = "dialing"
        BY <1>4 DEF Connected, At
    <2>2. PICK pc : /\ Goes(a, pc)
                    /\ (task[a].kind = "dial" /\ pc = "dialled" /\ tunnel' = [tunnel EXCEPT ![a] = "Live"])
                       \/ (task[a].kind # "dial" /\ pc = "inserted" /\ tunnel' = tunnel)
        BY <1>4 DEF Connected
    <2>3. TaskMoved(a, pc)
        BY <1>1, <2>2, TaskMoves
    <2>4. LifecycleType'
        BY <1>1, <2>1, <2>2, <2>3 DEF LifecycleType, TaskMoved
    <2>5. ASSUME NEW b \in Attempts PROVE Owned(b)'
        <3>1. Owned(b)
            BY <1>1 DEF RelayIsOwned, Owned
        <3>2. Server(b)' = Server(b) /\ task'[b].kind = task[b].kind /\ (Current(b)' <=> Current(b))
            BY <2>1, <2>3 DEF TaskMoved, Server, Current
        <3>3. CASE b = a
            <4>1. table'[Server(b)] = b /\ task[b].pc = "dialing" /\ task'[b].pc = pc
                BY <1>1, <1>2, <2>1, <2>3, <3>3 DEF LifecycleType, TaskMoved
            <4>2. task[b].kind = "prepare" => pc = "inserted" /\ tunnel' = tunnel
                BY <2>2, <3>3
            <4> QED
                BY <2>1, <3>1, <3>2, <4>1, <4>2 DEF Owned, At
        <3>4. CASE b # a
            <4>1. table'[Server(b)] = b => table[Server(b)] = b
                BY <1>1, <1>2, <2>1, <3>4 DEF LifecycleType
            <4>2. tunnel'[b] = tunnel[b] /\ task'[b].pc = task[b].pc
                BY <1>1, <2>2, <2>3, <3>4 DEF LifecycleType, TaskMoved
            <4> QED
                BY <2>1, <3>1, <3>2, <4>1, <4>2 DEF Owned, At
        <3> QED
            BY <3>3, <3>4
    <2> QED
        BY <2>4, <2>5 DEF LifecycleInv, RelayIsOwned, Owned
<1>5. CASE Build(a) /\ Goes(a, "complete")
    <2>1. TaskMoved(a, "complete") /\ task[a].pc = "inserted"
        BY <1>1, <1>5, TaskMoves DEF Build, At
    <2>2. ~Goes(a, "failed")
        <3>1. Goes(a, "failed") => TaskMoved(a, "failed")
            BY <1>1, TaskMoves
        <3> QED
            BY <2>1, <3>1 DEF TaskMoved
    <2>3. /\ tunnel' = [tunnel EXCEPT ![a] = "Live"] /\ inner' = [inner EXCEPT ![a] = "open"]
          /\ UNCHANGED <<table, carrier, teardown, lifecycle>>
        BY <1>5, <2>2 DEF Build
    <2>4. LifecycleType'
        BY <1>1, <2>1, <2>3 DEF LifecycleType, TaskMoved
    <2>5. ASSUME NEW b \in Attempts PROVE Owned(b)'
        <3>1. Owned(b)
            BY <1>1 DEF RelayIsOwned, Owned
        <3>2. CASE b = a
            BY <2>1, <3>2 DEF Owned, At, TaskMoved
        <3>3. CASE b # a
            <4>1. tunnel'[b] = tunnel[b] /\ inner'[b] = inner[b]
                BY <1>1, <2>3, <3>3 DEF LifecycleType
            <4> QED
                BY <2>1, <2>3, <3>1, <3>3, <4>1 DEF Owned, At, Current, Server, TaskMoved
        <3> QED
            BY <3>2, <3>3
    <2> QED
        BY <2>4, <2>5 DEF LifecycleInv, RelayIsOwned, Owned
<1>6. CASE Build(a) /\ ~Goes(a, "complete")
    <2>1. /\ Goes(a, "failed") /\ tunnel' = [tunnel EXCEPT ![a] = "ShutdownRequested"] /\ SessionClosed(a)
          /\ UNCHANGED <<inner, teardown, lifecycle>> /\ task[a].pc = "inserted"
        BY <1>6 DEF Build, At
    <2>2. TaskMoved(a, "failed")
        BY <1>1, <2>1, TaskMoves
    <2>3. table' = RemovedFrom(table, a) /\ DOMAIN carrier' = Attempts
        BY <1>1, <2>1 DEF SessionClosed, LifecycleType
    <2>4. /\ DOMAIN tunnel' = Attempts /\ tunnel'[a] = "ShutdownRequested"
          /\ \A b \in Attempts : b # a => tunnel'[b] = tunnel[b]
        BY <1>1, <2>1 DEF LifecycleType
    <2>5. /\ TaskType(task')
          /\ \A b \in Attempts : /\ task'[b].server = task[b].server /\ task'[b].kind = task[b].kind
                                 /\ b # a => task'[b].pc = task[b].pc
        BY <2>2 DEF TaskMoved
    <2>6. task[a].kind = "prepare" /\ inner'[a] = "open" => Current(a)
        BY <1>1, <2>1 DEF RelayIsOwned, At
    <2> QED
        BY <1>1, <2>1, <2>3, <2>4, <2>5, <2>6, ReleasesAll DEF LifecycleType
<1> QED
    BY <1>3, <1>4, <1>5, <1>6

\* The actor takes the allocation, or gives it back.
LEMMA CompleteStep ==
    ASSUME LifecycleInv, NEW a \in Attempts, CompletePrepare(a)
    PROVE  LifecycleInv'
<1>1. LifecycleType /\ RelayIsOwned
    BY DEF LifecycleInv
<1>2. task[a].pc = "complete"
    BY DEF CompletePrepare, At
<1>3. CASE IsCurrentAcquisition(a)
    <2>1. PICK pc : Goes(a, pc)
        BY <1>3 DEF CompletePrepare
    <2>2. TaskMoved(a, pc)
        BY <1>1, <2>1, TaskMoves
    <2>3. lifecycle' = [state |-> "Provisional", relay |-> a] /\ UNCHANGED resources
        BY <1>3 DEF CompletePrepare
    <2>4. lifecycle'.relay = a /\ lifecycle'.state # "None" /\ DOMAIN lifecycle' = {"state", "relay"}
        BY <2>3
    <2>5. \A b \in Attempts : ~Current(b)
        BY <1>1, <1>3, AttemptsAssumption DEF IsCurrentAcquisition, LifecycleType, Current
    <2>6. LifecycleType'
        BY <1>1, <2>2, <2>3, <2>4 DEF LifecycleType, TaskMoved, resources
    <2>7. ASSUME NEW b \in Attempts PROVE Owned(b)'
        <3>1. Owned(b)
            BY <1>1 DEF RelayIsOwned, Owned
        <3>2. CASE b = a
            BY <2>4, <3>2 DEF Owned, Current
        <3>3. CASE b # a
            <4>1. /\ task'[b].pc = task[b].pc /\ task'[b].kind = task[b].kind /\ Server(b)' = Server(b)
                  /\ UNCHANGED <<table, tunnel, inner, teardown>>
                BY <2>2, <2>3, <3>3 DEF TaskMoved, Server, resources
            <4> QED
                BY <2>5, <3>1, <4>1 DEF Owned, At
        <3> QED
            BY <3>2, <3>3
    <2> QED
        BY <2>6, <2>7 DEF LifecycleInv, RelayIsOwned, Owned
<1>4. CASE ~IsCurrentAcquisition(a)
    <2>1. Goes(a, "stale") /\ UNCHANGED lifecycle
        BY <1>4 DEF CompletePrepare
    <2>2. TaskMoved(a, "stale")
        BY <1>1, <2>1, TaskMoves
    <2>3. /\ TaskType(task')
          /\ \A b \in Attempts : /\ task'[b].server = task[b].server /\ task'[b].kind = task[b].kind
                                 /\ b # a => task'[b].pc = task[b].pc
        BY <2>2 DEF TaskMoved
    <2>4. CASE ForceCleanup(a)
        <3>1. /\ table' = RemovedFrom(table, a)
              /\ DOMAIN carrier' = Attempts /\ DOMAIN inner' = Attempts
              /\ DOMAIN tunnel' = Attempts /\ DOMAIN teardown' = Attempts
              /\ inner'[a] # "open" /\ tunnel'[a] # "Live"
              /\ \A b \in Attempts : b # a => /\ inner'[b] = inner[b] /\ tunnel'[b] = tunnel[b]
                                              /\ teardown'[b] = teardown[b]
            BY <1>1, <2>4 DEF ForceCleanup, SessionClosed, Settled, LifecycleType
        <3> QED
            BY <2>1, <2>3, <3>1, ReleasesAll
    <2>5. CASE TeardownBegins(a) /\ UNCHANGED <<table, carrier, tunnel>>
        <3>1. \A b \in Attempts : Current(b)' <=> Current(b)
            BY <2>1 DEF Current
        <3> QED
            BY <1>1, <2>1, <2>3, <2>5, <3>1, BeginsTeardown DEF LifecycleType
    <2> QED
        BY <1>4, <2>4, <2>5 DEF CompletePrepare
<1> QED
    BY <1>3, <1>4

\* A future is dropped at an await.
LEMMA DroppedStep ==
    ASSUME LifecycleInv, NEW a \in Attempts, Dropped(a)
    PROVE  LifecycleInv'
<1>1. LifecycleType /\ RelayIsOwned
    BY DEF LifecycleInv
<1>2. PICK pc : TaskMoved(a, pc) /\ (task[a].pc = "complete" => pc = "complete")
    BY <1>1, TaskMoves DEF Dropped, At
<1>3. UNCHANGED lifecycle
    BY DEF Dropped
<1>4. /\ TaskType(task')
      /\ \A b \in Attempts : /\ task'[b].server = task[b].server /\ task'[b].kind = task[b].kind
                             /\ b # a => task'[b].pc = task[b].pc
                             /\ task[b].pc = "complete" => task'[b].pc = "complete"
    BY <1>2 DEF TaskMoved
<1>5. CASE task[a].pc # "inserted" /\ UNCHANGED resources
    BY <1>1, <1>3, <1>4, <1>5, QuietStep DEF LifecycleType, resources
<1>6. CASE task[a].pc = "inserted" /\ task[a].kind = "prepare" /\ SessionClosed(a) /\ UNCHANGED <<tunnel, inner, teardown>>
    <2>1. table' = RemovedFrom(table, a) /\ DOMAIN carrier' = Attempts
        BY <1>1, <1>6 DEF SessionClosed, LifecycleType
    <2>2. /\ inner'[a] = "open" => Current(a)
          /\ tunnel'[a] = "Live" => Current(a) \/ teardown'[a] = "draining"
        BY <1>1, <1>6 DEF RelayIsOwned, At
    <2> QED
        BY <1>1, <1>3, <1>4, <1>6, <2>1, <2>2, ReleasesAll DEF LifecycleType
<1>7. CASE task[a].pc \in {"supersede", "stale"} /\ \E r : ForceCleanup(r)
    <2>1. PICK r : ForceCleanup(r)
        BY <1>7
    <2>2. /\ table' = RemovedFrom(table, r)
          /\ DOMAIN carrier' = Attempts /\ DOMAIN inner' = Attempts
          /\ DOMAIN tunnel' = Attempts /\ DOMAIN teardown' = Attempts
          /\ r \in Attempts => inner'[r] # "open" /\ tunnel'[r] # "Live"
          /\ \A b \in Attempts : b # r => /\ inner'[b] = inner[b] /\ tunnel'[b] = tunnel[b]
                                          /\ teardown'[b] = teardown[b]
        BY <1>1, <2>1 DEF ForceCleanup, SessionClosed, Settled, LifecycleType
    <2>3. \A b \in Attempts : task[b].pc \in {"inserted", "complete"} => task'[b].pc = task[b].pc
        BY <1>4, <1>7
    <2> QED
        BY <1>3, <1>4, <2>2, <2>3, ReleasesAll
<1> QED
    BY <1>5, <1>6, <1>7, SMTT(30) DEF Dropped, At

\* A teardown goes on.
LEMMA TeardownSteps ==
    ASSUME LifecycleInv, NEW a \in Attempts, TeardownStep(a)
    PROVE  LifecycleInv'
<1>1. LifecycleType /\ RelayIsOwned
    BY DEF LifecycleInv
<1>2. CASE TunnelShutdown(a)
    <2>1. /\ DOMAIN tunnel' = Attempts /\ DOMAIN teardown' = Attempts
          /\ tunnel'[a] # "Live" /\ teardown[a] = "draining" /\ teardown'[a] = "stopping"
          /\ \A b \in Attempts : b # a => tunnel'[b] = tunnel[b] /\ teardown'[b] = teardown[b]
          /\ UNCHANGED <<task, table, carrier, inner, lifecycle>>
        BY <1>1, <1>2 DEF TunnelShutdown, Settled, LifecycleType
    <2>2. LifecycleType'
        BY <1>1, <2>1 DEF LifecycleType
    <2>3. ASSUME NEW b \in Attempts PROVE Owned(b)'
        <3>1. Owned(b)
            BY <1>1 DEF RelayIsOwned, Owned
        <3>2. CASE b = a
            BY <2>1, <3>1, <3>2 DEF Owned, At, Server, Current
        <3>3. CASE b # a
            BY <2>1, <3>1, <3>3 DEF Owned, At, Server, Current
        <3> QED
            BY <3>2, <3>3
    <2> QED
        BY <2>2, <2>3 DEF LifecycleInv, RelayIsOwned, Owned
<1>3. CASE TeardownEnds(a)
    <2>1. /\ DOMAIN teardown' = Attempts /\ DOMAIN carrier' = Attempts /\ teardown[a] = "stopping"
          /\ table' = RemovedFrom(table, a)
          /\ \A b \in Attempts : b # a => teardown'[b] = teardown[b]
          /\ UNCHANGED <<task, tunnel, inner, lifecycle>>
        BY <1>1, <1>3 DEF TeardownEnds, SessionClosed, LifecycleType
    <2>2. task[a].kind = "prepare" => /\ inner'[a] = "open" => Current(a) \/ At(a, "complete")'
                                      /\ tunnel'[a] = "Live" => Current(a) \/ At(a, "complete")'
        BY <1>1, <2>1 DEF RelayIsOwned, At
    <2> QED
        BY <1>1, <2>1, <2>2, ReleasesAll DEF LifecycleType
<1> QED
    BY <1>2, <1>3 DEF TeardownStep

\* Carriers and tunnels die, and the monitor looks on.
LEMMA DyingSteps ==
    ASSUME LifecycleInv,
           \/ MonitorAnnounces \/ MonitorFinds \/ UNCHANGED lifecycleVars
           \/ \E a \in Attempts : CarrierDies(a) \/ TunnelDies(a) \/ WatcherCloses(a)
    PROVE  LifecycleInv'
<1>1. LifecycleType
    BY DEF LifecycleInv
<1>2. UNCHANGED <<task, table, teardown, lifecycle>>
    BY DEF MonitorAnnounces, MonitorFinds, lifecycleVars, resources, CarrierDies, TunnelDies, WatcherCloses
<1>3. DOMAIN carrier' = Attempts /\ DOMAIN inner' = Attempts /\ DOMAIN tunnel' = Attempts
    BY <1>1 DEF MonitorAnnounces, MonitorFinds, lifecycleVars, resources, CarrierDies, TunnelDies, WatcherCloses,
                LifecycleType
<1>4. \A b \in Attempts : (inner'[b] = "open" => inner[b] = "open") /\ (tunnel'[b] = "Live" => tunnel[b] = "Live")
    BY <1>1 DEF MonitorAnnounces, MonitorFinds, lifecycleVars, resources, CarrierDies, TunnelDies, WatcherCloses,
                LifecycleType
<1> QED
    BY <1>1, <1>2, <1>3, <1>4, QuietStep DEF LifecycleType

-----------------------------------------------------------------------------
(* The client: its theorem *)

\* No acquisition has begun.
LEMMA LifecycleInitInv == LifecycleInit => LifecycleInv
<1> SUFFICES ASSUME LifecycleInit PROVE LifecycleInv
    OBVIOUS
<1>1. PICK plan \in LifecyclePlans : task = AttemptsOf(plan)
    BY DEF LifecycleInit
<1>2. DOMAIN task = Attempts
    BY <1>1 DEF AttemptsOf
<1>3. ASSUME NEW a \in Attempts
      PROVE  /\ DOMAIN task[a] = {"pc", "server", "kind", "drops", "gen", "prev", "gone"}
             /\ task[a].server \in RelayServers
    <2>1. (CHOOSE s \in RelayServers : TRUE) \in RelayServers
        BY AttemptsAssumption
    <2>2. Len(plan) \in Nat /\ (a <= Len(plan) => plan[a].server \in RelayServers)
        <3> DEFINE Plan == [server : RelayServers, kind : {"prepare", "dial"}, drops : BOOLEAN]
        <3>1. plan \in Seq(Plan) /\ a \in Nat /\ a # 0
            BY AttemptsAssumption
        <3>2. Len(plan) \in Nat /\ \A i \in 1 .. Len(plan) : plan[i] \in Plan
            BY <3>1, LenProperties, ElementOfSeq
        <3>3. \A p \in Plan : p.server \in RelayServers
            OBVIOUS
        <3> QED
            BY <3>1, <3>2, <3>3
    <2>3. ~(a > Len(plan)) => a <= Len(plan)
        BY <2>2, AttemptsAssumption
    <2> QED
        BY <1>1, <2>1, <2>2, <2>3 DEF AttemptsOf
<1>4. LifecycleType
    BY <1>2, <1>3 DEF LifecycleType, TaskType, LifecycleInit
<1>5. RelayIsOwned
    <2>1. ASSUME NEW a \in Attempts PROVE inner[a] = "none" /\ tunnel[a] = "none" /\ table[Server(a)] = 0 /\ a # 0
        BY <1>3, AttemptsAssumption DEF LifecycleInit, Server
    <2> QED
        BY <2>1 DEF RelayIsOwned
<1> QED
    BY <1>4, <1>5 DEF LifecycleInv

\* Every step of the client keeps the invariant.
LEMMA LifecycleNextInv == LifecycleInv /\ [LifecycleNext]_lifecycleVars => LifecycleInv'
<1> SUFFICES ASSUME LifecycleInv, [LifecycleNext]_lifecycleVars PROVE LifecycleInv'
    OBVIOUS
<1>1. ASSUME NEW a \in Attempts, BeginPrepare(a) PROVE LifecycleInv'
    BY <1>1, FutureGoesOn, GivesUpSteps
<1>2. ASSUME NEW a \in Attempts, BeginDial(a) \/ AttemptStep(a) \/ Dropped(a) \/ Publish(a) PROVE LifecycleInv'
    BY <1>2, FutureGoesOn, BuildSteps, CompleteStep, DroppedStep DEF AttemptStep
<1>3. ASSUME NEW a \in Attempts, Abort(a) \/ TeardownStep(a) \/ CarrierDies(a) \/ TunnelDies(a) \/ WatcherCloses(a)
      PROVE  LifecycleInv'
    BY <1>3, TakeSteps, TeardownSteps, DyingSteps
<1>4. CASE Monitor \/ Shutdown \/ UNCHANGED lifecycleVars
    BY <1>4, DyingSteps, TakeSteps, GivesUpSteps DEF Monitor
<1> QED
    BY <1>1, <1>2, <1>3, <1>4 DEF LifecycleNext

\* Whatever an acquisition of a relay holds has an owner that will release it, wherever
\* its future is dropped and whoever supersedes, judges or takes its allocation
\* (nat_traversal_api.rs, ProactiveRelay, RelaySessionOwner and RelayLifecycleHandle).
THEOREM AllocationsOwned == LifecycleSpec => []RelayIsOwned
<1>1. LifecycleInv => RelayIsOwned
    BY DEF LifecycleInv
<1> QED
    BY <1>1, LifecycleInitInv, LifecycleNextInv, PTL DEF LifecycleSpec

=============================================================================
