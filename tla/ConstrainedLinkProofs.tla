----------------------- MODULE ConstrainedLinkProofs ------------------------
(***************************************************************************)
(* Proofs about constrained connections: their keepalives                  *)
(* (ConstrainedKeepalive), for all timeouts, transit times and poll        *)
(* intervals, the transport that carries their packets                     *)
(* (ConstrainedTransport), for all addresses and buffer sizes, and the     *)
(* engines that keep them (ConstrainedEngine), for all networks, windows   *)
(* and sequence spaces.                                                    *)
(***************************************************************************)
EXTENDS ConstrainedKeepalive, ConstrainedTransport, ConstrainedEngine, SequenceTheorems,
        WellFoundedInduction, TLAPS

-----------------------------------------------------------------------------
(* Keepalives: the inductive invariant *)

\* What should_ping measures.
Silence(e) == IF last_ping[e] = NoPing THEN idle[e] ELSE last_ping[e]

KeepType ==
    /\ idle \in [Ends -> 0 .. Horizon]
    /\ last_ping \in [Ends -> 0 .. NoPing]
    /\ unpolled \in [Ends -> 0 .. PollGap]
    /\ timed_out \in [Ends -> {"no", "state", "idle"}]
    /\ alive_net \in SUBSET [to : Ends, kind : {"PING", "PONG", "DATA"}, age : 0 .. Delay]

\* A ping follows the poll at which it was due.
PingPaced == \A e \in Ends : Established(e) => Silence(e) <= Keepalive + unpolled[e]

\* Data under way is the activity of its sender.
DataFresh ==
    \A p \in alive_net : p.kind = "DATA" /\ Established(Peer(p.to)) => idle[Peer(p.to)] <= p.age

\* An end that has not pinged is not answered.
AnswersPing ==
    \A e \in Ends : last_ping[e] = NoPing =>
        \A p \in alive_net : ~(p.to = Peer(e) /\ p.kind = "PING") /\ ~(p.to = e /\ p.kind = "PONG")

\* Something is under way to an end that has been silent for too long: else its silence
\* is bounded by the clock its peer measures.
HeardOf(e) ==
    LET f == Peer(e) IN
    \/ \E p \in alive_net : p.to = e /\ idle[e] <= Keepalive + PollGap + Delay + p.age
    \/ last_ping[f] # NoPing /\ idle[e] <= last_ping[f]
    \/ last_ping[f] = NoPing /\ idle[e] <= idle[f] + Delay

Heard == \A e \in Ends : Established(e) /\ Established(Peer(e)) => HeardOf(e)

KeepInv ==
    /\ KeepType
    /\ PingPaced
    /\ DataFresh
    /\ AnswersPing
    /\ Heard
    /\ KeptAlive

-----------------------------------------------------------------------------
(* Keepalives: the inductive step *)

\* Each end is the other's peer.
LEMMA PeerFacts ==
    \A e \in Ends : Peer(e) \in Ends /\ Peer(e) # e /\ Peer(Peer(e)) = e /\ \A f \in Ends : f # e => f = Peer(e)
<1>1. Peer("initiator") = "responder" /\ Peer("responder") = "initiator"
    BY DEF Peer, Ends
<1> QED
    BY <1>1 DEF Ends

\* The constants are numbers, ages stay below NoPing.
LEMMA Clocks ==
    /\ StateTimeout \in Nat /\ IdleTimeout \in Nat /\ Keepalive \in Nat /\ Delay \in Nat /\ PollGap \in Nat
    /\ Keepalive + PollGap + 2 * Delay <= IdleTimeout
    /\ Horizon \in Nat /\ NoPing = Horizon + 1 /\ NoPing \in Nat
BY KeepaliveAssumption DEF Horizon, NoPing

\* A clock advances by at most a tick, and does not overtake one that was ahead of it.
LEMMA OlderFacts ==
    ASSUME NEW t \in 0 .. Horizon
    PROVE  /\ Older(t) \in 0 .. Horizon /\ Older(t) <= t + 1 /\ Older(t) # NoPing
           /\ \A u \in 0 .. Horizon : t <= u => Older(t) <= Older(u)
           /\ \A u \in 0 .. Horizon, k \in Nat : t <= u + k => Older(t) <= Older(u) + k
BY Clocks DEF Older

\* Both ends begin at the same time, with nothing under way.
LEMMA InitKeepInv == KeepInit => KeepInv
<1> SUFFICES ASSUME KeepInit PROVE KeepInv
    OBVIOUS
<1>1. KeepType
    BY Clocks DEF KeepInit, KeepType
<1>2. \A e \in Ends : last_ping[e] = NoPing /\ idle[e] = 0 /\ unpolled[e] = 0 /\ timed_out[e] = "no"
    BY DEF KeepInit
<1>3. PingPaced
    BY <1>2, Clocks DEF PingPaced, Silence
<1>4. DataFresh /\ AnswersPing
    BY DEF KeepInit, DataFresh, AnswersPing
<1>5. Heard
    BY <1>2, PeerFacts, Clocks DEF Heard, HeardOf
<1>6. KeptAlive
    BY <1>2 DEF KeptAlive
<1> QED
    BY <1>1, <1>3, <1>4, <1>5, <1>6 DEF KeepInv

\* Time passes for all clocks alike.
LEMMA TickStep ==
    ASSUME KeepInv, Tick
    PROVE  KeepInv'
<1>1. KeepType /\ PingPaced /\ DataFresh /\ AnswersPing /\ Heard /\ KeptAlive
    BY DEF KeepInv
<1>2. \A e \in Ends :
         /\ idle[e] \in 0 .. Horizon /\ idle'[e] = Older(idle[e]) /\ idle'[e] \in 0 .. Horizon
         /\ last_ping[e] \in 0 .. NoPing
         /\ last_ping[e] = NoPing => last_ping'[e] = NoPing
         /\ last_ping[e] # NoPing => /\ last_ping[e] \in 0 .. Horizon
                                     /\ last_ping'[e] = Older(last_ping[e])
                                     /\ last_ping'[e] \in 0 .. Horizon
                                     /\ last_ping'[e] # NoPing
         /\ unpolled[e] \in 0 .. PollGap
         /\ unpolled'[e] = IF Established(e) THEN unpolled[e] + 1 ELSE 0
         /\ timed_out'[e] = timed_out[e]
    <2> TAKE e \in Ends
    <2>1. idle[e] \in 0 .. Horizon /\ last_ping[e] \in 0 .. NoPing /\ unpolled[e] \in 0 .. PollGap
        BY <1>1 DEF KeepType
    <2>2. idle'[e] = Older(idle[e]) /\ timed_out'[e] = timed_out[e]
          /\ last_ping'[e] = (IF last_ping[e] = NoPing THEN NoPing ELSE Older(last_ping[e]))
          /\ unpolled'[e] = IF Established(e) THEN unpolled[e] + 1 ELSE 0
        BY DEF Tick
    <2>3. Older(idle[e]) \in 0 .. Horizon
        BY <2>1, OlderFacts
    <2>4. last_ping[e] # NoPing => last_ping[e] \in 0 .. Horizon
        BY <2>1, Clocks
    <2>5. last_ping[e] # NoPing => Older(last_ping[e]) \in 0 .. Horizon /\ Older(last_ping[e]) # NoPing
        BY <2>4, OlderFacts
    <2> QED
        BY <2>1, <2>2, <2>3, <2>4, <2>5
<1>3. ASSUME NEW q \in alive_net'
      PROVE  \E p \in alive_net : q = [p EXCEPT !.age = p.age + 1]
    BY DEF Tick
<1>4. KeepType'
    <2>1. ASSUME NEW q \in alive_net'
          PROVE  q \in [to : Ends, kind : {"PING", "PONG", "DATA"}, age : 0 .. Delay]
        <3>1. PICK p \in alive_net : q = [p EXCEPT !.age = p.age + 1]
            BY <1>3
        <3>2. p \in [to : Ends, kind : {"PING", "PONG", "DATA"}, age : 0 .. Delay] /\ p.age < Delay
            BY <1>1 DEF KeepType, Tick
        <3> QED
            BY <3>1, <3>2, Clocks
    <2>2. idle' \in [Ends -> 0 .. Horizon] /\ last_ping' \in [Ends -> 0 .. NoPing]
        BY <1>2, Clocks DEF Tick
    <2>3. unpolled' \in [Ends -> 0 .. PollGap]
        BY <1>2, Clocks DEF Tick
    <2> QED
        BY <1>1, <2>1, <2>2, <2>3 DEF KeepType, Tick
<1>5. PingPaced'
    <2> SUFFICES ASSUME NEW e \in Ends, Established(e)'
                 PROVE  Silence(e)' <= Keepalive + unpolled'[e]
        BY DEF PingPaced
    <2>1. Established(e) /\ unpolled'[e] = unpolled[e] + 1 /\ unpolled[e] \in Nat
        BY <1>2, Clocks DEF Established
    <2>2. Silence(e) <= Keepalive + unpolled[e] /\ Silence(e) \in 0 .. Horizon
        BY <1>1, <1>2, <2>1 DEF PingPaced, Silence
    <2>3. Silence(e)' = Older(Silence(e))
        BY <1>2 DEF Silence
    <2>4. Older(Silence(e)) <= Silence(e) + 1 /\ Older(Silence(e)) \in 0 .. Horizon
        BY <2>2, OlderFacts
    <2> QED
        BY <2>1, <2>2, <2>3, <2>4, Clocks
<1>6. DataFresh'
    <2> SUFFICES ASSUME NEW q \in alive_net', q.kind = "DATA", Established(Peer(q.to))'
                 PROVE  idle'[Peer(q.to)] <= q.age
        BY DEF DataFresh
    <2>1. PICK p \in alive_net : q = [p EXCEPT !.age = p.age + 1]
        BY <1>3
    <2>2. p \in [to : Ends, kind : {"PING", "PONG", "DATA"}, age : 0 .. Delay]
        BY <1>1 DEF KeepType
    <2>3. q.to = p.to /\ q.kind = p.kind /\ q.age = p.age + 1 /\ Peer(p.to) \in Ends
        BY <2>1, <2>2, PeerFacts
    <2>4. idle[Peer(p.to)] <= p.age
        BY <1>1, <1>2, <2>3 DEF DataFresh, Established
    <2>5. idle'[Peer(p.to)] <= idle[Peer(p.to)] + 1
        BY <1>2, <2>3, OlderFacts
    <2> QED
        BY <1>2, <2>2, <2>3, <2>4, <2>5, Clocks
<1>7. AnswersPing'
    <2> SUFFICES ASSUME NEW e \in Ends, last_ping'[e] = NoPing, NEW q \in alive_net'
                 PROVE  ~(q.to = Peer(e) /\ q.kind = "PING") /\ ~(q.to = e /\ q.kind = "PONG")
        BY DEF AnswersPing
    <2>1. PICK p \in alive_net : q = [p EXCEPT !.age = p.age + 1]
        BY <1>3
    <2>2. p \in [to : Ends, kind : {"PING", "PONG", "DATA"}, age : 0 .. Delay]
        BY <1>1 DEF KeepType
    <2>3. q.to = p.to /\ q.kind = p.kind
        BY <2>1, <2>2
    <2> QED
        BY <1>1, <1>2, <2>3 DEF AnswersPing
<1>8. Heard'
    <2> SUFFICES ASSUME NEW e \in Ends, Established(e)', Established(Peer(e))'
                 PROVE  HeardOf(e)'
        BY DEF Heard
    <2> DEFINE f == Peer(e)
    <2>1. f \in Ends /\ Established(e) /\ Established(f)
        BY <1>2, PeerFacts DEF Established
    <2>2. HeardOf(e)
        BY <1>1, <2>1 DEF Heard
    <2>3. CASE \E p \in alive_net : p.to = e /\ idle[e] <= Keepalive + PollGap + Delay + p.age
        <3>1. PICK p \in alive_net : p.to = e /\ idle[e] <= Keepalive + PollGap + Delay + p.age
            BY <2>3
        <3>2. p \in [to : Ends, kind : {"PING", "PONG", "DATA"}, age : 0 .. Delay]
            BY <1>1 DEF KeepType
        <3> DEFINE q == [p EXCEPT !.age = p.age + 1]
        <3>3. q \in alive_net' /\ q.to = e /\ q.age = p.age + 1
            BY <3>1, <3>2 DEF Tick
        <3>4. idle'[e] <= Keepalive + PollGap + Delay + q.age
            <4>1. idle'[e] <= idle[e] + 1
                BY <1>2, OlderFacts
            <4> QED
                BY <1>2, <3>1, <3>2, <3>3, <4>1, Clocks
        <3> QED
            BY <3>3, <3>4 DEF HeardOf
    <2>4. CASE last_ping[f] # NoPing /\ idle[e] <= last_ping[f]
        <3>1. Older(idle[e]) <= Older(last_ping[f])
            BY <1>2, <2>1, <2>4, OlderFacts, Clocks
        <3>2. idle'[e] <= last_ping'[f] /\ last_ping'[f] # NoPing
            BY <1>2, <2>1, <2>4, <3>1
        <3> QED
            BY <3>2 DEF HeardOf
    <2>5. CASE last_ping[f] = NoPing /\ idle[e] <= idle[f] + Delay
        <3>1. Older(idle[e]) <= Older(idle[f]) + Delay
            BY <1>2, <2>1, <2>5, OlderFacts, Clocks
        <3>2. idle'[e] <= idle'[f] + Delay /\ last_ping'[f] = NoPing
            BY <1>2, <2>1, <2>5, <3>1
        <3> QED
            BY <3>2 DEF HeardOf
    <2> QED
        BY <2>2, <2>3, <2>4, <2>5 DEF HeardOf
<1>9. KeptAlive'
    BY <1>1, <1>2, PeerFacts DEF KeptAlive
<1> QED
    BY <1>4, <1>5, <1>6, <1>7, <1>8, <1>9 DEF KeepInv

\* The bound on the silence of an end whose peer is up: the longest that its peer
\* waits before it pings, and the transit of what was under way before and of the ping.
LEMMA SilenceBound ==
    ASSUME KeepInv, NEW e \in Ends, Established(e), Established(Peer(e))
    PROVE  idle[e] <= IdleTimeout
<1> DEFINE f == Peer(e)
<1>1. f \in Ends
    BY PeerFacts
<1>2. /\ idle[e] \in Nat /\ idle[f] \in Nat /\ last_ping[f] \in Nat
      /\ unpolled[f] \in 0 .. PollGap
      /\ \A p \in alive_net : p.age \in 0 .. Delay
    BY <1>1, Clocks DEF KeepInv, KeepType
<1>3. Silence(f) <= Keepalive + PollGap
    BY <1>1, <1>2, Clocks DEF KeepInv, PingPaced, Silence
<1>4. HeardOf(e)
    BY DEF KeepInv, Heard
<1> QED
    BY <1>2, <1>3, <1>4, Clocks DEF HeardOf, Silence

\* No poll finds an end too silent while its peer is up.
LEMMA PollTimeoutStep ==
    ASSUME KeepInv, NEW e \in Ends, PollTimeout(e)
    PROVE  KeepInv'
<1>1. KeepType /\ PingPaced /\ DataFresh /\ AnswersPing /\ Heard /\ KeptAlive
    BY DEF KeepInv
<1>2. /\ UNCHANGED <<idle, last_ping, alive_net>>
      /\ unpolled' = [unpolled EXCEPT ![e] = 0]
      /\ timed_out'[e] \in {"state", "idle"}
      /\ timed_out' = [timed_out EXCEPT ![e] = timed_out'[e]]
      /\ timed_out'[e] = "idle" => idle[e] > IdleTimeout
      /\ Established(e)
    BY <1>1 DEF PollTimeout, KeepType
<1>3. /\ \A g \in Ends : Established(g)' => Established(g) /\ g # e
      /\ \A g \in Ends : g # e => timed_out'[g] = timed_out[g] /\ unpolled'[g] = unpolled[g]
    BY <1>1, <1>2 DEF Established, KeepType
<1>4. KeepType'
    <2>1. unpolled' \in [Ends -> 0 .. PollGap]
        BY <1>1, <1>2, Clocks DEF KeepType
    <2>2. timed_out' \in [Ends -> {"no", "state", "idle"}]
        BY <1>1 DEF KeepType, PollTimeout
    <2> QED
        BY <1>1, <1>2, <2>1, <2>2 DEF KeepType
<1>5. PingPaced' /\ AnswersPing'
    BY <1>1, <1>2, <1>3 DEF PingPaced, AnswersPing, Silence
<1>6. DataFresh'
    <2> SUFFICES ASSUME NEW p \in alive_net, p.kind = "DATA", Established(Peer(p.to))'
                 PROVE  idle[Peer(p.to)] <= p.age
        BY <1>2 DEF DataFresh
    <2>1. Peer(p.to) \in Ends
        BY <1>1, PeerFacts DEF KeepType
    <2> QED
        BY <1>1, <1>3, <2>1 DEF DataFresh
<1>7. Heard'
    <2> SUFFICES ASSUME NEW g \in Ends, Established(g)', Established(Peer(g))' PROVE HeardOf(g)'
        BY DEF Heard
    <2>1. HeardOf(g)
        BY <1>1, <1>3, PeerFacts DEF Heard
    <2> QED
        BY <1>2, <2>1 DEF HeardOf
<1>8. KeptAlive'
    <2> SUFFICES ASSUME NEW g \in Ends, timed_out'[g] = "idle" PROVE timed_out'[Peer(g)] # "no"
        BY DEF KeptAlive
    <2>1. CASE g = e
        <3>1. idle[e] > IdleTimeout
            BY <1>2, <2>1
        <3>2. ~(idle[e] <= IdleTimeout)
            BY <1>1, <3>1, Clocks DEF KeepType
        <3>3. ~Established(Peer(e))
            BY <1>2, <3>2, SilenceBound
        <3> QED
            BY <1>3, <2>1, <3>3, PeerFacts DEF Established
    <2>2. CASE g # e
        <3>1. timed_out[g] = "idle" /\ Peer(g) = e
            BY <1>3, <2>2, PeerFacts
        <3> QED
            BY <1>2, <3>1
    <2> QED
        BY <2>1, <2>2
<1> QED
    BY <1>4, <1>5, <1>6, <1>7, <1>8 DEF KeepInv

\* A poll that finds the ping due sends it; one that does not finds the silence short.
LEMMA PollAliveStep ==
    ASSUME Keepalive > 0, KeepInv, NEW e \in Ends, PollAlive(e)
    PROVE  KeepInv'
<1>1. KeepType /\ PingPaced /\ DataFresh /\ AnswersPing /\ Heard /\ KeptAlive
    BY DEF KeepInv
<1>2. /\ UNCHANGED <<idle, timed_out>>
      /\ unpolled' = [unpolled EXCEPT ![e] = 0]
      /\ Established(e)
    BY DEF PollAlive
<1>3. \A g \in Ends : /\ Established(g)' = Established(g)
                      /\ unpolled'[g] = IF g = e THEN 0 ELSE unpolled[g]
                      /\ idle[g] \in 0 .. Horizon /\ last_ping[g] \in 0 .. NoPing /\ unpolled[g] \in 0 .. PollGap
    BY <1>1, <1>2 DEF Established, KeepType
<1>4. KeptAlive'
    BY <1>1, <1>2 DEF KeptAlive
<1>5. unpolled' \in [Ends -> 0 .. PollGap]
    BY <1>1, <1>2, Clocks DEF KeepType
<1>6. CASE ~KeepaliveDue(e) /\ UNCHANGED <<alive_net, last_ping>>
    <2>1. KeepType' /\ DataFresh' /\ AnswersPing'
        BY <1>1, <1>2, <1>5, <1>6 DEF KeepType, DataFresh, AnswersPing, Established
    <2>2. Silence(e) <= Keepalive
        BY <1>3, <1>6, Clocks DEF KeepaliveDue, Silence
    <2>3. PingPaced'
        BY <1>1, <1>2, <1>3, <1>6, <2>2, Clocks DEF PingPaced, Silence
    <2>4. Heard'
        BY <1>1, <1>2, <1>6 DEF Heard, HeardOf, Established
    <2> QED
        BY <1>4, <2>1, <2>3, <2>4 DEF KeepInv
<1>7. CASE /\ KeepaliveDue(e)
           /\ alive_net' = alive_net \cup {AlivePacket(Peer(e), "PING")}
           /\ last_ping' = [last_ping EXCEPT ![e] = 0]
    <2> DEFINE f == Peer(e)
               ping == AlivePacket(f, "PING")
    <2>1. f \in Ends /\ f # e /\ Peer(f) = e
        BY PeerFacts
    <2>2. /\ ping \in [to : Ends, kind : {"PING", "PONG", "DATA"}, age : 0 .. Delay]
          /\ ping.to = f /\ ping.kind = "PING" /\ ping.age = 0
        BY <2>1, Clocks DEF AlivePacket
    <2>3. \A g \in Ends : last_ping'[g] = IF g = e THEN 0 ELSE last_ping[g]
        BY <1>1, <1>7 DEF KeepType
    <2>4. KeepType'
        <3>1. last_ping' \in [Ends -> 0 .. NoPing]
            BY <1>1, <1>7, Clocks DEF KeepType
        <3>2. alive_net' \in SUBSET [to : Ends, kind : {"PING", "PONG", "DATA"}, age : 0 .. Delay]
            BY <1>1, <1>7, <2>2 DEF KeepType
        <3> QED
            BY <1>1, <1>2, <1>5, <3>1, <3>2 DEF KeepType
    <2>5. PingPaced'
        BY <1>1, <1>2, <1>3, <2>3, Clocks DEF PingPaced, Silence
    <2>6. DataFresh'
        BY <1>1, <1>2, <1>7, <2>2 DEF DataFresh, Established
    <2>7. AnswersPing'
        <3>1. ASSUME NEW g \in Ends, last_ping'[g] = NoPing, NEW p \in alive_net'
              PROVE  ~(p.to = Peer(g) /\ p.kind = "PING") /\ ~(p.to = g /\ p.kind = "PONG")
            <4>1. g # e /\ last_ping[g] = NoPing
                BY <2>3, <3>1, Clocks
            <4>2. g = f
                BY <4>1, PeerFacts
            <4> QED
                BY <1>1, <1>7, <2>1, <2>2, <4>1, <4>2 DEF AnswersPing
        <3> QED
            BY <3>1 DEF AnswersPing
    <2>8. Heard'
        <3>1. ASSUME Established(e), Established(f) PROVE HeardOf(f)'
            <4>1. ping \in alive_net' /\ ping.to = f
                BY <1>7, <2>2
            <4>2. HeardOf(f) /\ Silence(e) <= Keepalive + PollGap
                BY <1>1, <1>3, <2>1, <3>1, Clocks DEF Heard, PingPaced, Silence
            <4>3. CASE \E p \in alive_net : p.to = f /\ idle[f] <= Keepalive + PollGap + Delay + p.age
                BY <1>2, <1>7, <4>3 DEF HeardOf
            <4>4. CASE idle[f] <= Silence(e) + Delay
                <5>1. Silence(e) \in Nat /\ idle[f] \in Nat
                    BY <1>3, <2>1, Clocks DEF Silence
                <5>2. idle'[f] <= Keepalive + PollGap + Delay + ping.age
                    BY <1>2, <2>2, <4>2, <4>4, <5>1, Clocks
                <5> QED
                    BY <4>1, <5>2 DEF HeardOf
            <4>5. \/ \E p \in alive_net : p.to = f /\ idle[f] <= Keepalive + PollGap + Delay + p.age
                  \/ idle[f] <= Silence(e) + Delay
                BY <1>3, <2>1, <4>2, Clocks DEF HeardOf, Silence
            <4> QED
                BY <4>3, <4>4, <4>5
        <3>2. ASSUME Established(e), Established(f) PROVE HeardOf(e)'
            <4>1. HeardOf(e) /\ last_ping'[f] = last_ping[f]
                BY <1>1, <2>1, <2>3, <3>2 DEF Heard
            <4> QED
                BY <1>2, <1>7, <4>1 DEF HeardOf
        <3> QED
            BY <1>3, <2>1, <3>1, <3>2, PeerFacts DEF Heard
    <2> QED
        BY <1>4, <2>4, <2>5, <2>6, <2>7, <2>8 DEF KeepInv
<1> QED
    BY <1>6, <1>7 DEF PollAlive

\* An end that hears nothing new keeps what it has under way; one that is sent a packet
\* when its peer has been heard of or has sent in time will hear of it in time.
LEMMA SentInTime ==
    ASSUME KeepInv, NEW e \in Ends, Established(e), Established(Peer(e)), last_ping[Peer(e)] = NoPing
    PROVE  \/ \E p \in alive_net : p.to = e /\ idle[e] <= Keepalive + PollGap + Delay + p.age
           \/ idle[e] <= Keepalive + PollGap + Delay
<1> DEFINE f == Peer(e)
<1>1. f \in Ends
    BY PeerFacts
<1>2. idle[e] \in Nat /\ idle[f] \in Nat /\ unpolled[f] \in 0 .. PollGap
    BY <1>1, Clocks DEF KeepInv, KeepType
<1>3. HeardOf(e) /\ idle[f] <= Keepalive + PollGap
    BY <1>1, <1>2, Clocks DEF KeepInv, Heard, PingPaced, Silence
<1> QED
    BY <1>2, <1>3, Clocks DEF HeardOf

\* Data is the activity of its sender, and will be that of its receiver.
LEMMA SendDataStep ==
    ASSUME KeepInv, NEW e \in Ends, SendData(e)
    PROVE  KeepInv'
<1> DEFINE f == Peer(e)
           data == AlivePacket(f, "DATA")
<1>1. KeepType /\ PingPaced /\ DataFresh /\ AnswersPing /\ Heard /\ KeptAlive
    BY DEF KeepInv
<1>2. /\ UNCHANGED <<last_ping, unpolled, timed_out>>
      /\ idle' = [idle EXCEPT ![e] = 0]
      /\ alive_net' = alive_net \cup {data}
      /\ Established(e)
    BY DEF SendData
<1>3. f \in Ends /\ f # e /\ Peer(f) = e
    BY PeerFacts
<1>4. /\ data \in [to : Ends, kind : {"PING", "PONG", "DATA"}, age : 0 .. Delay]
      /\ data.to = f /\ data.kind = "DATA" /\ data.age = 0
    BY <1>3, Clocks DEF AlivePacket
<1>5. \A g \in Ends : idle'[g] = IF g = e THEN 0 ELSE idle[g]
    BY <1>1, <1>2 DEF KeepType
<1>6. \A g \in Ends : idle[g] \in Nat /\ last_ping[g] \in Nat /\ unpolled[g] \in Nat
    BY <1>1, Clocks DEF KeepType
<1>7. \A p \in alive_net : p.to \in Ends /\ p.age \in Nat
    BY <1>1, Clocks DEF KeepType
<1>8. KeepType'
    BY <1>1, <1>2, <1>4, Clocks DEF KeepType
<1>9. PingPaced'
    BY <1>1, <1>2, <1>5, <1>6, Clocks DEF PingPaced, Silence, Established
<1>10. DataFresh'
    <2> SUFFICES ASSUME NEW p \in alive_net', p.kind = "DATA", Established(Peer(p.to))'
                 PROVE  idle'[Peer(p.to)] <= p.age
        BY DEF DataFresh
    <2>1. CASE p = data
        BY <1>3, <1>4, <1>5, <2>1
    <2>2. CASE p \in alive_net
        BY <1>1, <1>2, <1>5, <1>7, <2>2, PeerFacts DEF DataFresh, Established
    <2> QED
        BY <1>2, <2>1, <2>2
<1>11. AnswersPing'
    BY <1>1, <1>2, <1>4 DEF AnswersPing
<1>12. Heard'
    <2> SUFFICES ASSUME Established(f) PROVE HeardOf(e)' /\ HeardOf(f)'
        BY <1>2, <1>3, PeerFacts DEF Heard, Established
    <2>1. HeardOf(e)'
        BY <1>2, <1>3, <1>5, <1>6, Clocks DEF HeardOf
    <2>2. CASE last_ping[e] # NoPing
        <3>1. HeardOf(f)
            BY <1>1, <1>2, <1>3 DEF Heard
        <3> QED
            BY <1>2, <1>3, <1>5, <2>1, <2>2, <3>1 DEF HeardOf
    <2>3. CASE last_ping[e] = NoPing
        <3>1. \/ \E p \in alive_net : p.to = f /\ idle[f] <= Keepalive + PollGap + Delay + p.age
              \/ idle[f] <= Keepalive + PollGap + Delay
            BY <1>2, <1>3, <2>3, SentInTime
        <3>2. CASE \E p \in alive_net : p.to = f /\ idle[f] <= Keepalive + PollGap + Delay + p.age
            BY <1>2, <1>3, <1>5, <2>1, <3>2 DEF HeardOf
        <3>3. CASE idle[f] <= Keepalive + PollGap + Delay
            <4>1. data \in alive_net' /\ idle'[f] <= Keepalive + PollGap + Delay + data.age
                BY <1>2, <1>3, <1>4, <1>5, <1>6, <3>3, Clocks
            <4> QED
                BY <1>4, <2>1, <4>1 DEF HeardOf
        <3> QED
            BY <3>1, <3>2, <3>3
    <2> QED
        BY <2>1, <2>2, <2>3
<1>13. KeptAlive'
    BY <1>1, <1>2 DEF KeptAlive
<1> QED
    BY <1>8, <1>9, <1>10, <1>11, <1>12, <1>13 DEF KeepInv

\* A packet is activity of its receiver; a ping is answered.
LEMMA ReceiveAliveStep ==
    ASSUME KeepInv, NEW p \in alive_net, ReceiveAlive(p)
    PROVE  KeepInv'
<1> DEFINE f == p.to
           e == Peer(f)
           pong == AlivePacket(e, "PONG")
<1>1. KeepType /\ PingPaced /\ DataFresh /\ AnswersPing /\ Heard /\ KeptAlive
    BY DEF KeepInv
<1>2. p \in [to : Ends, kind : {"PING", "PONG", "DATA"}, age : 0 .. Delay]
    BY <1>1 DEF KeepType
<1>3. f \in Ends /\ e \in Ends /\ e # f /\ Peer(e) = f /\ \A g \in Ends : g = e \/ g = f
    BY <1>2, PeerFacts
<1>4. /\ pong \in [to : Ends, kind : {"PING", "PONG", "DATA"}, age : 0 .. Delay]
      /\ pong.to = e /\ pong.kind = "PONG" /\ pong.age = 0
    BY <1>3, Clocks DEF AlivePacket
<1>5. /\ UNCHANGED <<last_ping, unpolled, timed_out>>
      /\ idle' = IF Established(f) THEN [idle EXCEPT ![f] = 0] ELSE idle
      /\ alive_net' = (alive_net \ {p}) \cup {q \in {pong} : p.kind = "PING" /\ Established(f)}
    BY DEF ReceiveAlive
<1>6. \A g \in Ends : idle'[g] = IF g = f /\ Established(f) THEN 0 ELSE idle[g]
    BY <1>1, <1>5 DEF KeepType
<1>7. \A g \in Ends : idle[g] \in Nat /\ last_ping[g] \in Nat /\ unpolled[g] \in Nat
    BY <1>1, Clocks DEF KeepType
<1>8. \A q \in alive_net : q.to \in Ends /\ q.age \in Nat
    BY <1>1, Clocks DEF KeepType
<1>9. KeepType'
    BY <1>1, <1>4, <1>5, Clocks DEF KeepType
<1>10. PingPaced'
    BY <1>1, <1>5, <1>6, <1>7, Clocks DEF PingPaced, Silence, Established
<1>11. DataFresh'
    <2> SUFFICES ASSUME NEW q \in alive_net', q.kind = "DATA", Established(Peer(q.to))'
                 PROVE  idle'[Peer(q.to)] <= q.age
        BY DEF DataFresh
    <2>1. q \in alive_net /\ q.to \in Ends /\ Peer(q.to) \in Ends /\ Established(Peer(q.to))
        BY <1>4, <1>5, <1>8, PeerFacts DEF Established
    <2> QED
        BY <1>1, <1>6, <1>8, <2>1 DEF DataFresh
<1>12. AnswersPing'
    <2> SUFFICES ASSUME NEW g \in Ends, last_ping[g] = NoPing, NEW q \in alive_net'
                 PROVE  ~(q.to = Peer(g) /\ q.kind = "PING") /\ ~(q.to = g /\ q.kind = "PONG")
        BY <1>5 DEF AnswersPing
    <2>1. CASE q \in alive_net
        BY <1>1, <2>1 DEF AnswersPing
    <2>2. CASE q = pong /\ p.kind = "PING"
        BY <1>1, <1>3, <1>4, <2>2 DEF AnswersPing
    <2> QED
        BY <1>5, <2>1, <2>2
<1>13. Heard'
    <2> SUFFICES ASSUME Established(e), Established(f) PROVE HeardOf(e)' /\ HeardOf(f)'
        BY <1>3, <1>5 DEF Heard, Established
    <2>1. HeardOf(f)'
        BY <1>3, <1>5, <1>6, <1>7, Clocks DEF HeardOf
    <2>2. idle'[f] = 0 /\ idle'[e] = idle[e]
        BY <1>3, <1>6
    <2>3. CASE \E q \in alive_net : q.to = e /\ idle[e] <= Keepalive + PollGap + Delay + q.age
        <3>1. PICK q \in alive_net : q.to = e /\ idle[e] <= Keepalive + PollGap + Delay + q.age
            BY <2>3
        <3>2. q \in alive_net'
            BY <1>3, <1>5, <3>1
        <3> QED
            BY <2>1, <2>2, <3>1, <3>2 DEF HeardOf
    <2>4. CASE last_ping[f] # NoPing
        <3>1. HeardOf(e)
            BY <1>1, <1>3 DEF Heard
        <3> QED
            BY <1>3, <1>5, <2>1, <2>2, <2>3, <2>4, <3>1 DEF HeardOf
    <2>5. CASE last_ping[f] = NoPing /\ p.kind = "PING"
        <3>1. CASE idle[e] <= Keepalive + PollGap + Delay
            <4>1. pong \in alive_net' /\ idle'[e] <= Keepalive + PollGap + Delay + pong.age
                BY <1>3, <1>4, <1>5, <1>7, <2>2, <2>5, <3>1, Clocks
            <4> QED
                BY <1>4, <2>1, <4>1 DEF HeardOf
        <3>2. \/ \E q \in alive_net : q.to = e /\ idle[e] <= Keepalive + PollGap + Delay + q.age
              \/ idle[e] <= Keepalive + PollGap + Delay
            BY <1>3, <2>5, SentInTime
        <3> QED
            BY <2>1, <2>3, <3>1, <3>2
    <2>6. CASE last_ping[f] = NoPing /\ p.kind = "DATA"
        <3>1. idle[e] <= p.age /\ p.age <= Delay
            BY <1>1, <1>2, <2>6, Clocks DEF DataFresh
        <3>2. idle'[e] <= idle'[f] + Delay
            BY <1>2, <1>3, <1>7, <2>2, <3>1, Clocks
        <3> QED
            BY <1>3, <1>5, <2>6, <3>2, <2>1 DEF HeardOf
    <2>7. CASE last_ping[f] = NoPing /\ p.kind = "PONG"
        BY <1>1, <1>3, <2>7 DEF AnswersPing
    <2> QED
        BY <1>2, <2>1, <2>3, <2>4, <2>5, <2>6, <2>7
<1>14. KeptAlive'
    BY <1>1, <1>5 DEF KeptAlive
<1> QED
    BY <1>9, <1>10, <1>11, <1>12, <1>13, <1>14 DEF KeepInv

\* Keepalives do their work for every keepalive interval that is not disabled, every
\* transit time and every poll interval: as long as keepalive_interval, the time between
\* two polls and two transits fit into idle_timeout, an end is never ended by its idle
\* timeout while its peer is up (ConstrainedConnection::poll).
THEOREM KeepaliveWorks ==
    ASSUME Keepalive > 0
    PROVE  KeepSpec => []KeptAlive
<1>1. KeepInv /\ [KeepNext]_keepVars => KeepInv'
    <2> SUFFICES ASSUME KeepInv, [KeepNext]_keepVars PROVE KeepInv'
        OBVIOUS
    <2>1. CASE UNCHANGED keepVars
        BY <2>1 DEF keepVars, KeepInv, KeepType, PingPaced, DataFresh, AnswersPing, Heard, HeardOf, KeptAlive,
                    Silence, Established
    <2>2. CASE KeepNext
        BY <2>2, TickStep, PollTimeoutStep, PollAliveStep, SendDataStep, ReceiveAliveStep DEF KeepNext
    <2> QED
        BY <2>1, <2>2
<1>2. KeepInv => KeptAlive
    BY DEF KeepInv
<1> QED
    BY InitKeepInv, <1>1, <1>2, PTL DEF KeepSpec

-----------------------------------------------------------------------------
(* The transport: the inductive invariant *)

\* Packets that go where they are meant to.
Faithful == {out \in [n : Nat, meant : Addrs, destination : Addrs] : out.destination = out.meant}

\* The two maps of the adapter are inverse to each other, and what they hold was made
\* from counters that will not come again.
AdapterInv ==
    /\ next_synthetic \in Nat \ {0}
    /\ DOMAIN addr_map \subseteq Addrs
    /\ \A a \in DOMAIN addr_map :
          /\ addr_map[a] \in Nat /\ addr_map[a] < next_synthetic
          /\ addr_map[a] \in DOMAIN reverse_map
          /\ reverse_map[addr_map[a]] = a

\* The engine knows its peers by the synthetic addresses of the adapter.
PeersInv == \A p \in peers : \E a \in DOMAIN addr_map : p = <<addr_map[a], a>>

ChannelsInv ==
    /\ channels \in Seq(Seq(Faithful))
    /\ handles \subseteq 1 .. Len(channels) /\ Len(channels) > 0
    /\ wire \subseteq Faithful
    /\ produced \in Nat

TransportInv == AdapterInv /\ PeersInv /\ ChannelsInv

-----------------------------------------------------------------------------
(* The transport: the inductive step *)

\* The adapter starts with one empty channel and no addresses.
LEMMA InitTransportInv == TransportInit => TransportInv
<1> SUFFICES ASSUME TransportInit PROVE TransportInv
    OBVIOUS
<1>1. AdapterInv /\ PeersInv
    BY DEF TransportInit, AdapterInv, PeersInv
<1>2. << <<>> >> \in Seq(Seq(Faithful)) /\ Len(<< <<>> >>) = 1
    BY EmptySeq
<1>3. ChannelsInv
    BY <1>2 DEF TransportInit, ChannelsInv
<1> QED
    BY <1>1, <1>3 DEF TransportInv

\* get_or_create_socket_addr keeps what it has given out and gives the address an entry.
LEMMA GetOrCreate ==
    ASSUME AdapterInv, NEW a \in Addrs, GetOrCreateSocketAddr(a)
    PROVE  /\ AdapterInv'
           /\ DOMAIN addr_map' = DOMAIN addr_map \cup {a}
           /\ \A b \in DOMAIN addr_map : addr_map'[b] = addr_map[b]
<1>1. CASE a \in DOMAIN addr_map
    BY <1>1 DEF GetOrCreateSocketAddr, AdapterInv
<1>2. CASE a \notin DOMAIN addr_map
    <2>1. /\ addr_map' = MapInsert(addr_map, a, next_synthetic)
          /\ reverse_map' = MapInsert(reverse_map, next_synthetic, a)
          /\ next_synthetic' = next_synthetic + 1
        BY <1>2 DEF GetOrCreateSocketAddr
    <2>2. /\ DOMAIN addr_map' = DOMAIN addr_map \cup {a}
          /\ \A b \in DOMAIN addr_map : addr_map'[b] = addr_map[b]
          /\ addr_map'[a] = next_synthetic
        BY <1>2, <2>1 DEF MapInsert
    <2>3. /\ DOMAIN reverse_map' = DOMAIN reverse_map \cup {next_synthetic}
          /\ reverse_map'[next_synthetic] = a
          /\ \A s \in DOMAIN reverse_map : s # next_synthetic => reverse_map'[s] = reverse_map[s]
        BY <2>1 DEF MapInsert
    <2>4. \A b \in DOMAIN addr_map : addr_map[b] # next_synthetic
        BY DEF AdapterInv
    <2>5. \A b \in DOMAIN addr_map' :
            /\ addr_map'[b] \in Nat /\ addr_map'[b] < next_synthetic'
            /\ addr_map'[b] \in DOMAIN reverse_map'
            /\ reverse_map'[addr_map'[b]] = b
        <3> TAKE b \in DOMAIN addr_map'
        <3>1. CASE b = a
            BY <2>1, <2>2, <2>3, <3>1 DEF AdapterInv
        <3>2. CASE b \in DOMAIN addr_map
            BY <2>1, <2>2, <2>3, <2>4, <3>2 DEF AdapterInv
        <3> QED
            BY <2>2, <3>1, <3>2
    <2> QED
        BY <2>1, <2>2, <2>5 DEF AdapterInv
<1> QED
    BY <1>1, <1>2

\* What the engine answers for one of its peers is translated back to that peer.
LEMMA OutputsFaithful ==
    ASSUME ChannelsInv, AdapterInv', PeersInv', NEW c \in 1 .. Len(channels), Outputs(c),
           UNCHANGED <<handles, wire>>
    PROVE  ChannelsInv'
<1>1. CASE UNCHANGED <<channels, produced>>
    BY <1>1 DEF ChannelsInv
<1>2. ASSUME produced' = produced + 1, NEW peer \in peers', TrySend(c, EngineOutput(produced, peer))
      PROVE  ChannelsInv'
    <2> DEFINE out == EngineOutput(produced, peer)
    <2>1. PICK a \in DOMAIN addr_map' : peer = <<addr_map'[a], a>>
        BY DEF PeersInv
    <2>2. reverse_map'[peer[1]] = a /\ peer[2] = a /\ a \in Addrs
        BY <2>1 DEF AdapterInv
    <2>3. out = [n |-> produced, meant |-> a, destination |-> a]
        BY <2>2 DEF EngineOutput, SocketToTransport
    <2>4. out \in Faithful
        BY <2>2, <2>3 DEF ChannelsInv, Faithful
    <2> HIDE DEF out
    <2>5. channels[c] \in Seq(Faithful) /\ Len(channels) \in Nat
        BY ElementOfSeq, LenProperties DEF ChannelsInv
    <2> DEFINE queue == IF Len(channels[c]) < BufferSize THEN Append(channels[c], out) ELSE channels[c]
    <2>6. queue \in Seq(Faithful)
        BY <2>4, <2>5, AppendProperties
    <2>7. channels' = [channels EXCEPT ![c] = queue]
        BY <1>2 DEF TrySend, out
    <2> HIDE DEF queue
    <2>8. channels' \in Seq(Seq(Faithful)) /\ Len(channels') = Len(channels)
        BY <2>6, <2>7, ExceptSeq DEF ChannelsInv
    <2> QED
        BY <1>2, <2>8 DEF ChannelsInv
<1> QED
    BY <1>1, <1>2 DEF Outputs

\* Every step of the transport, its handles and the provider keeps TransportInv.
LEMMA NextTransportInv == TransportInv /\ [TransportNext]_transportVars => TransportInv'
<1> SUFFICES ASSUME TransportInv, [TransportNext]_transportVars PROVE TransportInv'
    OBVIOUS
<1>1. AdapterInv /\ PeersInv /\ ChannelsInv
    BY DEF TransportInv
<1>2. Len(channels) \in Nat /\ Len(channels) > 0
    BY <1>1, LenProperties DEF ChannelsInv
<1>3. \A c \in handles \cup {Current} : c \in 1 .. Len(channels)
    BY <1>1, <1>2 DEF ChannelsInv, Current
<1>4. UNCHANGED adapter => AdapterInv' /\ PeersInv'
    BY <1>1 DEF adapter, AdapterInv, PeersInv
<1>5. ASSUME NEW c \in handles \cup {Current}, SendCloseOrPoll(c)
      PROVE  TransportInv'
    BY <1>1, <1>3, <1>4, <1>5, OutputsFaithful DEF SendCloseOrPoll, TransportInv
<1>6. ASSUME NEW c \in handles \cup {Current}, NEW a \in Addrs, ConnectOrIncoming(c, a)
      PROVE  TransportInv'
    <2>1. /\ AdapterInv'
          /\ DOMAIN addr_map' = DOMAIN addr_map \cup {a}
          /\ \A b \in DOMAIN addr_map : addr_map'[b] = addr_map[b]
        BY <1>1, <1>6, GetOrCreate DEF ConnectOrIncoming
    <2>2. peers' = peers \cup {<<addr_map'[a], a>>}
        BY <1>6 DEF ConnectOrIncoming
    <2>3. PeersInv'
        BY <1>1, <2>1, <2>2 DEF PeersInv
    <2>4. ChannelsInv'
        BY <1>1, <1>3, <1>6, <2>1, <2>3, OutputsFaithful DEF ConnectOrIncoming
    <2> QED
        BY <2>1, <2>3, <2>4 DEF TransportInv
<1>7. CASE Handle
    <2>1. handles' \subseteq 1 .. Len(channels) /\ UNCHANGED <<channels, wire, produced>>
        <3>1. handles' = handles \cup {Len(channels)} /\ UNCHANGED <<channels, wire, produced>>
            BY <1>7 DEF Handle, Current
        <3>2. handles \subseteq 1 .. Len(channels) /\ Len(channels) \in 1 .. Len(channels)
            BY <1>1, <1>2 DEF ChannelsInv
        <3> QED
            BY <3>1, <3>2
    <2> QED
        BY <1>1, <1>4, <1>7, <2>1 DEF Handle, TransportInv, ChannelsInv
<1>8. CASE TakeOutboundRx
    <2>1. channels' = Append(channels, <<>>) /\ <<>> \in Seq(Faithful)
        BY <1>8, EmptySeq DEF TakeOutboundRx
    <2>2. channels' \in Seq(Seq(Faithful)) /\ Len(channels') = Len(channels) + 1
        BY <1>1, <2>1, AppendProperties DEF ChannelsInv
    <2> QED
        BY <1>1, <1>2, <1>4, <1>8, <2>2 DEF TakeOutboundRx, TransportInv, ChannelsInv
<1>9. ASSUME NEW c \in Taken, ProviderSends(c)
      PROVE  TransportInv'
    <2>1. c \in 1 .. Len(channels) /\ channels[c] \in Seq(Faithful)
        BY <1>1, <1>2, ElementOfSeq DEF ChannelsInv, Taken
    <2>2. Head(channels[c]) \in Faithful /\ Tail(channels[c]) \in Seq(Faithful)
        BY <1>9, <2>1, HeadTailProperties, EmptySeq DEF ProviderSends
    <2>3. channels' = [channels EXCEPT ![c] = Tail(channels[c])]
        BY <1>9 DEF ProviderSends
    <2>4. channels' \in Seq(Seq(Faithful)) /\ Len(channels') = Len(channels)
        BY <1>1, <2>1, <2>2, <2>3, ExceptSeq DEF ChannelsInv
    <2> QED
        BY <1>1, <1>4, <1>9, <2>2, <2>4 DEF ProviderSends, TransportInv, ChannelsInv
<1>10. CASE UNCHANGED transportVars
    BY <1>1, <1>10 DEF transportVars, TransportInv, AdapterInv, PeersInv, ChannelsInv
<1> QED
    BY <1>5, <1>6, <1>7, <1>8, <1>9, <1>10 DEF TransportNext

\* Packets leave for the peer they were made for, for every set of addresses, every
\* buffer size and however often the receiver is taken (get_or_create_socket_addr,
\* socket_to_transport, take_outbound_rx): the adapter's two maps stay inverse to each
\* other, so that the engine never takes two peers for one.
THEOREM TransportDelivers == TransportSpec => []DestinationIsPeer
<1>1. TransportInv => DestinationIsPeer
    <2> SUFFICES ASSUME TransportInv PROVE DestinationIsPeer
        OBVIOUS
    <2>1. ASSUME NEW p \in peers, NEW q \in peers, p[1] = q[1]
          PROVE  p[2] = q[2]
        <3>1. PICK a \in DOMAIN addr_map : p = <<addr_map[a], a>>
            BY DEF TransportInv, PeersInv
        <3>2. PICK b \in DOMAIN addr_map : q = <<addr_map[b], b>>
            BY DEF TransportInv, PeersInv
        <3> QED
            BY <2>1, <3>1, <3>2 DEF TransportInv, AdapterInv
    <2>2. \A out \in wire : out.destination = out.meant
        BY DEF TransportInv, ChannelsInv, Faithful
    <2> QED
        BY <2>1, <2>2 DEF DestinationIsPeer
<1> QED
    BY InitTransportInv, NextTransportInv, <1>1, PTL DEF TransportSpec

-----------------------------------------------------------------------------
(* Constrained engines: the inductive invariant *)

ConnFields == {"remote", "initiator", "state", "local_seq", "base_seq", "unacked", "next_expected",
               "cumulative_ack", "out_of_order", "outbound", "inbound", "events"}
Flags == {"SYN", "ACK", "DATA", "FIN", "RST", "PING", "PONG"}
PacketsWith(flags) == [cid : ConnIds, flags : SUBSET flags, seq : SeqNumbers, ack : SeqNumbers, payload : Nat]
PlainPackets == PacketsWith(Flags \ {"SYN"})
Entries == [seq : SeqNumbers, data : Nat, transmissions : Nat]
ConnEvents == {"Connected", "DataReceived", "Closed", "Reset", "Error"}

\* What is buffered is ahead of next_expected, so that the loop that drains it ends.
Typed(c) ==
    /\ DOMAIN c = ConnFields /\ c.remote \in Nodes /\ c.state \in ConnectionStates
    /\ c.local_seq \in SeqNumbers /\ c.base_seq \in SeqNumbers
    /\ c.next_expected \in SeqNumbers /\ c.cumulative_ack \in SeqNumbers
    /\ c.unacked \in Seq(Entries) /\ Len(c.unacked) <= WindowSize
    /\ c.outbound \in Seq(PlainPackets) /\ c.events \in Seq(ConnEvents)
    /\ \A e \in c.out_of_order : e.seq \in SeqNumbers /\ DistanceTo(c.next_expected, e.seq) \in 1 .. WindowSize

EngineType ==
    /\ DOMAIN connections = Nodes
    /\ \A n \in Nodes : DOMAIN connections[n] \subseteq ConnIds
    /\ \A n \in Nodes : \A id \in DOMAIN connections[n] : Typed(connections[n][id])
    /\ next_conn_id \in [Nodes -> ConnIds]
    /\ DOMAIN events = Nodes
    /\ net \subseteq [from : Nodes, to : Nodes, packet : PacketsWith(Flags)]
    /\ DOMAIN sent = Nodes \X ConnIds /\ \A x \in Nodes \X ConnIds : sent[x] \in Seq(Nat)

\* A connection that is ending was ended by the application, or its end was reported, or
\* it holds the event that will report it.
HasEnd(c) == \E event \in EventsOf(c) : EndsConnection(event)
Ending(state) == state \in {"Closed", "FinWait", "Closing", "TimeWait"}
Accounted(n, id) == <<n, id>> \in ended \/ Ended(n, id)

EndInv ==
    \A n \in Nodes : \A id \in DOMAIN connections[n] :
        Ending(connections[n][id].state) => Accounted(n, id) \/ HasEnd(connections[n][id])

EngineInv == EngineType /\ EndInv /\ EndReported

-----------------------------------------------------------------------------
(* Numbers and windows *)

\* Numbers wrap within their space.
LEMMA WrappedType ==
    ASSUME NEW s \in SeqNumbers, NEW k \in 0 .. WindowSize + 1
    PROVE  SeqAdd(s, k) \in SeqNumbers
BY SeqHalfAssumption, WindowAssumption DEF SeqNumbers, SeqMod, SeqAdd

\* A number k ahead is at distance k.
LEMMA DistanceAhead ==
    ASSUME NEW s \in SeqNumbers, NEW k \in 0 .. WindowSize + 1
    PROVE  DistanceTo(s, SeqAdd(s, k)) = k
BY SeqHalfAssumption, WindowAssumption DEF SeqNumbers, SeqMod, SeqAdd, DistanceTo

\* A number at distance k is k ahead.
LEMMA AheadByDistance ==
    ASSUME NEW s \in SeqNumbers, NEW x \in SeqNumbers, DistanceTo(s, x) \in 0 .. WindowSize
    PROVE  x = SeqAdd(s, DistanceTo(s, x))
BY SeqHalfAssumption, WindowAssumption DEF SeqNumbers, SeqMod, SeqAdd, DistanceTo

\* Moving on by k brings a number that is further ahead nearer by k.
LEMMA DistanceShift ==
    ASSUME NEW s \in SeqNumbers, NEW x \in SeqNumbers, NEW k \in 0 .. WindowSize + 1,
           DistanceTo(s, x) \in 1 .. WindowSize, k < DistanceTo(s, x)
    PROVE  DistanceTo(SeqAdd(s, k), x) = DistanceTo(s, x) - k
BY SeqHalfAssumption, WindowAssumption DEF SeqNumbers, SeqMod, SeqAdd, DistanceTo

\* A non-empty set of natural numbers has a least element.
LEMMA LeastNat ==
    ASSUME NEW S \in SUBSET Nat, S # {}
    PROVE  \E m \in S : \A y \in S : m <= y
<1> DEFINE R == {ss \in Nat \X Nat : ss[1] < ss[2]}
<1>1. IsWellFoundedOn(R, Nat)
    BY NatLessThanWellFounded DEF OpToRel
<1>2. PICK x \in S : \A y \in S : ~(<<y, x>> \in R)
    BY <1>1, WFMin
<1>3. \A y \in S : ~(y < x)
    <2>1. \A y \in S : y \in Nat /\ x \in Nat
        BY <1>2
    <2>2. \A y \in S : y < x => <<y, x>> \in R
        BY <2>1
    <2> HIDE DEF R
    <2> QED
        BY <1>2, <2>2
<1> QED
    BY <1>2, <1>3

\* The loop that pops acknowledged entries ends.
LEMMA AckedSome ==
    ASSUME NEW base, NEW unacked \in Seq(Entries), NEW ack
    PROVE  \E n \in AckedLengths(base, unacked, ack) : n \in 0 .. Len(unacked)
<1> DEFINE covered(i) == DistanceTo(base, unacked[i].seq) <= DistanceTo(base, ack)
           S == {n \in 0 .. Len(unacked) : n < Len(unacked) => ~covered(n + 1)}
<1>1. Len(unacked) \in Nat
    OBVIOUS
<1>2. Len(unacked) \in S /\ S \in SUBSET Nat
    BY <1>1
<1>3. PICK m \in S : \A y \in S : m <= y
    BY <1>2, LeastNat
<1> HIDE DEF covered
<1>4. ASSUME NEW i \in 1 .. m
      PROVE  covered(i)
    <2>1. m \in 0 .. Len(unacked)
        BY <1>3
    <2>2. i - 1 \in 0 .. Len(unacked) /\ i - 1 + 1 = i /\ i - 1 < Len(unacked) /\ ~(m <= i - 1)
        BY <1>1, <2>1
    <2>3. i - 1 \notin S
        <3> HIDE DEF S
        <3> QED
            BY <1>3, <2>2
    <2>4. i - 1 < Len(unacked) /\ covered(i - 1 + 1)
        BY <2>2, <2>3
    <2> QED
        BY <2>2, <2>4
<1>5. m \in AckedLengths(base, unacked, ack)
    BY <1>4 DEF AckedLengths, covered
<1> QED
    BY <1>5

\* The loop that drains the buffer ends within the window.
LEMMA DrainedSome ==
    ASSUME NEW next \in SeqNumbers, NEW buffer,
           \A e \in buffer : e.seq \in SeqNumbers /\ DistanceTo(next, e.seq) \in 1 .. WindowSize
    PROVE  \E k \in DrainLengths(next, buffer) : k \in 0 .. WindowSize
<1> DEFINE held(k) == SeqAdd(next, k) \in BufferedSeqs(buffer)
           S == {k \in 0 .. WindowSize : ~held(k + 1)}
<1>1. ~held(WindowSize + 1)
    <2>1. SUFFICES ASSUME NEW e \in buffer, e.seq = SeqAdd(next, WindowSize + 1)
                   PROVE  FALSE
        BY DEF BufferedSeqs
    <2>2. WindowSize + 1 \in 0 .. WindowSize + 1 /\ WindowSize \in Nat
        BY WindowAssumption
    <2>3. DistanceTo(next, e.seq) = WindowSize + 1
        BY <2>1, <2>2, DistanceAhead
    <2> QED
        BY <2>1, <2>2, <2>3
<1>2. WindowSize \in S /\ S \in SUBSET Nat
    BY <1>1, WindowAssumption
<1>3. PICK m \in S : \A y \in S : m <= y
    BY <1>2, LeastNat
<1> HIDE DEF held
<1>4. ASSUME NEW j \in 1 .. m
      PROVE  held(j)
    <2>1. j - 1 \in 0 .. WindowSize /\ j - 1 \notin S /\ j - 1 + 1 = j
        BY <1>3, WindowAssumption
    <2> QED
        BY <2>1
<1>5. m \in DrainLengths(next, buffer)
    BY <1>3, <1>4 DEF DrainLengths, held
<1> QED
    BY <1>5

-----------------------------------------------------------------------------
(* One connection *)

\* d comes of c: it is a connection to the same peer that has lost no event.
Succeeds(d, c) ==
    Typed(d) /\ d.remote = c.remote /\ d.initiator = c.initiator /\ EventsOf(c) \subseteq EventsOf(d)

SameWindows(d, c) ==
    /\ d.local_seq = c.local_seq /\ d.base_seq = c.base_seq /\ d.unacked = c.unacked
    /\ d.next_expected = c.next_expected /\ d.cumulative_ack = c.cumulative_ack
    /\ d.out_of_order = c.out_of_order

\* next_state changes the state alone, along an edge of the table.
LEMMA TransitionKeeps ==
    ASSUME NEW c, Typed(c), NEW ev
    PROVE  LET d == Transition(c, ev) IN
           /\ Succeeds(d, c) /\ SameWindows(d, c) /\ d.events = c.events
           /\ d.state = c.state \/ <<c.state, ev, d.state>> \in Transitions
<1> DEFINE d == Transition(c, ev)
<1>1. CASE ~CanTransition(c, ev)
    <2>1. d = c
        BY <1>1 DEF Transition
    <2> HIDE DEF d
    <2> QED
        BY <2>1 DEF Succeeds, SameWindows, d
<1>2. CASE CanTransition(c, ev)
    <2>1. PICK to \in ConnectionStates : d = [c EXCEPT !.state = to] /\ <<c.state, ev, to>> \in Transitions
        BY <1>2 DEF Transition, CanTransition
    <2> HIDE DEF d
    <2>2. DOMAIN d = ConnFields /\ d.state = to /\ d.remote = c.remote /\ d.initiator = c.initiator
          /\ d.outbound = c.outbound /\ d.events = c.events
        BY <2>1 DEF Typed, ConnFields
    <2>3. SameWindows(d, c)
        BY <2>1 DEF Typed, ConnFields, SameWindows
    <2>4. Typed(d)
        BY <2>1, <2>2, <2>3 DEF Typed, SameWindows
    <2>5. EventsOf(c) \subseteq EventsOf(d)
        BY <2>2 DEF EventsOf
    <2> QED
        BY <2>1, <2>2, <2>3, <2>4, <2>5 DEF Succeeds, d
<1> QED
    BY <1>1, <1>2

\* An event is added.
LEMMA EmitKeeps ==
    ASSUME NEW c, Typed(c), NEW event \in ConnEvents
    PROVE  LET d == Emit(c, event) IN
           /\ Succeeds(d, c) /\ SameWindows(d, c) /\ d.state = c.state /\ event \in EventsOf(d)
<1> DEFINE d == Emit(c, event)
<1>1. d = [c EXCEPT !.events = Append(c.events, event)]
    BY DEF Emit
<1> HIDE DEF d
<1>2. /\ DOMAIN d = ConnFields /\ d.state = c.state /\ d.remote = c.remote /\ d.initiator = c.initiator
      /\ d.outbound = c.outbound /\ d.events = Append(c.events, event)
    BY <1>1 DEF Typed, ConnFields
<1>3. SameWindows(d, c)
    BY <1>1 DEF Typed, ConnFields, SameWindows
<1>4. d.events \in Seq(ConnEvents)
    BY <1>2 DEF Typed
<1>5. Typed(d)
    BY <1>2, <1>3, <1>4 DEF Typed, SameWindows
<1>6. event \in EventsOf(d) /\ EventsOf(c) \subseteq EventsOf(d)
    <2>1. c.events \in Seq(ConnEvents)
        BY DEF Typed
    <2>2. /\ Len(d.events) = Len(c.events) + 1 /\ Len(c.events) \in Nat /\ d.events[Len(c.events) + 1] = event
          /\ \A i \in 1 .. Len(c.events) : d.events[i] = c.events[i]
        BY <1>2, <2>1
    <2>3. Len(c.events) + 1 \in 1 .. Len(d.events) /\ \A i \in 1 .. Len(c.events) : i \in 1 .. Len(d.events)
        BY <2>2
    <2>4. event \in EventsOf(d)
        BY <2>2, <2>3 DEF EventsOf
    <2>5. \A i \in 1 .. Len(c.events) : c.events[i] \in EventsOf(d)
        BY <2>2, <2>3 DEF EventsOf
    <2> QED
        BY <2>4, <2>5 DEF EventsOf
<1> QED
    BY <1>2, <1>3, <1>5, <1>6 DEF Succeeds, d

\* A packet that is no SYN is queued.
LEMMA QueueKeeps ==
    ASSUME NEW c, Typed(c), NEW packet \in PlainPackets
    PROVE  LET d == Queue(c, packet) IN
           /\ Succeeds(d, c) /\ SameWindows(d, c) /\ d.state = c.state
<1> DEFINE d == Queue(c, packet)
<1>1. d = [c EXCEPT !.outbound = Append(c.outbound, packet)]
    BY DEF Queue
<1> HIDE DEF d
<1>2. /\ DOMAIN d = ConnFields /\ d.state = c.state /\ d.remote = c.remote /\ d.initiator = c.initiator
      /\ d.outbound = Append(c.outbound, packet) /\ d.events = c.events
    BY <1>1 DEF Typed, ConnFields
<1>3. SameWindows(d, c)
    BY <1>1 DEF Typed, ConnFields, SameWindows
<1>4. d.outbound \in Seq(PlainPackets)
    BY <1>2 DEF Typed
<1>5. Typed(d)
    BY <1>2, <1>3, <1>4 DEF Typed, SameWindows
<1>6. EventsOf(c) \subseteq EventsOf(d)
    BY <1>2 DEF EventsOf
<1> QED
    BY <1>2, <1>3, <1>5, <1>6 DEF Succeeds, d

\* One operation after the other.
LEMMA SucceedsTwice ==
    ASSUME NEW c, NEW d, NEW e, Succeeds(d, c), Succeeds(e, d)
    PROVE  Succeeds(e, c)
BY DEF Succeeds

\* The packets a connection makes.
LEMMA PacketTypes ==
    ASSUME NEW cid \in ConnIds, NEW s \in SeqNumbers, NEW a \in SeqNumbers, NEW data \in Nat
    PROVE  /\ Ack(cid, s, a) \in PlainPackets /\ Data(cid, s, a, data) \in PlainPackets
           /\ Fin(cid, s, a) \in PlainPackets /\ Rst(cid) \in PlainPackets
           /\ Ping(cid, s) \in PlainPackets /\ Pong(cid, a) \in PlainPackets
           /\ Syn(cid) \in PacketsWith(Flags) /\ SynAck(cid, a) \in PacketsWith(Flags)
           /\ ~IsAck(Syn(cid)) /\ PlainPackets \subseteq PacketsWith(Flags)
<1>1. 0 \in SeqNumbers
    BY SeqHalfAssumption DEF SeqNumbers, SeqMod
<1>2. \A fl \in SUBSET (Flags \ {"SYN"}) : \A x, y \in SeqNumbers : \A d \in Nat :
        Packet(cid, fl, x, y, d) \in PlainPackets
    BY DEF Packet, PlainPackets, PacketsWith
<1>3. \A fl \in SUBSET Flags : \A x, y \in SeqNumbers : \A d \in Nat : Packet(cid, fl, x, y, d) \in PacketsWith(Flags)
    BY DEF Packet, PacketsWith
<1>4. {"ACK"} \in SUBSET (Flags \ {"SYN"}) /\ {"DATA", "ACK"} \in SUBSET (Flags \ {"SYN"})
      /\ {"FIN", "ACK"} \in SUBSET (Flags \ {"SYN"}) /\ {"RST"} \in SUBSET (Flags \ {"SYN"})
      /\ {"PING"} \in SUBSET (Flags \ {"SYN"}) /\ {"PONG"} \in SUBSET (Flags \ {"SYN"})
      /\ {"SYN"} \in SUBSET Flags /\ {"SYN", "ACK"} \in SUBSET Flags
    BY DEF Flags
<1>5. NoPayload \in Nat
    BY DEF NoPayload
<1>6. ~IsAck(Syn(cid))
    BY DEF IsAck, Syn, Packet
<1>7. PlainPackets \subseteq PacketsWith(Flags)
    BY DEF PlainPackets, PacketsWith
<1> QED
    BY <1>1, <1>2, <1>3, <1>4, <1>5, <1>6, <1>7, Zenon DEF Ack, Data, Fin, Rst, Ping, Pong, Syn, SynAck

\* SendWindow::acknowledge.
LEMMA OnAckKeeps ==
    ASSUME NEW c, Typed(c), NEW p \in PacketsWith(Flags)
    PROVE  Succeeds(OnAck(c, p), c) /\ OnAck(c, p).state = c.state
<1> DEFINE n == CHOOSE n \in AckedLengths(c.base_seq, c.unacked, p.ack) : TRUE
           d == [c EXCEPT !.unacked = SubSeq(c.unacked, n + 1, Len(c.unacked)),
                          !.base_seq = AckedBase(c.base_seq, p.ack, n)]
<1>1. CASE ~IsAck(p)
    BY <1>1 DEF OnAck, Succeeds
<1>2. CASE IsAck(p)
    <2>1. c.unacked \in Seq(Entries) /\ p.ack \in SeqNumbers
        BY DEF Typed, PacketsWith
    <2>2. n \in AckedLengths(c.base_seq, c.unacked, p.ack)
        BY <2>1, AckedSome
    <2>3. n \in 0 .. Len(c.unacked)
        BY <2>2 DEF AckedLengths
    <2>4. OnAck(c, p) = d
        BY <1>2 DEF OnAck
    <2> HIDE DEF n
    <2>5. /\ SubSeq(c.unacked, n + 1, Len(c.unacked)) \in Seq(Entries)
          /\ Len(SubSeq(c.unacked, n + 1, Len(c.unacked))) <= WindowSize
        <3>1. Len(c.unacked) \in Nat /\ n + 1 \in 1 .. Len(c.unacked) + 1
            BY <2>1, <2>3
        <3>2. /\ SubSeq(c.unacked, n + 1, Len(c.unacked)) \in Seq(Entries)
              /\ Len(SubSeq(c.unacked, n + 1, Len(c.unacked))) =
                   IF n + 1 <= Len(c.unacked) THEN Len(c.unacked) - (n + 1) + 1 ELSE 0
            BY <2>1, <3>1, SubSeqProperties
        <3>3. Len(c.unacked) <= WindowSize
            BY DEF Typed
        <3> QED
            BY <2>3, <3>1, <3>2, <3>3, WindowAssumption
    <2>6. AckedBase(c.base_seq, p.ack, n) \in SeqNumbers
        <3>1. 1 \in 0 .. WindowSize + 1
            BY WindowAssumption
        <3> QED
            BY <2>1, <3>1, WrappedType DEF AckedBase, SeqNext, Typed
    <2>7. /\ DOMAIN d = ConnFields /\ d.state = c.state /\ d.remote = c.remote /\ d.initiator = c.initiator
          /\ d.outbound = c.outbound /\ d.events = c.events /\ d.local_seq = c.local_seq
          /\ d.next_expected = c.next_expected /\ d.cumulative_ack = c.cumulative_ack /\ d.out_of_order = c.out_of_order
          /\ d.base_seq = AckedBase(c.base_seq, p.ack, n) /\ d.unacked = SubSeq(c.unacked, n + 1, Len(c.unacked))
        BY DEF Typed, ConnFields
    <2> HIDE DEF d
    <2>8. Typed(d) /\ EventsOf(c) \subseteq EventsOf(d)
        BY <2>5, <2>6, <2>7 DEF Typed, EventsOf
    <2> QED
        BY <2>4, <2>7, <2>8 DEF Succeeds
<1> QED
    BY <1>1, <1>2

\* A packet in order is delivered with the ones buffered behind it.
LEMMA DeliverKeeps ==
    ASSUME NEW cid \in ConnIds, NEW c, Typed(c), NEW p
    PROVE  Succeeds(DeliverInOrder(cid, c, p), c) /\ DeliverInOrder(cid, c, p).state = c.state
<1> DEFINE k == CHOOSE k \in DrainLengths(c.next_expected, c.out_of_order) : TRUE
           run == <<p.payload>> \o DrainedData(c.next_expected, c.out_of_order, k)
           news == [i \in 1 .. k + 1 |-> "DataReceived"]
           got == [c EXCEPT !.next_expected = SeqAdd(c.next_expected, k + 1),
                            !.cumulative_ack = SeqAdd(c.next_expected, k),
                            !.out_of_order = c.out_of_order \ Drained(c.next_expected, c.out_of_order, k),
                            !.inbound = c.inbound \o run,
                            !.events = c.events \o news]
<1>1. /\ c.next_expected \in SeqNumbers /\ c.events \in Seq(ConnEvents)
      /\ \A e \in c.out_of_order : e.seq \in SeqNumbers /\ DistanceTo(c.next_expected, e.seq) \in 1 .. WindowSize
    BY DEF Typed
<1>2. k \in DrainLengths(c.next_expected, c.out_of_order)
    BY <1>1, DrainedSome
<1>3. k \in 0 .. WindowSize /\ SeqAdd(c.next_expected, k + 1) \notin BufferedSeqs(c.out_of_order)
    BY <1>2 DEF DrainLengths
<1>4. DeliverInOrder(cid, c, p) = Queue(got, Ack(cid, c.local_seq, got.cumulative_ack))
    BY DEF DeliverInOrder
<1>5. /\ DOMAIN got = ConnFields /\ got.state = c.state /\ got.remote = c.remote /\ got.initiator = c.initiator
      /\ got.outbound = c.outbound /\ got.events = c.events \o news /\ got.local_seq = c.local_seq
      /\ got.base_seq = c.base_seq /\ got.unacked = c.unacked
      /\ got.next_expected = SeqAdd(c.next_expected, k + 1) /\ got.cumulative_ack = SeqAdd(c.next_expected, k)
      /\ got.out_of_order = c.out_of_order \ Drained(c.next_expected, c.out_of_order, k)
    <2> HIDE DEF k, run, news
    <2> QED
        BY DEF Typed, ConnFields
<1> HIDE DEF got, run, k
<1>6. k \in Nat /\ k + 1 \in 0 .. WindowSize + 1 /\ k \in 0 .. WindowSize + 1 /\ k + 1 \in Nat
    BY <1>3, WindowAssumption
<1>7. SeqAdd(c.next_expected, k + 1) \in SeqNumbers /\ SeqAdd(c.next_expected, k) \in SeqNumbers
    BY <1>1, <1>6, WrappedType
<1>8. news \in Seq(ConnEvents) /\ Len(news) = k + 1
    BY <1>6 DEF ConnEvents
<1> HIDE DEF news
<1>9. c.events \o news \in Seq(ConnEvents) /\ EventsOf(c) \subseteq EventsOf(got)
    <2>1. /\ c.events \o news \in Seq(ConnEvents) /\ Len(c.events \o news) = Len(c.events) + Len(news)
          /\ \A i \in 1 .. Len(c.events) : (c.events \o news)[i] = c.events[i]
        BY <1>1, <1>8
    <2>2. \A i \in 1 .. Len(c.events) : i \in 1 .. Len(got.events) /\ got.events[i] = c.events[i]
        <3>1. got.events = c.events \o news /\ Len(c.events) \in Nat /\ Len(news) \in Nat
            BY <1>1, <1>5, <1>6, <1>8
        <3>2. Len(got.events) = Len(c.events) + Len(news) /\ \A i \in 1 .. Len(c.events) : got.events[i] = c.events[i]
            BY <2>1, <3>1
        <3> QED
            BY <3>1, <3>2
    <2> QED
        BY <2>1, <2>2 DEF EventsOf
<1>10. ASSUME NEW e \in got.out_of_order
       PROVE  e.seq \in SeqNumbers /\ DistanceTo(got.next_expected, e.seq) \in 1 .. WindowSize
    <2> DEFINE dist == DistanceTo(c.next_expected, e.seq)
    <2>1. e \in c.out_of_order /\ e.seq \in SeqNumbers /\ dist \in 1 .. WindowSize
        BY <1>1, <1>5
    <2>2. \A j \in 1 .. k : e.seq # SeqAdd(c.next_expected, j)
        BY <1>5, <2>1 DEF Drained
    <2>3. e.seq # SeqAdd(c.next_expected, k + 1)
        BY <1>3, <2>1 DEF BufferedSeqs
    <2>4. dist \in 0 .. WindowSize
        BY <2>1
    <2>5. e.seq = SeqAdd(c.next_expected, dist)
        BY <1>1, <2>1, <2>4, AheadByDistance
    <2> HIDE DEF dist
    <2>6. ~(dist \in 1 .. k) /\ dist # k + 1
        BY <2>2, <2>3, <2>5
    <2>7. k + 1 < dist
        BY <1>6, <2>1, <2>6, WindowAssumption
    <2>8. DistanceTo(SeqAdd(c.next_expected, k + 1), e.seq) = dist - (k + 1)
        BY <1>1, <1>6, <2>1, <2>7, DistanceShift DEF dist
    <2> QED
        BY <1>5, <1>6, <2>1, <2>7, <2>8, WindowAssumption
<1>11. Typed(got)
    BY <1>5, <1>7, <1>9, <1>10 DEF Typed
<1>12. Succeeds(got, c)
    BY <1>5, <1>9, <1>11 DEF Succeeds
<1>13. Ack(cid, c.local_seq, got.cumulative_ack) \in PlainPackets
    BY <1>5, <1>7, PacketTypes, 0 \in Nat DEF Typed
<1> QED
    BY <1>4, <1>5, <1>11, <1>12, <1>13, QueueKeeps, SucceedsTwice

\* Data is delivered, buffered when it is ahead, or ignored.
LEMMA OnDataKeeps ==
    ASSUME NEW cid \in ConnIds, NEW c, Typed(c), NEW p \in PacketsWith(Flags)
    PROVE  Succeeds(OnData(cid, c, p), c) /\ OnData(cid, c, p).state = c.state
<1>1. CASE OnData(cid, c, p) = c
    BY <1>1 DEF Succeeds
<1>2. CASE OnData(cid, c, p) = DeliverInOrder(cid, c, p)
    BY <1>2, DeliverKeeps
<1>3. CASE /\ IsInWindow(c.next_expected, p.seq) /\ p.seq # c.next_expected
           /\ OnData(cid, c, p) = [c EXCEPT !.out_of_order = BufferPacket(c.out_of_order, p.seq, p.payload)]
    <2> DEFINE d == [c EXCEPT !.out_of_order = BufferPacket(c.out_of_order, p.seq, p.payload)]
    <2>1. /\ DOMAIN d = ConnFields /\ d.state = c.state /\ d.remote = c.remote /\ d.initiator = c.initiator
          /\ d.outbound = c.outbound /\ d.events = c.events /\ d.local_seq = c.local_seq
          /\ d.base_seq = c.base_seq /\ d.unacked = c.unacked
          /\ d.next_expected = c.next_expected /\ d.cumulative_ack = c.cumulative_ack
          /\ d.out_of_order = BufferPacket(c.out_of_order, p.seq, p.payload)
        BY DEF Typed, ConnFields
    <2> HIDE DEF d
    <2>2. p.seq \in SeqNumbers /\ DistanceTo(c.next_expected, p.seq) \in 1 .. WindowSize
        <3>1. p.seq \in SeqNumbers /\ c.next_expected \in SeqNumbers
            BY DEF PacketsWith, Typed
        <3> QED
            BY <1>3, <3>1, SeqHalfAssumption, WindowAssumption DEF IsInWindow, DistanceTo, SeqNumbers, SeqMod
    <2>3. \A e \in d.out_of_order : e \in c.out_of_order \/ e.seq = p.seq
        BY <2>1 DEF BufferPacket, Buffered
    <2>4. Typed(d) /\ EventsOf(c) \subseteq EventsOf(d)
        BY <2>1, <2>2, <2>3 DEF Typed, EventsOf
    <2> QED
        BY <1>3, <2>1, <2>4 DEF Succeeds, d
<1> QED
    BY <1>1, <1>2, <1>3 DEF OnData

\* A FIN ends an established connection, and is reported.
LEMMA OnFinKeeps ==
    ASSUME NEW cid \in ConnIds, NEW c, Typed(c), NEW p \in PacketsWith(Flags)
    PROVE  /\ Succeeds(OnFin(cid, c, p), c)
           /\ OnFin(cid, c, p).state = c.state \/ "Closed" \in EventsOf(OnFin(cid, c, p))
           /\ OnFin(cid, c, p).state = c.state \/ <<c.state, "RecvFin", OnFin(cid, c, p).state>> \in Transitions
<1>1. CASE "FIN" \notin p.flags
    BY <1>1 DEF OnFin, Succeeds
<1>2. CASE "FIN" \in p.flags
    <2> DEFINE t == Transition(c, "RecvFin")
               q == Queue(t, Ack(cid, c.local_seq, SeqNext(p.seq)))
               d == Emit(q, "Closed")
    <2>1. OnFin(cid, c, p) = d
        BY <1>2 DEF OnFin
    <2>2. Succeeds(t, c) /\ (t.state = c.state \/ <<c.state, "RecvFin", t.state>> \in Transitions)
        BY TransitionKeeps
    <2>3. Ack(cid, c.local_seq, SeqNext(p.seq)) \in PlainPackets
        <3>1. p.seq \in SeqNumbers /\ c.local_seq \in SeqNumbers /\ 1 \in 0 .. WindowSize + 1
            BY WindowAssumption DEF PacketsWith, Typed
        <3>2. SeqNext(p.seq) \in SeqNumbers
            BY <3>1, WrappedType DEF SeqNext
        <3> QED
            BY <3>1, <3>2, PacketTypes, 0 \in Nat
    <2> HIDE DEF t
    <2>4. Succeeds(q, t) /\ q.state = t.state
        BY <2>2, <2>3, QueueKeeps DEF Succeeds
    <2> HIDE DEF q
    <2>5. Succeeds(d, q) /\ d.state = q.state /\ "Closed" \in EventsOf(d)
        BY <2>4, EmitKeeps DEF Succeeds, ConnEvents
    <2> HIDE DEF d
    <2>6. Succeeds(d, c)
        BY <2>2, <2>4, <2>5, SucceedsTwice
    <2> QED
        BY <2>1, <2>2, <2>4, <2>5, <2>6
<1> QED
    BY <1>1, <1>2

\* A PING is answered.
LEMMA OnPingKeeps ==
    ASSUME NEW cid \in ConnIds, NEW c, Typed(c), NEW p \in PacketsWith(Flags)
    PROVE  Succeeds(OnPing(cid, c, p), c) /\ OnPing(cid, c, p).state = c.state
<1>1. CASE "PING" \notin p.flags
    BY <1>1 DEF OnPing, Succeeds
<1>2. CASE "PING" \in p.flags
    <2>1. p.seq \in SeqNumbers
        BY DEF PacketsWith
    <2>2. Pong(cid, p.seq) \in PlainPackets
        BY <2>1, PacketTypes, 0 \in Nat
    <2> QED
        BY <1>2, <2>2, QueueKeeps DEF OnPing
<1> QED
    BY <1>1, <1>2

\* A SYN-ACK opens the connection.
LEMMA HandshakeKeeps ==
    ASSUME NEW cid \in ConnIds, NEW c, Typed(c), NEW p \in PacketsWith(Flags)
    PROVE  LET d == CompleteHandshake(cid, c, p) IN
           Succeeds(d, c) /\ (d.state = c.state \/ <<c.state, "RecvSynAck", d.state>> \in Transitions)
<1> DEFINE open == Transition(c, "RecvSynAck")
           start == SeqNext(p.seq)
           reset == [open EXCEPT !.next_expected = start, !.cumulative_ack = start, !.out_of_order = {}]
           q == Queue(reset, Ack(cid, c.local_seq, start))
           d == Emit(q, "Connected")
<1>1. CompleteHandshake(cid, c, p) = d
    BY DEF CompleteHandshake
<1>2. Succeeds(open, c) /\ SameWindows(open, c) /\ (open.state = c.state \/ <<c.state, "RecvSynAck", open.state>> \in Transitions)
    BY TransitionKeeps
<1>3. start \in SeqNumbers
    <2>1. p.seq \in SeqNumbers /\ 1 \in 0 .. WindowSize + 1
        BY WindowAssumption DEF PacketsWith
    <2> QED
        BY <2>1, WrappedType DEF SeqNext
<1> HIDE DEF open, start
<1>4. /\ DOMAIN reset = ConnFields /\ reset.state = open.state /\ reset.remote = open.remote
      /\ reset.initiator = open.initiator /\ reset.outbound = open.outbound /\ reset.events = open.events
      /\ reset.local_seq = open.local_seq /\ reset.base_seq = open.base_seq /\ reset.unacked = open.unacked
      /\ reset.next_expected = start /\ reset.cumulative_ack = start /\ reset.out_of_order = {}
    BY <1>2 DEF Succeeds, Typed, ConnFields
<1> HIDE DEF reset
<1>5. Typed(reset) /\ EventsOf(open) \subseteq EventsOf(reset)
    BY <1>2, <1>3, <1>4 DEF Succeeds, Typed, EventsOf
<1>6. Succeeds(reset, open)
    BY <1>4, <1>5 DEF Succeeds
<1>7. Ack(cid, c.local_seq, start) \in PlainPackets
    BY <1>3, PacketTypes, 0 \in Nat DEF Typed
<1>8. Succeeds(q, reset) /\ q.state = reset.state
    BY <1>5, <1>7, QueueKeeps
<1> HIDE DEF q
<1>9. Succeeds(d, q) /\ d.state = q.state
    BY <1>8, EmitKeeps DEF Succeeds, ConnEvents
<1> HIDE DEF d
<1>10. Succeeds(d, c)
    BY <1>2, <1>6, <1>8, <1>9, SucceedsTwice
<1> QED
    BY <1>1, <1>2, <1>4, <1>8, <1>9, <1>10

\* What FIN_WAIT does with a packet.
LEMMA FinWaitKeeps ==
    ASSUME NEW c, Typed(c), NEW p \in PacketsWith(Flags), c.state = "FinWait"
    PROVE  Succeeds(OnFinWait(c, p), c) /\ Ending(OnFinWait(c, p).state)
<1> DEFINE acked == IF IsAck(p) THEN Transition(c, "RecvAck") ELSE c
           t == Transition(acked, "RecvFin")
<1>1. Succeeds(acked, c) /\ acked.state \in {"FinWait", "Closing"}
    <2>1. CASE ~IsAck(p)
        BY <2>1 DEF Succeeds
    <2>2. CASE IsAck(p)
        <3> DEFINE d == Transition(c, "RecvAck")
        <3>1. Succeeds(d, c) /\ (d.state = c.state \/ <<c.state, "RecvAck", d.state>> \in Transitions)
            BY TransitionKeeps
        <3> HIDE DEF d
        <3>2. d.state \in {"FinWait", "Closing"}
            BY <3>1 DEF Transitions
        <3> QED
            BY <2>2, <3>1, <3>2 DEF d
    <2> QED
        BY <2>1, <2>2
<1>2. OnFinWait(c, p) = IF "FIN" \in p.flags THEN Emit(t, "Closed") ELSE acked
    BY DEF OnFinWait
<1> HIDE DEF acked
<1>3. Succeeds(t, acked) /\ (t.state = acked.state \/ <<acked.state, "RecvFin", t.state>> \in Transitions)
    BY <1>1, TransitionKeeps DEF Succeeds
<1> HIDE DEF t
<1>4. t.state \in {"FinWait", "Closing", "TimeWait"}
    BY <1>1, <1>3 DEF Transitions
<1>5. Succeeds(Emit(t, "Closed"), t) /\ Emit(t, "Closed").state = t.state
    BY <1>3, EmitKeeps DEF Succeeds, ConnEvents
<1>6. Succeeds(Emit(t, "Closed"), c)
    BY <1>1, <1>3, <1>5, SucceedsTwice
<1> QED
    BY <1>1, <1>2, <1>4, <1>5, <1>6 DEF Ending

\* What a packet does to the state of a connection: it ends one that was ending or
\* whose end is reported, and opens one at the SYN-ACK or the ACK the state waits for.
PacketMoves(d, c, p) ==
    /\ Ending(d.state) => Ending(c.state) \/ HasEnd(d)
    /\ ~Ending(d.state) => d.state = c.state \/
         (d.state = "Established" /\ ((c.state = "SynSent" /\ IsSynAck(p)) \/ c.state = "SynReceived"))
    /\ d.state = "FinWait" => c.state = "FinWait"

\* process_packet.
LEMMA PacketStep ==
    ASSUME NEW cid \in ConnIds, NEW c, Typed(c), NEW p \in PacketsWith(Flags)
    PROVE  LET d == ProcessPacket(cid, c, p) IN Succeeds(d, c) /\ PacketMoves(d, c, p)
<1> DEFINE d == ProcessPacket(cid, c, p)
<1>1. CASE d = c
    BY <1>1 DEF Succeeds, PacketMoves
<1>2. CASE "RST" \in p.flags
    <2> DEFINE t == Transition(c, "RecvRst")
    <2>1. d = Emit(t, "Reset")
        BY <1>2 DEF ProcessPacket
    <2>2. Succeeds(t, c) /\ (t.state = c.state \/ <<c.state, "RecvRst", t.state>> \in Transitions)
        BY TransitionKeeps
    <2> HIDE DEF t, d
    <2>3. Succeeds(d, t) /\ d.state = t.state /\ "Reset" \in EventsOf(d)
        BY <2>1, <2>2, EmitKeeps DEF Succeeds, ConnEvents
    <2>4. HasEnd(d)
        BY <2>3 DEF HasEnd, EndsConnection
    <2>5. t.state = c.state \/ t.state = "Closed"
        BY <2>2 DEF Transitions
    <2>6. PacketMoves(d, c, p)
        BY <2>3, <2>4, <2>5 DEF PacketMoves, Ending
    <2> QED
        BY <2>2, <2>3, <2>6, SucceedsTwice DEF d
<1>3. CASE "RST" \notin p.flags /\ c.state = "SynSent" /\ IsSynAck(p)
    <2>1. d = CompleteHandshake(cid, c, p)
        BY <1>3 DEF ProcessPacket
    <2>2. Succeeds(d, c) /\ (d.state = c.state \/ <<c.state, "RecvSynAck", d.state>> \in Transitions)
        BY <2>1, HandshakeKeeps
    <2> HIDE DEF d
    <2>3. d.state = c.state \/ d.state = "Established"
        BY <1>3, <2>2 DEF Transitions
    <2> QED
        BY <1>3, <2>2, <2>3 DEF PacketMoves, Ending, d
<1>4. CASE "RST" \notin p.flags /\ c.state = "SynReceived" /\ IsAck(p)
    <2> DEFINE t == Transition(c, "RecvAck")
    <2>1. d = Emit(t, "Connected")
        BY <1>4 DEF ProcessPacket
    <2>2. Succeeds(t, c) /\ (t.state = c.state \/ <<c.state, "RecvAck", t.state>> \in Transitions)
        BY TransitionKeeps
    <2> HIDE DEF t, d
    <2>3. Succeeds(d, t) /\ d.state = t.state
        BY <2>1, <2>2, EmitKeeps DEF Succeeds, ConnEvents
    <2>4. t.state = c.state \/ t.state = "Established"
        BY <1>4, <2>2 DEF Transitions
    <2> QED
        BY <1>4, <2>2, <2>3, <2>4, SucceedsTwice DEF PacketMoves, Ending, d
<1>5. CASE "RST" \notin p.flags /\ c.state = "Established"
    <2> DEFINE x == OnAck(c, p)
               y == OnData(cid, x, p)
               z == OnFin(cid, y, p)
    <2>1. d = OnPing(cid, z, p)
        BY <1>5 DEF ProcessPacket
    <2>2. Succeeds(x, c) /\ x.state = c.state
        BY OnAckKeeps
    <2> HIDE DEF x
    <2>3. Succeeds(y, x) /\ y.state = x.state
        BY <2>2, OnDataKeeps DEF Succeeds
    <2> HIDE DEF y
    <2>4. Succeeds(z, y) /\ (z.state = y.state \/ "Closed" \in EventsOf(z))
          /\ (z.state = y.state \/ <<y.state, "RecvFin", z.state>> \in Transitions)
        BY <2>3, OnFinKeeps DEF Succeeds
    <2> HIDE DEF z, d
    <2>5. Succeeds(d, z) /\ d.state = z.state
        BY <2>1, <2>4, OnPingKeeps DEF Succeeds
    <2>6. Succeeds(d, c)
        BY <2>2, <2>3, <2>4, <2>5, SucceedsTwice
    <2>7. z.state = "Established" \/ (z.state = "Closing" /\ "Closed" \in EventsOf(z))
        BY <1>5, <2>2, <2>3, <2>4 DEF Transitions
    <2>8. "Closed" \in EventsOf(z) => HasEnd(d)
        BY <2>5 DEF Succeeds, HasEnd, EndsConnection
    <2> QED
        BY <1>5, <2>5, <2>6, <2>7, <2>8 DEF PacketMoves, Ending, d
<1>6. CASE "RST" \notin p.flags /\ c.state = "FinWait"
    <2>1. d = OnFinWait(c, p)
        BY <1>6 DEF ProcessPacket
    <2>2. Succeeds(d, c) /\ Ending(d.state)
        BY <1>6, <2>1, FinWaitKeeps
    <2> HIDE DEF d
    <2> QED
        BY <1>6, <2>2 DEF PacketMoves, Ending, d
<1>7. CASE "RST" \notin p.flags /\ c.state = "Closing" /\ (IsAck(p) \/ "FIN" \in p.flags)
    <2>1. d = Transition(c, "RecvAck")
        BY <1>7 DEF ProcessPacket
    <2>2. Succeeds(d, c) /\ (d.state = c.state \/ <<c.state, "RecvAck", d.state>> \in Transitions)
        BY <2>1, TransitionKeeps
    <2> HIDE DEF d
    <2>3. d.state = "Closing" \/ d.state = "TimeWait"
        BY <1>7, <2>2 DEF Transitions
    <2> QED
        BY <1>7, <2>2, <2>3 DEF PacketMoves, Ending, d
<1>8. CASE /\ "RST" \notin p.flags
           /\ \/ c.state = "SynSent" /\ ~IsSynAck(p)
              \/ c.state = "SynReceived" /\ ~IsAck(p)
              \/ c.state = "Closing" /\ ~(IsAck(p) \/ "FIN" \in p.flags)
              \/ c.state \notin {"SynSent", "SynReceived", "Established", "FinWait", "Closing"}
    <2>1. d = c
        BY <1>8 DEF ProcessPacket
    <2> QED
        BY <1>1, <2>1
<1> QED
    BY <1>2, <1>3, <1>4, <1>5, <1>6, <1>7, <1>8

\* poll: the state stays and the events stay, or the connection fails, which is an event.
PollMoves(d, c) == (d.state = c.state /\ d.events = c.events) \/ (d.state = "Closed" /\ HasEnd(d))

LEMMA PollKeeps ==
    ASSUME NEW cid \in ConnIds, NEW c, Typed(c), NEW tick, tick.expired \subseteq 1 .. Len(c.unacked)
    PROVE  LET polled == Poll(cid, c, tick) IN
           /\ Succeeds(polled.conn, c) /\ PollMoves(polled.conn, c) /\ polled.packets \subseteq PlainPackets
<1> DEFINE marked == [c EXCEPT !.unacked = Retransmitted(c.unacked, tick.expired)]
           resent(i) == Data(cid, c.unacked[i].seq, c.cumulative_ack, c.unacked[i].data)
           polled == Poll(cid, c, tick)
<1>1. c.unacked \in Seq(Entries) /\ c.outbound \in Seq(PlainPackets)
    BY DEF Typed
<1>2. /\ Retransmitted(c.unacked, tick.expired) \in Seq(Entries)
      /\ Len(Retransmitted(c.unacked, tick.expired)) = Len(c.unacked)
    <2> DEFINE r == Retransmitted(c.unacked, tick.expired)
               again == {i \in tick.expired : \A j \in RetriesExhausted(c.unacked, tick.expired) : i < j}
    <2>1. r = [i \in 1 .. Len(c.unacked) |->
                 IF i \in again THEN [c.unacked[i] EXCEPT !.transmissions = @ + 1] ELSE c.unacked[i]]
        BY DEF Retransmitted
    <2> HIDE DEF again
    <2>2. \A i \in 1 .. Len(c.unacked) : c.unacked[i] \in Entries
        BY <1>1
    <2>3. \A i \in 1 .. Len(c.unacked) : [c.unacked[i] EXCEPT !.transmissions = @ + 1] \in Entries
        BY <2>2 DEF Entries
    <2>4. Len(c.unacked) \in Nat
        BY <1>1
    <2>5. r \in [1 .. Len(c.unacked) -> Entries]
        BY <2>1, <2>2, <2>3
    <2> HIDE DEF r
    <2>6. r \in Seq(Entries) /\ Len(r) = Len(c.unacked)
        BY <2>4, <2>5
    <2> QED
        BY <2>6 DEF r
<1>3. Succeeds(marked, c) /\ marked.state = c.state /\ marked.events = c.events
    <2>1. /\ DOMAIN marked = ConnFields /\ marked.state = c.state /\ marked.remote = c.remote
          /\ marked.initiator = c.initiator /\ marked.outbound = c.outbound /\ marked.events = c.events
          /\ marked.local_seq = c.local_seq /\ marked.base_seq = c.base_seq
          /\ marked.unacked = Retransmitted(c.unacked, tick.expired)
          /\ marked.next_expected = c.next_expected /\ marked.cumulative_ack = c.cumulative_ack
          /\ marked.out_of_order = c.out_of_order
        BY DEF Typed, ConnFields
    <2> HIDE DEF marked
    <2>2. Typed(marked) /\ EventsOf(c) \subseteq EventsOf(marked)
        BY <1>2, <2>1 DEF Typed, EventsOf
    <2> QED
        BY <2>1, <2>2 DEF Succeeds
<1>4. ASSUME NEW x, Succeeds(x, c)
      PROVE  Succeeds(Fail(x).conn, c) /\ PollMoves(Fail(x).conn, c) /\ Fail(x).packets \subseteq PlainPackets
    <2> DEFINE t == Transition(x, "Timeout")
               d == Emit(t, "Error")
    <2>1. Fail(x).conn = d /\ Fail(x).packets = {}
        BY DEF Fail
    <2>2. Succeeds(t, x) /\ (t.state = x.state \/ <<x.state, "Timeout", t.state>> \in Transitions)
        BY <1>4, TransitionKeeps DEF Succeeds
    <2>3. t.state = "Closed"
        <3>1. x.state \in ConnectionStates
            BY <1>4 DEF Succeeds, Typed
        <3>2. CASE x.state = "Closed"
            BY <2>2, <3>2 DEF Transitions
        <3>3. CASE x.state # "Closed"
            <4>1. <<x.state, "Timeout", "Closed">> \in Transitions /\ "Closed" \in ConnectionStates
                BY <3>1, <3>3 DEF Transitions, ConnectionStates
            <4>2. PICK to \in ConnectionStates : t = [x EXCEPT !.state = to] /\ <<x.state, "Timeout", to>> \in Transitions
                BY <4>1 DEF Transition, CanTransition
            <4>3. to = "Closed"
                BY <4>2 DEF Transitions
            <4> QED
                BY <1>4, <4>2, <4>3 DEF Succeeds, Typed, ConnFields
        <3> QED
            BY <3>2, <3>3
    <2> HIDE DEF t
    <2>4. Succeeds(d, t) /\ d.state = "Closed" /\ "Error" \in EventsOf(d)
        BY <2>2, <2>3, EmitKeeps DEF Succeeds, ConnEvents
    <2> HIDE DEF d
    <2>5. HasEnd(d)
        BY <2>4 DEF HasEnd, EndsConnection
    <2>6. Succeeds(d, c)
        BY <1>4, <2>2, <2>4, SucceedsTwice
    <2> QED
        BY <2>1, <2>4, <2>5, <2>6 DEF PollMoves
<1>5. CASE polled = Fail(c) \/ polled = Fail(marked)
    <2>1. Succeeds(c, c)
        BY DEF Succeeds
    <2> HIDE DEF marked, polled
    <2> QED
        BY <1>3, <1>4, <1>5, <2>1 DEF polled
<1>6. CASE polled = [conn |-> [marked EXCEPT !.outbound = <<>>],
                     packets |-> {c.outbound[i] : i \in 1 .. Len(c.outbound)}
                                   \cup {resent(i) : i \in tick.expired}
                                   \cup {p \in {Ping(cid, c.local_seq)} : tick.ping}]
    <2> DEFINE d == [marked EXCEPT !.outbound = <<>>]
               packets == {c.outbound[i] : i \in 1 .. Len(c.outbound)}
                            \cup {resent(i) : i \in tick.expired}
                            \cup {p \in {Ping(cid, c.local_seq)} : tick.ping}
    <2>1. polled.conn = d /\ polled.packets = packets
        BY <1>6
    <2> HIDE DEF marked
    <2>2. /\ DOMAIN d = ConnFields /\ d.state = marked.state /\ d.remote = marked.remote
          /\ d.initiator = marked.initiator /\ d.outbound = <<>> /\ d.events = marked.events
          /\ SameWindows(d, marked)
        BY <1>3 DEF Succeeds, Typed, ConnFields, SameWindows
    <2> HIDE DEF d
    <2>3. Typed(d) /\ EventsOf(c) \subseteq EventsOf(d)
        BY <1>3, <2>2 DEF Succeeds, Typed, EventsOf, SameWindows
    <2>4. Succeeds(d, c) /\ PollMoves(d, c)
        BY <1>3, <2>2, <2>3 DEF Succeeds, PollMoves
    <2>5. \A i \in 1 .. Len(c.outbound) : c.outbound[i] \in PlainPackets
        BY <1>1
    <2>6. \A i \in tick.expired : resent(i) \in PlainPackets
        <3>1. \A i \in tick.expired : c.unacked[i] \in Entries
            BY <1>1
        <3>2. \A i \in tick.expired : c.unacked[i].seq \in SeqNumbers /\ c.unacked[i].data \in Nat
            BY <3>1 DEF Entries
        <3>3. c.cumulative_ack \in SeqNumbers
            BY DEF Typed
        <3> QED
            BY <3>2, <3>3, PacketTypes
    <2>7. Ping(cid, c.local_seq) \in PlainPackets
        BY PacketTypes, 0 \in Nat DEF Typed
    <2> HIDE DEF resent
    <2>8. packets \subseteq PlainPackets
        BY <2>5, <2>6, <2>7
    <2> HIDE DEF packets, polled
    <2> QED
        BY <2>1, <2>4, <2>8 DEF polled
<1> QED
    BY <1>5, <1>6 DEF Poll

\* What one call of poll can see of a connection's clock.
LEMMA TickExpired ==
    ASSUME NEW c, NEW tick \in Ticks(c)
    PROVE  tick.expired \subseteq 1 .. Len(c.unacked)
BY DEF Ticks, Quiet, TimedOut, PingDue, Expired

\* A new connection has the type, and nothing to report.
LEMMA NewTyped ==
    ASSUME NEW m \in Nodes, NEW c, c = NewConnection(m, TRUE) \/ c = NewConnection(m, FALSE)
    PROVE  Typed(c) /\ c.remote = m /\ c.state = "Closed"
<1>1. 0 \in SeqNumbers /\ 0 <= WindowSize
    BY SeqHalfAssumption, WindowAssumption DEF SeqNumbers, SeqMod
<1>2. /\ DOMAIN c = ConnFields /\ c.remote = m /\ c.state = "Closed"
      /\ c.local_seq = 0 /\ c.base_seq = 0 /\ c.unacked = <<>> /\ c.next_expected = 0 /\ c.cumulative_ack = 0
      /\ c.out_of_order = {} /\ c.outbound = <<>> /\ c.events = <<>>
    BY DEF NewConnection, ConnFields
<1> QED
    BY <1>1, <1>2 DEF Typed, ConnectionStates

\* It leaves Closed by the SYN it sends or receives.
LEMMA OpenKeeps ==
    ASSUME NEW c, Typed(c), c.state = "Closed"
    PROVE  /\ Succeeds(Transition(c, "Open"), c) /\ Transition(c, "Open").state = "SynSent"
           /\ Succeeds(Transition(c, "RecvSyn"), c) /\ Transition(c, "RecvSyn").state = "SynReceived"
<1>1. ASSUME NEW ev, NEW goal \in ConnectionStates, <<ev, goal>> \in {<<"Open", "SynSent">>, <<"RecvSyn", "SynReceived">>}
      PROVE  Transition(c, ev).state = goal
    <2>1. <<c.state, ev, goal>> \in Transitions
        BY <1>1 DEF Transitions
    <2>2. PICK to \in ConnectionStates : Transition(c, ev) = [c EXCEPT !.state = to] /\ <<c.state, ev, to>> \in Transitions
        BY <2>1 DEF Transition, CanTransition
    <2>3. to = goal
        BY <1>1, <2>2 DEF Transitions
    <2> QED
        BY <2>2, <2>3 DEF Typed, ConnFields
<1> QED
    BY <1>1, TransitionKeeps DEF ConnectionStates

\* send: the chunks are queued within the window.
LEMMA SendKeeps ==
    ASSUME NEW cid \in ConnIds, NEW c, Typed(c), NEW first \in Nat,
           NEW count \in 0 .. WindowSize - Len(c.unacked)
    PROVE  LET d == SendChunks(cid, c, first + 1, count) IN
           /\ Succeeds(d, c) /\ d.state = c.state /\ d.events = c.events
           /\ Len(d.unacked) >= Len(c.unacked)
<1> DEFINE seq(i) == SeqAdd(c.local_seq, i - 1)
           entry(i) == SendEntry(seq(i), first + 1 + i - 1)
           packet(i) == Data(cid, seq(i), c.cumulative_ack, first + 1 + i - 1)
           entries == [i \in 1 .. count |-> entry(i)]
           packets == [i \in 1 .. count |-> packet(i)]
           d == SendChunks(cid, c, first + 1, count)
<1>1. /\ c.unacked \in Seq(Entries) /\ c.outbound \in Seq(PlainPackets) /\ c.local_seq \in SeqNumbers
      /\ c.cumulative_ack \in SeqNumbers /\ Len(c.unacked) \in Nat /\ WindowSize \in Nat
      /\ Len(c.unacked) <= WindowSize
    BY WindowAssumption DEF Typed
<1>2. count \in Nat /\ count \in 0 .. WindowSize + 1
    BY <1>1
<1>3. ASSUME NEW i \in 1 .. count
      PROVE  seq(i) \in SeqNumbers /\ first + 1 + i - 1 \in Nat
    <2>1. i - 1 \in 0 .. WindowSize + 1 /\ first + 1 + i - 1 \in Nat
        BY <1>1, <1>2
    <2> QED
        BY <1>1, <2>1, WrappedType
<1> HIDE DEF seq
<1>4. \A i \in 1 .. count : entry(i) \in Entries
    BY <1>3 DEF SendEntry, Entries
<1>5. \A i \in 1 .. count : packet(i) \in PlainPackets
    BY <1>1, <1>3, PacketTypes
<1> HIDE DEF entry, packet
<1>6. entries \in Seq(Entries) /\ Len(entries) = count /\ packets \in Seq(PlainPackets)
    BY <1>2, <1>4, <1>5
<1>7. d = [c EXCEPT !.local_seq = SeqAdd(c.local_seq, count), !.unacked = c.unacked \o entries,
                    !.outbound = c.outbound \o packets]
    BY DEF SendChunks, entry, packet, seq
<1> HIDE DEF d, entries, packets
<1>8. /\ DOMAIN d = ConnFields /\ d.state = c.state /\ d.remote = c.remote /\ d.initiator = c.initiator
      /\ d.events = c.events /\ d.base_seq = c.base_seq /\ d.next_expected = c.next_expected
      /\ d.cumulative_ack = c.cumulative_ack /\ d.out_of_order = c.out_of_order
      /\ d.local_seq = SeqAdd(c.local_seq, count) /\ d.unacked = c.unacked \o entries
      /\ d.outbound = c.outbound \o packets
    BY <1>7 DEF Typed, ConnFields
<1>9. /\ d.unacked \in Seq(Entries) /\ Len(d.unacked) = Len(c.unacked) + count
      /\ d.outbound \in Seq(PlainPackets)
    <2>1. \A s, t \in Seq(Entries) : s \o t \in Seq(Entries) /\ Len(s \o t) = Len(s) + Len(t)
        OBVIOUS
    <2>2. \A s, t \in Seq(PlainPackets) : s \o t \in Seq(PlainPackets)
        OBVIOUS
    <2> QED
        BY <1>1, <1>6, <1>8, <2>1, <2>2, Zenon
<1>10. d.local_seq \in SeqNumbers
    BY <1>1, <1>2, <1>8, WrappedType
<1>11. Len(d.unacked) <= WindowSize /\ Len(d.unacked) >= Len(c.unacked)
    BY <1>1, <1>2, <1>9
<1>12. Typed(d) /\ EventsOf(c) \subseteq EventsOf(d)
    BY <1>8, <1>9, <1>10, <1>11 DEF Typed, EventsOf
<1> QED
    BY <1>8, <1>11, <1>12 DEF Succeeds, d

\* Reading the events, or the received data, leaves the connection typed.
LEMMA ReadKeeps ==
    ASSUME NEW c, Typed(c)
    PROVE  /\ LET d == [c EXCEPT !.events = <<>>] IN
              /\ Typed(d) /\ d.remote = c.remote /\ d.initiator = c.initiator /\ d.state = c.state
              /\ EventsOf(d) = {} /\ d.unacked = c.unacked
           /\ \A x : LET d == [c EXCEPT !.inbound = x] IN
                     Succeeds(d, c) /\ d.state = c.state /\ d.events = c.events
<1>1. ASSUME NEW d, d = [c EXCEPT !.events = <<>>]
      PROVE  /\ Typed(d) /\ d.remote = c.remote /\ d.initiator = c.initiator /\ d.state = c.state
             /\ EventsOf(d) = {} /\ d.unacked = c.unacked
    <2>1. /\ DOMAIN d = ConnFields /\ d.state = c.state /\ d.remote = c.remote /\ d.initiator = c.initiator
          /\ d.outbound = c.outbound /\ d.events = <<>> /\ SameWindows(d, c)
        BY <1>1 DEF Typed, ConnFields, SameWindows
    <2> QED
        BY <2>1 DEF Typed, SameWindows, EventsOf
<1>2. ASSUME NEW x, NEW d, d = [c EXCEPT !.inbound = x]
      PROVE  Succeeds(d, c) /\ d.state = c.state /\ d.events = c.events
    <2>1. /\ DOMAIN d = ConnFields /\ d.state = c.state /\ d.remote = c.remote /\ d.initiator = c.initiator
          /\ d.outbound = c.outbound /\ d.events = c.events /\ SameWindows(d, c)
        BY <1>2 DEF Typed, ConnFields, SameWindows
    <2> QED
        BY <2>1 DEF Typed, SameWindows, EventsOf, Succeeds
<1> QED
    BY <1>1, <1>2

-----------------------------------------------------------------------------
(* Constrained engines: every step keeps the invariant *)

Told(n, id) == Reported(n, {"ConnectionAccepted", "ConnectionEstablished"}, id)
Messages == [from : Nodes, to : Nodes, packet : PacketsWith(Flags)]

\* The connections of one node change, within their types.
LEMMA TableTyped ==
    ASSUME EngineType, NEW n \in Nodes, NEW table, connections' = [connections EXCEPT ![n] = table],
           DOMAIN table \subseteq ConnIds, \A id \in DOMAIN table : Typed(table[id]),
           next_conn_id' \in [Nodes -> ConnIds], DOMAIN events' = Nodes, net' \subseteq Messages,
           DOMAIN sent' = Nodes \X ConnIds, \A x \in Nodes \X ConnIds : sent'[x] \in Seq(Nat)
    PROVE  EngineType' /\ connections'[n] = table /\ \A m \in Nodes : m # n => connections'[m] = connections[m]
<1>1. /\ DOMAIN connections' = Nodes /\ connections'[n] = table
      /\ \A m \in Nodes : m # n => connections'[m] = connections[m]
    BY DEF EngineType
<1>2. \A m \in Nodes : DOMAIN connections'[m] \subseteq ConnIds
    BY <1>1 DEF EngineType
<1>3. \A m \in Nodes : \A id \in DOMAIN connections'[m] : Typed(connections'[m][id])
    BY <1>1 DEF EngineType
<1> QED
    BY <1>1, <1>2, <1>3 DEF EngineType, Messages

\* What is accounted for stays so, as the events and the ends only grow.
LEMMA AccountedStays ==
    ASSUME \A n \in Nodes : events[n] \subseteq events'[n], ended \subseteq ended'
    PROVE  \A n \in Nodes : \A id : /\ Ended(n, id) => Ended(n, id)'
                                    /\ Accounted(n, id) => Accounted(n, id)'
BY DEF Accounted, Ended, Reported

\* An end among the events of a connection is an end the application sees.
LEMMA EndIsReported ==
    ASSUME NEW n \in Nodes, NEW id, NEW c, NEW evs, HasEnd(c),
           {event \in EventsOf(c) : EndsConnection(event)} \subseteq evs,
           EngineEvents(id, evs) \subseteq events'[n]
    PROVE  Ended(n, id)'
<1>1. PICK event \in EventsOf(c) : event \in {"Closed", "Reset", "Error"}
    BY DEF HasEnd, EndsConnection
<1>2. event \in evs
    BY <1>1 DEF EndsConnection
<1>3. PICK kind \in {"ConnectionClosed", "ConnectionError"} : kind \in ReportedAs(event)
    BY <1>1 DEF ReportedAs
<1>4. Event(kind, id) \in EngineEvents(id, evs)
    BY <1>2, <1>3 DEF EngineEvents
<1>5. \E k \in {"ConnectionClosed", "ConnectionError"} : Event(k, id) \in events'[n]
    BY <1>3, <1>4
<1> QED
    BY <1>5 DEF Ended, Reported, Event

\* What a step must show: each connection it leaves in an ending state is accounted for,
\* each one it drops is, and the application is told only of connections that are there.
LEMMA EngineStep ==
    ASSUME EngineInv, EngineType', \A n \in Nodes : events[n] \subseteq events'[n], ended \subseteq ended',
           \A n \in Nodes : \A id \in DOMAIN connections'[n] :
               \/ id \in DOMAIN connections[n] /\ connections'[n][id] = connections[n][id]
               \/ Ending(connections'[n][id].state) => Accounted(n, id)' \/ HasEnd(connections'[n][id]),
           \A n \in Nodes : \A id \in DOMAIN connections[n] : id \in DOMAIN connections'[n] \/ Accounted(n, id)',
           \A n \in Nodes : \A id \in ConnIds : Told(n, id)' => Told(n, id) \/ id \in DOMAIN connections'[n]
    PROVE  EngineInv'
<1>1. \A n \in Nodes : \A id : Accounted(n, id) => Accounted(n, id)'
    BY AccountedStays
<1>2. EndInv'
    <2>1. ASSUME NEW n \in Nodes, NEW id \in DOMAIN connections'[n], Ending(connections'[n][id].state)
          PROVE  Accounted(n, id)' \/ HasEnd(connections'[n][id])
        BY <1>1, <2>1 DEF EngineInv, EndInv
    <2> QED
        BY <2>1 DEF EndInv, HasEnd, EventsOf
<1>3. EndReported'
    <2>1. ASSUME NEW n \in Nodes, NEW id \in ConnIds, Told(n, id)'
          PROVE  id \in DOMAIN connections'[n] \/ Accounted(n, id)'
        BY <1>1, <2>1 DEF EngineInv, EndReported, Told, HasConnection, Accounted
    <2> QED
        BY <2>1 DEF EndReported, HasConnection, Accounted, Told
<1> QED
    BY <1>2, <1>3 DEF EngineInv

\* The common part of the steps that change one connection of n, which stays.
LEMMA OneConnection ==
    ASSUME EngineInv, NEW n \in Nodes, NEW id \in DOMAIN connections[n], NEW d, Typed(d),
           connections' = [connections EXCEPT ![n][id] = d],
           Ending(d.state) => Accounted(n, id)' \/ HasEnd(d),
           next_conn_id' = next_conn_id, DOMAIN events' = Nodes, \A m \in Nodes : events[m] \subseteq events'[m],
           \A m \in Nodes : m # n => events'[m] = events[m], \A e \in events'[n] : e \in events[n] \/ e.id = id,
           ended \subseteq ended', net' \subseteq Messages,
           DOMAIN sent' = Nodes \X ConnIds, \A x \in Nodes \X ConnIds : sent'[x] \in Seq(Nat)
    PROVE  EngineInv'
<1> DEFINE table == [connections[n] EXCEPT ![id] = d]
<1>1. EngineType
    BY DEF EngineInv
<1>2. connections' = [connections EXCEPT ![n] = table]
    OBVIOUS
<1>3. DOMAIN table = DOMAIN connections[n] /\ table[id] = d
      /\ \A x \in DOMAIN connections[n] : x # id => table[x] = connections[n][x]
    OBVIOUS
<1> HIDE DEF table
<1>4. DOMAIN table \subseteq ConnIds /\ \A x \in DOMAIN table : Typed(table[x])
    BY <1>1, <1>3 DEF EngineType
<1>5. next_conn_id' \in [Nodes -> ConnIds]
    BY <1>1 DEF EngineType
<1>6. EngineType' /\ connections'[n] = table /\ \A m \in Nodes : m # n => connections'[m] = connections[m]
    BY <1>1, <1>2, <1>4, <1>5, TableTyped
<1>7. ASSUME NEW m \in Nodes, NEW x \in DOMAIN connections'[m]
      PROVE  \/ x \in DOMAIN connections[m] /\ connections'[m][x] = connections[m][x]
             \/ Ending(connections'[m][x].state) => Accounted(m, x)' \/ HasEnd(connections'[m][x])
    BY <1>3, <1>6
<1>8. \A m \in Nodes : \A x \in DOMAIN connections[m] : x \in DOMAIN connections'[m]
    BY <1>3, <1>6
<1>9. ASSUME NEW m \in Nodes, NEW x \in ConnIds, Told(m, x)'
      PROVE  Told(m, x) \/ x \in DOMAIN connections'[m]
    <2>1. PICK kind \in {"ConnectionAccepted", "ConnectionEstablished"} : Event(kind, x) \in events'[m]
        BY <1>9 DEF Told, Reported, Event
    <2>2. Event(kind, x).id = x
        BY DEF Event
    <2> QED
        BY <1>3, <1>6, <2>1, <2>2 DEF Told, Reported
<1> QED
    BY <1>6, <1>7, <1>8, <1>9, EngineStep

\* connect inserts a connection in SynSent.
LEMMA ConnectStep ==
    ASSUME EngineInv, NEW n \in Nodes, NEW m \in Nodes, Connect(n, m)
    PROVE  EngineInv'
<1> DEFINE id == next_conn_id[n]
           conn == Transition(NewConnection(m, TRUE), "Open")
           table == Inserted(connections[n], id, conn)
<1>1. EngineType /\ id \in ConnIds
    BY DEF EngineInv, EngineType
<1>2. Typed(conn) /\ conn.state = "SynSent"
    BY NewTyped, OpenKeeps DEF Succeeds
<1>3. connections' = [connections EXCEPT ![n] = table]
    BY DEF Connect
<1>4. net' = net \cup {Message(n, m, Syn(id))} /\ next_conn_id' = [next_conn_id EXCEPT ![n] = ConnIdAfter(id)]
      /\ events' = events /\ sent' = sent /\ ended' = ended
    BY DEF Connect, history
<1> HIDE DEF conn, id
<1>5. DOMAIN table = DOMAIN connections[n] \cup {id} /\ table[id] = conn
      /\ \A x \in DOMAIN connections[n] : x # id => table[x] = connections[n][x]
    BY DEF Inserted
<1> HIDE DEF table
<1>6. DOMAIN table \subseteq ConnIds /\ \A x \in DOMAIN table : Typed(table[x])
    BY <1>1, <1>2, <1>5 DEF EngineType
<1>7. ConnIdAfter(id) \in ConnIds
    BY <1>1, EngineConstants DEF ConnIdAfter, ConnIds
<1>8. next_conn_id' \in [Nodes -> ConnIds] /\ DOMAIN events' = Nodes
    BY <1>1, <1>4, <1>7 DEF EngineType
<1>9. net' \subseteq Messages
    <2>1. 0 \in SeqNumbers
        BY SeqHalfAssumption DEF SeqNumbers, SeqMod
    <2>2. Syn(id) \in PacketsWith(Flags)
        BY <1>1, <2>1, PacketTypes, 0 \in Nat
    <2> QED
        BY <1>1, <1>4, <2>2 DEF EngineType, Messages, Message
<1>10. DOMAIN sent' = Nodes \X ConnIds /\ \A x \in Nodes \X ConnIds : sent'[x] \in Seq(Nat)
    BY <1>1, <1>4 DEF EngineType
<1>11. EngineType' /\ connections'[n] = table /\ \A k \in Nodes : k # n => connections'[k] = connections[k]
    BY <1>1, <1>3, <1>6, <1>8, <1>9, <1>10, TableTyped
<1>12. ASSUME NEW k \in Nodes, NEW x \in DOMAIN connections'[k]
       PROVE  \/ x \in DOMAIN connections[k] /\ connections'[k][x] = connections[k][x]
              \/ Ending(connections'[k][x].state) => Accounted(k, x)' \/ HasEnd(connections'[k][x])
    BY <1>2, <1>5, <1>11 DEF Ending
<1>13. \A k \in Nodes : \A x \in DOMAIN connections[k] : x \in DOMAIN connections'[k]
    BY <1>5, <1>11
<1>14. \A k \in Nodes : \A x : Told(k, x)' => Told(k, x)
    BY <1>4 DEF Told, Reported
<1> QED
    BY <1>4, <1>11, <1>12, <1>13, <1>14, EngineStep

\* A packet for a known connection: the events it leads to are reported before poll, which
\* keeps the connection.
LEMMA KnownStep ==
    ASSUME EngineInv, NEW n \in Nodes, NEW msg \in net, NEW rest, rest \subseteq net, NEW again,
           ProcessKnown(n, msg, rest, again), UNCHANGED history
    PROVE  EngineInv'
<1> DEFINE id == msg.packet.cid
           c == connections[n][id]
           seen == ProcessPacket(id, c, msg.packet)
           taken == [seen EXCEPT !.events = <<>>]
<1>1. EngineType
    BY DEF EngineInv
<1>2. id \in DOMAIN connections[n] /\ id \in ConnIds /\ Typed(c) /\ msg.packet \in PacketsWith(Flags) /\ msg.from \in Nodes
    <2>1. id \in DOMAIN connections[n]
        BY DEF ProcessKnown, HasConnection
    <2> QED
        BY <1>1, <2>1 DEF EngineType
<1>3. PICK tick \in Ticks(taken) : PollAndTransmit(n, id, taken, tick, msg.from, rest)
    BY DEF ProcessKnown
<1>4. /\ events' = [events EXCEPT ![n] = events[n] \cup EngineEvents(id, EventsOf(seen))]
      /\ next_conn_id' = next_conn_id /\ sent' = sent /\ ended' = ended
    BY DEF ProcessKnown, history
<1> DEFINE polled == Poll(id, taken, tick)
           d == polled.conn
<1>5. connections' = [connections EXCEPT ![n][id] = d] /\ net' = rest \cup Addressed(n, msg.from, polled.packets)
    BY <1>3 DEF PollAndTransmit
<1>6. Succeeds(seen, c) /\ PacketMoves(seen, c, msg.packet)
    BY <1>2, PacketStep
<1> HIDE DEF seen, c
<1>7. Typed(taken) /\ taken.state = seen.state /\ EventsOf(taken) = {} /\ Typed(seen)
    BY <1>6, ReadKeeps DEF Succeeds
<1> HIDE DEF taken
<1>8. tick.expired \subseteq 1 .. Len(taken.unacked)
    BY <1>3, TickExpired
<1>9. Succeeds(d, taken) /\ PollMoves(d, taken) /\ polled.packets \subseteq PlainPackets
    BY <1>2, <1>7, <1>8, PollKeeps
<1> HIDE DEF polled
<1> HIDE DEF d, id
<1>10. DOMAIN events' = Nodes /\ \A m \in Nodes : events[m] \subseteq events'[m]
    BY <1>1, <1>4 DEF EngineType
<1>11. \A m \in Nodes : m # n => events'[m] = events[m]
    BY <1>1, <1>4 DEF EngineType
<1>12. \A e \in events'[n] : e \in events[n] \/ e.id = id
    BY <1>1, <1>4 DEF EngineType, EngineEvents, Event
<1>13. EngineEvents(id, EventsOf(seen)) \subseteq events'[n]
    BY <1>1, <1>4 DEF EngineType
<1>14. Ending(d.state) => Accounted(n, id)' \/ HasEnd(d)
    <2>1. SUFFICES ASSUME Ending(d.state), ~HasEnd(d)
                   PROVE  Accounted(n, id)'
        OBVIOUS
    <2>2. Ending(seen.state)
        BY <1>7, <1>9, <2>1 DEF PollMoves
    <2>3. CASE HasEnd(seen)
        <3>1. {event \in EventsOf(seen) : EndsConnection(event)} \subseteq EventsOf(seen)
            OBVIOUS
        <3>2. Ended(n, id)'
            BY <1>13, <2>3, <3>1, EndIsReported
        <3> QED
            BY <3>2 DEF Accounted
    <2>4. CASE ~HasEnd(seen)
        <3>1. Ending(c.state) /\ ~HasEnd(c)
            BY <1>6, <2>2, <2>4 DEF PacketMoves, Succeeds, HasEnd
        <3>2. Accounted(n, id)
            BY <1>2, <3>1 DEF EngineInv, EndInv, c, id
        <3> QED
            BY <1>4, <1>10, <3>2, AccountedStays
    <2> QED
        BY <2>3, <2>4
<1>15. net' \subseteq Messages
    <2>1. PlainPackets \subseteq PacketsWith(Flags)
        BY DEF PlainPackets, PacketsWith
    <2> QED
        BY <1>1, <1>2, <1>5, <1>9, <2>1 DEF EngineType, Messages, Addressed, Message
<1>16. DOMAIN sent' = Nodes \X ConnIds /\ \A x \in Nodes \X ConnIds : sent'[x] \in Seq(Nat)
    BY <1>1, <1>4 DEF EngineType
<1>17. Typed(d)
    BY <1>9 DEF Succeeds
<1>18. ended \subseteq ended'
    BY <1>4
<1> QED
    BY <1>2, <1>4, <1>5, <1>10, <1>11, <1>12, <1>14, <1>15, <1>16, <1>17, <1>18, OneConnection

\* A SYN for an unknown connection: it is inserted in SynReceived and reported.
LEMMA AcceptStep ==
    ASSUME EngineInv, NEW n \in Nodes, NEW msg \in net, NEW rest, rest \subseteq net, NEW again,
           AcceptSyn(n, msg, rest, again), UNCHANGED history
    PROVE  EngineInv'
<1> DEFINE id == msg.packet.cid
           conn == Transition(NewConnection(msg.from, FALSE), "RecvSyn")
           table == Inserted(connections[n], id, conn)
<1>1. EngineType
    BY DEF EngineInv
<1>2. msg.from \in Nodes /\ msg.packet \in PacketsWith(Flags) /\ id \in ConnIds /\ msg.packet.seq \in SeqNumbers
    <2>1. msg.from \in Nodes /\ msg.packet \in PacketsWith(Flags)
        BY <1>1 DEF EngineType
    <2> QED
        BY <2>1 DEF PacketsWith
<1>3. Typed(conn) /\ conn.state = "SynReceived"
    BY <1>2, NewTyped, OpenKeeps DEF Succeeds
<1>4. connections' = [connections EXCEPT ![n] = table] /\ id \notin DOMAIN connections[n]
    BY DEF AcceptSyn, HasConnection
<1>5. net' = rest \cup {Message(n, msg.from, SynAck(id, SeqNext(msg.packet.seq)))}
      /\ events' = [events EXCEPT ![n] = events[n] \cup {Event("ConnectionAccepted", id)}]
      /\ next_conn_id' = next_conn_id /\ sent' = sent /\ ended' = ended
    BY DEF AcceptSyn, history
<1> HIDE DEF conn, id
<1>6. DOMAIN table = DOMAIN connections[n] \cup {id} /\ table[id] = conn
      /\ \A x \in DOMAIN connections[n] : x # id => table[x] = connections[n][x]
    BY DEF Inserted
<1> HIDE DEF table
<1>7. DOMAIN table \subseteq ConnIds /\ \A x \in DOMAIN table : Typed(table[x])
    BY <1>1, <1>2, <1>3, <1>6 DEF EngineType
<1>8. next_conn_id' \in [Nodes -> ConnIds] /\ DOMAIN events' = Nodes
    BY <1>1, <1>5 DEF EngineType
<1>9. net' \subseteq Messages
    <2>1. 1 \in 0 .. WindowSize + 1
        BY WindowAssumption
    <2>2. SeqNext(msg.packet.seq) \in SeqNumbers
        BY <1>2, <2>1, WrappedType DEF SeqNext
    <2>3. SynAck(id, SeqNext(msg.packet.seq)) \in PacketsWith(Flags)
        BY <1>2, <2>2, PacketTypes, 0 \in Nat
    <2> QED
        BY <1>1, <1>2, <1>5, <2>3 DEF EngineType, Messages, Message
<1>10. DOMAIN sent' = Nodes \X ConnIds /\ \A x \in Nodes \X ConnIds : sent'[x] \in Seq(Nat)
    BY <1>1, <1>5 DEF EngineType
<1>11. EngineType' /\ connections'[n] = table /\ \A k \in Nodes : k # n => connections'[k] = connections[k]
    BY <1>1, <1>4, <1>7, <1>8, <1>9, <1>10, TableTyped
<1>12. ASSUME NEW k \in Nodes, NEW x \in DOMAIN connections'[k]
       PROVE  \/ x \in DOMAIN connections[k] /\ connections'[k][x] = connections[k][x]
              \/ Ending(connections'[k][x].state) => Accounted(k, x)' \/ HasEnd(connections'[k][x])
    BY <1>3, <1>6, <1>11 DEF Ending
<1>13. \A k \in Nodes : \A x \in DOMAIN connections[k] : x \in DOMAIN connections'[k]
    BY <1>6, <1>11
<1>14. ASSUME NEW k \in Nodes, NEW x \in ConnIds, Told(k, x)'
       PROVE  Told(k, x) \/ x \in DOMAIN connections'[k]
    <2>1. PICK kind \in {"ConnectionAccepted", "ConnectionEstablished"} : Event(kind, x) \in events'[k]
        BY <1>14 DEF Told, Reported, Event
    <2>2. CASE k = n /\ Event(kind, x) = Event("ConnectionAccepted", id)
        BY <1>6, <1>11, <2>2 DEF Event
    <2>3. CASE Event(kind, x) \in events[k]
        BY <2>1, <2>3 DEF Told, Reported
    <2> QED
        BY <1>1, <1>5, <2>1, <2>2, <2>3 DEF EngineType
<1>15. \A k \in Nodes : events[k] \subseteq events'[k]
    BY <1>1, <1>5 DEF EngineType
<1> QED
    BY <1>5, <1>11, <1>12, <1>13, <1>14, <1>15, EngineStep

\* A SYN that is refused, and a packet that is ignored, leave the engine as it is.
LEMMA IgnoredStep ==
    ASSUME EngineInv, NEW n \in Nodes, NEW msg \in net, NEW rest, rest \subseteq net, NEW again,
           RefuseSyn(n, msg, rest, again) \/ IgnoreUnknown(n, msg, rest, again), UNCHANGED history
    PROVE  EngineInv'
<1>1. EngineType
    BY DEF EngineInv
<1>2. UNCHANGED <<connections, next_conn_id, events, sent, ended>>
    BY DEF RefuseSyn, IgnoreUnknown, engine, history
<1>3. net' \subseteq Messages
    <2>1. msg.from \in Nodes /\ msg.packet.cid \in ConnIds
        BY <1>1 DEF EngineType, PacketsWith
    <2>2. Rst(msg.packet.cid) \in PacketsWith(Flags)
        <3>1. 0 \in SeqNumbers
            BY SeqHalfAssumption DEF SeqNumbers, SeqMod
        <3> QED
            BY <2>1, <3>1, PacketTypes, 0 \in Nat
    <2>3. net' \subseteq net \cup {Message(n, msg.from, Rst(msg.packet.cid))}
        BY DEF RefuseSyn, IgnoreUnknown
    <2> QED
        BY <1>1, <2>1, <2>2, <2>3 DEF EngineType, Messages, Message
<1>4. EngineType'
    BY <1>1, <1>2, <1>3 DEF EngineType, Messages
<1> QED
    BY <1>2, <1>4 DEF EngineInv, EndInv, EndReported, Accounted, Ended, Reported, HasConnection

\* The messages the link is given have their types.
LEMMA NetTyped ==
    ASSUME EngineType, NEW from \in Nodes, NEW to \in Nodes, NEW packets, packets \subseteq PlainPackets
    PROVE  net \cup Addressed(from, to, packets) \subseteq Messages
<1>1. packets \subseteq PacketsWith(Flags)
    BY DEF PlainPackets, PacketsWith
<1> QED
    BY <1>1 DEF EngineType, Messages, Addressed, Message

\* send queues what fits, and polls only when all of it does.
LEMMA SendStep ==
    ASSUME EngineInv, NEW n \in Nodes, NEW id \in ConnIds, Send(n, id)
    PROVE  EngineInv'
<1> DEFINE c == connections[n][id]
           count == Len(sent[<<n, id>>])
           room == WindowSize - Len(c.unacked)
<1>1. EngineType
    BY DEF EngineInv
<1>2. id \in DOMAIN connections[n] /\ CanSendData(c.state)
    BY DEF Send, HasConnection
<1>3. Typed(c) /\ sent[<<n, id>>] \in Seq(Nat) /\ count \in Nat
    BY <1>1, <1>2 DEF EngineType
<1>4. room \in Nat /\ Len(c.unacked) \in Nat
    <2>1. c.unacked \in Seq(Entries) /\ Len(c.unacked) <= WindowSize
        BY <1>3 DEF Typed
    <2> HIDE DEF c
    <2>2. Len(c.unacked) \in Nat
        BY <2>1
    <2> QED
        BY <2>1, <2>2, WindowAssumption
<1>5. UNCHANGED <<next_conn_id, events, ended>>
    BY DEF Send
<1>6. PICK chunks \in 1 .. MaxChunks :
        LET fits == IF chunks <= room THEN chunks ELSE room
            queued == SendChunks(id, c, count + 1, fits)
        IN  /\ sent' = [sent EXCEPT ![<<n, id>>] = sent[<<n, id>>] \o [i \in 1 .. fits |-> count + i]]
            /\ \/ connections' = [connections EXCEPT ![n][id] = queued] /\ net' = net
               \/ \E tick \in Ticks(c) : PollAndTransmit(n, id, queued, tick, c.remote, net)
    BY DEF Send
<1> DEFINE fits == IF chunks <= room THEN chunks ELSE room
           queued == SendChunks(id, c, count + 1, fits)
<1>7. fits \in 0 .. room /\ fits \in Nat
    BY <1>4
<1> HIDE DEF fits
<1>8. Succeeds(queued, c) /\ queued.state = c.state /\ queued.events = c.events /\ Len(queued.unacked) >= Len(c.unacked)
    BY <1>3, <1>7, SendKeeps
<1>9. DOMAIN sent' = Nodes \X ConnIds /\ \A x \in Nodes \X ConnIds : sent'[x] \in Seq(Nat)
    <2> DEFINE more == [i \in 1 .. fits |-> count + i]
    <2>1. sent' = [sent EXCEPT ![<<n, id>>] = sent[<<n, id>>] \o more]
        BY <1>6 DEF fits
    <2>2. more \in Seq(Nat)
        BY <1>3, <1>7
    <2> HIDE DEF more
    <2>3. sent[<<n, id>>] \o more \in Seq(Nat)
        BY <1>3, <2>2
    <2> QED
        BY <1>1, <2>1, <2>3 DEF EngineType
<1> HIDE DEF queued
<1>10. EndInv /\ (Ending(c.state) => Accounted(n, id) \/ HasEnd(c))
    BY <1>2 DEF EngineInv, EndInv
<1>11. Accounted(n, id) => Accounted(n, id)'
    BY <1>5 DEF Accounted, Ended, Reported
<1>12. ASSUME NEW d, Typed(d), connections' = [connections EXCEPT ![n][id] = d], net' \subseteq Messages,
              PollMoves(d, queued)
       PROVE  EngineInv'
    <2>1. Ending(d.state) => Accounted(n, id)' \/ HasEnd(d)
        BY <1>8, <1>10, <1>11, <1>12 DEF PollMoves, HasEnd, EventsOf
    <2>2. DOMAIN events' = Nodes
        BY <1>1, <1>5 DEF EngineType
    <2> HIDE DEF c
    <2> QED
        BY <1>2, <1>5, <1>9, <1>12, <2>1, <2>2, OneConnection
<1>13. CASE connections' = [connections EXCEPT ![n][id] = queued] /\ net' = net
    <2>1. net' \subseteq Messages
        BY <1>1, <1>13 DEF EngineType, Messages
    <2> QED
        BY <1>8, <1>12, <1>13, <2>1 DEF Succeeds, PollMoves
<1>14. ASSUME NEW tick \in Ticks(c), PollAndTransmit(n, id, queued, tick, c.remote, net)
       PROVE  EngineInv'
    <2> DEFINE polled == Poll(id, queued, tick)
    <2>1. connections' = [connections EXCEPT ![n][id] = polled.conn]
          /\ net' = net \cup Addressed(n, c.remote, polled.packets)
        BY <1>14 DEF PollAndTransmit
    <2>2. tick.expired \subseteq 1 .. Len(c.unacked)
        BY <1>14, TickExpired
    <2>3. Len(queued.unacked) \in Nat
        BY <1>8 DEF Succeeds, Typed
    <2>4. tick.expired \subseteq 1 .. Len(queued.unacked)
        BY <1>4, <1>8, <2>2, <2>3
    <2>5. Succeeds(polled.conn, queued) /\ PollMoves(polled.conn, queued) /\ polled.packets \subseteq PlainPackets
        BY <1>8, <2>4, PollKeeps DEF Succeeds
    <2> HIDE DEF polled
    <2>6. c.remote \in Nodes
        BY <1>3 DEF Typed
    <2>7. net' \subseteq Messages
        BY <1>1, <2>1, <2>5, <2>6, NetTyped
    <2> QED
        BY <1>12, <2>1, <2>5, <2>7 DEF Succeeds
<1> QED
    BY <1>6, <1>13, <1>14 DEF fits, queued

\* recv takes data, and close leaves Established and the handshake with the end accounted for.
LEMMA TakeStep ==
    ASSUME EngineInv, NEW n \in Nodes, NEW id \in ConnIds, Recv(n, id) \/ Close(n, id)
    PROVE  EngineInv'
<1> DEFINE c == connections[n][id]
<1>1. EngineType
    BY DEF EngineInv
<1>2. id \in DOMAIN connections[n] /\ UNCHANGED <<next_conn_id, events, sent>> /\ ended \subseteq ended'
    BY DEF Recv, Close, HasConnection
<1>3. Typed(c)
    BY <1>1, <1>2 DEF EngineType
<1>4. DOMAIN sent' = Nodes \X ConnIds /\ \A x \in Nodes \X ConnIds : sent'[x] \in Seq(Nat)
    BY <1>1, <1>2 DEF EngineType
<1>5. DOMAIN events' = Nodes
    BY <1>1, <1>2 DEF EngineType
<1>6. CASE Recv(n, id)
    <2> DEFINE d == [c EXCEPT !.inbound = Tail(c.inbound)]
    <2>1. connections' = [connections EXCEPT ![n][id] = d] /\ net' = net /\ ended' = ended
        BY <1>6 DEF Recv
    <2>2. Succeeds(d, c) /\ d.state = c.state /\ d.events = c.events
        BY <1>3, ReadKeeps
    <2> HIDE DEF d
    <2>3. Ending(c.state) => Accounted(n, id) \/ HasEnd(c)
        BY <1>2 DEF EngineInv, EndInv
    <2>4. Ending(d.state) => Accounted(n, id)' \/ HasEnd(d)
        BY <1>2, <2>1, <2>2, <2>3 DEF Accounted, Ended, Reported, HasEnd, EventsOf
    <2>5. net' \subseteq Messages /\ Typed(d)
        BY <1>1, <2>1, <2>2 DEF EngineType, Messages, Succeeds
    <2> QED
        BY <1>2, <1>4, <1>5, <2>1, <2>4, <2>5, OneConnection
<1>7. CASE Close(n, id)
    <2> DEFINE d == Transition(c, "Close")
    <2>1. connections' = [connections EXCEPT ![n][id] = d] /\ <<n, id>> \in ended'
          /\ net' = net \cup {Message(n, c.remote, Fin(id, c.local_seq, c.cumulative_ack))}
        BY <1>7 DEF Close
    <2>2. Succeeds(d, c)
        BY <1>3, TransitionKeeps
    <2> HIDE DEF d
    <2>3. Accounted(n, id)' /\ Typed(d)
        BY <2>1, <2>2 DEF Accounted, Succeeds
    <2>4. net' \subseteq Messages
        <3>1. c.local_seq \in SeqNumbers /\ c.cumulative_ack \in SeqNumbers /\ c.remote \in Nodes
            BY <1>3 DEF Typed
        <3>2. Fin(id, c.local_seq, c.cumulative_ack) \in PacketsWith(Flags)
            BY <3>1, PacketTypes, 0 \in Nat
        <3> QED
            BY <1>1, <2>1, <3>1, <3>2 DEF EngineType, Messages, Message
    <2> QED
        BY <1>2, <1>4, <1>5, <2>1, <2>3, <2>4, OneConnection
<1> QED
    BY <1>6, <1>7

\* A step of n that drops connections, each accounted for, and keeps the others.
LEMMA DropStep ==
    ASSUME EngineInv, NEW n \in Nodes, NEW table, connections' = [connections EXCEPT ![n] = table],
           DOMAIN table \subseteq DOMAIN connections[n], \A id \in DOMAIN table : Typed(table[id]),
           \A id \in DOMAIN table : table[id] = connections[n][id] \/ (Ending(table[id].state) => Accounted(n, id)'),
           \A id \in DOMAIN connections[n] \ DOMAIN table : Accounted(n, id)',
           next_conn_id' = next_conn_id, sent' = sent, ended \subseteq ended', net' \subseteq Messages,
           DOMAIN events' = Nodes, \A m \in Nodes : events[m] \subseteq events'[m],
           \A m \in Nodes : \A id \in ConnIds : Told(m, id)' => Told(m, id)
    PROVE  EngineInv'
<1>1. EngineType
    BY DEF EngineInv
<1>2. DOMAIN table \subseteq ConnIds
    BY <1>1 DEF EngineType
<1>3. next_conn_id' \in [Nodes -> ConnIds] /\ DOMAIN sent' = Nodes \X ConnIds
      /\ \A x \in Nodes \X ConnIds : sent'[x] \in Seq(Nat)
    BY <1>1 DEF EngineType
<1>4. EngineType' /\ connections'[n] = table /\ \A m \in Nodes : m # n => connections'[m] = connections[m]
    BY <1>1, <1>2, <1>3, TableTyped
<1>5. \A m \in Nodes : \A x \in DOMAIN connections'[m] :
        \/ x \in DOMAIN connections[m] /\ connections'[m][x] = connections[m][x]
        \/ Ending(connections'[m][x].state) => Accounted(m, x)' \/ HasEnd(connections'[m][x])
    BY <1>4
<1>6. \A m \in Nodes : \A x \in DOMAIN connections[m] : x \in DOMAIN connections'[m] \/ Accounted(m, x)'
    BY <1>4
<1> QED
    BY <1>4, <1>5, <1>6, EngineStep

\* reset drops a connection the application ended.
LEMMA ResetStep ==
    ASSUME EngineInv, NEW n \in Nodes, NEW id \in ConnIds, Reset(n, id)
    PROVE  EngineInv'
<1> DEFINE table == Without(connections[n], {id})
<1>1. EngineType
    BY DEF EngineInv
<1>2. /\ id \in DOMAIN connections[n] /\ UNCHANGED <<next_conn_id, events, sent>>
      /\ ended' = ended \cup {<<n, id>>} /\ connections' = [connections EXCEPT ![n] = table]
      /\ net' = net \cup {Message(n, connections[n][id].remote, Rst(id))}
    BY DEF Reset, HasConnection
<1>3. DOMAIN table = DOMAIN connections[n] \ {id} /\ \A x \in DOMAIN table : table[x] = connections[n][x]
    BY DEF Without
<1> HIDE DEF table
<1>4. Typed(connections[n][id]) /\ \A x \in DOMAIN table : Typed(table[x])
    BY <1>1, <1>2, <1>3 DEF EngineType
<1>5. net' \subseteq Messages
    <2>1. 0 \in SeqNumbers
        BY SeqHalfAssumption DEF SeqNumbers, SeqMod
    <2>2. Rst(id) \in PacketsWith(Flags)
        BY <2>1, PacketTypes, 0 \in Nat
    <2> QED
        BY <1>1, <1>2, <1>4, <2>2 DEF EngineType, Messages, Message, Typed
<1>6. Accounted(n, id)'
    BY <1>2 DEF Accounted
<1>7. \A m \in Nodes : \A x \in ConnIds : Told(m, x)' => Told(m, x)
    BY <1>2 DEF Told, Reported
<1>8. DOMAIN events' = Nodes /\ \A m \in Nodes : events[m] \subseteq events'[m]
    BY <1>1, <1>2 DEF EngineType
<1>9. \A x \in DOMAIN connections[n] \ DOMAIN table : Accounted(n, x)'
    BY <1>3, <1>6
<1>10. DOMAIN table \subseteq DOMAIN connections[n] /\ ended \subseteq ended' /\ next_conn_id' = next_conn_id /\ sent' = sent
    BY <1>2, <1>3
<1>11. \A x \in DOMAIN table : table[x] = connections[n][x] \/ (Ending(table[x].state) => Accounted(n, x)')
    BY <1>3
<1> QED
    BY <1>2, <1>4, <1>5, <1>7, <1>8, <1>9, <1>10, <1>11, DropStep, Zenon

\* poll reports the ends that are waiting, and drops what is closed.
LEMMA PollStep ==
    ASSUME EngineInv, NEW n \in Nodes, NEW ticks, DOMAIN ticks = DOMAIN connections[n],
           \A id \in DOMAIN ticks : ticks[id] \in Ticks(connections[n][id]), PollWith(n, ticks)
    PROVE  EngineInv'
<1> DEFINE polled == [id \in DOMAIN ticks |-> Poll(id, connections[n][id], ticks[id])]
           gone == ToRemove(polled)
           table == [id \in DOMAIN ticks \ gone |-> [polled[id].conn EXCEPT !.events = <<>>]]
<1>1. EngineType
    BY DEF EngineInv
<1>2. /\ connections' = [connections EXCEPT ![n] = table]
      /\ events' = [events EXCEPT ![n] = events[n] \cup PollEvents(polled)]
      /\ net' = net \cup UNION {Addressed(n, polled[id].conn.remote, polled[id].packets) : id \in DOMAIN ticks}
      /\ UNCHANGED <<next_conn_id, sent, ended>>
    BY DEF PollWith, history
<1>3. ASSUME NEW id \in DOMAIN connections[n]
      PROVE  LET c == connections[n][id] IN
             /\ Typed(c) /\ Succeeds(polled[id].conn, c) /\ PollMoves(polled[id].conn, c)
             /\ polled[id].packets \subseteq PlainPackets
    <2>1. polled[id] = Poll(id, connections[n][id], ticks[id]) /\ ticks[id] \in Ticks(connections[n][id])
        OBVIOUS
    <2>2. id \in ConnIds /\ Typed(connections[n][id])
        BY <1>1 DEF EngineType
    <2>3. ticks[id].expired \subseteq 1 .. Len(connections[n][id].unacked)
        BY <2>1, TickExpired
    <2> QED
        BY <2>1, <2>2, <2>3, PollKeeps
<1>4. DOMAIN polled = DOMAIN connections[n]
    OBVIOUS
<1> HIDE DEF polled
<1>5. gone = {id \in DOMAIN connections[n] : HasEnd(polled[id].conn) \/ IsClosed(polled[id].conn.state)}
    BY <1>4 DEF ToRemove, HasEnd
<1> HIDE DEF gone
<1>6. DOMAIN table = DOMAIN connections[n] \ gone
      /\ \A id \in DOMAIN table : table[id] = [polled[id].conn EXCEPT !.events = <<>>]
    OBVIOUS
<1> HIDE DEF table
<1>7. ASSUME NEW id \in DOMAIN table
      PROVE  Typed(table[id]) /\ table[id].state = polled[id].conn.state
    <2>1. Typed(polled[id].conn)
        BY <1>3, <1>6 DEF Succeeds
    <2>2. \A c : Typed(c) => Typed([c EXCEPT !.events = <<>>]) /\ [c EXCEPT !.events = <<>>].state = c.state
        BY ReadKeeps
    <2> QED
        BY <1>6, <2>1, <2>2, ZenonT(60)
<1>8. PollEvents(polled) \subseteq events'[n] /\ DOMAIN events' = Nodes
      /\ \A m \in Nodes : events[m] \subseteq events'[m] /\ (m # n => events'[m] = events[m])
    BY <1>1, <1>2 DEF EngineType
<1>9. ASSUME NEW id \in DOMAIN connections[n], HasEnd(polled[id].conn)
      PROVE  Accounted(n, id)'
    <2> DEFINE ends == {event \in EventsOf(polled[id].conn) : EndsConnection(event)}
    <2>1. EngineEvents(id, ends) \subseteq events'[n]
        BY <1>4, <1>8 DEF PollEvents
    <2>2. Ended(n, id)'
        BY <1>9, <2>1, EndIsReported
    <2> QED
        BY <2>2 DEF Accounted
<1>10. ASSUME NEW id \in DOMAIN connections[n], Ending(polled[id].conn.state), ~HasEnd(polled[id].conn)
       PROVE  Accounted(n, id)'
    <2>1. Ending(connections[n][id].state) /\ ~HasEnd(connections[n][id])
        BY <1>3, <1>10 DEF PollMoves, HasEnd, EventsOf
    <2>2. Accounted(n, id)
        BY <2>1 DEF EngineInv, EndInv
    <2> QED
        BY <1>2, <1>8, <2>2, AccountedStays
<1>11. \A id \in DOMAIN table : Ending(table[id].state) => Accounted(n, id)'
    BY <1>6, <1>7, <1>9, <1>10
<1>12. \A id \in DOMAIN connections[n] \ DOMAIN table : Accounted(n, id)'
    BY <1>5, <1>6, <1>9, <1>10 DEF IsClosed, Ending
<1>13. ASSUME NEW m \in Nodes, NEW id \in ConnIds, Told(m, id)'
       PROVE  Told(m, id)
    <2>1. PICK kind \in {"ConnectionAccepted", "ConnectionEstablished"} : Event(kind, id) \in events'[m]
        BY <1>13 DEF Told, Reported, Event
    <2>2. Event(kind, id) \notin PollEvents(polled)
        <3>1. SUFFICES ASSUME NEW x \in DOMAIN polled, NEW event, EndsConnection(event), NEW k \in ReportedAs(event),
                              Event(kind, id) = Event(k, x)
                       PROVE  FALSE
            BY DEF PollEvents, EngineEvents
        <3>2. k \in {"ConnectionClosed", "ConnectionError"}
            BY <3>1 DEF EndsConnection, ReportedAs
        <3> QED
            BY <2>1, <3>1, <3>2 DEF Event
    <2> QED
        BY <1>1, <1>2, <2>1, <2>2 DEF EngineType, Told, Reported
<1>14. net' \subseteq Messages
    <2>1. ASSUME NEW id \in DOMAIN connections[n]
          PROVE  Addressed(n, polled[id].conn.remote, polled[id].packets) \subseteq Messages
        <3>1. polled[id].conn.remote \in Nodes /\ polled[id].packets \subseteq PlainPackets
            BY <1>3 DEF Succeeds, Typed
        <3> QED
            BY <1>1, <3>1, NetTyped
    <2>2. net \subseteq Messages
        BY <1>1 DEF EngineType, Messages
    <2> QED
        BY <1>2, <2>1, <2>2
<1>15. DOMAIN table \subseteq DOMAIN connections[n] /\ ended \subseteq ended' /\ next_conn_id' = next_conn_id /\ sent' = sent
    BY <1>2, <1>6
<1>16. \A id \in DOMAIN table : Typed(table[id])
    BY <1>7
<1>17. \A m \in Nodes : \A id \in ConnIds : Told(m, id)' => Told(m, id)
    BY <1>13
<1>18. \A m \in Nodes : events[m] \subseteq events'[m]
    BY <1>8
<1> QED
    BY <1>2, <1>8, <1>11, <1>12, <1>14, <1>15, <1>16, <1>17, <1>18, DropStep, Zenon

LEMMA EngineInit == Init => EngineInv
<1> SUFFICES ASSUME Init PROVE EngineInv
    OBVIOUS
<1>1. 1 \in ConnIds
    BY EngineConstants DEF ConnIds
<1>2. EngineType
    BY <1>1 DEF Init, EngineType
<1>3. EndInv /\ EndReported
    BY DEF Init, EndInv, EndReported, Reported
<1> QED
    BY <1>2, <1>3 DEF EngineInv

LEMMA EngineNext == EngineInv /\ [Next]_vars => EngineInv'
<1> SUFFICES ASSUME EngineInv, [Next]_vars PROVE EngineInv'
    OBVIOUS
<1>1. CASE UNCHANGED vars
    BY <1>1 DEF vars, engine, history, EngineInv, EngineType, EndInv, EndReported, Accounted, Ended, Reported,
                HasConnection
<1>2. CASE Next
    <2>1. PICK n \in Nodes :
            \/ \E m \in Nodes : Connect(n, m)
            \/ ProcessIncoming(n)
            \/ PollEngine(n)
            \/ \E id \in ConnIds : Send(n, id) \/ Recv(n, id) \/ Close(n, id) \/ Reset(n, id)
        BY <1>2 DEF Next
    <2>2. CASE \E m \in Nodes : Connect(n, m)
        BY <2>2, ConnectStep
    <2>3. CASE ProcessIncoming(n)
        <3>1. PICK msg \in net, again \in 0 .. 1 :
                LET rest == IF again = 1 THEN net ELSE net \ {msg}
                IN  /\ \/ ProcessKnown(n, msg, rest, again)
                       \/ AcceptSyn(n, msg, rest, again)
                       \/ RefuseSyn(n, msg, rest, again)
                       \/ IgnoreUnknown(n, msg, rest, again)
                    /\ UNCHANGED history
            BY <2>3 DEF ProcessIncoming
        <3> DEFINE rest == IF again = 1 THEN net ELSE net \ {msg}
        <3>2. rest \subseteq net
            OBVIOUS
        <3> HIDE DEF rest
        <3> QED
            BY <3>1, <3>2, KnownStep, AcceptStep, IgnoredStep DEF rest
    <2>4. CASE PollEngine(n)
        BY <2>4, PollStep DEF PollEngine
    <2>5. CASE \E id \in ConnIds : Send(n, id) \/ Recv(n, id) \/ Close(n, id) \/ Reset(n, id)
        BY <2>5, SendStep, TakeStep, ResetStep
    <2> QED
        BY <2>1, <2>2, <2>3, <2>4, <2>5
<1> QED
    BY <1>1, <1>2

\* The application learns of the end of every connection it was told of: for every network
\* of engines, every window, and every loss, reordering and duplication of packets, no poll
\* and no packet makes a connection disappear in silence (process_incoming and poll).
THEOREM EndsReported == Spec => []EndReported
<1>1. EngineInv => EndReported
    BY DEF EngineInv
<1> QED
    BY <1>1, EngineInit, EngineNext, PTL DEF Spec

-----------------------------------------------------------------------------
(* Constrained engines on point-to-point links *)

\* Who dials whom says who exchanges packets.  Connection ids are chosen by the node that
\* dials, so two peers of one node can choose the same; on a link between two nodes only
\* one peer is in question.
Linked(s, n, m) == <<n, m>> \in s.dials \/ <<m, n>> \in s.dials
OnePeer == \A s \in Settings : \A n, m, k \in Nodes : Linked(s, n, m) /\ Linked(s, n, k) => n # m /\ m = k

Accepted(evs, n, id) == Event("ConnectionAccepted", id) \in evs[n]
Open(state) == state \in {"Established", "FinWait"}

\* A connection is to the peer; an initiator waits for a SYN-ACK alone, and is open only
\* after the peer accepted.
Sound(s, evs, n, id, c) ==
    /\ Linked(s, n, c.remote)
    /\ c.initiator => c.state # "SynReceived" /\ (Open(c.state) => Accepted(evs, c.remote, id))

\* An address of the index leads to a connection to that address.
Leads(s, n, table, index, a) ==
    Linked(s, n, a) /\ index[a] \in DOMAIN table /\ table[index[a]].remote = a

\* Packets go between peers, and whoever sent a SYN-ACK accepted.
Carried(s, evs, msg) ==
    Linked(s, msg.from, msg.to) /\ (IsSynAck(msg.packet) => Accepted(evs, msg.from, msg.packet.cid))

PeerInv ==
    /\ setting \in Settings /\ DOMAIN addr_to_conn = Nodes
    /\ \A n \in Nodes : \A id \in DOMAIN connections[n] : Sound(setting, events, n, id, connections[n][id])
    /\ \A n \in Nodes : \A a \in DOMAIN addr_to_conn[n] : Leads(setting, n, connections[n], addr_to_conn[n], a)
    /\ \A msg \in net : Carried(setting, events, msg)

\* The index of node n, and of no other, becomes index.
IndexBecomes(n, index) ==
    /\ DOMAIN addr_to_conn' = Nodes /\ addr_to_conn'[n] = index
    /\ \A m \in Nodes : m # n => addr_to_conn'[m] = addr_to_conn[m]

\* What a step of n must show.
LEMMA PeerStep ==
    ASSUME PeerInv, EngineInv, EngineInv', setting' = setting,
           NEW n \in Nodes, NEW table, connections' = [connections EXCEPT ![n] = table],
           NEW index, IndexBecomes(n, index),
           \A id \in DOMAIN table : Sound(setting, events, n, id, table[id]),
           \A a \in DOMAIN index : Leads(setting, n, table, index, a),
           \A m \in Nodes : events[m] \subseteq events'[m],
           \A msg \in net' : msg \in net \/ Carried(setting, events', msg)
    PROVE  PeerInv'
<1>1. EngineType /\ EngineType'
    BY DEF EngineInv
<1>2. connections'[n] = table /\ \A m \in Nodes : m # n => connections'[m] = connections[m]
    BY <1>1 DEF EngineType
<1>3. \A m \in Nodes : \A id : Accepted(events, m, id) => Accepted(events', m, id)
    BY DEF Accepted
<1>4. ASSUME NEW m \in Nodes, NEW id \in DOMAIN connections'[m]
      PROVE  Sound(setting, events', m, id, connections'[m][id])
    <2>1. Sound(setting, events, m, id, connections'[m][id])
        BY <1>2 DEF PeerInv
    <2>2. connections'[m][id].remote \in Nodes
        BY <1>1 DEF EngineType, Typed
    <2> QED
        BY <1>3, <2>1, <2>2 DEF Sound
<1>5. ASSUME NEW m \in Nodes, NEW a \in DOMAIN addr_to_conn'[m]
      PROVE  Leads(setting, m, connections'[m], addr_to_conn'[m], a)
    BY <1>2 DEF PeerInv, IndexBecomes
<1>6. ASSUME NEW msg \in net'
      PROVE  Carried(setting, events', msg)
    <2>1. msg \in net => msg.from \in Nodes
        BY <1>1 DEF EngineType
    <2> QED
        BY <1>3, <2>1 DEF PeerInv, Carried
<1> QED
    BY <1>4, <1>5, <1>6 DEF PeerInv, IndexBecomes

\* On a point-to-point link the index needs to name a connection; it is one to the peer.
LEMMA PeerIsOne ==
    ASSUME OnePeer, setting \in Settings, NEW n \in Nodes, NEW m \in Nodes, NEW k \in Nodes,
           Linked(setting, n, m), Linked(setting, n, k)
    PROVE  m = k
BY DEF OnePeer

\* The steps that change one connection and leave the index alone.
LEMMA PeerOneConnection ==
    ASSUME PeerInv, EngineInv, EngineInv', setting' = setting, NEW n \in Nodes, NEW id \in DOMAIN connections[n],
           NEW d, connections' = [connections EXCEPT ![n][id] = d], addr_to_conn' = addr_to_conn,
           d.remote = connections[n][id].remote, Sound(setting, events, n, id, d),
           \A m \in Nodes : events[m] \subseteq events'[m],
           \A msg \in net' : msg \in net \/ (Linked(setting, msg.from, msg.to) /\ ~IsSyn(msg.packet))
    PROVE  PeerInv'
<1> DEFINE table == [connections[n] EXCEPT ![id] = d]
           index == addr_to_conn[n]
<1>1. EngineType
    BY DEF EngineInv
<1>2. connections' = [connections EXCEPT ![n] = table]
    OBVIOUS
<1>3. IndexBecomes(n, index)
    BY DEF PeerInv, IndexBecomes
<1>4. DOMAIN table = DOMAIN connections[n] /\ table[id] = d
      /\ \A x \in DOMAIN connections[n] : x # id => table[x] = connections[n][x]
    OBVIOUS
<1> HIDE DEF table
<1>5. \A x \in DOMAIN table : Sound(setting, events, n, x, table[x])
    BY <1>4 DEF PeerInv
<1>6. \A a \in DOMAIN index : Leads(setting, n, table, index, a)
    BY <1>4 DEF PeerInv, Leads
<1> HIDE DEF index
<1>7. \A msg \in net' : msg \in net \/ Carried(setting, events', msg)
    BY DEF IsSynAck, Carried
<1> QED
    BY <1>2, <1>3, <1>5, <1>6, <1>7, PeerStep

\* Plain packets between peers.
LEMMA PlainCarried ==
    ASSUME NEW n \in Nodes, NEW m \in Nodes, Linked(setting, n, m), NEW packets, packets \subseteq PlainPackets
    PROVE  \A msg \in Addressed(n, m, packets) : Linked(setting, msg.from, msg.to) /\ ~IsSyn(msg.packet)
BY DEF Addressed, Message, PlainPackets, PacketsWith, IsSyn

\* connect and accept insert a connection to the peer.
LEMMA PeerInserted ==
    ASSUME OnePeer, PeerInv, EngineInv, EngineInv', setting' = setting, NEW n \in Nodes, NEW m \in Nodes,
           Linked(setting, n, m), NEW id, NEW conn, conn.remote = m, Sound(setting, events, n, id, conn),
           connections' = [connections EXCEPT ![n] = Inserted(connections[n], id, conn)],
           addr_to_conn' = [addr_to_conn EXCEPT ![n] = Inserted(addr_to_conn[n], m, id)],
           \A k \in Nodes : events[k] \subseteq events'[k],
           \A msg \in net' : msg \in net \/ Carried(setting, events', msg)
    PROVE  PeerInv'
<1> DEFINE table == Inserted(connections[n], id, conn)
           index == Inserted(addr_to_conn[n], m, id)
<1>1. DOMAIN table = DOMAIN connections[n] \cup {id} /\ table[id] = conn
      /\ \A x \in DOMAIN connections[n] : x # id => table[x] = connections[n][x]
    BY DEF Inserted
<1>2. DOMAIN index = DOMAIN addr_to_conn[n] \cup {m} /\ index[m] = id
      /\ \A a \in DOMAIN addr_to_conn[n] : a # m => index[a] = addr_to_conn[n][a]
    BY DEF Inserted
<1>3. connections' = [connections EXCEPT ![n] = table] /\ IndexBecomes(n, index)
    BY DEF PeerInv, IndexBecomes
<1> HIDE DEF table, index
<1>4. \A x \in DOMAIN table : Sound(setting, events, n, x, table[x])
    BY <1>1 DEF PeerInv
<1>5. ASSUME NEW a \in DOMAIN index
      PROVE  Leads(setting, n, table, index, a)
    <2>1. CASE a = m
        BY <1>1, <1>2, <2>1 DEF Leads
    <2>2. CASE a # m
        <3>1. Leads(setting, n, connections[n], addr_to_conn[n], a)
            BY <1>2, <2>2 DEF PeerInv
        <3>2. a \in Nodes
            BY <3>1 DEF Leads, EngineInv, EngineType, Typed
        <3> QED
            BY <2>2, <3>1, <3>2, PeerIsOne DEF Leads, PeerInv
    <2> QED
        BY <2>1, <2>2
<1> QED
    BY <1>3, <1>4, <1>5, PeerStep

\* connect.
LEMMA ConnectPeer ==
    ASSUME OnePeer, PeerInv, EngineInv, EngineInv', setting' = setting, NEW n \in Nodes, NEW m \in Nodes, Connect(n, m)
    PROVE  PeerInv'
<1> DEFINE id == next_conn_id[n]
           new == NewConnection(m, TRUE)
           conn == Transition(new, "Open")
<1>1. Linked(setting, n, m)
    BY DEF Connect, Linked
<1>2. /\ connections' = [connections EXCEPT ![n] = Inserted(connections[n], id, conn)]
      /\ addr_to_conn' = [addr_to_conn EXCEPT ![n] = Inserted(addr_to_conn[n], m, id)]
      /\ net' = net \cup {Message(n, m, Syn(id))} /\ events' = events
    BY DEF Connect
<1>3. Typed(new) /\ new.remote = m /\ new.state = "Closed"
    BY NewTyped
<1> HIDE DEF new
<1>4. conn.remote = m /\ conn.state = "SynSent"
    BY <1>3, OpenKeeps DEF Succeeds
<1> HIDE DEF conn, id
<1>5. Sound(setting, events, n, id, conn)
    BY <1>1, <1>4 DEF Sound, Open
<1>6. \A msg \in net' : msg \in net \/ Carried(setting, events', msg)
    BY <1>1, <1>2 DEF Carried, Message, Syn, Packet, IsSynAck, IsAck
<1>7. \A k \in Nodes : events[k] \subseteq events'[k]
    BY <1>2
<1> QED
    BY <1>1, <1>2, <1>4, <1>5, <1>6, <1>7, PeerInserted

\* A packet for a known connection comes from its peer.
LEMMA KnownPeer ==
    ASSUME OnePeer, PeerInv, EngineInv, EngineInv', setting' = setting, NEW n \in Nodes, NEW msg \in net, msg.to = n,
           NEW rest, rest \subseteq net, NEW again, ProcessKnown(n, msg, rest, again)
    PROVE  PeerInv'
<1> DEFINE id == msg.packet.cid
           c == connections[n][id]
           seen == ProcessPacket(id, c, msg.packet)
           taken == [seen EXCEPT !.events = <<>>]
<1>1. EngineType
    BY DEF EngineInv
<1>2. id \in DOMAIN connections[n] /\ id \in ConnIds /\ Typed(c) /\ msg.packet \in PacketsWith(Flags) /\ msg.from \in Nodes
    <2>1. id \in DOMAIN connections[n]
        BY DEF ProcessKnown, HasConnection
    <2> QED
        BY <1>1, <2>1 DEF EngineType
<1>3. PICK tick \in Ticks(taken) : PollAndTransmit(n, id, taken, tick, msg.from, rest)
    BY DEF ProcessKnown
<1>4. /\ events' = [events EXCEPT ![n] = events[n] \cup EngineEvents(id, EventsOf(seen))]
      /\ addr_to_conn' = addr_to_conn
    BY DEF ProcessKnown
<1> DEFINE polled == Poll(id, taken, tick)
           d == polled.conn
<1>5. connections' = [connections EXCEPT ![n][id] = d] /\ net' = rest \cup Addressed(n, msg.from, polled.packets)
    BY <1>3 DEF PollAndTransmit
<1>6. Succeeds(seen, c) /\ PacketMoves(seen, c, msg.packet)
    BY <1>2, PacketStep
<1>7. Sound(setting, events, n, id, c)
    BY <1>2 DEF PeerInv
<1>8. Linked(setting, n, msg.from) /\ (IsSynAck(msg.packet) => Accepted(events, msg.from, id))
    BY DEF PeerInv, Carried, Linked
<1>9. c.remote = msg.from
    <2>1. c.remote \in Nodes
        BY <1>2 DEF Typed
    <2> QED
        BY <1>2, <1>7, <1>8, <2>1, PeerIsOne DEF PeerInv, Sound
<1>10. \A m \in Nodes : events[m] \subseteq events'[m]
    BY <1>1, <1>4 DEF EngineType
<1> HIDE DEF seen, c
<1>11. Typed(taken) /\ taken.state = seen.state /\ taken.remote = seen.remote /\ taken.initiator = seen.initiator
    BY <1>6, ReadKeeps DEF Succeeds
<1> HIDE DEF taken
<1>12. tick.expired \subseteq 1 .. Len(taken.unacked)
    BY <1>3, TickExpired
<1>13. Succeeds(d, taken) /\ PollMoves(d, taken) /\ polled.packets \subseteq PlainPackets
    BY <1>2, <1>11, <1>12, PollKeeps
<1> HIDE DEF polled
<1> HIDE DEF d, id
<1>14. d.remote = c.remote /\ d.initiator = c.initiator
    BY <1>6, <1>11, <1>13 DEF Succeeds
<1>15. Sound(setting, events, n, id, d)
    <2>1. SUFFICES ASSUME d.initiator
                   PROVE  d.state # "SynReceived" /\ (Open(d.state) => Accepted(events, d.remote, id))
        BY <1>7, <1>14 DEF Sound
    <2>2. c.state # "SynReceived" /\ (Open(c.state) => Accepted(events, c.remote, id))
        BY <1>7, <1>14, <2>1 DEF Sound
    <2>3. d.state = seen.state \/ d.state = "Closed"
        BY <1>11, <1>13 DEF PollMoves
    <2>4. seen.state # "SynReceived" /\ (Open(seen.state) => Accepted(events, c.remote, id))
        BY <1>6, <1>8, <1>9, <2>2 DEF PacketMoves, Ending, Open
    <2> QED
        BY <1>14, <2>3, <2>4 DEF Open
<1>16. \A x \in net' : x \in net \/ (Linked(setting, x.from, x.to) /\ ~IsSyn(x.packet))
    <2>1. \A x \in Addressed(n, msg.from, polled.packets) : Linked(setting, x.from, x.to) /\ ~IsSyn(x.packet)
        BY <1>2, <1>8, <1>13, PlainCarried
    <2> QED
        BY <1>5, <2>1
<1>17. d.remote = connections[n][id].remote /\ id \in DOMAIN connections[n]
    BY <1>2, <1>14 DEF c, id
<1> QED
    BY <1>4, <1>5, <1>10, <1>15, <1>16, <1>17, PeerOneConnection

\* A SYN is accepted: the node that answers it has the event.
LEMMA AcceptPeer ==
    ASSUME OnePeer, PeerInv, EngineInv, EngineInv', setting' = setting, NEW n \in Nodes, NEW msg \in net, msg.to = n,
           NEW rest, rest \subseteq net, NEW again, AcceptSyn(n, msg, rest, again)
    PROVE  PeerInv'
<1> DEFINE id == msg.packet.cid
           new == NewConnection(msg.from, FALSE)
           conn == Transition(new, "RecvSyn")
<1>1. EngineType /\ msg.from \in Nodes
    BY DEF EngineInv, EngineType
<1>2. /\ connections' = [connections EXCEPT ![n] = Inserted(connections[n], id, conn)]
      /\ addr_to_conn' = [addr_to_conn EXCEPT ![n] = Inserted(addr_to_conn[n], msg.from, id)]
      /\ net' = rest \cup {Message(n, msg.from, SynAck(id, SeqNext(msg.packet.seq)))}
      /\ events' = [events EXCEPT ![n] = events[n] \cup {Event("ConnectionAccepted", id)}]
    BY DEF AcceptSyn
<1>3. Linked(setting, n, msg.from)
    BY DEF PeerInv, Carried, Linked
<1>4. Typed(new) /\ new.remote = msg.from /\ new.state = "Closed"
    BY <1>1, NewTyped
<1>5. ~new.initiator
    BY DEF NewConnection
<1> HIDE DEF new
<1>6. Succeeds(conn, new)
    BY <1>4, OpenKeeps
<1> HIDE DEF conn
<1>7. conn.remote = msg.from /\ ~conn.initiator
    BY <1>4, <1>5, <1>6 DEF Succeeds
<1> HIDE DEF id
<1>8. Sound(setting, events, n, id, conn)
    BY <1>3, <1>7 DEF Sound
<1>9. events'[n] = events[n] \cup {Event("ConnectionAccepted", id)} /\ \A k \in Nodes : events[k] \subseteq events'[k]
    BY <1>1, <1>2 DEF EngineType
<1>10. Carried(setting, events', Message(n, msg.from, SynAck(id, SeqNext(msg.packet.seq))))
    BY <1>3, <1>9 DEF Carried, Accepted, Message, SynAck, Packet
<1>11. \A x \in net' : x \in net \/ Carried(setting, events', x)
    BY <1>2, <1>10
<1> QED
    BY <1>1, <1>2, <1>3, <1>7, <1>8, <1>9, <1>11, PeerInserted

\* Packets that change no connection.
LEMMA IgnoredPeer ==
    ASSUME PeerInv, setting' = setting, NEW n \in Nodes, NEW msg \in net, msg.to = n,
           NEW rest, rest \subseteq net, NEW again,
           RefuseSyn(n, msg, rest, again) \/ IgnoreUnknown(n, msg, rest, again)
    PROVE  PeerInv'
<1>1. UNCHANGED <<connections, addr_to_conn, events>>
    BY DEF RefuseSyn, IgnoreUnknown, engine
<1>2. net' \subseteq net \cup {Message(n, msg.from, Rst(msg.packet.cid))}
    BY DEF RefuseSyn, IgnoreUnknown
<1>3. Carried(setting, events, Message(n, msg.from, Rst(msg.packet.cid)))
    BY DEF PeerInv, Carried, Linked, Message, Rst, Packet, IsSynAck, IsSyn
<1> QED
    BY <1>1, <1>2, <1>3 DEF PeerInv

\* send, recv and close.
LEMMA CallPeer ==
    ASSUME PeerInv, EngineInv, EngineInv', setting' = setting, NEW n \in Nodes, NEW id \in ConnIds,
           Send(n, id) \/ Recv(n, id) \/ Close(n, id)
    PROVE  PeerInv'
<1> DEFINE c == connections[n][id]
<1>1. EngineType
    BY DEF EngineInv
<1>2. id \in DOMAIN connections[n] /\ UNCHANGED <<addr_to_conn, events>>
    BY DEF Send, Recv, Close, HasConnection
<1>3. Typed(c) /\ c.remote \in Nodes /\ Sound(setting, events, n, id, c) /\ Linked(setting, n, c.remote)
    BY <1>1, <1>2 DEF EngineType, Typed, PeerInv, Sound
<1>4. \A m \in Nodes : events[m] \subseteq events'[m]
    BY <1>2
<1>5. ASSUME NEW d, connections' = [connections EXCEPT ![n][id] = d], d.remote = c.remote, d.initiator = c.initiator,
             \/ d.state \in {c.state, "Closed"}
             \/ c.state = "Established" /\ d.state = "FinWait",
             NEW packets, packets \subseteq PlainPackets, net' \subseteq net \cup Addressed(n, c.remote, packets)
      PROVE  PeerInv'
    <2>1. Sound(setting, events, n, id, d)
        BY <1>3, <1>5 DEF Sound, Open
    <2>2. \A msg \in net' : msg \in net \/ (Linked(setting, msg.from, msg.to) /\ ~IsSyn(msg.packet))
        BY <1>3, <1>5, PlainCarried
    <2> QED
        BY <1>2, <1>4, <1>5, <2>1, <2>2, PeerOneConnection
<1>6. CASE Send(n, id)
    <2> DEFINE count == Len(sent[<<n, id>>])
               room == WindowSize - Len(c.unacked)
    <2>1. count \in Nat
        BY <1>1 DEF EngineType
    <2>2. room \in Nat /\ Len(c.unacked) \in Nat
        <3>1. c.unacked \in Seq(Entries) /\ Len(c.unacked) <= WindowSize
            BY <1>3 DEF Typed
        <3> HIDE DEF c
        <3>2. Len(c.unacked) \in Nat
            BY <3>1
        <3> QED
            BY <3>1, <3>2, WindowAssumption
    <2>3. PICK chunks \in 1 .. MaxChunks :
            LET fits == IF chunks <= room THEN chunks ELSE room
                queued == SendChunks(id, c, count + 1, fits)
            IN  \/ connections' = [connections EXCEPT ![n][id] = queued] /\ net' = net
                \/ \E tick \in Ticks(c) : PollAndTransmit(n, id, queued, tick, c.remote, net)
        BY <1>6 DEF Send
    <2> DEFINE fits == IF chunks <= room THEN chunks ELSE room
               queued == SendChunks(id, c, count + 1, fits)
    <2>4. fits \in 0 .. room
        BY <2>2
    <2> HIDE DEF fits
    <2>5. Succeeds(queued, c) /\ queued.state = c.state /\ Len(queued.unacked) >= Len(c.unacked)
        BY <1>3, <2>1, <2>4, SendKeeps
    <2> HIDE DEF queued
    <2>6. CASE connections' = [connections EXCEPT ![n][id] = queued] /\ net' = net
        <3>1. {} \subseteq PlainPackets /\ net' \subseteq net \cup Addressed(n, c.remote, {})
            BY <2>6
        <3> QED
            BY <1>5, <2>5, <2>6, <3>1 DEF Succeeds
    <2>7. ASSUME NEW tick \in Ticks(c), PollAndTransmit(n, id, queued, tick, c.remote, net)
          PROVE  PeerInv'
        <3> DEFINE polled == Poll(id, queued, tick)
        <3>1. connections' = [connections EXCEPT ![n][id] = polled.conn]
              /\ net' = net \cup Addressed(n, c.remote, polled.packets)
            BY <2>7 DEF PollAndTransmit
        <3>2. tick.expired \subseteq 1 .. Len(c.unacked)
            BY <2>7, TickExpired
        <3>3. Len(queued.unacked) \in Nat
            BY <2>5 DEF Succeeds, Typed
        <3>4. tick.expired \subseteq 1 .. Len(queued.unacked)
            BY <2>2, <2>5, <3>2, <3>3
        <3>5. Succeeds(polled.conn, queued) /\ PollMoves(polled.conn, queued) /\ polled.packets \subseteq PlainPackets
            BY <2>5, <3>4, PollKeeps DEF Succeeds
        <3> HIDE DEF polled
        <3>6. polled.conn.remote = c.remote /\ polled.conn.initiator = c.initiator /\ polled.conn.state \in {c.state, "Closed"}
            BY <2>5, <3>5 DEF Succeeds, PollMoves
        <3> HIDE DEF c
        <3> QED
            BY <1>5, <3>1, <3>5, <3>6
    <2> QED
        BY <2>3, <2>6, <2>7 DEF fits, queued
<1>7. CASE Recv(n, id)
    <2> DEFINE d == [c EXCEPT !.inbound = Tail(c.inbound)]
    <2>1. connections' = [connections EXCEPT ![n][id] = d] /\ net' = net
        BY <1>7 DEF Recv
    <2>2. Succeeds(d, c) /\ d.state = c.state
        BY <1>3, ReadKeeps
    <2> HIDE DEF d
    <2>3. {} \subseteq PlainPackets /\ net' \subseteq net \cup Addressed(n, c.remote, {})
        BY <2>1
    <2> QED
        BY <1>5, <2>1, <2>2, <2>3 DEF Succeeds
<1>8. CASE Close(n, id)
    <2> DEFINE d == Transition(c, "Close")
               fin == Fin(id, c.local_seq, c.cumulative_ack)
    <2>1. connections' = [connections EXCEPT ![n][id] = d] /\ net' = net \cup {Message(n, c.remote, fin)}
        BY <1>8 DEF Close
    <2>2. Succeeds(d, c) /\ (d.state = c.state \/ <<c.state, "Close", d.state>> \in Transitions)
        BY <1>3, TransitionKeeps
    <2> HIDE DEF d
    <2>3. d.state \in {c.state, "Closed"} \/ (c.state = "Established" /\ d.state = "FinWait")
        BY <2>2 DEF Transitions
    <2>4. fin \in PlainPackets
        BY <1>3, PacketTypes, 0 \in Nat DEF Typed
    <2> HIDE DEF fin
    <2>5. {fin} \subseteq PlainPackets /\ net' \subseteq net \cup Addressed(n, c.remote, {fin})
        BY <2>1, <2>4 DEF Addressed
    <2> QED
        BY <1>5, <2>1, <2>2, <2>3, <2>5 DEF Succeeds
<1> QED
    BY <1>6, <1>7, <1>8

\* reset drops the addresses that lead to the connection with it.
LEMMA ResetPeer ==
    ASSUME PeerInv, EngineInv, EngineInv', setting' = setting, NEW n \in Nodes, NEW id \in ConnIds, Reset(n, id)
    PROVE  PeerInv'
<1> DEFINE table == Without(connections[n], {id})
           known == addr_to_conn[n]
           index == Without(known, {a \in DOMAIN known : known[a] = id})
<1>1. /\ id \in DOMAIN connections[n] /\ events' = events
      /\ connections' = [connections EXCEPT ![n] = table]
      /\ addr_to_conn' = [addr_to_conn EXCEPT ![n] = index]
      /\ net' = net \cup {Message(n, connections[n][id].remote, Rst(id))}
    BY DEF Reset, HasConnection
<1>2. DOMAIN table = DOMAIN connections[n] \ {id} /\ \A x \in DOMAIN table : table[x] = connections[n][x]
    BY DEF Without
<1>3. DOMAIN index = {a \in DOMAIN known : known[a] # id} /\ \A a \in DOMAIN index : index[a] = known[a]
    BY DEF Without
<1>4. IndexBecomes(n, index)
    BY <1>1 DEF PeerInv, IndexBecomes
<1> HIDE DEF table, index
<1>5. \A x \in DOMAIN table : Sound(setting, events, n, x, table[x])
    BY <1>2 DEF PeerInv
<1>6. \A a \in DOMAIN index : Leads(setting, n, table, index, a)
    BY <1>2, <1>3 DEF PeerInv, Leads
<1>7. Linked(setting, n, connections[n][id].remote)
    BY <1>1 DEF PeerInv, Sound
<1>8. \A msg \in net' : msg \in net \/ Carried(setting, events', msg)
    BY <1>1, <1>7 DEF Carried, Message, Rst, Packet, IsSynAck, IsSyn
<1>9. \A m \in Nodes : events[m] \subseteq events'[m]
    BY <1>1
<1> QED
    BY <1>1, <1>4, <1>5, <1>6, <1>8, <1>9, PeerStep

\* poll drops the address of every connection it drops.
LEMMA PollPeer ==
    ASSUME PeerInv, EngineInv, EngineInv', setting' = setting, NEW n \in Nodes, NEW ticks,
           DOMAIN ticks = DOMAIN connections[n],
           \A id \in DOMAIN ticks : ticks[id] \in Ticks(connections[n][id]), PollWith(n, ticks)
    PROVE  PeerInv'
<1> DEFINE polled == [id \in DOMAIN ticks |-> Poll(id, connections[n][id], ticks[id])]
           gone == ToRemove(polled)
           table == [id \in DOMAIN ticks \ gone |-> [polled[id].conn EXCEPT !.events = <<>>]]
           index == Without(addr_to_conn[n], AddressesOf(polled, gone))
<1>1. EngineType
    BY DEF EngineInv
<1>2. /\ connections' = [connections EXCEPT ![n] = table]
      /\ addr_to_conn' = [addr_to_conn EXCEPT ![n] = index]
      /\ events' = [events EXCEPT ![n] = events[n] \cup PollEvents(polled)]
      /\ net' = net \cup UNION {Addressed(n, polled[id].conn.remote, polled[id].packets) : id \in DOMAIN ticks}
    BY DEF PollWith
<1>3. ASSUME NEW id \in DOMAIN connections[n]
      PROVE  LET c == connections[n][id] IN
             /\ c.remote \in Nodes /\ Succeeds(polled[id].conn, c) /\ PollMoves(polled[id].conn, c)
             /\ polled[id].packets \subseteq PlainPackets
    <2>1. polled[id] = Poll(id, connections[n][id], ticks[id]) /\ ticks[id] \in Ticks(connections[n][id])
        OBVIOUS
    <2>2. id \in ConnIds /\ Typed(connections[n][id])
        BY <1>1 DEF EngineType
    <2>3. ticks[id].expired \subseteq 1 .. Len(connections[n][id].unacked)
        BY <2>1, TickExpired
    <2>4. connections[n][id].remote \in Nodes
        BY <2>2 DEF Typed
    <2> QED
        BY <2>1, <2>2, <2>3, <2>4, PollKeeps
<1> HIDE DEF polled
<1>4. gone \subseteq DOMAIN connections[n]
    BY DEF ToRemove, polled
<1> HIDE DEF gone
<1>5. DOMAIN table = DOMAIN connections[n] \ gone
      /\ \A id \in DOMAIN table : table[id] = [polled[id].conn EXCEPT !.events = <<>>]
    OBVIOUS
<1>6. DOMAIN index = DOMAIN addr_to_conn[n] \ AddressesOf(polled, gone)
      /\ \A a \in DOMAIN index : index[a] = addr_to_conn[n][a]
    BY DEF Without
<1>7. IndexBecomes(n, index)
    BY <1>2 DEF PeerInv, IndexBecomes
<1> HIDE DEF table, index
<1>8. ASSUME NEW id \in DOMAIN table
      PROVE  table[id].remote = connections[n][id].remote /\ Sound(setting, events, n, id, table[id])
    <2> DEFINE c == connections[n][id]
    <2>1. Typed(polled[id].conn) /\ polled[id].conn.remote = c.remote /\ polled[id].conn.initiator = c.initiator
          /\ polled[id].conn.state \in {c.state, "Closed"}
        BY <1>3, <1>5 DEF Succeeds, PollMoves
    <2>2. \A x : Typed(x) => LET d == [x EXCEPT !.events = <<>>] IN
                             d.remote = x.remote /\ d.initiator = x.initiator /\ d.state = x.state
        BY ReadKeeps
    <2>3. table[id].remote = c.remote /\ table[id].initiator = c.initiator /\ table[id].state \in {c.state, "Closed"}
        BY <1>5, <2>1, <2>2, Zenon
    <2>4. Sound(setting, events, n, id, c)
        BY <1>5 DEF PeerInv
    <2> QED
        BY <2>3, <2>4 DEF Sound, Open
<1>9. ASSUME NEW a \in DOMAIN index
      PROVE  Leads(setting, n, table, index, a)
    <2>1. Leads(setting, n, connections[n], addr_to_conn[n], a)
        BY <1>6 DEF PeerInv
    <2>2. index[a] = addr_to_conn[n][a] /\ addr_to_conn[n][a] \in DOMAIN connections[n]
          /\ connections[n][addr_to_conn[n][a]].remote = a /\ Linked(setting, n, a)
        BY <1>6, <2>1 DEF Leads
    <2>3. addr_to_conn[n][a] \notin gone
        <3>1. SUFFICES ASSUME addr_to_conn[n][a] \in gone
                       PROVE  FALSE
            OBVIOUS
        <3>2. polled[addr_to_conn[n][a]].conn.remote = a
            BY <1>3, <2>2 DEF Succeeds
        <3>3. a \in AddressesOf(polled, gone)
            BY <3>1, <3>2 DEF AddressesOf
        <3> QED
            BY <1>6, <3>3
    <2> QED
        BY <1>5, <1>8, <2>2, <2>3 DEF Leads
<1>10. \A m \in Nodes : events[m] \subseteq events'[m]
    BY <1>1, <1>2 DEF EngineType
<1>11. ASSUME NEW msg \in net', msg \notin net
       PROVE  Carried(setting, events', msg)
    <2>1. PICK id \in DOMAIN connections[n] : msg \in Addressed(n, polled[id].conn.remote, polled[id].packets)
        BY <1>2, <1>11
    <2>2. polled[id].conn.remote \in Nodes /\ Linked(setting, n, polled[id].conn.remote)
        BY <1>3 DEF Succeeds, PeerInv, Sound
    <2>3. Linked(setting, msg.from, msg.to) /\ ~IsSyn(msg.packet)
        BY <1>3, <2>1, <2>2, PlainCarried
    <2> QED
        BY <2>3 DEF Carried, IsSynAck
<1>12. \A msg \in net' : msg \in net \/ Carried(setting, events', msg)
    BY <1>11
<1>13. \A id \in DOMAIN table : Sound(setting, events, n, id, table[id])
    BY <1>8
<1> QED
    BY <1>2, <1>7, <1>9, <1>10, <1>12, <1>13, PeerStep

LEMMA PeerNext == ASSUME OnePeer PROVE PeerInv /\ EngineInv /\ EngineInv' /\ [Next]_vars => PeerInv'
<1> SUFFICES ASSUME PeerInv, EngineInv, EngineInv', [Next]_vars PROVE PeerInv'
    OBVIOUS
<1>1. CASE UNCHANGED vars
    BY <1>1 DEF vars, engine, PeerInv
<1>2. CASE Next
    <2>1. PICK n \in Nodes :
            \/ \E m \in Nodes : Connect(n, m)
            \/ ProcessIncoming(n)
            \/ PollEngine(n)
            \/ \E id \in ConnIds : Send(n, id) \/ Recv(n, id) \/ Close(n, id) \/ Reset(n, id)
        BY <1>2 DEF Next
    <2>2. setting' = setting
        BY <1>2 DEF Next
    <2>3. CASE \E m \in Nodes : Connect(n, m)
        BY <2>2, <2>3, ConnectPeer
    <2>4. CASE ProcessIncoming(n)
        <3>1. PICK msg \in {x \in net : x.to = n}, again \in 0 .. 1 :
                LET rest == IF again = 1 THEN net ELSE net \ {msg}
                IN  \/ ProcessKnown(n, msg, rest, again)
                    \/ AcceptSyn(n, msg, rest, again)
                    \/ RefuseSyn(n, msg, rest, again)
                    \/ IgnoreUnknown(n, msg, rest, again)
            BY <2>4 DEF ProcessIncoming
        <3> DEFINE rest == IF again = 1 THEN net ELSE net \ {msg}
        <3>2. rest \subseteq net /\ msg \in net /\ msg.to = n
            OBVIOUS
        <3> HIDE DEF rest
        <3> QED
            BY <2>2, <3>1, <3>2, KnownPeer, AcceptPeer, IgnoredPeer DEF rest
    <2>5. CASE PollEngine(n)
        BY <2>2, <2>5, PollPeer DEF PollEngine
    <2>6. CASE \E id \in ConnIds : Send(n, id) \/ Recv(n, id) \/ Close(n, id) \/ Reset(n, id)
        BY <2>2, <2>6, CallPeer, ResetPeer
    <2> QED
        BY <2>1, <2>3, <2>4, <2>5, <2>6
<1> QED
    BY <1>1, <1>2

LEMMA PeerHolds == ASSUME OnePeer PROVE Spec => []PeerInv
<1>1. Init => PeerInv
    BY DEF Init, PeerInv
<1>2. PeerInv /\ EngineInv /\ EngineInv' /\ [Next]_vars => PeerInv'
    BY PeerNext
<1> QED
    BY <1>1, <1>2, EngineInit, EngineNext, PTL DEF Spec

\* On point-to-point links an address in the index leads to a live connection to that
\* address, so that connect refuses an address only while there is a connection to it.
THEOREM IndexedAddresses == ASSUME OnePeer PROVE Spec => []AddressIndex
<1>1. PeerInv => AddressIndex
    BY DEF PeerInv, Leads, AddressIndex, HasConnection
<1> QED
    BY <1>1, PeerHolds, PTL

\* On point-to-point links an initiator whose connection is open talks to a peer that
\* accepted it, whatever was lost, duplicated, reordered or timed out (the SynSent arm of
\* process_packet, and process_incoming of the peer).
THEOREM HandshakeAgreed == ASSUME OnePeer PROVE Spec => []InitiatorAgreement
<1>1. PeerInv => InitiatorAgreement
    BY DEF PeerInv, Sound, Open, Accepted, InitiatorAgreement
<1> QED
    BY <1>1, PeerHolds, PTL
=============================================================================
