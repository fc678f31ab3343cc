------------------------ MODULE ConstrainedKeepalive ------------------------
(***************************************************************************)
(* The clocks of an established constrained connection: time in state, time *)
(* since the last activity and time since the last keepalive, at both ends *)
(* (ConstrainedConnection::poll and process_packet in                      *)
(* src/constrained/connection.rs, StateMachine in state.rs).  The link is  *)
(* timely and lossless, and each end is polled regularly; the question is  *)
(* which timeout a healthy connection can run into.                        *)
(*                                                                         *)
(* Clocks are ages in ticks.  Time passes only when no packet and no poll  *)
(* is overdue.                                                             *)
(***************************************************************************)
EXTENDS Naturals, FiniteSets

CONSTANTS
    StateTimeout,   \* ConnectionState::Established.timeout()
    IdleTimeout,    \* ConnectionConfig.idle_timeout
    Keepalive,      \* ConnectionConfig.keepalive_interval, 0 = disabled
    Delay,          \* bound: the longest transit of a packet
    PollGap         \* bound: the longest time between two polls of an end

\* A packet that was under way when the peer last pinged or was heard, and the ping
\* the peer sends at the latest possible poll, arrive before the idle timeout.
ASSUME KeepaliveAssumption ==
    /\ {StateTimeout, IdleTimeout, Keepalive, Delay, PollGap} \subseteq Nat
    /\ Keepalive + PollGap + 2 * Delay <= IdleTimeout

Ends == {"initiator", "responder"}
Peer(e) == CHOOSE f \in Ends : f # e

\* Ages beyond every timeout are not told apart; NoPing is no age.
Horizon == StateTimeout + 1
NoPing == Horizon + 1

VARIABLES
    in_state,    \* end -> time since state_entered
    idle,        \* end -> time since last_activity
    last_ping,   \* end -> time since last_keepalive, or NoPing
    unpolled,    \* end -> time since the last poll
    timed_out,   \* end -> the timeout that ended it, or "no"
    alive_net    \* packets in transit: destination, kind and age

keepVars == <<in_state, idle, last_ping, unpolled, timed_out, alive_net>>

KeepInit ==
    /\ in_state  = [e \in Ends |-> 0]
    /\ idle      = [e \in Ends |-> 0]
    /\ last_ping = [e \in Ends |-> NoPing]
    /\ unpolled  = [e \in Ends |-> 0]
    /\ timed_out    = [e \in Ends |-> "no"]
    /\ alive_net = {}

Established(e) == timed_out[e] = "no"

AlivePacket(to, kind) == [to |-> to, kind |-> kind, age |-> 0]

Older(age) == IF age < Horizon THEN age + 1 ELSE age

Tick ==
    /\ \A p \in alive_net : p.age < Delay
    /\ \A e \in Ends : Established(e) => unpolled[e] < PollGap
    /\ in_state'  = [e \in Ends |-> Older(in_state[e])]
    /\ idle'      = [e \in Ends |-> Older(idle[e])]
    /\ last_ping' = [e \in Ends |-> IF last_ping[e] = NoPing THEN NoPing ELSE Older(last_ping[e])]
    /\ unpolled'  = [e \in Ends |-> IF Established(e) THEN unpolled[e] + 1 ELSE 0]
    /\ alive_net' = {[p EXCEPT !.age = @ + 1] : p \in alive_net}
    /\ UNCHANGED timed_out

\* Mutant: once a ping was sent, no other one is.
KeepaliveDueOnce(e) ==
    /\ Keepalive > 0
    /\ last_ping[e] = NoPing
    /\ idle[e] > Keepalive

\* should_ping: measured from the last keepalive once there was one.
KeepaliveDue(e) ==
    /\ Keepalive > 0
    /\ (IF last_ping[e] = NoPing THEN idle[e] ELSE last_ping[e]) > Keepalive

(* poll: the state timeout is looked at first, then the idle timeout, then *)
(* the keepalive.                                                          *)
PollTimeout(e) ==
    /\ Established(e)
    /\ \/ in_state[e] > StateTimeout /\ timed_out' = [timed_out EXCEPT ![e] = "state"]
       \/ /\ in_state[e] <= StateTimeout
          /\ idle[e] > IdleTimeout
          /\ timed_out' = [timed_out EXCEPT ![e] = "idle"]
    /\ unpolled' = [unpolled EXCEPT ![e] = 0]
    /\ UNCHANGED <<in_state, idle, last_ping, alive_net>>

PollAlive(e) ==
    /\ Established(e)
    /\ in_state[e] <= StateTimeout
    /\ idle[e] <= IdleTimeout
    /\ \/ /\ KeepaliveDue(e)
          /\ alive_net' = alive_net \cup {AlivePacket(Peer(e), "PING")}
          /\ last_ping' = [last_ping EXCEPT ![e] = 0]
       \/ ~KeepaliveDue(e) /\ UNCHANGED <<alive_net, last_ping>>
    /\ unpolled' = [unpolled EXCEPT ![e] = 0]
    /\ UNCHANGED <<in_state, idle, timed_out>>

(* process_packet: every packet is activity; a PING is answered by a PONG. *)
ReceiveAlive(p) ==
    /\ idle' = IF Established(p.to) THEN [idle EXCEPT ![p.to] = 0] ELSE idle
    /\ alive_net' = (alive_net \ {p}) \cup
         {q \in {AlivePacket(Peer(p.to), "PONG")} : p.kind = "PING" /\ Established(p.to)}
    /\ UNCHANGED <<in_state, last_ping, unpolled, timed_out>>

(* send: the application's data is activity at both ends. *)
SendData(e) ==
    /\ Established(e)
    /\ \A p \in alive_net : p.kind # "DATA"
    /\ idle' = [idle EXCEPT ![e] = 0]
    /\ alive_net' = alive_net \cup {AlivePacket(Peer(e), "DATA")}
    /\ UNCHANGED <<in_state, last_ping, unpolled, timed_out>>

KeepNext ==
    \/ Tick
    \/ \E e \in Ends : PollTimeout(e) \/ PollAlive(e) \/ SendData(e)
    \/ \E p \in alive_net : ReceiveAlive(p)

KeepSpec == KeepInit /\ [][KeepNext]_keepVars

-----------------------------------------------------------------------------
(* Properties *)

\* Keepalives do their work: on a timely link, neither end of a connection is
\* ended by the idle timeout while its peer is up, although an end pings only
\* after its own silence and its pings are paced by last_keepalive (poll).
KeptAlive == \A e \in Ends : timed_out[e] = "idle" => timed_out[Peer(e)] # "no"
=============================================================================
