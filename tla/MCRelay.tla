------------------------------- MODULE MCRelay ------------------------------
(***************************************************************************)
(* The two sides of MASQUE relaying, the relay's session table and the     *)
(* client's allocations, checked one at a time in one run: focus names the *)
(* side whose steps a behaviour takes.  In its initial state the other     *)
(* side has no step that its fairness asks for.                            *)
(***************************************************************************)
EXTENDS MasqueRelay, RelayLifecycle

CONSTANTS Sides,      \* the sides to check
          PeerP, PeerQ, AddrA, AddrB

VARIABLE focus

Asks(peer, addr, cut) == [peer |-> peer, addr |-> addr, cut |-> cut]
RelayPlanSet ==
    {<<Asks(PeerP, AddrA, TRUE), Asks(PeerP, AddrA, FALSE)>>,
     <<Asks(NoPeer, AddrA, FALSE), Asks(NoPeer, AddrA, FALSE)>>,
     <<Asks(PeerP, AddrA, FALSE), Asks(PeerP, AddrB, FALSE)>>,
     <<Asks(PeerP, AddrA, FALSE), Asks(PeerQ, AddrB, FALSE)>>,
     <<Asks(PeerP, AddrA, TRUE), Asks(NoPeer, AddrA, FALSE), Asks(PeerP, AddrB, FALSE)>>}

Prepares(server, drops) == [server |-> server, kind |-> "prepare", drops |-> drops]
Dials(server) == [server |-> server, kind |-> "dial", drops |-> FALSE]
LifecyclePlanSet ==
    {<<Prepares("r", TRUE), Prepares("r", FALSE)>>, <<Prepares("r", TRUE), Prepares("q", FALSE)>>,
     <<Prepares("r", FALSE), Dials("r")>>}
ThreePrepares == {<<Prepares("r", FALSE), Prepares("r", FALSE), Prepares("r", FALSE)>>}

relayingVars == <<relayVars, lifecycleVars, focus>>

RelayingInit ==
    /\ focus \in Sides
    /\ RelayInit /\ (focus # "server" => req = RequestsOf(CHOOSE plan \in RelayPlans : TRUE))
    /\ LifecycleInit /\ (focus # "client" => task = AttemptsOf(CHOOSE plan \in LifecyclePlans : TRUE))

RelayingNext ==
    /\ UNCHANGED focus
    /\ \/ focus = "server" /\ RelayNext /\ UNCHANGED lifecycleVars
       \/ focus = "client" /\ LifecycleNext /\ UNCHANGED relayVars

RelayingSpec ==
    RelayingInit /\ [][RelayingNext]_relayingVars /\ RelayFairness /\ LifecycleFairness
=============================================================================
