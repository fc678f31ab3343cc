------------------------------- MODULE MCReach ------------------------------
(***************************************************************************)
(* What a node does to reach a peer, checked one part at a time in one     *)
(* run: the candidates of a connection's NAT traversal, and the ladder of  *)
(* direct, hole-punched and relayed attempts of connect_with_fallback.     *)
(* focus names the part whose steps a behaviour takes; the other stays in  *)
(* an initial state in which its fairness asks for no step.                *)
(***************************************************************************)
EXTENDS MCNatTraversal, DialLadder

VARIABLE focus
reachVars == <<vars, dialVars, focus>>

\* Ladders: the addresses, which stages there are, and what may happen.
Rung(addrs, ipv6, punch, coordinator, relays, callers) ==
    [addrs |-> addrs, endpoint |-> TRUE, ipv6 |-> ipv6, punch |-> punch,
     coordinator |-> coordinator, relay |-> relays # {}, relays |-> Cardinality(relays \ {"none"}),
     rounds |-> 2, callers |-> callers,
     drops |-> 0, overruns |-> 0, arrivals |-> 0, shutdowns |-> 0]
NoDial == Rung(<<>>, TRUE, FALSE, FALSE, {}, {})
DialSettingSet ==
    {[Rung(<<"v6", "v4">>, TRUE, TRUE, TRUE, {"r"}, {1, 2}) EXCEPT !.drops = 1, !.arrivals = 1],
     [Rung(<<"v4">>, TRUE, FALSE, TRUE, {"none"}, {1, 2, 3}) EXCEPT !.drops = 1, !.overruns = 1],
     [Rung(<<"v6", "v4">>, FALSE, FALSE, FALSE, {}, {1}) EXCEPT !.arrivals = 1],
     [Rung(<<"v4">>, TRUE, TRUE, FALSE, {"r"}, {1, 2}) EXCEPT !.overruns = 1, !.shutdowns = 1],
     [Rung(<<>>, TRUE, TRUE, TRUE, {"r"}, {1}) EXCEPT !.drops = 1],
     [Rung(<<"v4">>, FALSE, TRUE, TRUE, {"none"}, {1}) EXCEPT !.arrivals = 1, !.endpoint = FALSE],
     NoDial}

ReachInit ==
    /\ focus \in {"candidates", "dial"}
    /\ Init
    /\ DialInit /\ (focus = "dial" <=> ladder # NoDial)

ReachNext ==
    /\ UNCHANGED focus
    /\ \/ focus = "candidates" /\ Next /\ UNCHANGED dialVars
       \/ focus = "dial" /\ DialNext /\ UNCHANGED vars

ReachSpec == ReachInit /\ [][ReachNext]_reachVars /\ DialFairness
=============================================================================
