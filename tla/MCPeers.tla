------------------------------- MODULE MCPeers ------------------------------
(***************************************************************************)
(* How connections between peers begin, are kept and end, checked one part *)
(* at a time in one run: the close of a QUIC connection, the connection    *)
(* tables of two peers, and the endpoint that relays PUNCH_ME_NOW.  focus  *)
(* names the part whose steps a behaviour takes; the others stay in an     *)
(* initial state in which their fairness asks for no step.                 *)
(***************************************************************************)
EXTENDS ConnectionClose, PeerConnections, EndpointRelay

CONSTANT PeerParts   \* the parts to check

VARIABLE focus

\* What the applications and the network of a closing connection may do.
Chance(close, drop, data, bad, shut, loss) ==
    [close |-> close, drop |-> drop, data |-> data, bad |-> bad,
     shut |-> [e \in CloseEnds |-> IF e = "a" THEN shut ELSE 0], loss |-> loss]
CloseSettingSet ==
    {[idle |-> i, chances |-> c] : i \in BOOLEAN,
       c \in {Chance(2, 0, 1, 0, 0, 1), Chance(1, 0, 2, 0, 0, 1), Chance(0, 1, 1, 1, 0, 1), Chance(0, 0, 1, 0, 1, 1)}}

\* Dials, and what may happen to their connections.
Dialled(by, how) == [by |-> by, how |-> how]
Between(dials, cuts, disconnects, who) ==
    [dials |-> dials, cuts |-> cuts, disconnects |-> disconnects, acting |-> who]
PeerSettingSet ==
    {Between(<<Dialled("a", "connect")>>, 0, 0, {"a", "b"}),
     Between(<<Dialled("a", "fallback"), Dialled("b", "fallback")>>, 0, 0, {"b"}),
     Between(<<Dialled("a", "connect"), Dialled("b", "connect")>>, 0, 0, {"a"}),
     Between(<<Dialled("a", "connect")>>, 1, 0, {"a"}),
     Between(<<Dialled("b", "connect")>>, 1, 1, {"a"}),
     Between(<<Dialled("b", "connect"), Dialled("b", "connect")>>, 1, 0, {"a"})}
BothFallBack == {Between(<<Dialled("a", "fallback"), Dialled("b", "fallback")>>, 0, 0, {"a", "b"})}

peeringVars == <<closeVars, peerVars, punchVars, focus>>

PeeringInit ==
    /\ focus \in PeerParts
    /\ CloseInit /\ (focus # "close" => ClosesAs(CHOOSE s \in CloseSettings : TRUE))
    /\ PeersInit /\ (focus # "peers" => StartsAs(CHOOSE s \in PeerSettings : TRUE))
    /\ PunchInit

PeeringNext ==
    /\ UNCHANGED focus
    /\ \/ focus = "close" /\ CloseNext /\ UNCHANGED <<peerVars, punchVars>>
       \/ focus = "peers" /\ PeersNext /\ UNCHANGED <<closeVars, punchVars>>
       \/ focus = "punch" /\ PunchNext /\ UNCHANGED <<closeVars, peerVars>>

PeeringSpec ==
    /\ PeeringInit /\ [][PeeringNext]_peeringVars
    /\ CloseFairness /\ PeersFairness /\ PunchFairness
=============================================================================
