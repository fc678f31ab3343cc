--------------------------- MODULE MCNatTraversal ---------------------------
(* Instances of NatTraversal for TLC. *)
EXTENDS NatTraversal, TLC

CONSTANTS home, a1, a2, l1, l2

\* Two addresses of the peer, of which the predictor may guess the second, and
\* two of our own.
MCPrio == a1 :> 5 @@ a2 :> 3 @@ l1 :> 4 @@ l2 :> 2
NoPredictions == {}
PredictSecond == {[seq |-> 100, addr |-> a2]}
=============================================================================
