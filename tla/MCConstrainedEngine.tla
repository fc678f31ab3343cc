------------------------ MODULE MCConstrainedEngine ------------------------
(***************************************************************************)
(* Instances of ConstrainedEngine for TLC: two nodes, and settings that    *)
(* say who dials whom, how large the tables are and how often every kind   *)
(* of occurrence may happen.                                               *)
(***************************************************************************)
EXTENDS ConstrainedEngine

CONSTANTS A, B

Setting(dials, max_connections, connect, chunk, ending, timeout, expiry, duplicate) ==
    [dials |-> dials, max_connections |-> max_connections,
     budget |-> [connect |-> connect, chunk |-> chunk, ending |-> ending,
                 timeout |-> timeout, expiry |-> expiry, duplicate |-> duplicate]]

OneDial    == {<<A, B>>}
MutualDial == {<<A, B>>, <<B, A>>}

\* Data transfer on a connection nobody ends; handshake, close, reset and
\* timeouts, with a packet delivered twice and a table of one connection; two
\* engines that dial each other and end a connection.
EngineSettings ==
    {Setting(OneDial, 1, 1, 3, 0, 0, 1, 1),
     Setting(OneDial, 1, 2, 0, 1, 1, 0, 1),
     Setting(MutualDial, 2, 2, 0, 1, 0, 0, 0)}

\* Data sent by the side that accepted the connection.
ResponderSettings == {Setting(OneDial, 2, 1, 2, 0, 0, 0, 0)}
=============================================================================
