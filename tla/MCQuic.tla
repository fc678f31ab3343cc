------------------------------- MODULE MCQuic -------------------------------
(***************************************************************************)
(* Parts of one QUIC connection that share no state, checked one at a time *)
(* in one run: focus names the part whose steps a behaviour takes, and the *)
(* others keep their initial state.                                        *)
(***************************************************************************)
EXTENDS QuicStreams, ConnectionIds, MtuDiscovery, KeyUpdate, QuicPaths

CONSTANT Parts   \* the parts to check
VARIABLE focus

\* Settings of the streams: the receive windows of a stream and of the connection, the
\* send window, concurrent streams and, as bounds, the bytes written to each stream,
\* losses, changes of the windows and streams given up.
Flow(stream, w, sw, c, len, loss, tune, abandon) ==
    [stream_window |-> stream, window |-> w, send_window |-> sw, concurrent |-> c,
     chances |-> [length |-> len, loss |-> loss, tune |-> tune, abandon |-> abandon]]
QuicStreamSettings ==
    {Flow(1, 2, 2, 2, <<2, 1>>, 0, 0, 0), Flow(2, 1, 2, 2, <<1, 1>>, 0, 0, 0),
     Flow(2, 2, 2, 1, <<2>>, 1, 0, 1), Flow(1, 2, 2, 1, <<1, 1>>, 1, 0, 0),
     Flow(1, 2, 3, 1, <<2, 1>>, 0, 1, 0), Flow(1, 2, 2, 1, <<1, 1>>, 0, 0, 1),
     Flow(1, 2, 2, 1, <<1>>, 0, 0, 2)}
LateResetSettings == {Flow(1, 1, 1, 2, <<1, 1>>, 1, 0, 1)}

CidChoice(lifetime, server_, losses, migrations) ==
    [lifetime |-> lifetime, server |-> server_, losses |-> losses, migrations |-> migrations]
QuicCidSettings ==
    {CidChoice(FALSE, TRUE, 1, 1), CidChoice(FALSE, FALSE, 0, 2),
     CidChoice(TRUE, TRUE, 0, 0), CidChoice(TRUE, FALSE, 0, 1)}

MtuChoice(change, peer, p, initial, datagrams, drops, changes, restarts) ==
    [minimum_change |-> change, peer_max |-> peer, path |-> p, initial |-> initial,
     datagrams |-> datagrams, drops |-> drops, changes |-> changes, restarts |-> restarts]
QuicMtuSettings ==
    {MtuChoice(c, peer, p, 2, 3, 0, 0, 0) : c \in {1, 2}, peer \in {6, 9}, p \in 2 .. 9}
      \cup {MtuChoice(2, 4, 4, 2, 5, 0, 1, 0), MtuChoice(2, 5, 4, 2, 6, 1, 0, 1),
            MtuChoice(2, 5, 4, 2, 2, 0, 2, 1), MtuChoice(1, 9, 4, 5, 5, 0, 0, 1),
            MtuChoice(1, 9, 6, 4, 3, 0, 0, 0), MtuChoice(1, 4, 6, 5, 3, 0, 0, 0)}

KeyChoice(by_client, by_server, early) ==
    [initiates |-> [e \in {"client", "server"} |-> IF e = "client" THEN by_client ELSE by_server],
     zero_rtt |-> early]
QuicKeySettings ==
    {KeyChoice({0, 1}, {}, "none"), KeyChoice({}, {0, 1}, "none"), KeyChoice({0}, {0}, "none"),
     KeyChoice({}, {0}, "server"), KeyChoice({0}, {}, "server")}

QuicPathSettings == {[migrations |-> 3, rounds |-> 0], [migrations |-> 0, rounds |-> 1]}

quicVars == <<streamVars, cidVars, mtuVars, keyVars, pathVars, focus>>

\* One setting stands for a part that takes no step.
AnySetting(part, settings, chosen) == focus # part => chosen = CHOOSE s \in settings : TRUE

QuicInit ==
    /\ focus \in Parts
    /\ StreamInit /\ AnySetting("streams", {s.chances : s \in StreamSettings}, chances)
    /\ CidInit /\ AnySetting("cids", CidSettings, cid_setting)
    /\ MtuInit /\ AnySetting("mtu", MtuSettings, mtu_setting)
    /\ KeyInit /\ AnySetting("keys", KeySettings, key_setting)
    /\ PathInit /\ AnySetting("paths", PathSettings, path_setting)

QuicNext ==
    /\ UNCHANGED focus
    /\ \/ focus = "streams" /\ StreamNext /\ UNCHANGED <<cidVars, mtuVars, keyVars, pathVars>>
       \/ focus = "cids" /\ CidNext /\ UNCHANGED <<streamVars, mtuVars, keyVars, pathVars>>
       \/ focus = "mtu" /\ MtuNext /\ UNCHANGED <<streamVars, cidVars, keyVars, pathVars>>
       \/ focus = "keys" /\ KeyNext /\ UNCHANGED <<streamVars, cidVars, mtuVars, pathVars>>
       \/ focus = "paths" /\ PathNext /\ UNCHANGED <<streamVars, cidVars, mtuVars, keyVars>>

QuicSpec == QuicInit /\ [][QuicNext]_quicVars

\* Two ends that run this code never find each other in breach of the protocol,
\* whatever is lost, late or given up on the way: not of the credit of a stream
\* or of the connection (StreamsState, Recv::ingest), unless by a reset that arrives
\* again, not of the rules of a key update (decrypt_packet) and not of the number
\* of connection ids (CidQueue).
NoPeerError == NoStreamError /\ NoKeyUpdateError /\ LimitKept
=============================================================================
