------------------------------ MODULE MCParts -------------------------------
(***************************************************************************)
(* Parts of the system that share no state, checked one at a time in one   *)
(* run: focus names the part whose steps a behaviour takes, and the others *)
(* keep an initial state.  The parts are the send and receive windows of a *)
(* constrained connection, its keepalives, the constrained transport, a    *)
(* server's incoming connections, and the associations of a WebRTC         *)
(* listener.                                                               *)
(***************************************************************************)
EXTENDS ConstrainedArq, ConstrainedKeepalive, ConstrainedTransport,
        IncomingConnections, WebRtcMux, TLC

CONSTANTS c1, c2   \* the clients of the server

VARIABLE focus
partsVars == <<vars, keepVars, transportVars, incomingVars, rtcVars, focus>>

\* Two clients with one id each, or one that changes its address and is given
\* tokens.
NoClients == [ids |-> (c1 :> 0 @@ c2 :> 0), rebinds |-> 0, tokens |-> 0, drains |-> 0]
IncomingSettingSet ==
    {[NoClients EXCEPT !.ids = (c1 :> 1 @@ c2 :> 1), !.drains = 1],
     [NoClients EXCEPT !.ids = (c1 :> 2 @@ c2 :> 0), !.rebinds = 1, !.tokens = 2],
     NoClients}

\* A browser that asks again with its credential, one that opens a second
\* association from its port, two of one host, and one with all else.
RtcSources == {<<"host", 1>>, <<"host", 2>>}
Asks(port, k) == <<<<"host", port>>, k>>
NoRtc == [asks |-> <<>>, per_ip |-> 1, closes |-> 0, fails |-> 0, ends |-> FALSE]
RtcSettingSet ==
    {[NoRtc EXCEPT !.asks = <<Asks(1, "k1"), Asks(1, "k1")>>],
     [NoRtc EXCEPT !.asks = <<Asks(1, "k1"), Asks(1, "k2")>>, !.per_ip = 2],
     [NoRtc EXCEPT !.asks = <<Asks(1, "k1"), Asks(2, "k2")>>],
     [NoRtc EXCEPT !.asks = <<Asks(1, "k1")>>, !.closes = 1, !.fails = 1, !.ends = TRUE],
     NoRtc}

PartsInit ==
    /\ focus \in {"arq", "keepalive", "transport", "incoming", "webrtc"}
    /\ Init /\ KeepInit /\ TransportInit
    /\ IncomingInit /\ (focus = "incoming" <=> left # NoClients)
    /\ RtcInit /\ (focus = "webrtc" <=> may # NoRtc)

PartsNext ==
    /\ UNCHANGED focus
    /\ \/ focus = "arq" /\ Next
          /\ UNCHANGED <<keepVars, transportVars, incomingVars, rtcVars>>
       \/ focus = "keepalive" /\ KeepNext
          /\ UNCHANGED <<vars, transportVars, incomingVars, rtcVars>>
       \/ focus = "transport" /\ TransportNext
          /\ UNCHANGED <<vars, keepVars, incomingVars, rtcVars>>
       \/ focus = "incoming" /\ IncomingNext
          /\ UNCHANGED <<vars, keepVars, transportVars, rtcVars>>
       \/ focus = "webrtc" /\ RtcNext
          /\ UNCHANGED <<vars, keepVars, transportVars, incomingVars>>

PartsSpec == PartsInit /\ [][PartsNext]_partsVars /\ RtcFairness
=============================================================================
