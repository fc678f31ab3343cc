--------------------------- MODULE ConnectionClose ---------------------------
(***************************************************************************)
(* How a QUIC connection ends, on both of its ends: the state machine of    *)
(* connection/mod.rs (Established, Closed, Draining, Drained), the driver   *)
(* of high_level/connection.rs that polls it, and the endpoint of           *)
(* high_level/endpoint.rs that routes packets into the bounded mailbox of   *)
(* the connection and forgets the connection once it has drained.           *)
(*                                                                         *)
(* A packet is what it carries: "data" (anything an open connection sends), *)
(* "bad" (a packet the receiver answers with a transport error), "close"    *)
(* (a CONNECTION_CLOSE) or "reset" (a stateless reset).  The network loses  *)
(* and reorders packets; duplicates are dropped by packet number.           *)
(***************************************************************************)
EXTENDS Naturals, Sequences, FiniteSetsExt, SequencesExt

CONSTANTS CloseEnds,      \* the two ends of the connection
          MailboxCapacity, \* CONN_EVENT_QUEUE_CAPACITY
          CloseSettings    \* records [idle, chances]: see below

VARIABLES
    conn,       \* Connection, and the error its high-level State keeps
    driver,     \* "running" or "done": the ConnectionDriver's task
    mailbox,    \* events the endpoint sent to the connection
    wire,       \* packets on their way to an end, counted by kind
    reported,   \* Drained events sent to the endpoint and not handled yet
    forgotten,  \* Drained events the endpoint handled
    chances,    \* what the applications and the network may still do
    idle_timeout \* is there a max_idle_timeout

closeVars == <<conn, driver, mailbox, wire, reported, forgotten, chances, idle_timeout>>

Kinds == {"data", "bad", "close", "reset"}
Peer(e) == CHOOSE f \in CloseEnds : f # e
Registered(e) == forgotten[e] = 0
Capped(n) == IF n > 2 THEN 2 ELSE n

IsClosed(c) == c.state \in {"Closed", "Draining", "Drained"}

ClosesAs(s) == idle_timeout = s.idle /\ chances = s.chances

CloseInit ==
    /\ \E s \in CloseSettings : ClosesAs(s)
    /\ conn = [e \in CloseEnds |->
                 [state |-> "Established", close |-> FALSE, error |-> "none", told |-> "none",
                  timers |-> IF idle_timeout THEN {"Idle"} ELSE {}, drained |-> 0]]
    /\ driver = [e \in CloseEnds |-> "running"]
    /\ mailbox = [e \in CloseEnds |-> <<>>]
    /\ wire = [e \in CloseEnds |-> [k \in Kinds |-> 0]]
    /\ reported = [e \in CloseEnds |-> 0]
    /\ forgotten = [e \in CloseEnds |-> 0]

\* --- connection/mod.rs ------------------------------------------------------

\* close_inner: a connection that is not closed yet is Closed, with the close
\* timer as its only timer and a CONNECTION_CLOSE to send.
CloseInner(c) ==
    IF IsClosed(c) THEN c
    ELSE [c EXCEPT !.state = "Closed", !.close = TRUE, !.timers = {"Close"}]

\* high_level State::close: close and tell the application's waiters.
CloseLocally(c) == [CloseInner(c) EXCEPT !.told = "LocallyClosed"]

\* process_payload and process_decrypted_packet, and the state that an error
\* of them leads to.
Processed(c, p) ==
    CASE p = "reset" -> [c EXCEPT !.error = "Reset", !.state = "Drained"]
      [] p = "close" /\ c.state = "Established" ->
            [c EXCEPT !.error = "ClosedByPeer", !.state = "Draining", !.close = TRUE]
      [] p = "close" /\ c.state = "Closed" -> [c EXCEPT !.state = "Draining"]
      [] p = "bad" /\ c.state = "Established" ->
            [c EXCEPT !.error = "TransportError", !.state = "Closed"]
      [] OTHER -> c

\* Mutant: a drained connection is reported once for each packet.
HandlePacketTwice(c, p) ==
    LET d == Processed(c, p)
        timers == IF ~IsClosed(c) /\ IsClosed(d) THEN {"Close"} ELSE c.timers
    IN [d EXCEPT !.timers = IF d.state = "Drained" THEN {} ELSE timers,
                 !.drained = IF d.state = "Drained" THEN c.drained + 1 ELSE c.drained,
                 !.close = d.close \/ d.state = "Closed"]

\* Mutant: a packet stops the idle timer and does not start it again.
HandlePacketUntimed(c, p) ==
    LET d == Processed(c, p)
        became_drained == c.state # "Drained" /\ d.state = "Drained"
        timers == IF IsClosed(c) THEN c.timers ELSE {t \in {"Close"} : IsClosed(d)}
    IN [d EXCEPT !.timers = IF became_drained THEN {} ELSE timers,
                 !.drained = IF became_drained THEN c.drained + 1 ELSE c.drained,
                 !.close = d.close \/ d.state = "Closed"]

\* handle_packet: process the packet, stop the timers of a connection that
\* became closed, report one that became drained, and answer every packet
\* that reaches a Closed connection with the close again.
HandlePacket(c, p) ==
    LET d == Processed(c, p)
        became_drained == c.state # "Drained" /\ d.state = "Drained"
        timers == IF ~IsClosed(c) /\ IsClosed(d) THEN {"Close"} ELSE c.timers
    IN [d EXCEPT !.timers = IF became_drained THEN timers \ {"Close"} ELSE timers,
                 !.drained = IF became_drained THEN c.drained + 1 ELSE c.drained,
                 !.close = d.close \/ d.state = "Closed"]

\* handle_timeout: the close timer ends the draining period, the idle timer
\* kills the connection without a close packet.
HandleTimeout(c, t) ==
    IF t = "Close"
    THEN [c EXCEPT !.state = "Drained", !.timers = c.timers \ {"Close"}, !.drained = c.drained + 1]
    ELSE [c EXCEPT !.state = "Drained", !.timers = {}, !.drained = c.drained + 1, !.error = "TimedOut"]

\* poll_transmit has a CONNECTION_CLOSE to send.
ClosePending(c) == c.state \in {"Closed", "Draining"} /\ c.close

\* --- high_level/connection.rs -----------------------------------------------

HandleConnEvent(c, ev) == IF ev = "Close" THEN CloseLocally(c) ELSE HandlePacket(c, ev)

\* forward_app_events: ConnectionLost is the last event and terminate keeps it.
Forwarded(c) ==
    [c EXCEPT !.told = IF c.error # "none" THEN c.error ELSE c.told, !.error = "none", !.drained = 0]

\* process_conn_events: the connection after the first n events of its mailbox.
HandledUpTo(e) ==
    LET handled[n \in 0 .. Len(mailbox[e])] ==
          IF n = 0 THEN conn[e] ELSE HandleConnEvent(handled[n - 1], mailbox[e][n])
    IN handled

\* ConnectionDriver::poll, under the connection's lock: all events of the
\* mailbox, then what is to be transmitted, then at most one expired timer,
\* then the events for the endpoint and for the application.
Polled(e, wants, expired) ==
    \E handled \in {HandledUpTo(e)[Len(mailbox[e])]} :
    \E sent \in {[handled EXCEPT !.close = handled.close /\ ~ClosePending(handled)]} :
    \E timed \in {IF expired = "none" THEN sent ELSE HandleTimeout(sent, expired)} :
       /\ wants # "none" => handled.state = "Established"
       /\ expired \in sent.timers \cup {"none"}
       /\ conn' = [conn EXCEPT ![e] = Forwarded(timed)]
       /\ mailbox' = [mailbox EXCEPT ![e] = <<>>]
       /\ LET sends == IF ClosePending(handled) THEN "close" ELSE wants IN
          wire' = IF sends = "none" THEN wire ELSE [wire EXCEPT ![Peer(e)][sends] = Capped(@ + 1)]
       /\ reported' = [reported EXCEPT ![e] = @ + timed.drained]
       /\ driver' = [driver EXCEPT ![e] = IF timed.state = "Drained" THEN "done" ELSE "running"]
       /\ UNCHANGED <<forgotten, idle_timeout>>

\* The driver has something to do without an expired timer.
DriverPoll(e) ==
    /\ driver[e] = "running"
    /\ mailbox[e] # <<>> \/ ClosePending(conn[e])
    /\ Polled(e, "none", "none")
    /\ UNCHANGED chances

\* The application of an open connection has something sent.
SendData(e) ==
    driver[e] = "running" /\ \E k \in {"data", "bad"} :
      /\ chances[k] > 0
      /\ chances' = [chances EXCEPT ![k] = @ - 1]
      /\ Polled(e, k, "none")

\* The runtime's timer wakes the driver.
TimerExpires(e) ==
    /\ driver[e] = "running"
    /\ \E t \in {"Close", "Idle"} : Polled(e, "none", t)
    /\ UNCHANGED chances

\* Connection::close, from any task, and the drop of the last handle, which
\* closes only a connection that is open.
AppClose(e) ==
    /\ chances.close > 0
    /\ chances' = [chances EXCEPT !.close = @ - 1]
    /\ conn' = [conn EXCEPT ![e] = CloseLocally(conn[e])]
    /\ UNCHANGED <<driver, mailbox, wire, reported, forgotten, idle_timeout>>

HandlesDropped(e) ==
    /\ chances.drop > 0
    /\ chances' = [chances EXCEPT !.drop = @ - 1]
    /\ ~IsClosed(conn[e])
    /\ conn' = [conn EXCEPT ![e] = CloseLocally(conn[e])]
    /\ UNCHANGED <<driver, mailbox, wire, reported, forgotten, idle_timeout>>

\* --- high_level/endpoint.rs and endpoint.rs ---------------------------------

\* forward_or_drop: an event for a full mailbox is shed, and one for a
\* connection whose driver ended has no receiver.
Posted(box, e, ev) ==
    IF driver[e] = "running" /\ Len(box[e]) < MailboxCapacity
    THEN [box EXCEPT ![e] = Append(@, ev)] ELSE box

\* Endpoint::handle: a packet for a known connection goes to its mailbox, one
\* for a connection the endpoint has forgotten may be answered by a stateless
\* reset (min_reset_interval may forbid it).
Route(e) ==
    \E k \in Kinds :
      /\ wire[e][k] > 0
      /\ LET taken == [wire EXCEPT ![e][k] = @ - 1] IN
         IF Registered(e)
         THEN /\ mailbox' = Posted(mailbox, e, k)
              /\ wire' = taken
         ELSE /\ wire' \in {taken} \cup (IF k = "reset" THEN {}
                             ELSE {[taken EXCEPT ![Peer(e)].reset = Capped(@ + 1)]})
              /\ UNCHANGED mailbox
      /\ UNCHANGED <<conn, driver, reported, forgotten, chances, idle_timeout>>

\* handle_events: a drained connection leaves the endpoint's tables.
HandleDrained(e) ==
    /\ reported[e] > 0
    /\ reported' = [reported EXCEPT ![e] = @ - 1]
    /\ forgotten' = [forgotten EXCEPT ![e] = @ + 1]
    /\ UNCHANGED <<conn, driver, mailbox, wire, chances, idle_timeout>>

\* Endpoint::close: a Close event for every connection of the endpoint.
EndpointClose(e) ==
    /\ chances.shut[e] = 1
    /\ chances' = [chances EXCEPT !.shut[e] = 2]
    /\ mailbox' = IF Registered(e) THEN Posted(mailbox, e, "Close") ELSE mailbox
    /\ UNCHANGED <<conn, driver, wire, reported, forgotten, idle_timeout>>

\* The network loses a packet.
Lose(e) ==
    \E k \in Kinds :
      /\ chances.loss > 0 /\ wire[e][k] > 0
      /\ chances' = [chances EXCEPT !.loss = @ - 1]
      /\ wire' = [wire EXCEPT ![e][k] = @ - 1]
      /\ UNCHANGED <<conn, driver, mailbox, reported, forgotten, idle_timeout>>

CloseNext ==
    \E e \in CloseEnds :
       \/ DriverPoll(e) \/ SendData(e) \/ TimerExpires(e) \/ AppClose(e) \/ HandlesDropped(e)
       \/ Route(e) \/ HandleDrained(e) \/ EndpointClose(e) \/ Lose(e)

\* Tasks that were woken run, packets and endpoint events are taken, the close
\* timer fires, and so does the idle timer of an end whose peer is gone.
Silenced(e) == "Close" \in conn[e].timers \/ conn[Peer(e)].state # "Established"
CloseFairness ==
    \A e \in CloseEnds :
       /\ WF_closeVars(DriverPoll(e)) /\ WF_closeVars(Route(e)) /\ WF_closeVars(HandleDrained(e))
       /\ WF_closeVars(Silenced(e) /\ TimerExpires(e))

CloseSpec == CloseInit /\ [][CloseNext]_closeVars /\ CloseFairness

-----------------------------------------------------------------------------
(* Hazard: a connection that is closed twice, by two causes, or by a reset   *)
(* that overtakes its own close must leave the endpoint's tables exactly     *)
(* once: endpoint.rs says a second Drained may take away a connection that   *)
(* was given the same handle.                                                *)
DrainedOnce ==
    \A e \in CloseEnds :
       reported[e] + forgotten[e] = IF driver[e] = "done" THEN 1 ELSE 0

(* Hazard: a closed connection has no other timer than the close timer, on   *)
(* every way into Closed and Draining, and nothing re-arms the others: else  *)
(* it would never drain or be killed while it drains.                        *)
CloseTimed ==
    \A e \in CloseEnds :
       IsClosed(conn[e]) => conn[e].timers = IF conn[e].state = "Drained" THEN {} ELSE {"Close"}

(* Hazard: the driver stops after the last event it forwards: whatever ended *)
(* the connection, the waiters of the application have been told a reason    *)
(* ("drained connections always have an error").                             *)
EndIsTold == \A e \in CloseEnds : driver[e] = "done" => conn[e].told # "none"

(* The end of a connection: reported to the endpoint once, timed on the way  *)
(* there, and told to the application (kill, close_common, drive_timer).     *)
EndsOnce == DrainedOnce /\ CloseTimed /\ EndIsTold

(* Hazard: CONNECTION_CLOSE is not retransmitted by a timer, so its loss     *)
(* must be made good by the answer to the next packet, by a stateless reset  *)
(* or by the idle timer: when one end is closed both ends drain and both     *)
(* endpoints forget the connection.                                          *)
BothForget ==
    (idle_timeout /\ \E e \in CloseEnds : IsClosed(conn[e])) ~> \A e \in CloseEnds : ~Registered(e)
=============================================================================
