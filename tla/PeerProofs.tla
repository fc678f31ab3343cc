------------------------------ MODULE PeerProofs -----------------------------
(***************************************************************************)
(* Proofs about how connections between peers begin, are kept and end.     *)
(*   - ConnectionClose, for any capacity of the mailbox, any number of     *)
(*     events in it when the driver polls, and whatever the applications   *)
(*     and the network do: the connection is reported drained once, timed  *)
(*     on the way there, and its end is told.                              *)
(*   - EndpointRelay: a relayed PUNCH_ME_NOW reaches the peer it is meant  *)
(*     for, for every number of peers, handles and connections and every   *)
(*     mailbox size.                                                       *)
(*   - PeerConnections: the tables of two peers agree at rest, for every   *)
(*     number of dials, cuts and disconnects.                              *)
(***************************************************************************)
EXTENDS ConnectionClose, PeerConnections, EndpointRelay, SequenceTheorems, WellFoundedInduction, TLAPS

-----------------------------------------------------------------------------
(* Closing a connection: the inductive invariant *)

ConnFields == {"state", "close", "error", "told", "timers", "drained"}
ConnEvents == Kinds \cup {"Close"}

\* A connection has the timers of its state, and one that is not open has a reason that
\* was told to the application or will be by the poll under way.
ConnOk(c) ==
    /\ DOMAIN c = ConnFields
    /\ c.state \in {"Established", "Closed", "Draining", "Drained"}
    /\ c.state = "Established" => c.timers \subseteq {"Idle"}
    /\ c.state \in {"Closed", "Draining"} => c.timers = {"Close"}
    /\ c.state = "Drained" => c.timers = {}
    /\ c.state # "Established" => c.error # "none" \/ c.told # "none"

\* During a poll: a connection that drained in it was counted once.
PollOk(c) == ConnOk(c) /\ c.drained = IF c.state = "Drained" THEN 1 ELSE 0

CloseInv ==
    /\ DOMAIN conn = CloseEnds /\ DOMAIN driver = CloseEnds
    /\ mailbox \in [CloseEnds -> Seq(ConnEvents)]
    /\ reported \in [CloseEnds -> Nat] /\ forgotten \in [CloseEnds -> Nat]
    /\ \A e \in CloseEnds :
         /\ ConnOk(conn[e]) /\ conn[e].drained = 0 /\ conn[e].error = "none"
         /\ driver[e] = IF conn[e].state = "Drained" THEN "done" ELSE "running"
         /\ reported[e] + forgotten[e] = IF driver[e] = "done" THEN 1 ELSE 0

\* Both ends are open, nothing is on its way: the invariant holds of the initial states.
LEMMA CloseInitInv == CloseInit => CloseInv
<1> SUFFICES ASSUME CloseInit
             PROVE  CloseInv
    OBVIOUS
<1>1. \A e \in CloseEnds :
        /\ DOMAIN conn[e] = ConnFields /\ conn[e].state = "Established" /\ conn[e].error = "none"
        /\ conn[e].timers \subseteq {"Idle"} /\ conn[e].drained = 0
    BY DEF CloseInit, ConnFields
<1>2. \A e \in CloseEnds : ConnOk(conn[e])
    BY <1>1 DEF ConnOk
<1>3. DOMAIN conn = CloseEnds /\ DOMAIN driver = CloseEnds /\ \A e \in CloseEnds : driver[e] = "running"
    BY DEF CloseInit
<1>4. /\ mailbox \in [CloseEnds -> Seq(ConnEvents)]
      /\ reported \in [CloseEnds -> Nat] /\ forgotten \in [CloseEnds -> Nat]
      /\ \A e \in CloseEnds : reported[e] = 0 /\ forgotten[e] = 0
    BY DEF CloseInit
<1> QED
    BY <1>1, <1>2, <1>3, <1>4 DEF CloseInv

-----------------------------------------------------------------------------
(* Connection *)

\* close_inner and State::close.
LEMMA CloseLocallyOk ==
    ASSUME NEW c, ConnOk(c)
    PROVE  LET d == CloseLocally(c)
           IN  /\ ConnOk(d) /\ d.drained = c.drained /\ d.error = c.error
               /\ d.state = "Drained" <=> c.state = "Drained"
<1> DEFINE b == CloseInner(c)
           d == CloseLocally(c)
<1>1. /\ ConnOk(b) \/ (DOMAIN b = ConnFields /\ b.state = "Closed" /\ b.timers = {"Close"})
      /\ DOMAIN b = ConnFields /\ b.drained = c.drained /\ b.error = c.error
      /\ b.state = "Drained" <=> c.state = "Drained"
    <2>1. CASE IsClosed(c)
        BY <2>1 DEF CloseInner, ConnOk
    <2>2. CASE ~IsClosed(c)
        <3>1. b = [c EXCEPT !.state = "Closed", !.close = TRUE, !.timers = {"Close"}]
            BY <2>2 DEF CloseInner
        <3> HIDE DEF b
        <3>2. DOMAIN b = ConnFields /\ b.state = "Closed" /\ b.timers = {"Close"} /\ b.drained = c.drained /\ b.error = c.error
            BY <3>1 DEF ConnOk, ConnFields
        <3> QED
            BY <2>2, <3>2 DEF IsClosed
    <2> QED
        BY <2>1, <2>2
<1>2. d = [b EXCEPT !.told = "LocallyClosed"]
    BY DEF CloseLocally
<1> HIDE DEF b, d
<1>3. /\ DOMAIN d = ConnFields /\ d.state = b.state /\ d.timers = b.timers /\ d.drained = b.drained
      /\ d.error = b.error /\ d.told = "LocallyClosed"
    BY <1>1, <1>2 DEF ConnFields
<1>4. ConnOk(d)
    BY <1>1, <1>3 DEF ConnOk
<1> QED
    BY <1>1, <1>3, <1>4 DEF d

\* process_payload: where a packet leads.
LEMMA ProcessedOk ==
    ASSUME NEW c, ConnOk(c), NEW p
    PROVE  LET d == Processed(c, p)
           IN  /\ DOMAIN d = ConnFields /\ d.timers = c.timers /\ d.drained = c.drained /\ d.told = c.told
               /\ d.state \in {"Established", "Closed", "Draining", "Drained"}
               /\ d.state # "Established" => d.error # "none" \/ d.told # "none"
               /\ c.state # "Established" => d.state # "Established"
               /\ c.state = "Drained" => d.state = "Drained"
<1> DEFINE d == Processed(c, p)
<1>1. \/ d = [c EXCEPT !.error = "Reset", !.state = "Drained"]
      \/ c.state = "Established" /\ d = [c EXCEPT !.error = "ClosedByPeer", !.state = "Draining", !.close = TRUE]
      \/ c.state = "Closed" /\ d = [c EXCEPT !.state = "Draining"]
      \/ c.state = "Established" /\ d = [c EXCEPT !.error = "TransportError", !.state = "Closed"]
      \/ d = c
    BY DEF Processed
<1> HIDE DEF d
<1>2. CASE d = [c EXCEPT !.error = "Reset", !.state = "Drained"]
    BY <1>2 DEF ConnOk, ConnFields, d
<1>3. CASE c.state = "Established" /\ d = [c EXCEPT !.error = "ClosedByPeer", !.state = "Draining", !.close = TRUE]
    BY <1>3 DEF ConnOk, ConnFields, d
<1>4. CASE c.state = "Closed" /\ d = [c EXCEPT !.state = "Draining"]
    BY <1>4 DEF ConnOk, ConnFields, d
<1>5. CASE c.state = "Established" /\ d = [c EXCEPT !.error = "TransportError", !.state = "Closed"]
    BY <1>5 DEF ConnOk, ConnFields, d
<1>6. CASE d = c
    BY <1>6 DEF ConnOk, ConnFields, d
<1> QED
    BY <1>1, <1>2, <1>3, <1>4, <1>5, <1>6

\* handle_packet: a connection that becomes drained is counted then, and only then.
LEMMA HandlePacketOk ==
    ASSUME NEW c, PollOk(c), NEW p
    PROVE  PollOk(HandlePacket(c, p))
<1> DEFINE d == Processed(c, p)
           became == c.state # "Drained" /\ d.state = "Drained"
           timers == IF ~IsClosed(c) /\ IsClosed(d) THEN {"Close"} ELSE c.timers
           t == IF became THEN timers \ {"Close"} ELSE timers
           n == IF became THEN c.drained + 1 ELSE c.drained
           f == HandlePacket(c, p)
<1>1. f = [d EXCEPT !.timers = t, !.drained = n, !.close = d.close \/ d.state = "Closed"]
    BY DEF HandlePacket
<1>2. ConnOk(c) /\ c.drained = IF c.state = "Drained" THEN 1 ELSE 0
    BY DEF PollOk
<1>3. /\ DOMAIN d = ConnFields /\ d.timers = c.timers /\ d.drained = c.drained /\ d.told = c.told
      /\ d.state \in {"Established", "Closed", "Draining", "Drained"}
      /\ d.state # "Established" => d.error # "none" \/ d.told # "none"
      /\ c.state # "Established" => d.state # "Established"
      /\ c.state = "Drained" => d.state = "Drained"
    BY <1>2, ProcessedOk
<1> HIDE DEF d, f
<1>4. /\ d.state = "Established" => t \subseteq {"Idle"}
      /\ d.state \in {"Closed", "Draining"} => t = {"Close"}
      /\ d.state = "Drained" => t = {}
    BY <1>2, <1>3 DEF ConnOk, IsClosed
<1>5. n = IF d.state = "Drained" THEN 1 ELSE 0
    BY <1>2, <1>3
<1> HIDE DEF t, n
<1>6. DOMAIN f = ConnFields /\ f.state = d.state /\ f.timers = t /\ f.drained = n /\ f.error = d.error /\ f.told = d.told
    BY <1>1, <1>3 DEF ConnFields
<1>7. ConnOk(f)
    BY <1>3, <1>4, <1>6 DEF ConnOk
<1> QED
    BY <1>5, <1>6, <1>7 DEF PollOk, f

\* handle_event of the high-level connection.
LEMMA HandleConnEventOk ==
    ASSUME NEW c, PollOk(c), NEW ev
    PROVE  PollOk(HandleConnEvent(c, ev))
<1>1. CASE ev = "Close"
    <2>1. ConnOk(c) /\ c.state \in {"Established", "Closed", "Draining", "Drained"}
        BY DEF PollOk, ConnOk
    <2>2. HandleConnEvent(c, ev) = CloseLocally(c)
        BY <1>1 DEF HandleConnEvent
    <2> QED
        BY <2>1, <2>2, CloseLocallyOk DEF PollOk
<1>2. CASE ev # "Close"
    BY <1>2, HandlePacketOk DEF HandleConnEvent
<1> QED
    BY <1>1, <1>2

\* drive_timer: the timer that expires is one of the connection's.
LEMMA HandleTimeoutOk ==
    ASSUME NEW c, PollOk(c), NEW t \in c.timers
    PROVE  PollOk(HandleTimeout(c, t))
<1> DEFINE d == HandleTimeout(c, t)
<1>1. ConnOk(c) /\ c.state # "Drained" /\ c.drained = 0 /\ t \in {"Close", "Idle"}
    BY DEF PollOk, ConnOk
<1>2. c.timers = {"Close"} \/ t = "Idle"
    BY <1>1 DEF ConnOk
<1>3. CASE t = "Close"
    <2>1. d = [c EXCEPT !.state = "Drained", !.timers = c.timers \ {"Close"}, !.drained = c.drained + 1]
        BY <1>3 DEF HandleTimeout
    <2>2. c.timers \ {"Close"} = {} /\ c.drained + 1 = 1 /\ c.state # "Established"
        BY <1>1, <1>3 DEF ConnOk
    <2> HIDE DEF d
    <2>3. DOMAIN d = ConnFields /\ d.state = "Drained" /\ d.timers = {} /\ d.drained = 1 /\ d.error = c.error /\ d.told = c.told
        BY <1>1, <2>1, <2>2 DEF ConnOk, ConnFields
    <2>4. ConnOk(d)
        BY <1>1, <2>2, <2>3 DEF ConnOk
    <2> QED
        BY <2>3, <2>4 DEF PollOk, d
<1>4. CASE t # "Close"
    <2>1. d = [c EXCEPT !.state = "Drained", !.timers = {}, !.drained = c.drained + 1, !.error = "TimedOut"]
        BY <1>4 DEF HandleTimeout
    <2> HIDE DEF d
    <2>2. DOMAIN d = ConnFields /\ d.state = "Drained" /\ d.timers = {} /\ d.drained = 1 /\ d.error = "TimedOut"
        BY <1>1, <2>1 DEF ConnOk, ConnFields
    <2>3. ConnOk(d)
        BY <2>2 DEF ConnOk
    <2> QED
        BY <2>2, <2>3 DEF PollOk, d
<1> QED
    BY <1>3, <1>4

-----------------------------------------------------------------------------
(* The driver *)

\* process_conn_events of the first m events of a mailbox, as a function of how many
\* events have been handled.
IsHandled(f, c, box, m) ==
    f = [n \in 0 .. m |-> IF n = 0 THEN c ELSE HandleConnEvent(f[n - 1], box[n])]

\* The numbers are well-ordered.
LEMMA LeastNumber ==
    ASSUME NEW S \in SUBSET Nat, S # {}
    PROVE  \E m \in S : \A y \in S : m <= y
<1> DEFINE R == {ss \in Nat \X Nat : ss[1] < ss[2]}
<1>1. IsWellFoundedOn(R, Nat)
    BY NatLessThanWellFounded DEF OpToRel
<1>2. PICK x \in S : \A y \in S : ~(<<y, x>> \in R)
    BY <1>1, WFMin
<1>3. x \in Nat /\ \A y \in S : y \in Nat
    BY <1>2
<1>4. ASSUME NEW y \in S
      PROVE  ~(y < x)
    <2>1. y < x => <<y, x>> \in R
        BY <1>3, <1>4
    <2> HIDE DEF R
    <2> QED
        BY <1>2, <1>4, <2>1
<1> QED
    BY <1>2, <1>3, <1>4

\* Events can be handled one after the other, however many there are.
LEMMA HandledExists ==
    ASSUME NEW c, NEW box, NEW m \in Nat
    PROVE  \E f : IsHandled(f, c, box, m)
<1> DEFINE S == {k \in Nat : ~ \E f : IsHandled(f, c, box, k)}
<1>1. S = {}
    <2> SUFFICES ASSUME S # {}
                 PROVE  FALSE
        OBVIOUS
    <2>1. PICK k \in S : \A y \in S : k <= y
        BY LeastNumber
    <2>2. k \in Nat /\ ~ \E f : IsHandled(f, c, box, k)
        BY <2>1
    <2>3. CASE k = 0
        <3> DEFINE f == [n \in 0 .. 0 |-> c]
        <3>1. f = [n \in 0 .. 0 |-> IF n = 0 THEN c ELSE HandleConnEvent(f[n - 1], box[n])]
            OBVIOUS
        <3>2. IsHandled(f, c, box, 0)
            BY <3>1 DEF IsHandled
        <3> QED
            BY <2>2, <2>3, <3>2
    <2>4. CASE k > 0
        <3>1. k - 1 \in Nat /\ k - 1 \notin S
            BY <2>1, <2>2, <2>4
        <3>2. PICK f : IsHandled(f, c, box, k - 1)
            BY <3>1
        <3> DEFINE last == HandleConnEvent(f[k - 1], box[k])
                   g == [n \in 0 .. k |-> IF n = k THEN last ELSE f[n]]
                   h == [n \in 0 .. k |-> IF n = 0 THEN c ELSE HandleConnEvent(g[n - 1], box[n])]
        <3>3. \A n \in 0 .. k - 1 : f[n] = IF n = 0 THEN c ELSE HandleConnEvent(f[n - 1], box[n])
            BY <3>2 DEF IsHandled
        <3>4. ASSUME NEW n \in 0 .. k
              PROVE  g[n] = h[n]
            <4>1. CASE n = k
                <5>1. g[n] = last /\ g[n - 1] = f[k - 1] /\ n # 0
                    BY <2>2, <2>4, <4>1
                <5> QED
                    BY <4>1, <5>1
            <4>2. CASE n # k
                <5>1. n \in 0 .. k - 1 /\ g[n] = f[n] /\ (n # 0 => n - 1 \in 0 .. k /\ n - 1 # k /\ g[n - 1] = f[n - 1])
                    BY <2>2, <4>2
                <5> QED
                    BY <3>3, <5>1
            <4> QED
                BY <4>1, <4>2
        <3>5. g = h
            BY <3>4
        <3>6. IsHandled(g, c, box, k)
            BY <3>5 DEF IsHandled
        <3> QED
            BY <2>2, <3>6
    <2> QED
        BY <2>2, <2>3, <2>4
<1> QED
    BY <1>1

\* A poll handles every event of the mailbox, and counts a connection that drains once.
LEMMA HandledOk ==
    ASSUME CloseInv, NEW e \in CloseEnds, driver[e] = "running"
    PROVE  PollOk(HandledUpTo(e)[Len(mailbox[e])])
<1> DEFINE c == conn[e]
           box == mailbox[e]
           m == Len(box)
           h == HandledUpTo(e)
<1>1. m \in Nat
    <2>1. box \in Seq(ConnEvents)
        BY DEF CloseInv
    <2> QED
        BY <2>1
<1>2. PollOk(c)
    BY DEF CloseInv, PollOk
<1>3. h = CHOOSE f : IsHandled(f, c, box, m)
    BY DEF HandledUpTo, IsHandled
<1> HIDE DEF c, box, m, h
<1>4. IsHandled(h, c, box, m)
    BY <1>1, <1>3, HandledExists
<1>5. \A n \in 0 .. m : h[n] = IF n = 0 THEN c ELSE HandleConnEvent(h[n - 1], box[n])
    BY <1>4 DEF IsHandled
<1> DEFINE S == {n \in Nat : n <= m /\ ~PollOk(h[n])}
<1>6. S = {}
    <2> SUFFICES ASSUME S # {}
                 PROVE  FALSE
        OBVIOUS
    <2>1. PICK k \in S : \A y \in S : k <= y
        BY LeastNumber
    <2>2. k \in Nat /\ k <= m /\ ~PollOk(h[k]) /\ k \in 0 .. m
        BY <1>1, <2>1
    <2>3. k # 0
        BY <1>2, <1>5, <2>2
    <2>4. k - 1 \in Nat /\ k - 1 <= m /\ k - 1 \notin S
        BY <1>1, <2>1, <2>2, <2>3
    <2>5. PollOk(h[k - 1])
        BY <2>4
    <2>6. h[k] = HandleConnEvent(h[k - 1], box[k])
        BY <1>5, <2>2, <2>3
    <2> QED
        BY <2>2, <2>5, <2>6, HandleConnEventOk
<1>7. PollOk(h[m])
    BY <1>1, <1>6
<1> QED
    BY <1>7 DEF h, m, box

\* What a poll does: the connection after the events is x, after what it sends y, and
\* after an expired timer z.
PollEffect(e, wants, expired, x, y, z) ==
    /\ wants # "none" => x.state = "Established"
    /\ expired \in y.timers \cup {"none"}
    /\ conn' = [conn EXCEPT ![e] = Forwarded(z)]
    /\ mailbox' = [mailbox EXCEPT ![e] = <<>>]
    /\ LET sends == IF ClosePending(x) THEN "close" ELSE wants IN
       wire' = IF sends = "none" THEN wire ELSE [wire EXCEPT ![Peer(e)][sends] = Capped(@ + 1)]
    /\ reported' = [reported EXCEPT ![e] = @ + z.drained]
    /\ driver' = [driver EXCEPT ![e] = IF z.state = "Drained" THEN "done" ELSE "running"]
    /\ UNCHANGED <<forgotten, idle_timeout>>

\* ConnectionDriver::poll.
LEMMA PolledStep ==
    ASSUME CloseInv, NEW e \in CloseEnds, driver[e] = "running", NEW wants, NEW expired, Polled(e, wants, expired)
    PROVE  CloseInv'
<1> DEFINE handled == HandledUpTo(e)[Len(mailbox[e])]
           sent == [handled EXCEPT !.close = handled.close /\ ~ClosePending(handled)]
           timed == IF expired = "none" THEN sent ELSE HandleTimeout(sent, expired)
<1>1. PollOk(handled)
    BY HandledOk
<1> HIDE DEF handled
<1>2. \E x \in {handled} : \E y \in {[x EXCEPT !.close = x.close /\ ~ClosePending(x)]} :
      \E z \in {IF expired = "none" THEN y ELSE HandleTimeout(y, expired)} : PollEffect(e, wants, expired, x, y, z)
    BY DEF Polled, PollEffect, handled
<1>3. PollOk(sent)
    <2>1. sent = [handled EXCEPT !.close = handled.close /\ ~ClosePending(handled)]
        OBVIOUS
    <2> HIDE DEF sent
    <2>2. /\ DOMAIN sent = ConnFields /\ sent.state = handled.state /\ sent.timers = handled.timers
          /\ sent.error = handled.error /\ sent.told = handled.told /\ sent.drained = handled.drained
        BY <1>1, <2>1 DEF PollOk, ConnOk, ConnFields
    <2> QED
        BY <1>1, <2>2 DEF PollOk, ConnOk
<1>4. PollEffect(e, wants, expired, handled, sent, timed)
    BY <1>2
<1> HIDE DEF sent
<1>5. /\ expired \in sent.timers \cup {"none"}
      /\ conn' = [conn EXCEPT ![e] = Forwarded(timed)]
      /\ mailbox' = [mailbox EXCEPT ![e] = <<>>]
      /\ reported' = [reported EXCEPT ![e] = @ + timed.drained]
      /\ driver' = [driver EXCEPT ![e] = IF timed.state = "Drained" THEN "done" ELSE "running"]
      /\ UNCHANGED forgotten
    BY <1>4 DEF PollEffect
<1>6. PollOk(timed)
    <2>1. CASE expired = "none"
        BY <1>3, <2>1
    <2>2. CASE expired # "none"
        <3>1. expired \in sent.timers /\ timed = HandleTimeout(sent, expired)
            BY <1>5, <2>2
        <3> QED
            BY <1>3, <3>1, HandleTimeoutOk
    <2> QED
        BY <2>1, <2>2
<1> HIDE DEF timed
<1> DEFINE t == IF timed.error # "none" THEN timed.error ELSE timed.told
           f == Forwarded(timed)
<1>7. f = [timed EXCEPT !.told = t, !.error = "none", !.drained = 0]
    BY DEF Forwarded
<1>8. timed.error # "none" \/ timed.told # "none" => t # "none"
    OBVIOUS
<1> HIDE DEF t, f
<1>9. DOMAIN f = ConnFields /\ f.state = timed.state /\ f.timers = timed.timers /\ f.told = t /\ f.error = "none" /\ f.drained = 0
    BY <1>6, <1>7 DEF PollOk, ConnOk, ConnFields
<1>10. ConnOk(f)
    BY <1>6, <1>8, <1>9 DEF PollOk, ConnOk
<1>11. /\ DOMAIN conn' = CloseEnds /\ conn'[e] = f /\ \A d \in CloseEnds : d # e => conn'[d] = conn[d]
       /\ DOMAIN driver' = CloseEnds /\ driver'[e] = (IF timed.state = "Drained" THEN "done" ELSE "running")
       /\ \A d \in CloseEnds : d # e => driver'[d] = driver[d]
    BY <1>5 DEF CloseInv, f
<1>12. mailbox' \in [CloseEnds -> Seq(ConnEvents)]
    BY <1>5 DEF CloseInv
<1>13. reported[e] = 0 /\ forgotten[e] = 0 /\ timed.drained = IF timed.state = "Drained" THEN 1 ELSE 0
    <2>1. reported[e] \in Nat /\ forgotten[e] \in Nat /\ reported[e] + forgotten[e] = 0
        BY DEF CloseInv
    <2>2. timed.drained = IF timed.state = "Drained" THEN 1 ELSE 0
        BY <1>6 DEF PollOk
    <2> QED
        BY <2>1, <2>2
<1>14. /\ reported' \in [CloseEnds -> Nat] /\ reported'[e] = (IF timed.state = "Drained" THEN 1 ELSE 0)
       /\ \A d \in CloseEnds : d # e => reported'[d] = reported[d]
    <2>1. reported' = [reported EXCEPT ![e] = reported[e] + timed.drained]
        BY <1>5
    <2>2. reported[e] + timed.drained \in Nat /\ reported[e] + timed.drained = (IF timed.state = "Drained" THEN 1 ELSE 0)
        BY <1>13
    <2> QED
        BY <2>1, <2>2 DEF CloseInv
<1>15. forgotten' = forgotten
    BY <1>5
<1>16. ASSUME NEW d \in CloseEnds
       PROVE  /\ ConnOk(conn'[d]) /\ conn'[d].drained = 0 /\ conn'[d].error = "none"
              /\ driver'[d] = IF conn'[d].state = "Drained" THEN "done" ELSE "running"
              /\ reported'[d] + forgotten'[d] = IF driver'[d] = "done" THEN 1 ELSE 0
    <2>1. CASE d = e
        BY <1>9, <1>10, <1>11, <1>13, <1>14, <1>15, <2>1
    <2>2. CASE d # e
        BY <1>11, <1>14, <1>15, <2>2 DEF CloseInv
    <2> QED
        BY <2>1, <2>2
<1> QED
    BY <1>11, <1>12, <1>14, <1>15, <1>16 DEF CloseInv

\* Connection::close, and the drop of the last handle.
LEMMA ClosesStep ==
    ASSUME CloseInv, NEW e \in CloseEnds, AppClose(e) \/ HandlesDropped(e)
    PROVE  CloseInv'
<1> DEFINE c == conn[e]
           d == CloseLocally(c)
<1>1. conn' = [conn EXCEPT ![e] = d] /\ UNCHANGED <<driver, mailbox, reported, forgotten>>
    BY DEF AppClose, HandlesDropped
<1>2. ConnOk(c)
    BY DEF CloseInv
<1>3. ConnOk(d) /\ d.drained = c.drained /\ d.error = c.error /\ (d.state = "Drained" <=> c.state = "Drained")
    BY <1>2, CloseLocallyOk
<1> HIDE DEF d
<1>4. DOMAIN conn' = CloseEnds /\ conn'[e] = d /\ \A x \in CloseEnds : x # e => conn'[x] = conn[x]
    BY <1>1 DEF CloseInv
<1>5. ASSUME NEW x \in CloseEnds
      PROVE  /\ ConnOk(conn'[x]) /\ conn'[x].drained = 0 /\ conn'[x].error = "none"
             /\ driver'[x] = IF conn'[x].state = "Drained" THEN "done" ELSE "running"
             /\ reported'[x] + forgotten'[x] = IF driver'[x] = "done" THEN 1 ELSE 0
    <2>1. CASE x = e
        BY <1>1, <1>3, <1>4, <2>1 DEF CloseInv
    <2>2. CASE x # e
        BY <1>1, <1>4, <2>2 DEF CloseInv
    <2> QED
        BY <2>1, <2>2
<1> QED
    BY <1>1, <1>4, <1>5 DEF CloseInv

\* The endpoint posts an event to a mailbox that is not full and has a receiver.
LEMMA PostedStep ==
    ASSUME CloseInv, NEW e \in CloseEnds, NEW ev \in ConnEvents, mailbox' \in {mailbox, Posted(mailbox, e, ev)},
           UNCHANGED <<conn, driver, reported, forgotten>>
    PROVE  CloseInv'
<1>1. mailbox' \in [CloseEnds -> Seq(ConnEvents)]
    <2>1. mailbox \in [CloseEnds -> Seq(ConnEvents)]
        BY DEF CloseInv
    <2>2. Append(mailbox[e], ev) \in Seq(ConnEvents)
        BY <2>1
    <2>3. Posted(mailbox, e, ev) \in [CloseEnds -> Seq(ConnEvents)]
        BY <2>1, <2>2 DEF Posted
    <2> QED
        BY <2>1, <2>3
<1> QED
    BY <1>1 DEF CloseInv

\* handle_events: the endpoint forgets the connection.
LEMMA HandleDrainedStep ==
    ASSUME CloseInv, NEW e \in CloseEnds, HandleDrained(e)
    PROVE  CloseInv'
<1>1. /\ reported \in [CloseEnds -> Nat] /\ forgotten \in [CloseEnds -> Nat] /\ reported[e] > 0
      /\ reported' = [reported EXCEPT ![e] = reported[e] - 1]
      /\ forgotten' = [forgotten EXCEPT ![e] = forgotten[e] + 1]
      /\ UNCHANGED <<conn, driver, mailbox>>
    BY DEF CloseInv, HandleDrained
<1>2. /\ reported' \in [CloseEnds -> Nat] /\ forgotten' \in [CloseEnds -> Nat]
      /\ \A d \in CloseEnds : reported'[d] + forgotten'[d] = reported[d] + forgotten[d]
    BY <1>1
<1> QED
    BY <1>1, <1>2 DEF CloseInv

-----------------------------------------------------------------------------
(* The invariant is kept, and its consequences *)

\* Every step of the applications, the drivers, the endpoints and the network keeps the
\* invariant.
LEMMA CloseNextInv == CloseInv /\ [CloseNext]_closeVars => CloseInv'
<1> SUFFICES ASSUME CloseInv, [CloseNext]_closeVars
             PROVE  CloseInv'
    OBVIOUS
<1>1. ASSUME NEW e \in CloseEnds, DriverPoll(e)
      PROVE  CloseInv'
    BY <1>1, PolledStep DEF DriverPoll
<1>2. ASSUME NEW e \in CloseEnds, SendData(e)
      PROVE  CloseInv'
    BY <1>2, PolledStep DEF SendData
<1>3. ASSUME NEW e \in CloseEnds, TimerExpires(e)
      PROVE  CloseInv'
    BY <1>3, PolledStep DEF TimerExpires
<1>4. ASSUME NEW e \in CloseEnds, AppClose(e) \/ HandlesDropped(e)
      PROVE  CloseInv'
    BY <1>4, ClosesStep
<1>5. ASSUME NEW e \in CloseEnds, Route(e)
      PROVE  CloseInv'
    <2>1. PICK k \in Kinds : /\ mailbox' \in {mailbox, Posted(mailbox, e, k)}
                             /\ UNCHANGED <<conn, driver, reported, forgotten>>
        BY <1>5 DEF Route
    <2>2. k \in ConnEvents
        BY DEF ConnEvents
    <2> QED
        BY <2>1, <2>2, PostedStep
<1>6. ASSUME NEW e \in CloseEnds, HandleDrained(e)
      PROVE  CloseInv'
    BY <1>6, HandleDrainedStep
<1>7. ASSUME NEW e \in CloseEnds, EndpointClose(e)
      PROVE  CloseInv'
    <2>1. mailbox' \in {mailbox, Posted(mailbox, e, "Close")} /\ UNCHANGED <<conn, driver, reported, forgotten>>
        BY <1>7 DEF EndpointClose
    <2>2. "Close" \in ConnEvents
        BY DEF ConnEvents
    <2> QED
        BY <2>1, <2>2, PostedStep
<1>8. ASSUME NEW e \in CloseEnds, Lose(e)
      PROVE  CloseInv'
    <2>1. UNCHANGED <<conn, driver, mailbox, reported, forgotten>>
        BY <1>8 DEF Lose
    <2> QED
        BY <2>1 DEF CloseInv
<1>9. CASE UNCHANGED closeVars
    BY <1>9 DEF closeVars, CloseInv
<1> QED
    BY <1>1, <1>2, <1>3, <1>4, <1>5, <1>6, <1>7, <1>8, <1>9 DEF CloseNext

\* A connection that ends, by any combination of closes, errors, resets and timers on
\* either end, is reported to its endpoint exactly once, has the close timer alone until
\* it has drained, and has told the application why (handle_packet, close_inner, kill,
\* drive_timer, forward_app_events): for any capacity of the mailbox.
THEOREM ConnectionEndsOnce == CloseSpec => []EndsOnce
<1>1. CloseInv => EndsOnce
    <2> SUFFICES ASSUME CloseInv
                 PROVE  EndsOnce
        OBVIOUS
    <2>1. DrainedOnce
        BY DEF CloseInv, DrainedOnce
    <2>2. CloseTimed
        BY DEF CloseInv, ConnOk, CloseTimed, IsClosed
    <2>3. EndIsTold
        BY DEF CloseInv, ConnOk, EndIsTold
    <2> QED
        BY <2>1, <2>2, <2>3 DEF EndsOnce
<1> QED
    BY <1>1, CloseInitInv, CloseNextInv, PTL DEF CloseSpec

-----------------------------------------------------------------------------
(* Relaying PUNCH_ME_NOW: the inductive invariant *)

Frames(p) == [n : Nat, target : {p}]

Events ==
    [type : {"Drained"}]
      \cup [type : {"RelayPunchMeNow"}, target : Peers, by : {"id", "addr"}, n : Nat]
      \cup [type : {"InitiateHolePunch"}, target : Peers]

\* A handle is in use or free, and it is free once (Slab::insert, Slab::remove).
FreeInv ==
    /\ free \in Seq(Handles)
    /\ \A i, j \in 1 .. Len(free) : free[i] = free[j] => i = j
    /\ \A i \in 1 .. Len(free) : free[i] \notin DOMAIN slab

\* The identity registered for a connection is that of the peer at its address.
SlabInv ==
    /\ DOMAIN slab \subseteq Handles
    /\ \A h \in DOMAIN slab : \E p \in Peers : \E id \in {NoPeer, p} : slab[h] = [remote |-> p, peer_id |-> id]

\* The index leads to a connection of the peer, which knows that it is indexed.
IndexInv ==
    \A p \in DOMAIN peer_connections :
        /\ peer_connections[p] \in DOMAIN slab
        /\ slab[peer_connections[p]] = [remote |-> p, peer_id |-> p]

\* The mailroom of a handle holds frames for the connection the slab has there.
MailInv ==
    /\ DOMAIN mailroom \subseteq DOMAIN slab
    /\ \A h \in DOMAIN mailroom : mailroom[h] \in Seq(Frames(slab[h].remote))

\* A task that runs is that of the connection the slab has at its handle.
TaskInv ==
    /\ DOMAIN tasks \subseteq DOMAIN mailroom
    /\ \A h \in DOMAIN tasks : tasks[h] = slab[h].remote

IsDrained(i) == queue[i].event.type = "Drained"

\* A connection is reported drained once, after its task has ended and while the
\* slab still has it.
QueueInv ==
    /\ queue \in Seq([handle : Handles, event : Events])
    /\ \A i \in 1 .. Len(queue) : IsDrained(i) => queue[i].handle \in DOMAIN slab \ DOMAIN tasks
    /\ \A i, j \in 1 .. Len(queue) :
          IsDrained(i) /\ IsDrained(j) /\ queue[i].handle = queue[j].handle => i = j

RelayInv ==
    /\ FreeInv
    /\ SlabInv
    /\ IndexInv
    /\ MailInv
    /\ TaskInv
    /\ QueueInv
    /\ requests \in Nat
    /\ RelayReachesTarget

-----------------------------------------------------------------------------
(* Lemmas about the operators *)

\* A non-empty set of natural numbers has a least element: the well-ordering of Nat.
LEMMA LeastElement ==
    ASSUME NEW S \in SUBSET Nat, S # {}
    PROVE  \E x \in S : \A y \in S : x <= y
<1> DEFINE R == {ss \in Nat \X Nat : ss[1] < ss[2]}
<1>1. IsWellFoundedOn(R, Nat)
    BY NatLessThanWellFounded DEF OpToRel
<1>2. PICK x \in S : \A y \in S : ~(<<y, x>> \in R)
    BY <1>1, WFMin
<1>3. \A y \in S : ~(y < x)
    BY <1>2
<1> QED
    BY <1>3

\* connection_handle_for_addr finds a connection with the address whenever there is one.
LEMMA FirstIsMember ==
    ASSUME NEW S \in SUBSET Handles, S # {}
    PROVE  First(S) \in S
<1>1. \E x \in S : \A y \in S : x <= y
    BY LeastElement DEF Handles
<1> QED
    BY <1>1 DEF First

\* A look-up by address gives a connection of the peer.
LEMMA HandleForAddr ==
    ASSUME SlabInv, NEW p, HandlesAt(p) # {}
    PROVE  First(HandlesAt(p)) \in DOMAIN slab /\ slab[First(HandlesAt(p))].remote = p
BY FirstIsMember DEF HandlesAt, SlabInv

\* The free list begins with every handle, once.
LEMMA InitialFreeList ==
    [i \in Handles |-> i] \in Seq(Handles) /\ Len([i \in Handles |-> i]) = MaxHandles
<1> DEFINE f == [i \in Handles |-> i]
<1>1. f \in Seq(Handles)
    BY RelayConstants, IsASeq DEF Handles
<1>2. Len(f) \in Nat /\ DOMAIN f = 1 .. Len(f)
    BY <1>1, LenProperties
<1>3. DOMAIN f = 1 .. MaxHandles /\ MaxHandles \in Nat
    BY RelayConstants DEF Handles
<1>4. Len(f) = MaxHandles
    BY <1>2, <1>3
<1> QED
    BY <1>1, <1>4

-----------------------------------------------------------------------------
(* The inductive step, an action at a time *)

\* The endpoint starts without connections.
LEMMA InitRelayInv == PunchInit => RelayInv
<1> SUFFICES ASSUME PunchInit PROVE RelayInv
    OBVIOUS
<1>1. FreeInv
    BY InitialFreeList, RelayConstants DEF PunchInit, FreeInv, Handles
<1>2. SlabInv /\ IndexInv /\ MailInv /\ TaskInv
    BY DEF PunchInit, SlabInv, IndexInv, MailInv, TaskInv
<1>3. QueueInv
    BY EmptySeq DEF PunchInit, QueueInv
<1>4. requests \in Nat /\ RelayReachesTarget
    BY DEF PunchInit, RelayReachesTarget
<1> QED
    BY <1>1, <1>2, <1>3, <1>4 DEF RelayInv

\* A handle is taken off the free list: the rest of the list stays free.
LEMMA TakeHandle ==
    ASSUME FreeInv, free # <<>>, NEW meta,
           slab' = Put(slab, Head(free), meta), free' = Tail(free)
    PROVE  /\ Head(free) \in Handles \ DOMAIN slab
           /\ DOMAIN slab' = DOMAIN slab \cup {Head(free)}
           /\ slab'[Head(free)] = meta
           /\ \A h \in DOMAIN slab : slab'[h] = slab[h]
           /\ FreeInv'
<1>1. Len(free) \in Nat /\ Len(free) > 0 /\ Head(free) = free[1] /\ free[1] \in Handles
    BY HeadTailProperties, LenProperties, EmptySeq, ElementOfSeq DEF FreeInv
<1>2. free' \in Seq(Handles) /\ Len(free') = Len(free) - 1
    BY HeadTailProperties DEF FreeInv
<1>3. \A i \in 1 .. Len(free') : free'[i] = free[i + 1]
    BY HeadTailProperties, <1>2 DEF FreeInv
<1>4. free[1] \notin DOMAIN slab
    BY <1>1 DEF FreeInv
<1>5. DOMAIN slab' = DOMAIN slab \cup {Head(free)}
    BY DEF Put
<1>6. slab'[Head(free)] = meta /\ \A h \in DOMAIN slab : slab'[h] = slab[h]
    BY <1>1, <1>4 DEF Put
<1>7. \A i, j \in 1 .. Len(free') : free'[i] = free'[j] => i = j
    <2> TAKE i, j \in 1 .. Len(free')
    <2>1. i + 1 \in 1 .. Len(free) /\ j + 1 \in 1 .. Len(free)
        BY <1>1, <1>2
    <2> QED
        BY <2>1, <1>2, <1>3 DEF FreeInv
<1>8. \A i \in 1 .. Len(free') : free'[i] \notin DOMAIN slab'
    <2> TAKE i \in 1 .. Len(free')
    <2>1. i + 1 \in 1 .. Len(free) /\ 1 \in 1 .. Len(free) /\ i + 1 # 1
        BY <1>1, <1>2
    <2>2. free[i + 1] # free[1] /\ free[i + 1] \notin DOMAIN slab
        BY <2>1 DEF FreeInv
    <2> QED
        BY <2>2, <1>1, <1>3, <1>5
<1> QED
    BY <1>1, <1>2, <1>4, <1>5, <1>6, <1>7, <1>8 DEF FreeInv

\* A new connection gets a handle that no table knows any more.
LEMMA EstablishStep ==
    ASSUME RelayInv, NEW p \in Peers, Establish(p)
    PROVE  RelayInv'
<1> DEFINE h == Head(free)
           meta == [remote |-> p, peer_id |-> NoPeer]
<1>1. /\ h \in Handles \ DOMAIN slab
      /\ DOMAIN slab' = DOMAIN slab \cup {h}
      /\ slab'[h] = meta
      /\ \A g \in DOMAIN slab : slab'[g] = slab[g]
      /\ FreeInv'
    <2>1. free # <<>> /\ slab' = Put(slab, Head(free), meta) /\ free' = Tail(free)
        BY DEF Establish
    <2> QED
        BY <2>1, TakeHandle DEF RelayInv
<1>2. SlabInv'
    BY <1>1 DEF RelayInv, SlabInv
<1>3. IndexInv'
    BY <1>1 DEF RelayInv, IndexInv, Establish
<1>4. /\ DOMAIN mailroom' = DOMAIN mailroom \cup {h}
      /\ mailroom'[h] = <<>>
      /\ \A g \in DOMAIN mailroom : g # h => mailroom'[g] = mailroom[g]
    BY DEF Establish, Put
<1>5. /\ DOMAIN tasks' = DOMAIN tasks \cup {h}
      /\ tasks'[h] = p
      /\ \A g \in DOMAIN tasks : g # h => tasks'[g] = tasks[g]
    BY DEF Establish, Put
<1>6. h \notin DOMAIN mailroom /\ h \notin DOMAIN tasks
    BY <1>1 DEF RelayInv, MailInv, TaskInv
<1>7. MailInv'
    <2>1. DOMAIN mailroom' \subseteq DOMAIN slab'
        BY <1>1, <1>4 DEF RelayInv, MailInv
    <2>2. mailroom'[h] \in Seq(Frames(slab'[h].remote))
        BY <1>4, EmptySeq
    <2>3. ASSUME NEW g \in DOMAIN mailroom
          PROVE  mailroom'[g] \in Seq(Frames(slab'[g].remote))
        BY <1>1, <1>4, <1>6 DEF RelayInv, MailInv
    <2> QED
        BY <2>1, <2>2, <2>3, <1>4 DEF MailInv, Frames
<1>8. TaskInv'
    BY <1>1, <1>4, <1>5, <1>6 DEF RelayInv, TaskInv, MailInv
<1>9. QueueInv'
    BY <1>1, <1>5 DEF RelayInv, QueueInv, IsDrained, Establish
<1>10. requests' \in Nat /\ RelayReachesTarget'
    BY DEF RelayInv, RelayReachesTarget, Establish
<1> QED
    BY <1>1, <1>2, <1>3, <1>7, <1>8, <1>9, <1>10 DEF RelayInv

\* Registration names the peer of whichever connection has the address.
LEMMA RegisterStep ==
    ASSUME RelayInv, NEW h \in Handles, Register(h)
    PROVE  RelayInv'
<1> DEFINE p == tasks[h]
           found == First(HandlesAt(p))
<1>1. h \in DOMAIN slab /\ slab[h].remote = p /\ p \in Peers
    BY DEF RelayInv, Register, TaskInv, MailInv, SlabInv
<1>2. found \in DOMAIN slab /\ slab[found].remote = p
    <2>1. HandlesAt(p) # {}
        BY <1>1 DEF HandlesAt
    <2> QED
        BY <2>1, HandleForAddr DEF RelayInv
<1>3. slab' = [slab EXCEPT ![found].peer_id = p] /\ peer_connections' = Put(peer_connections, p, found)
    BY DEF Register
<1>4. DOMAIN slab' = DOMAIN slab /\ \A g \in DOMAIN slab : g # found => slab'[g] = slab[g]
    BY <1>2, <1>3
<1>5. slab'[found] = [remote |-> p, peer_id |-> p]
    BY <1>2, <1>3 DEF RelayInv, SlabInv
<1>6. \A g \in DOMAIN slab : slab'[g].remote = slab[g].remote
    BY <1>2, <1>4, <1>5
<1>7. FreeInv'
    BY <1>4 DEF RelayInv, FreeInv, Register
<1>8. SlabInv'
    BY <1>1, <1>4, <1>5 DEF RelayInv, SlabInv
<1>9. IndexInv'
    <2>1. /\ DOMAIN peer_connections' = DOMAIN peer_connections \cup {p}
          /\ peer_connections'[p] = found
          /\ \A q \in DOMAIN peer_connections : q # p => peer_connections'[q] = peer_connections[q]
        BY <1>3 DEF Put
    <2>2. ASSUME NEW q \in DOMAIN peer_connections, q # p
          PROVE  peer_connections[q] \in DOMAIN slab /\ slab'[peer_connections[q]] = [remote |-> q, peer_id |-> q]
        <3>1. peer_connections[q] \in DOMAIN slab /\ slab[peer_connections[q]] = [remote |-> q, peer_id |-> q]
            BY <2>2 DEF RelayInv, IndexInv
        <3>2. peer_connections[q] # found
            BY <3>1, <1>2, <2>2
        <3> QED
            BY <3>1, <3>2, <1>4 DEF RelayInv, IndexInv
    <2> QED
        BY <2>1, <2>2, <1>2, <1>4, <1>5 DEF IndexInv
<1>10. MailInv'
    BY <1>4, <1>6 DEF RelayInv, MailInv, Register
<1>11. TaskInv'
    BY <1>4, <1>6 DEF RelayInv, TaskInv, MailInv, Register
<1>12. QueueInv'
    BY <1>4 DEF RelayInv, QueueInv, IsDrained, Register
<1>13. requests' \in Nat /\ RelayReachesTarget'
    BY DEF RelayInv, RelayReachesTarget, Register
<1> QED
    BY <1>7, <1>8, <1>9, <1>10, <1>11, <1>12, <1>13 DEF RelayInv

\* What appending an event to the endpoint's queue does.
LEMMA EnqueueFacts ==
    ASSUME QueueInv, NEW h \in Handles, NEW event \in Events, Enqueue(h, event)
    PROVE  /\ queue' \in Seq([handle : Handles, event : Events])
           /\ Len(queue) \in Nat /\ Len(queue') = Len(queue) + 1
           /\ \A i \in 1 .. Len(queue) : queue'[i] = queue[i]
           /\ queue'[Len(queue')] = [handle |-> h, event |-> event]
<1> DEFINE rec == [handle |-> h, event |-> event]
<1>1. queue' = Append(queue, rec) /\ rec \in [handle : Handles, event : Events]
    BY DEF Enqueue
<1> QED
    BY <1>1, AppendProperties, LenProperties DEF QueueInv

\* A task ends and reports its connection drained: it had not been reported.
LEMMA DrainStep ==
    ASSUME RelayInv, NEW h \in DOMAIN tasks, Drain(h)
    PROVE  RelayInv'
<1>1. h \in Handles /\ h \in DOMAIN slab
    BY DEF RelayInv, TaskInv, MailInv, SlabInv
<1>2. DOMAIN tasks' = DOMAIN tasks \ {h} /\ \A g \in DOMAIN tasks' : tasks'[g] = tasks[g]
    BY DEF Drain, Without
<1>3. /\ queue' \in Seq([handle : Handles, event : Events])
      /\ Len(queue) \in Nat /\ Len(queue') = Len(queue) + 1
      /\ \A i \in 1 .. Len(queue) : queue'[i] = queue[i]
      /\ queue'[Len(queue')] = [handle |-> h, event |-> [type |-> "Drained"]]
    <2>1. Enqueue(h, [type |-> "Drained"]) /\ [type |-> "Drained"] \in Events
        BY DEF Drain, Events
    <2> QED
        BY <1>1, <2>1, EnqueueFacts DEF RelayInv
<1>4. QueueInv'
    <2>1. ASSUME NEW i \in 1 .. Len(queue'), IsDrained(i)'
          PROVE  queue'[i].handle \in DOMAIN slab' \ DOMAIN tasks'
        BY <1>1, <1>2, <1>3, <2>1 DEF RelayInv, QueueInv, IsDrained, Drain
    <2>2. ASSUME NEW i \in 1 .. Len(queue), IsDrained(i)
          PROVE  queue[i].handle # h
        BY <2>2 DEF RelayInv, QueueInv
    <2>3. ASSUME NEW i \in 1 .. Len(queue'), NEW j \in 1 .. Len(queue'),
                 IsDrained(i)', IsDrained(j)', queue'[i].handle = queue'[j].handle
          PROVE  i = j
        <3>1. CASE i \in 1 .. Len(queue) /\ j \in 1 .. Len(queue)
            BY <1>3, <2>3, <3>1 DEF RelayInv, QueueInv, IsDrained
        <3>2. CASE i = Len(queue') /\ j \in 1 .. Len(queue)
            BY <1>3, <2>2, <2>3, <3>2 DEF IsDrained
        <3>3. CASE i \in 1 .. Len(queue) /\ j = Len(queue')
            BY <1>3, <2>2, <2>3, <3>3 DEF IsDrained
        <3> QED
            BY <1>3, <3>1, <3>2, <3>3
    <2> QED
        BY <1>3, <2>1, <2>3 DEF QueueInv
<1>5. FreeInv' /\ SlabInv' /\ IndexInv' /\ MailInv'
    BY DEF RelayInv, FreeInv, SlabInv, IndexInv, MailInv, Drain
<1>6. TaskInv'
    BY <1>2 DEF RelayInv, TaskInv, Drain
<1>7. requests' \in Nat /\ RelayReachesTarget'
    BY DEF RelayInv, RelayReachesTarget, Drain
<1> QED
    BY <1>4, <1>5, <1>6, <1>7 DEF RelayInv

\* A request of a connection changes nothing but the queue.
LEMMA RequestStep ==
    ASSUME RelayInv, NEW h \in DOMAIN tasks, NEW event \in Events,
           event.type # "Drained", Enqueue(h, event), requests' = requests + 1,
           UNCHANGED <<slab, free, peer_connections, mailroom, tasks, unregistered, relayed, connects>>
    PROVE  RelayInv'
<1>1. h \in Handles
    BY DEF RelayInv, TaskInv, MailInv, SlabInv
<1>2. /\ queue' \in Seq([handle : Handles, event : Events])
      /\ Len(queue) \in Nat /\ Len(queue') = Len(queue) + 1
      /\ \A i \in 1 .. Len(queue) : queue'[i] = queue[i]
      /\ queue'[Len(queue')] = [handle |-> h, event |-> event]
    BY <1>1, EnqueueFacts DEF RelayInv
<1>3. \A i \in 1 .. Len(queue') : IsDrained(i)' => i \in 1 .. Len(queue) /\ IsDrained(i)
    BY <1>2 DEF IsDrained
<1>4. QueueInv'
    BY <1>2, <1>3 DEF RelayInv, QueueInv
<1>5. FreeInv' /\ SlabInv' /\ IndexInv' /\ MailInv' /\ TaskInv'
    BY DEF RelayInv, FreeInv, SlabInv, IndexInv, MailInv, TaskInv
<1>6. requests' \in Nat /\ RelayReachesTarget'
    BY DEF RelayInv, RelayReachesTarget
<1> QED
    BY <1>4, <1>5, <1>6 DEF RelayInv

\* The task transmits a frame from the mailroom of its handle, and the frame is for
\* the peer of the connection.
LEMMA TakeEventStep ==
    ASSUME RelayInv, NEW h \in DOMAIN tasks, TakeEvent(h)
    PROVE  RelayInv'
<1>1. h \in DOMAIN mailroom /\ mailroom[h] \in Seq(Frames(slab[h].remote)) /\ tasks[h] = slab[h].remote
    BY DEF RelayInv, TaskInv, MailInv
<1>2. Head(mailroom[h]) \in Frames(slab[h].remote) /\ Tail(mailroom[h]) \in Seq(Frames(slab[h].remote))
    BY <1>1, HeadTailProperties, EmptySeq DEF TakeEvent
<1>3. RelayReachesTarget'
    BY <1>1, <1>2 DEF RelayInv, RelayReachesTarget, TakeEvent, Frames
<1>4. MailInv'
    <2>1. /\ DOMAIN mailroom' = DOMAIN mailroom
          /\ mailroom'[h] = Tail(mailroom[h])
          /\ \A g \in DOMAIN mailroom : g # h => mailroom'[g] = mailroom[g]
        BY <1>1 DEF TakeEvent
    <2> QED
        BY <1>1, <1>2, <2>1 DEF RelayInv, MailInv, TakeEvent
<1>5. FreeInv' /\ SlabInv' /\ IndexInv' /\ requests' \in Nat
    BY DEF RelayInv, FreeInv, SlabInv, IndexInv, TakeEvent
<1>7. QueueInv'
    BY DEF RelayInv, QueueInv, IsDrained, TakeEvent
<1>6. TaskInv'
    BY <1>1 DEF RelayInv, TaskInv, MailInv, TakeEvent
<1> QED
    BY <1>3, <1>4, <1>5, <1>6, <1>7 DEF RelayInv

\* Taking the head off the queue: the events that wait keep what was true of them.
LEMMA TakenFromQueue ==
    ASSUME QueueInv, queue # <<>>, queue' = Tail(queue)
    PROVE  /\ Len(queue) \in Nat /\ Len(queue) > 0 /\ Len(queue') = Len(queue) - 1
           /\ queue' \in Seq([handle : Handles, event : Events])
           /\ \A i \in 1 .. Len(queue') : i + 1 \in 2 .. Len(queue) /\ queue'[i] = queue[i + 1]
           /\ Head(queue) = queue[1] /\ Head(queue) \in [handle : Handles, event : Events]
<1> DEFINE S == [handle : Handles, event : Events]
<1>1. queue \in Seq(S)
    BY DEF QueueInv
<1> HIDE DEF S
<1>2. /\ Len(queue) \in Nat /\ Len(queue) > 0
      /\ Head(queue) = queue[1] /\ Head(queue) \in S
      /\ queue' \in Seq(S) /\ Len(queue') = Len(queue) - 1
    BY <1>1, HeadTailProperties, LenProperties, EmptySeq, ElementOfSeq
<1>3. \A i \in 1 .. Len(queue') : i + 1 \in 2 .. Len(queue) /\ queue'[i] = queue[i + 1]
    BY <1>1, <1>2, HeadTailProperties
<1> QED
    BY <1>2, <1>3 DEF S

\* The rest of the queue is in order as long as the slab keeps the drained
\* connections it names.
LEMMA RestOfQueue ==
    ASSUME QueueInv, queue # <<>>, queue' = Tail(queue), tasks' = tasks,
           \A i \in 2 .. Len(queue) : IsDrained(i) => queue[i].handle \in DOMAIN slab'
    PROVE  QueueInv'
<1>1. /\ Len(queue) \in Nat /\ Len(queue) > 0 /\ Len(queue') = Len(queue) - 1
      /\ queue' \in Seq([handle : Handles, event : Events])
      /\ \A i \in 1 .. Len(queue') : i + 1 \in 2 .. Len(queue) /\ queue'[i] = queue[i + 1]
    BY TakenFromQueue
<1>2. \A i \in 1 .. Len(queue') : IsDrained(i)' => IsDrained(i + 1)
    BY <1>1 DEF IsDrained
<1>3. \A i \in 1 .. Len(queue') : IsDrained(i)' => queue'[i].handle \in DOMAIN slab' \ DOMAIN tasks'
    BY <1>1, <1>2 DEF QueueInv
<1>4. \A i, j \in 1 .. Len(queue') :
         IsDrained(i)' /\ IsDrained(j)' /\ queue'[i].handle = queue'[j].handle => i = j
    <2> TAKE i, j \in 1 .. Len(queue')
    <2> HAVE IsDrained(i)' /\ IsDrained(j)' /\ queue'[i].handle = queue'[j].handle
    <2>1. i + 1 \in 1 .. Len(queue) /\ j + 1 \in 1 .. Len(queue)
        BY <1>1
    <2>2. i + 1 = j + 1
        BY <1>1, <1>2, <2>1 DEF QueueInv
    <2> QED
        BY <2>2, <1>1
<1> QED
    BY <1>1, <1>3, <1>4 DEF QueueInv

\* Drained: slab, mailroom and index let go of the handle together, and nothing that
\* is left names it.
LEMMA DrainedStep ==
    ASSUME RelayInv, queue # <<>>, queue' = Tail(queue),
           IsDrained(1), ReleaseDrained(queue[1].handle)
    PROVE  RelayInv'
<1> DEFINE h == queue[1].handle
<1>1. /\ Len(queue) \in Nat /\ Len(queue) > 0
      /\ h \in DOMAIN slab /\ h \notin DOMAIN tasks /\ h \in Handles
    BY TakenFromQueue DEF RelayInv, QueueInv, SlabInv
<1>2. DOMAIN slab' = DOMAIN slab \ {h} /\ \A g \in DOMAIN slab' : slab'[g] = slab[g]
    BY DEF ReleaseDrained, Removed
<1>3. QueueInv'
    <2>1. \A i \in 2 .. Len(queue) : IsDrained(i) => queue[i].handle \in DOMAIN slab'
        BY <1>1, <1>2 DEF RelayInv, QueueInv
    <2>2. tasks' = tasks
        BY DEF ReleaseDrained
    <2> QED
        BY <2>1, <2>2, RestOfQueue DEF RelayInv
<1>4. FreeInv'
    <2>1. free' = <<h>> \o free /\ free \in Seq(Handles) /\ <<h>> \in Seq(Handles)
        BY <1>1 DEF RelayInv, FreeInv, ReleaseDrained, Removed
    <2>2. /\ free' \in Seq(Handles)
          /\ Len(free) \in Nat /\ Len(free') = Len(free) + 1
          /\ free'[1] = h
          /\ \A i \in 1 .. Len(free') : i # 1 => i - 1 \in 1 .. Len(free) /\ free'[i] = free[i - 1]
        BY <2>1, ConcatProperties, LenProperties
    <2>3. \A i \in 1 .. Len(free) : free[i] # h
        BY <1>1 DEF RelayInv, FreeInv
    <2>4. \A i, j \in 1 .. Len(free') : free'[i] = free'[j] => i = j
        <3> TAKE i, j \in 1 .. Len(free')
        <3>1. CASE i = 1 \/ j = 1
            BY <2>2, <2>3, <3>1
        <3>2. CASE i # 1 /\ j # 1
            BY <2>2, <3>2 DEF RelayInv, FreeInv
        <3> QED
            BY <3>1, <3>2
    <2>5. \A i \in 1 .. Len(free') : free'[i] \notin DOMAIN slab'
        BY <1>2, <2>2 DEF RelayInv, FreeInv
    <2> QED
        BY <2>2, <2>4, <2>5 DEF FreeInv
<1>5. SlabInv'
    BY <1>2 DEF RelayInv, SlabInv
<1>6. IndexInv'
    <2> SUFFICES ASSUME NEW p \in DOMAIN peer_connections'
                 PROVE  /\ peer_connections'[p] \in DOMAIN slab'
                        /\ slab'[peer_connections'[p]] = [remote |-> p, peer_id |-> p]
        BY DEF IndexInv
    <2>1. peer_connections' = IF slab[h].peer_id # NoPeer THEN Without(peer_connections, slab[h].peer_id)
                                                           ELSE peer_connections
        BY DEF ReleaseDrained, PeersAfter
    <2>2. p \in DOMAIN peer_connections /\ peer_connections'[p] = peer_connections[p]
        BY <2>1 DEF Without
    <2>3. peer_connections[p] \in DOMAIN slab /\ slab[peer_connections[p]] = [remote |-> p, peer_id |-> p]
        BY <2>2 DEF RelayInv, IndexInv
    <2>4. p # NoPeer
        <3>1. p \in Peers
            BY <2>3 DEF RelayInv, SlabInv
        <3> QED
            BY <3>1, RelayConstants
    <2>5. peer_connections[p] # h
        <3> SUFFICES ASSUME peer_connections[p] = h PROVE FALSE
            OBVIOUS
        <3>1. slab[h].peer_id = p
            BY <2>3
        <3> QED
            BY <3>1, <2>1, <2>4 DEF Without
    <2> QED
        BY <1>2, <2>2, <2>3, <2>5
<1>7. DOMAIN mailroom' = DOMAIN mailroom \ {h} /\ \A g \in DOMAIN mailroom' : mailroom'[g] = mailroom[g]
    BY DEF ReleaseDrained, Without
<1>8. MailInv'
    BY <1>2, <1>7 DEF RelayInv, MailInv
<1>9. TaskInv'
    BY <1>1, <1>2, <1>7 DEF RelayInv, TaskInv, MailInv, ReleaseDrained
<1>10. requests' \in Nat /\ RelayReachesTarget'
    BY DEF RelayInv, RelayReachesTarget, ReleaseDrained
<1> QED
    BY <1>3, <1>4, <1>5, <1>6, <1>8, <1>9, <1>10 DEF RelayInv

\* Whichever way a target is looked up, the connection found is one of the target.
LEMMA FoundIsTarget ==
    ASSUME SlabInv, IndexInv, NEW e, NEW h \in Found(e)
    PROVE  h \in DOMAIN slab /\ slab[h].remote = e.target
<1>1. CASE e.by = "id"
    <2>1. e.target \in DOMAIN peer_connections /\ h = peer_connections[e.target]
        BY <1>1 DEF Found
    <2>2. h \in DOMAIN slab /\ slab[h] = [remote |-> e.target, peer_id |-> e.target]
        BY <2>1 DEF IndexInv
    <2> QED
        BY <2>2
<1>2. CASE e.by # "id"
    <2>1. HandlesAt(e.target) # {} /\ h = First(HandlesAt(e.target))
        BY <1>2 DEF Found
    <2> QED
        BY <2>1, HandleForAddr
<1> QED
    BY <1>1, <1>2

\* RelayPunchMeNow: the frame goes into a mailroom of the target's, or nowhere.
LEMMA HandleRelayStep ==
    ASSUME RelayInv, queue # <<>>, queue' = Tail(queue),
           queue[1].event.type = "RelayPunchMeNow", HandleRelay(queue[1].event)
    PROVE  RelayInv'
<1> DEFINE e == queue[1].event
           frame == [n |-> e.n, target |-> e.target]
<1>1. e \in Events /\ e.target \in Peers /\ e.n \in Nat
    <2>1. e \in Events
        BY TakenFromQueue DEF RelayInv
    <2> QED
        BY <2>1 DEF Events
<1>2. UNCHANGED <<slab, free, peer_connections, tasks, relayed, requests>>
    BY DEF HandleRelay
<1>3. MailInv'
    <2>1. CASE mailroom' = mailroom
        BY <2>1, <1>2 DEF RelayInv, MailInv
    <2>2. ASSUME NEW h \in Found(e), ForwardFrame(h, frame), mailroom' # mailroom
          PROVE  MailInv'
        <3>1. h \in DOMAIN mailroom /\ mailroom' = [mailroom EXCEPT ![h] = Append(mailroom[h], frame)]
            BY <2>2 DEF ForwardFrame
        <3>2. slab[h].remote = e.target
            BY FoundIsTarget DEF RelayInv
        <3>3. frame \in Frames(slab[h].remote)
            BY <1>1, <3>2 DEF Frames
        <3>4. Append(mailroom[h], frame) \in Seq(Frames(slab[h].remote))
            BY <3>1, <3>3, AppendProperties DEF RelayInv, MailInv
        <3> QED
            BY <3>1, <3>4, <1>2 DEF RelayInv, MailInv
    <2> QED
        BY <2>1, <2>2 DEF HandleRelay
<1>4. DOMAIN mailroom' = DOMAIN mailroom
    BY DEF HandleRelay, ForwardFrame
<1>5. QueueInv'
    <2>1. \A i \in 2 .. Len(queue) : IsDrained(i) => queue[i].handle \in DOMAIN slab'
        BY <1>2, TakenFromQueue DEF RelayInv, QueueInv
    <2> QED
        BY <2>1, <1>2, RestOfQueue DEF RelayInv
<1>6. FreeInv' /\ SlabInv' /\ IndexInv' /\ requests' \in Nat /\ RelayReachesTarget'
    BY <1>2 DEF RelayInv, FreeInv, SlabInv, IndexInv, RelayReachesTarget
<1>7. TaskInv'
    BY <1>2, <1>4 DEF RelayInv, TaskInv
<1> QED
    BY <1>3, <1>5, <1>6, <1>7 DEF RelayInv

\* InitiateHolePunch: at most a connection without task and mailroom comes to be.
LEMMA HandlePunchStep ==
    ASSUME RelayInv, queue # <<>>, queue' = Tail(queue),
           queue[1].event.type = "InitiateHolePunch", HandlePunch(queue[1].event)
    PROVE  RelayInv'
<1> DEFINE e == queue[1].event
           meta == [remote |-> e.target, peer_id |-> NoPeer]
<1>1. e \in Events /\ e.target \in Peers
    <2>1. e \in Events
        BY TakenFromQueue DEF RelayInv
    <2> QED
        BY <2>1 DEF Events
<1>2. UNCHANGED <<peer_connections, mailroom, tasks, relayed, requests>>
    BY DEF HandlePunch
<1>3. /\ FreeInv'
      /\ SlabInv'
      /\ DOMAIN slab \subseteq DOMAIN slab'
      /\ \A g \in DOMAIN slab : slab'[g] = slab[g]
    <2>1. CASE UNCHANGED <<slab, free>>
        BY <2>1 DEF RelayInv, FreeInv, SlabInv
    <2>2. CASE free # <<>> /\ slab' = Put(slab, Head(free), meta) /\ free' = Tail(free)
        <3>1. /\ Head(free) \in Handles \ DOMAIN slab
              /\ DOMAIN slab' = DOMAIN slab \cup {Head(free)}
              /\ slab'[Head(free)] = meta
              /\ \A g \in DOMAIN slab : slab'[g] = slab[g]
              /\ FreeInv'
            BY <2>2, TakeHandle DEF RelayInv
        <3> QED
            BY <1>1, <3>1 DEF RelayInv, SlabInv
    <2> QED
        BY <2>1, <2>2 DEF HandlePunch
<1>4. QueueInv'
    <2>1. \A i \in 2 .. Len(queue) : IsDrained(i) => queue[i].handle \in DOMAIN slab'
        BY <1>3, TakenFromQueue DEF RelayInv, QueueInv
    <2> QED
        BY <2>1, <1>2, RestOfQueue DEF RelayInv
<1>5. IndexInv' /\ MailInv'
    BY <1>2, <1>3 DEF RelayInv, IndexInv, MailInv
<1>6. TaskInv'
    BY <1>2, <1>3 DEF RelayInv, TaskInv, MailInv
<1>7. requests' \in Nat /\ RelayReachesTarget'
    BY <1>2 DEF RelayInv, RelayReachesTarget
<1> QED
    BY <1>3, <1>4, <1>5, <1>6, <1>7 DEF RelayInv

-----------------------------------------------------------------------------
(* The theorem *)

\* Every step of the endpoint, its driver and the connections' tasks keeps RelayInv.
LEMMA NextRelayInv == RelayInv /\ [PunchNext]_punchVars => RelayInv'
<1> SUFFICES ASSUME RelayInv, [PunchNext]_punchVars PROVE RelayInv'
    OBVIOUS
<1>1. CASE \E p \in Peers : Establish(p)
    BY <1>1, EstablishStep
<1>2. CASE \E h \in Handles : Register(h)
    BY <1>2, RegisterStep
<1>3. ASSUME NEW h \in DOMAIN tasks, Drain(h) PROVE RelayInv'
    BY <1>3, DrainStep
<1>4. ASSUME NEW h \in DOMAIN tasks, TakeEvent(h) PROVE RelayInv'
    BY <1>4, TakeEventStep
<1>5. ASSUME NEW h \in DOMAIN tasks, NEW p \in Peers, RequestPunch(h, p) PROVE RelayInv'
    <2> DEFINE event == [type |-> "InitiateHolePunch", target |-> p]
    <2>1. event \in Events /\ event.type # "Drained"
        BY DEF Events
    <2> QED
        BY <1>5, <2>1, RequestStep DEF RequestPunch
<1>6. ASSUME NEW h \in DOMAIN tasks, NEW p \in Peers, NEW by \in {"id", "addr"}, RequestRelay(h, p, by)
      PROVE  RelayInv'
    <2> DEFINE event == [type |-> "RelayPunchMeNow", target |-> p, by |-> by, n |-> requests]
    <2>1. event \in Events /\ event.type # "Drained"
        BY DEF Events, RelayInv
    <2> QED
        BY <1>6, <2>1, RequestStep DEF RequestRelay
<1>7. CASE HandleEvent
    <2>1. queue # <<>> /\ queue' = Tail(queue) /\ Head(queue) = queue[1]
        BY <1>7, TakenFromQueue DEF HandleEvent, RelayInv
    <2>2. CASE queue[1].event.type = "Drained" /\ ReleaseDrained(queue[1].handle)
        BY <2>1, <2>2, DrainedStep DEF IsDrained
    <2>3. CASE queue[1].event.type = "RelayPunchMeNow" /\ HandleRelay(queue[1].event)
        BY <2>1, <2>3, HandleRelayStep
    <2>4. CASE queue[1].event.type = "InitiateHolePunch" /\ HandlePunch(queue[1].event)
        BY <2>1, <2>4, HandlePunchStep
    <2> QED
        BY <1>7, <2>1, <2>2, <2>3, <2>4 DEF HandleEvent
<1>8. CASE UNCHANGED punchVars
    BY <1>8 DEF punchVars, RelayInv, FreeInv, SlabInv, IndexInv, MailInv, TaskInv, QueueInv, IsDrained,
                RelayReachesTarget
<1> QED
    BY <1>1, <1>2, <1>3, <1>4, <1>5, <1>6, <1>7, <1>8 DEF PunchNext

\* A relayed PUNCH_ME_NOW goes to the peer it is meant for (Endpoint::handle_event,
\* lookup_peer_connection, State::handle_events): the tables that know a handle agree
\* on whose connection it is whenever one of them is used, although they let go of it
\* at different times and it is given to another peer afterwards.
THEOREM RelayCorrect == PunchSpec => []RelayReachesTarget
<1>1. RelayInv => RelayReachesTarget
    BY DEF RelayInv
<1> QED
    BY InitRelayInv, NextRelayInv, <1>1, PTL DEF PunchSpec

\* The tables of the endpoint agree on every handle: what the slab, the peer index, the
\* mailrooms, the tasks and the queued Drained events say of it (the invariant behind
\* RelayCorrect; src/endpoint.rs, Endpoint::connections and peer_connections).
THEOREM TablesAgree == PunchSpec => [](SlabInv /\ IndexInv /\ MailInv /\ TaskInv /\ QueueInv)
<1>1. RelayInv => SlabInv /\ IndexInv /\ MailInv /\ TaskInv /\ QueueInv
    BY DEF RelayInv
<1> QED
    BY InitRelayInv, NextRelayInv, <1>1, PTL DEF PunchSpec

-----------------------------------------------------------------------------
(* Peers: the inductive invariant *)

DialPcs == {"absent", "idle", "reused", "handshake", "established", "failed", "yielded", "added",
            "spawn", "handle", "register", "announce", "done"}
AcceptPcs == {"idle", "spawn", "handle", "register", "announce"}
CleanerPcs == {"idle", "stale", "peers", "handles", "event"}
Slots == Dials \cup {0}
PeerEvents == {"none", "PeerConnected", "PeerDisconnected"}

DialsTyped == dialer \in [Dials -> [pc : DialPcs, by : Nodes, how : {"connect", "fallback"}, reads : Slots]]
TablesTyped ==
    /\ closed \in [Nodes -> SUBSET Dials] /\ established \in [Nodes -> SUBSET Dials]
    /\ conns \in [Nodes -> Slots] /\ emitted \in [Nodes -> BOOLEAN] /\ lost \in [Nodes -> Nat]
    /\ peers \in [Nodes -> BOOLEAN] /\ told \in [Nodes -> BOOLEAN] /\ last_event \in [Nodes -> PeerEvents]
ReadersTyped ==
    readers \in [Nodes -> SUBSET Slots] /\ handle \in [Nodes -> Slots] /\ exits \in [Nodes -> Seq(Slots)]
TasksTyped ==
    /\ inbox \in [Nodes -> Seq(Slots)]
    /\ acceptor \in [Nodes -> [pc : AcceptPcs, conn : Slots]]
    /\ cleaner \in [Nodes -> [Cleaners -> [pc : CleanerPcs, expected : Slots, removed : BOOLEAN]]]
    /\ allowance \in [cuts : Nat, disconnects : Nat] /\ acting \subseteq Nodes
PeersTyped == DialsTyped /\ TablesTyped /\ ReadersTyped /\ TasksTyped

\* A connection is established when its dial has left the handshake.
DialsEstablished ==
    \A n \in Nodes, d \in Dials :
      d \in established[n] => dialer[d].pc \notin {"absent", "idle", "reused", "handshake"}

\* A reader has its handle, or the task that spawned it is about to store it.
ReadersOwned ==
    \A n \in Nodes, c \in Slots :
      c \in readers[n] =>
        \/ handle[n] = c
        \/ acceptor[n].pc = "handle" /\ acceptor[n].conn = c
        \/ \E d \in Dials : dialer[d].pc = "handle" /\ dialer[d].by = n /\ dialer[d].reads = c

\* Nothing but the dial d has happened, and nothing was closed.
Alone(d) ==
    /\ \A e \in Dials \ {d} : dialer[e].pc \in {"absent", "idle", "reused"}
    /\ closed[NodeA] = {} /\ closed[NodeB] = {}

\* What a node knows is then about the connection d, and nothing cleans up.
NodeAlone(d, n) ==
    /\ exits[n] = <<>> /\ \A k \in Cleaners : cleaner[n][k].pc = "idle"
    /\ conns[n] \in {0, d} /\ handle[n] \in {0, d}
    /\ \A i \in DOMAIN inbox[n] : inbox[n][i] = d
    /\ emitted[n] \/ peers[n] \/ told[n] => conns[n] = d
    /\ lost[n] > 0 \/ inbox[n] # <<>> \/ acceptor[n].pc # "idle" => conns[n] = d
    /\ acceptor[n].pc # "idle" => acceptor[n].conn = d
    /\ acceptor[n].pc \in {"handle", "register", "announce"} => d \in readers[n]
    /\ acceptor[n].pc = "announce" => peers[n]
    /\ told[n] => last_event[n] = "PeerConnected"

\* How far the dial has come at the node that dials.
DialAlone(d, n) ==
    /\ dialer[d].pc \in {"added", "spawn", "handle", "register", "announce", "done"} => conns[n] = d
    /\ dialer[d].pc \in {"spawn", "handle"} => dialer[d].reads = d
    /\ dialer[d].pc \in {"handle", "register", "announce", "done"} => d \in readers[n]
    /\ dialer[d].pc \in {"announce", "done"} => peers[n]
    /\ dialer[d].pc = "done" => told[n]

\* How far the connection has come at the node that accepts.
AcceptAlone(d, n) ==
    /\ d \notin established[n] => conns[n] = 0
    /\ d \in established[n] =>
         /\ conns[n] = d
         /\ inbox[n] # <<>> \/ acceptor[n].pc # "idle" \/ (peers[n] /\ told[n] /\ d \in readers[n])

AloneOk(d) ==
    /\ \A n \in acting : NodeAlone(d, n)
    /\ dialer[d].by \in acting => DialAlone(d, dialer[d].by)
    /\ Other(dialer[d].by) \in acting => AcceptAlone(d, Other(dialer[d].by))
    /\ dialer[d].pc \in {"established", "added", "spawn", "handle", "register", "announce", "done"}
         => d \in established[dialer[d].by]

PeersInv ==
    /\ PeersTyped
    /\ DialsEstablished
    /\ ReadersOwned
    /\ \A d \in Dials : Alone(d) => AloneOk(d)

-----------------------------------------------------------------------------
(* Peers: types *)

USE DEF DialPcs, AcceptPcs, CleanerPcs

\* What a sequence of connections is when one is put at its end or taken from its front.
LEMMA QueueTyped ==
    ASSUME NEW q \in Seq(Slots), NEW c \in Slots
    PROVE  Append(q, c) \in Seq(Slots) /\ (q # <<>> => Head(q) \in Slots /\ Tail(q) \in Seq(Slots))
OBVIOUS

\* The steps of a dial
LEMMA DialTyped ==
    ASSUME PeersTyped, NEW d \in Dials,
           \/ DialStarts(d) \/ ForeignDial(d) \/ Handshake(d) \/ TieLost(d) \/ AddConnection(d)
           \/ SpawnHandler(d) \/ DialGoesOn(d),
           UNCHANGED acting
    PROVE  PeersTyped'
<1> DEFINE n == dialer[d].by
<1>1. n \in Nodes /\ d \in Slots /\ 0 \in Slots
    BY DEF PeersTyped, DialsTyped, Slots
<1>2. ASSUME NEW pc \in DialPcs, Goes(d, pc)
      PROVE  DialsTyped'
    BY <1>2 DEF PeersTyped, DialsTyped, Goes
<1>3. CASE DialStarts(d)
    <2>1. DialsTyped'
        BY <1>2, <1>3 DEF DialStarts
    <2>2. TablesTyped'
        BY <1>1, <1>3 DEF DialStarts, PeersTyped, TablesTyped, Reaped, quicState, eventState
    <2>3. ReadersTyped' /\ TasksTyped'
        BY <1>3 DEF DialStarts, PeersTyped, ReadersTyped, TasksTyped, readerState
    <2> QED
        BY <2>1, <2>2, <2>3 DEF PeersTyped
<1>4. CASE ForeignDial(d) \/ Handshake(d) \/ TieLost(d)
    <2>1. DialsTyped'
        BY <1>2, <1>4 DEF ForeignDial, Handshake, TieLost
    <2>2. TablesTyped'
        BY <1>1, <1>4 DEF ForeignDial, Handshake, TieLost, PeersTyped, TablesTyped, natState, eventState
    <2>3. ReadersTyped' /\ TasksTyped'
        BY <1>4 DEF ForeignDial, Handshake, TieLost, PeersTyped, ReadersTyped, TasksTyped, readerState
    <2> QED
        BY <2>1, <2>2, <2>3 DEF PeersTyped
<1>5. CASE AddConnection(d)
    <2>1. DialsTyped'
        BY <1>2, <1>5 DEF AddConnection
    <2>2. TablesTyped'
        BY <1>1, <1>5 DEF AddConnection, PeersTyped, TablesTyped, quicState, eventState
    <2>3. ReadersTyped' /\ TasksTyped'
        BY <1>5 DEF AddConnection, PeersTyped, ReadersTyped, TasksTyped, readerState
    <2> QED
        BY <2>1, <2>2, <2>3 DEF PeersTyped
<1>6. CASE SpawnHandler(d)
    <2>1. DialsTyped'
        <3>1. conns[n] \in Slots
            BY <1>1 DEF PeersTyped, TablesTyped
        <3>2. PICK pc \in DialPcs : dialer' = [dialer EXCEPT ![d].pc = pc, ![d].reads = conns[n]]
            BY <1>6 DEF SpawnHandler
        <3> DEFINE v == [dialer[d] EXCEPT !.pc = pc, !.reads = conns[n]]
        <3>3. v \in [pc : DialPcs, by : Nodes, how : {"connect", "fallback"}, reads : Slots]
            <4>1. dialer[d] \in [pc : DialPcs, by : Nodes, how : {"connect", "fallback"}, reads : Slots]
                BY DEF PeersTyped, DialsTyped
            <4> HIDE DEF n
            <4> QED
                BY <3>1, <4>1
        <3>4. dialer' = [dialer EXCEPT ![d] = v]
            BY <3>2 DEF PeersTyped, DialsTyped
        <3> HIDE DEF v
        <3> QED
            BY <3>3, <3>4 DEF PeersTyped, DialsTyped
    <2>2. TablesTyped'
        BY <1>1, <1>6 DEF SpawnHandler, PeersTyped, TablesTyped, quicState, eventState
    <2>3. ReadersTyped' /\ TasksTyped'
        BY <1>6 DEF SpawnHandler, PeersTyped, ReadersTyped, TasksTyped, readerState
    <2> QED
        BY <2>1, <2>2, <2>3 DEF PeersTyped
<1>7. CASE DialGoesOn(d)
    <2>1. DialsTyped'
        BY <1>2, <1>7 DEF DialGoesOn
    <2>2. TablesTyped'
        BY <1>1, <1>7 DEF DialGoesOn, PeersTyped, TablesTyped, quicState, natState, eventState, Broadcast, PeerEvents
    <2>3. dialer[d].reads \in Slots
        BY DEF PeersTyped, DialsTyped
    <2>4. ReadersTyped'
        BY <1>1, <1>7, <2>3, ZenonT(60) DEF DialGoesOn, PeersTyped, ReadersTyped, readerState, Spawned, Handled
    <2>5. TasksTyped'
        BY <1>7 DEF DialGoesOn, PeersTyped, TasksTyped
    <2> QED
        BY <2>1, <2>2, <2>4, <2>5 DEF PeersTyped
<1> QED
    BY <1>3, <1>4, <1>5, <1>6, <1>7

\* The steps of the accept loop and of accept()
LEMMA AcceptTyped ==
    ASSUME PeersTyped, UNCHANGED acting,
           (\E d \in Dials : AcceptLoop(d)) \/ (\E n \in acting : Forward(n) \/ Accept(n))
    PROVE  PeersTyped'
<1>1. ASSUME NEW d \in Dials, AcceptLoop(d)
      PROVE  PeersTyped'
    <2> DEFINE n == Other(dialer[d].by)
    <2>1. n \in Nodes /\ d \in Slots
        BY DEF Slots, Other, Nodes
    <2>2. TablesTyped'
        BY <1>1, <2>1, ZenonT(60) DEF AcceptLoop, PeersTyped, TablesTyped, eventState
    <2>3. inbox' \in [Nodes -> Seq(Slots)]
        <3>1. inbox' = inbox \/ inbox' = [inbox EXCEPT ![n] = Append(inbox[n], d)]
            BY <1>1 DEF AcceptLoop, PeersTyped, TasksTyped
        <3> HIDE DEF n
        <3>2. Append(inbox[n], d) \in Seq(Slots)
            BY <2>1, QueueTyped DEF PeersTyped, TasksTyped
        <3> QED
            BY <3>1, <3>2 DEF PeersTyped, TasksTyped
    <2>4. DialsTyped' /\ ReadersTyped' /\ TasksTyped'
        BY <1>1, <2>3 DEF AcceptLoop, PeersTyped, DialsTyped, ReadersTyped, TasksTyped, readerState
    <2> QED
        BY <2>2, <2>4 DEF PeersTyped
<1>2. ASSUME NEW n \in acting, Forward(n)
      PROVE  PeersTyped'
    <2>1. n \in Nodes /\ conns[n] \in Slots
        BY DEF PeersTyped, TasksTyped, TablesTyped
    <2>2. TablesTyped'
        BY <1>2, <2>1 DEF Forward, PeersTyped, TablesTyped, quicState, eventState
    <2>3. inbox' \in [Nodes -> Seq(Slots)]
        BY <1>2, <2>1, QueueTyped DEF Forward, PeersTyped, TasksTyped
    <2>4. DialsTyped' /\ ReadersTyped' /\ TasksTyped'
        BY <1>2, <2>3 DEF Forward, PeersTyped, DialsTyped, ReadersTyped, TasksTyped, readerState
    <2> QED
        BY <2>2, <2>4 DEF PeersTyped
<1>3. ASSUME NEW n \in acting, Accept(n)
      PROVE  PeersTyped'
    <2>1. n \in Nodes /\ acceptor[n].conn \in Slots /\ inbox[n] \in Seq(Slots)
        BY DEF PeersTyped, TasksTyped
    <2>2. TablesTyped'
        <3>1. /\ emitted' = emitted \/ emitted' = [emitted EXCEPT ![n] = TRUE]
              /\ peers' = peers \/ peers' = [peers EXCEPT ![n] = TRUE]
              /\ told' = told \/ told' = [told EXCEPT ![n] = TRUE]
            BY <1>3 DEF Accept, Broadcast, eventState
        <3>2. /\ \E k \in {lost[n], lost[n] + 1} : lost' = lost \/ lost' = [lost EXCEPT ![n] = k]
              /\ \E k \in {last_event[n], "PeerConnected"} :
                    last_event' = last_event \/ last_event' = [last_event EXCEPT ![n] = k]
            BY <1>3 DEF Accept, Broadcast, eventState
        <3>3. lost[n] \in Nat /\ lost[n] + 1 \in Nat /\ last_event[n] \in PeerEvents /\ "PeerConnected" \in PeerEvents
            BY <2>1 DEF PeersTyped, TablesTyped, PeerEvents
        <3>4. lost' \in [Nodes -> Nat] /\ last_event' \in [Nodes -> PeerEvents]
            <4>1. PICK k \in {lost[n], lost[n] + 1} : lost' = lost \/ lost' = [lost EXCEPT ![n] = k]
                BY <3>2
            <4>2. PICK e \in {last_event[n], "PeerConnected"} : last_event' = last_event \/ last_event' = [last_event EXCEPT ![n] = e]
                BY <3>2
            <4>3. k \in Nat /\ e \in PeerEvents
                BY <3>3
            <4>4. lost' \in [Nodes -> Nat]
                BY <4>1, <4>3 DEF PeersTyped, TablesTyped
            <4>5. last_event' \in [Nodes -> PeerEvents]
                BY <4>2, <4>3 DEF PeersTyped, TablesTyped
            <4> QED
                BY <4>4, <4>5
        <3>5. UNCHANGED <<closed, established, conns>>
            BY <1>3 DEF Accept, quicState
        <3> QED
            BY <2>1, <3>1, <3>4, <3>5 DEF PeersTyped, TablesTyped
    <2>3. inbox[n] # <<>> => Head(inbox[n]) \in Slots /\ Tail(inbox[n]) \in Seq(Slots)
        BY <2>1
    <2>4. inbox' \in [Nodes -> Seq(Slots)]
        <3>1. inbox' = inbox \/ (inbox[n] # <<>> /\ inbox' = [inbox EXCEPT ![n] = Tail(inbox[n])])
            BY <1>3 DEF Accept
        <3> QED
            BY <2>1, <2>3, <3>1 DEF PeersTyped, TasksTyped
    <2>5. acceptor' \in [Nodes -> [pc : AcceptPcs, conn : Slots]]
        <3>1. acceptor \in [Nodes -> [pc : AcceptPcs, conn : Slots]]
            BY DEF PeersTyped, TasksTyped
        <3>2. \/ inbox[n] # <<>> /\ acceptor' = [acceptor EXCEPT ![n] = [pc |-> "spawn", conn |-> Head(inbox[n])]]
              \/ \E pc \in AcceptPcs : acceptor' = [acceptor EXCEPT ![n].pc = pc]
            BY <1>3 DEF Accept
        <3> QED
            BY <2>1, <2>3, <3>1, <3>2
    <2>6. ReadersTyped'
        <3> DEFINE c == acceptor[n].conn
        <3>1. /\ handle' = handle \/ handle' = [handle EXCEPT ![n] = c]
              /\ exits' = exits
            BY <1>3 DEF Accept, readerState, Spawned, Handled
        <3>2. \E R \in {readers[n] \cup {c}, readers[n] \ {handle[n]}, readers[n]} :
                readers' = readers \/ readers' = [readers EXCEPT ![n] = R]
            BY <1>3 DEF Accept, readerState, Spawned, Handled
        <3> QED
            BY <2>1, <3>1, <3>2 DEF PeersTyped, ReadersTyped
    <2>7. DialsTyped' /\ TasksTyped'
        BY <1>3, <2>4, <2>5 DEF Accept, PeersTyped, DialsTyped, TasksTyped
    <2> QED
        BY <2>2, <2>6, <2>7 DEF PeersTyped
<1> QED
    BY <1>1, <1>2, <1>3

\* The steps of a connection's end
LEMMA EndTyped ==
    ASSUME PeersTyped, UNCHANGED acting,
           \/ \E d \in Dials : Cut(d)
           \/ \E n \in acting : CloseArrives(n) \/ Poll(n) \/ \E c \in Dials : ReaderExits(n, c)
    PROVE  PeersTyped'
<1>1. ASSUME NEW d \in Dials, Cut(d)
      PROVE  PeersTyped'
    <2>1. TablesTyped'
        BY <1>1 DEF Cut, PeersTyped, TablesTyped, natState, eventState
    <2>2. allowance' \in [cuts : Nat, disconnects : Nat]
        <3>1. allowance.cuts - 1 \in Nat /\ allowance' = [allowance EXCEPT !.cuts = allowance.cuts - 1]
            BY <1>1 DEF Cut, PeersTyped, TasksTyped
        <3> QED
            BY <3>1 DEF PeersTyped, TasksTyped
    <2>3. DialsTyped' /\ ReadersTyped' /\ TasksTyped'
        BY <1>1, <2>2 DEF Cut, PeersTyped, DialsTyped, ReadersTyped, TasksTyped, readerState
    <2> QED
        BY <2>1, <2>3 DEF PeersTyped
<1>2. ASSUME NEW n \in acting, CloseArrives(n)
      PROVE  PeersTyped'
    <2>1. n \in Nodes /\ Other(n) \in Nodes
        BY DEF PeersTyped, TasksTyped, Other, Nodes
    <2>2. TablesTyped'
        BY <1>2, <2>1 DEF CloseArrives, PeersTyped, TablesTyped, natState, eventState
    <2>3. DialsTyped' /\ ReadersTyped' /\ TasksTyped'
        BY <1>2 DEF CloseArrives, PeersTyped, DialsTyped, ReadersTyped, TasksTyped, readerState
    <2> QED
        BY <2>2, <2>3 DEF PeersTyped
<1>3. ASSUME NEW n \in acting, NEW c \in Dials, ReaderExits(n, c)
      PROVE  PeersTyped'
    <2>1. n \in Nodes /\ c \in Slots
        BY DEF PeersTyped, TasksTyped, Slots
    <2>2. exits' \in [Nodes -> Seq(Slots)]
        <3>1. exits[n] \in Seq(Slots) /\ exits' = [exits EXCEPT ![n] = Append(exits[n], c)]
            BY <1>3, <2>1 DEF ReaderExits, PeersTyped, ReadersTyped
        <3>2. Append(exits[n], c) \in Seq(Slots)
            BY <2>1, <3>1, QueueTyped
        <3> QED
            BY <3>1, <3>2 DEF PeersTyped, ReadersTyped
    <2>3. ReadersTyped'
        BY <1>3, <2>1, <2>2 DEF ReaderExits, PeersTyped, ReadersTyped
    <2>4. DialsTyped' /\ TablesTyped' /\ TasksTyped'
        BY <1>3 DEF ReaderExits, PeersTyped, DialsTyped, TablesTyped, TasksTyped, quicState, natState, eventState
    <2> QED
        BY <2>3, <2>4 DEF PeersTyped
<1>4. ASSUME NEW n \in acting, Poll(n)
      PROVE  PeersTyped'
    <2>1. n \in Nodes
        BY DEF PeersTyped, TasksTyped
    <2>2. TablesTyped'
        <3>1. CASE lost[n] > 0 /\ lost' = [lost EXCEPT ![n] = @ - 1] /\ Broadcast(n) /\ UNCHANGED conns
            <4>1. lost[n] - 1 \in Nat
                BY <2>1, <3>1 DEF PeersTyped, TablesTyped
            <4>2. lost' \in [Nodes -> Nat]
                BY <3>1, <4>1 DEF PeersTyped, TablesTyped
            <4>3. told' \in [Nodes -> BOOLEAN] /\ last_event' \in [Nodes -> PeerEvents]
                BY <2>1, <3>1 DEF Broadcast, PeersTyped, TablesTyped, PeerEvents
            <4> QED
                BY <1>4, <3>1, <4>2, <4>3 DEF Poll, PeersTyped, TablesTyped, quicState
        <3>2. CASE conns' = [conns EXCEPT ![n] = 0] /\ UNCHANGED <<lost, eventState>>
            BY <1>4, <2>1, <3>2 DEF Poll, PeersTyped, TablesTyped, quicState, eventState, Slots
        <3> QED
            BY <1>4, <3>1, <3>2 DEF Poll
    <2>3. DialsTyped' /\ ReadersTyped' /\ TasksTyped'
        BY <1>4 DEF Poll, PeersTyped, DialsTyped, ReadersTyped, TasksTyped, readerState
    <2> QED
        BY <2>2, <2>3 DEF PeersTyped
<1> QED
    BY <1>1, <1>2, <1>3, <1>4

\* One cleaner of one node changes.
LEMMA CleanersUpdate ==
    ASSUME NEW C, NEW f \in [Nodes -> [Cleaners -> C]], NEW n \in Nodes, NEW k \in Cleaners, NEW v \in C
    PROVE  [f EXCEPT ![n][k] = v] \in [Nodes -> [Cleaners -> C]]
<1>1. f[n] \in [Cleaners -> C]
    OBVIOUS
<1>2. [f[n] EXCEPT ![k] = v] \in [Cleaners -> C]
    BY <1>1
<1> QED
    BY <1>2

\* A cleanup starts.
LEMMA StartTyped ==
    ASSUME PeersTyped, NEW n \in Nodes, NEW k \in Cleaners, NEW from, NEW c \in Slots, CleanupStarts(n, k, from, c)
    PROVE  /\ DialsTyped' /\ TablesTyped' /\ UNCHANGED <<inbox, acceptor>>
           /\ cleaner' \in [Nodes -> [Cleaners -> [pc : CleanerPcs, expected : Slots, removed : BOOLEAN]]]
<1> DEFINE C == [pc : CleanerPcs, expected : Slots, removed : BOOLEAN]
<1>1. TablesTyped'
    <2>1. \/ /\ closed' = [closed EXCEPT ![n] = closed[n] \cup {conns[n]}] /\ conns[n] # 0
             /\ conns' = [conns EXCEPT ![n] = 0] /\ emitted' = [emitted EXCEPT ![n] = FALSE]
          \/ UNCHANGED <<closed, conns, emitted>>
        BY DEF CleanupStarts, Removes
    <2>2. UNCHANGED <<established, lost, peers, told, last_event>>
        BY DEF CleanupStarts, eventState
    <2>3. conns[n] # 0 => conns[n] \in Dials
        BY DEF PeersTyped, TablesTyped, Slots
    <2>4. closed' \in [Nodes -> SUBSET Dials]
        <3>1. closed[n] \subseteq Dials
            BY DEF PeersTyped, TablesTyped
        <3>2. closed' = closed \/ (conns[n] # 0 /\ closed' = [closed EXCEPT ![n] = closed[n] \cup {conns[n]}])
            BY <2>1
        <3>3. conns[n] # 0 => closed[n] \cup {conns[n]} \in SUBSET Dials
            BY <2>3, <3>1
        <3> QED
            BY <3>2, <3>3 DEF PeersTyped, TablesTyped
    <2>5. conns' \in [Nodes -> Slots] /\ emitted' \in [Nodes -> BOOLEAN]
        BY <2>1 DEF PeersTyped, TablesTyped, Slots
    <2> QED
        BY <2>2, <2>4, <2>5 DEF PeersTyped, TablesTyped
<1>2. DialsTyped'
    BY DEF CleanupStarts, PeersTyped, DialsTyped
<1>3. cleaner' \in [Nodes -> [Cleaners -> C]]
    <2>1. cleaner \in [Nodes -> [Cleaners -> C]]
        BY DEF PeersTyped, TasksTyped
    <2>2. [pc |-> "peers", expected |-> c, removed |-> FALSE] \in C
        OBVIOUS
    <2>3. cleaner' = cleaner \/ cleaner' = [cleaner EXCEPT ![n][k] = [pc |-> "peers", expected |-> c, removed |-> FALSE]]
        BY DEF CleanupStarts
    <2> HIDE DEF C
    <2>4. \A v \in C : [cleaner EXCEPT ![n][k] = v] \in [Nodes -> [Cleaners -> C]]
        BY <2>1, CleanersUpdate
    <2> QED
        BY <2>1, <2>2, <2>3, <2>4
<1> QED
    BY <1>1, <1>2, <1>3 DEF CleanupStarts

\* The steps of do_cleanup_connection
LEMMA CleanupTyped ==
    ASSUME PeersTyped, UNCHANGED acting, NEW n \in acting,
           \/ ExitHandler(n) \/ StaleReaper(n) \/ ReaperRemoves(n) \/ Disconnect(n)
           \/ \E k \in Cleaners : CleanupGoesOn(n, k)
    PROVE  PeersTyped'
<1> DEFINE C == [pc : CleanerPcs, expected : Slots, removed : BOOLEAN]
<1>1. n \in Nodes /\ cleaner \in [Nodes -> [Cleaners -> C]] /\ 0 \in Slots
    BY DEF PeersTyped, TasksTyped, Slots
<1>2. CASE ExitHandler(n)
    <2>1. exits[n] \in Seq(Slots) /\ exits[n] # <<>> /\ exits' = [exits EXCEPT ![n] = Tail(exits[n])]
        BY <1>1, <1>2 DEF ExitHandler, PeersTyped, ReadersTyped
    <2>2. Head(exits[n]) \in Slots /\ Tail(exits[n]) \in Seq(Slots)
        BY <2>1
    <2>3. /\ DialsTyped' /\ TablesTyped' /\ UNCHANGED <<inbox, acceptor>>
          /\ cleaner' \in [Nodes -> [Cleaners -> C]]
        BY <1>1, <1>2, <2>2, StartTyped DEF ExitHandler, Cleaners
    <2>4. ReadersTyped'
        BY <1>2, <2>1, <2>2 DEF ExitHandler, PeersTyped, ReadersTyped
    <2> QED
        BY <1>2, <2>3, <2>4 DEF ExitHandler, PeersTyped, TasksTyped
<1>3. CASE StaleReaper(n)
    <2>1. cleaner' \in [Nodes -> [Cleaners -> C]]
        BY <1>1, <1>3 DEF StaleReaper, Cleaners
    <2>2. TablesTyped'
        BY <1>1, <1>3 DEF StaleReaper, Reaped, PeersTyped, TablesTyped, quicState, eventState
    <2>3. DialsTyped' /\ ReadersTyped' /\ TasksTyped'
        BY <1>3, <2>1 DEF StaleReaper, PeersTyped, DialsTyped, ReadersTyped, TasksTyped, readerState
    <2> QED
        BY <2>2, <2>3 DEF PeersTyped
<1>4. CASE ReaperRemoves(n)
    <2>1. /\ DialsTyped' /\ TablesTyped' /\ UNCHANGED <<inbox, acceptor>>
          /\ cleaner' \in [Nodes -> [Cleaners -> C]]
        BY <1>1, <1>4, StartTyped DEF ReaperRemoves, Cleaners
    <2> QED
        BY <1>4, <2>1 DEF ReaperRemoves, PeersTyped, TasksTyped, ReadersTyped, readerState
<1>5. CASE Disconnect(n)
    <2>1. /\ DialsTyped' /\ TablesTyped' /\ UNCHANGED <<inbox, acceptor>>
          /\ cleaner' \in [Nodes -> [Cleaners -> C]]
        BY <1>1, <1>5, StartTyped DEF Disconnect, Cleaners
    <2>2. allowance' \in [cuts : Nat, disconnects : Nat]
        <3>1. allowance.disconnects - 1 \in Nat /\ allowance' = [allowance EXCEPT !.disconnects = allowance.disconnects - 1]
            BY <1>5 DEF Disconnect, PeersTyped, TasksTyped
        <3> QED
            BY <3>1 DEF PeersTyped, TasksTyped
    <2> QED
        BY <1>5, <2>1, <2>2 DEF Disconnect, PeersTyped, TasksTyped, ReadersTyped, readerState
<1>6. ASSUME NEW k \in Cleaners, CleanupGoesOn(n, k)
      PROVE  PeersTyped'
    <2>1. cleaner' \in [Nodes -> [Cleaners -> C]]
        <3>1. peers[n] \in BOOLEAN
            BY <1>1 DEF PeersTyped, TablesTyped
        <3> DEFINE c == cleaner[n][k]
        <3>2. c \in C /\ k \in DOMAIN cleaner[n] /\ n \in DOMAIN cleaner
            BY <1>1
        <3>3. \E v \in {[c EXCEPT !.pc = "handles", !.removed = peers[n]], [c EXCEPT !.pc = "event"],
                        [pc |-> "idle", expected |-> 0, removed |-> FALSE]} :
                cleaner' = [cleaner EXCEPT ![n][k] = v]
            <4>1. [cleaner EXCEPT ![n][k].pc = "handles", ![n][k].removed = peers[n]]
                    = [cleaner EXCEPT ![n][k] = [c EXCEPT !.pc = "handles", !.removed = peers[n]]]
                BY <1>1
            <4>2. [cleaner EXCEPT ![n][k].pc = "event"] = [cleaner EXCEPT ![n][k] = [c EXCEPT !.pc = "event"]]
                BY <1>1
            <4> QED
                BY <1>6, <4>1, <4>2 DEF CleanupGoesOn
        <3>4. /\ [c EXCEPT !.pc = "handles", !.removed = peers[n]] \in C /\ [c EXCEPT !.pc = "event"] \in C
              /\ [pc |-> "idle", expected |-> 0, removed |-> FALSE] \in C
            <4> HIDE DEF c
            <4> QED
                BY <1>1, <3>1, <3>2
        <3>5. PICK v \in C : cleaner' = [cleaner EXCEPT ![n][k] = v]
            BY <3>3, <3>4
        <3> HIDE DEF C
        <3> QED
            BY <1>1, <3>5, CleanersUpdate
    <2>2. TablesTyped'
        BY <1>1, <1>6 DEF CleanupGoesOn, PeersTyped, TablesTyped, quicState, natState, eventState, PeerEvents
    <2>3. ReadersTyped'
        BY <1>1, <1>6, ZenonT(60) DEF CleanupGoesOn, PeersTyped, ReadersTyped
    <2>4. DialsTyped' /\ TasksTyped'
        BY <1>6, <2>1 DEF CleanupGoesOn, PeersTyped, DialsTyped, TasksTyped
    <2> QED
        BY <2>2, <2>3, <2>4 DEF PeersTyped
<1> QED
    BY <1>2, <1>3, <1>4, <1>5, <1>6

-----------------------------------------------------------------------------
(* Peers: what never goes back *)

Quiet == {"absent", "idle", "reused"}

\* A dial that has begun does not become quiet again, what is closed stays so, and what is
\* established has left its handshake.
Forth ==
    /\ \A e \in Dials : dialer'[e].by = dialer[e].by /\ (dialer'[e].pc \in Quiet => dialer[e].pc \in Quiet)
    /\ \A n \in Nodes : closed[n] \subseteq closed'[n]
    /\ DialsEstablished'

\* A dial goes on.
LEMMA GoesForth ==
    ASSUME PeersTyped, DialsEstablished, NEW d \in Dials, NEW q,
           q \in Quiet => dialer[d].pc \in Quiet,
           Goes(d, q), dialer[d].pc \in {"established", "failed", "yielded", "added", "spawn", "handle", "register", "announce", "done"}
                          => q \notin Quiet \cup {"handshake"}
    PROVE  /\ \A e \in Dials : dialer'[e].by = dialer[e].by /\ (dialer'[e].pc \in Quiet => dialer[e].pc \in Quiet)
           /\ dialer'[d].pc = q /\ \A e \in Dials \ {d} : dialer'[e] = dialer[e]
           /\ established' = established => DialsEstablished'
<1>1. dialer \in [Dials -> [pc : DialPcs, by : Nodes, how : {"connect", "fallback"}, reads : Slots]]
    BY DEF PeersTyped, DialsTyped
<1>2. dialer'[d].pc = q /\ dialer'[d].by = dialer[d].by /\ \A e \in Dials \ {d} : dialer'[e] = dialer[e]
    BY <1>1 DEF Goes
<1>3. established' = established => DialsEstablished'
    <2> SUFFICES ASSUME established' = established, NEW n \in Nodes, d \in established[n]
                 PROVE  q \notin {"absent", "idle", "reused", "handshake"}
        BY <1>2 DEF DialsEstablished
    <2>1. dialer[d].pc \notin {"absent", "idle", "reused", "handshake"} /\ dialer[d].pc \in DialPcs
        BY <1>1 DEF DialsEstablished
    <2> QED
        BY <2>1 DEF Quiet
<1> QED
    BY <1>2, <1>3

\* A dial goes forth.
LEMMA DialForth ==
    ASSUME PeersTyped, DialsEstablished, NEW d \in Dials,
           \/ DialStarts(d) \/ ForeignDial(d) \/ Handshake(d) \/ TieLost(d) \/ AddConnection(d)
           \/ SpawnHandler(d) \/ DialGoesOn(d)
    PROVE  Forth
<1> DEFINE n == dialer[d].by
<1>1. n \in Nodes /\ closed \in [Nodes -> SUBSET Dials] /\ established \in [Nodes -> SUBSET Dials]
    BY DEF PeersTyped, DialsTyped, TablesTyped
<1>2. CASE DialStarts(d)
    <2>1. PICK q \in {"reused", "handshake"} : Goes(d, q)
        BY <1>2 DEF DialStarts
    <2>2. dialer[d].pc = "idle" /\ UNCHANGED <<closed, established>>
        BY <1>2 DEF DialStarts, quicState
    <2> QED
        BY <2>1, <2>2, GoesForth DEF Forth, Quiet
<1>3. CASE TieLost(d) \/ AddConnection(d) \/ DialGoesOn(d)
    <2>1. /\ dialer[d].pc \notin Quiet
          /\ \E q \in {"yielded", "added", "handle", "register", "announce", "done"} : Goes(d, q)
        BY <1>3 DEF TieLost, AddConnection, DialGoesOn, Quiet
    <2>2. established' = established /\ \A m \in Nodes : closed[m] \subseteq closed'[m]
        BY <1>1, <1>3 DEF TieLost, AddConnection, DialGoesOn, quicState
    <2>3. PICK q \in {"yielded", "added", "handle", "register", "announce", "done"} : Goes(d, q)
        BY <2>1
    <2>4. q \notin Quiet /\ q # "handshake"
        BY DEF Quiet
    <2> QED
        BY <2>2, <2>3, <2>4, GoesForth DEF Forth
<1>4. CASE ForeignDial(d) \/ Handshake(d)
    <2>1. PICK q \in {"done", "established", "failed"} : Goes(d, q)
        BY <1>4 DEF ForeignDial, Handshake
    <2>2. /\ \A m \in Nodes : closed[m] \subseteq closed'[m]
          /\ \A m \in Nodes : established'[m] \subseteq established[m] \cup {d}
        BY <1>1, <1>4 DEF ForeignDial, Handshake
    <2>3. q \notin Quiet /\ q # "handshake"
        BY DEF Quiet
    <2>4. /\ \A e \in Dials : dialer'[e].by = dialer[e].by /\ (dialer'[e].pc \in Quiet => dialer[e].pc \in Quiet)
          /\ dialer'[d].pc = q /\ \A e \in Dials \ {d} : dialer'[e] = dialer[e]
        BY <2>1, <2>3, GoesForth
    <2>5. DialsEstablished'
        BY <2>2, <2>3, <2>4 DEF DialsEstablished, Quiet
    <2> QED
        BY <2>2, <2>4, <2>5 DEF Forth
<1>5. CASE SpawnHandler(d)
    <2>1. dialer \in [Dials -> [pc : DialPcs, by : Nodes, how : {"connect", "fallback"}, reads : Slots]]
        BY DEF PeersTyped, DialsTyped
    <2>2. /\ \E q \in {"register", "spawn"} : dialer' = [dialer EXCEPT ![d].pc = q, ![d].reads = conns[n]]
          /\ dialer[d].pc = "added" /\ UNCHANGED <<closed, established>>
        BY <1>5 DEF SpawnHandler, quicState
    <2>3. PICK q \in {"register", "spawn"} : dialer' = [dialer EXCEPT ![d].pc = q, ![d].reads = conns[n]]
        BY <2>2
    <2>4. dialer'[d].pc = q /\ dialer'[d].by = dialer[d].by /\ \A e \in Dials \ {d} : dialer'[e] = dialer[e]
        BY <2>1, <2>3
    <2> QED
        BY <2>2, <2>4 DEF Forth, DialsEstablished, Quiet
<1> QED
    BY <1>2, <1>3, <1>4, <1>5

\* The other steps leave the dials as they are.
LEMMA RestForth ==
    ASSUME PeersTyped, DialsEstablished,
           \/ \E d \in Dials : AcceptLoop(d) \/ Cut(d)
           \/ \E n \in acting : \/ Forward(n) \/ Accept(n) \/ CloseArrives(n) \/ Poll(n) \/ StaleReaper(n)
                                \/ \E c \in Dials : ReaderExits(n, c)
                                \/ \E k \in Cleaners : CleanupGoesOn(n, k)
                                \/ \E k \in Cleaners, c \in Slots, from \in CleanerPcs : CleanupStarts(n, k, from, c)
    PROVE  Forth
<1>1. /\ closed \in [Nodes -> SUBSET Dials] /\ established \in [Nodes -> SUBSET Dials]
      /\ dialer \in [Dials -> [pc : DialPcs, by : Nodes, how : {"connect", "fallback"}, reads : Slots]]
      /\ acting \subseteq Nodes
    BY DEF PeersTyped, DialsTyped, TablesTyped, TasksTyped
<1>2. ASSUME NEW d \in Dials, AcceptLoop(d)
      PROVE  Forth
    <2> DEFINE n == Other(dialer[d].by)
    <2>1. /\ dialer' = dialer /\ closed' = closed /\ established' = [established EXCEPT ![n] = @ \cup {d}]
          /\ d \in established[dialer[d].by] /\ dialer[d].by \in Nodes
        BY <1>1, <1>2 DEF AcceptLoop
    <2>2. dialer[d].pc \notin {"absent", "idle", "reused", "handshake"}
        BY <2>1 DEF DialsEstablished
    <2> HIDE DEF n
    <2>3. \A m \in Nodes : established'[m] \subseteq established[m] \cup {d}
        BY <1>1, <2>1
    <2> QED
        BY <2>1, <2>2, <2>3 DEF Forth, DialsEstablished
<1>3. ASSUME UNCHANGED <<dialer, established>>, \A n \in Nodes : closed[n] \subseteq closed'[n]
      PROVE  Forth
    BY <1>3 DEF Forth, DialsEstablished
<1>4. ASSUME NEW d \in Dials, Cut(d)
      PROVE  Forth
    BY <1>1, <1>3, <1>4 DEF Cut
<1>5. ASSUME NEW n \in acting, CloseArrives(n) \/ Forward(n) \/ Accept(n)
      PROVE  Forth
    BY <1>1, <1>3, <1>5 DEF CloseArrives, Forward, Accept, quicState
<1>6. ASSUME NEW n \in acting, Poll(n) \/ StaleReaper(n) \/ \E c \in Dials : ReaderExits(n, c)
      PROVE  Forth
    BY <1>1, <1>3, <1>6 DEF Poll, StaleReaper, ReaderExits, quicState
<1>7. ASSUME NEW n \in acting, NEW k \in Cleaners, CleanupGoesOn(n, k)
      PROVE  Forth
    BY <1>1, <1>3, <1>7 DEF CleanupGoesOn, quicState
<1>8. ASSUME NEW n \in acting, NEW k \in Cleaners, NEW c \in Slots, NEW from \in CleanerPcs, CleanupStarts(n, k, from, c)
      PROVE  Forth
    BY <1>1, <1>3, <1>8 DEF CleanupStarts
<1> QED
    BY <1>2, <1>4, <1>5, <1>6, <1>7, <1>8

\* A dial that is alone was alone before.
LEMMA AloneBefore ==
    ASSUME PeersTyped, Forth, NEW d \in Dials, Alone(d)'
    PROVE  Alone(d)
<1>1. \A e \in Dials \ {d} : dialer[e].pc \in {"absent", "idle", "reused"}
    BY DEF Alone, Forth, Quiet
<1>2. closed[NodeA] = {} /\ closed[NodeB] = {}
    BY DEF Alone, Forth, Nodes
<1> QED
    BY <1>1, <1>2 DEF Alone

-----------------------------------------------------------------------------
(* Peers: readers *)

\* The task that a reader waits for: of accept() or of a dial.
Awaited(n, c) ==
    \/ acceptor[n].pc = "handle" /\ acceptor[n].conn = c
    \/ \E d \in Dials : dialer[d].pc = "handle" /\ dialer[d].by = n /\ dialer[d].reads = c

\* Nobody who was about to store a handle has gone elsewhere.
LEMMA ReadersStay ==
    ASSUME ReadersOwned, handle' = handle, \A n \in Nodes : readers'[n] \subseteq readers[n],
           \A n \in Nodes, c \in Slots : Awaited(n, c) => Awaited(n, c)'
    PROVE  ReadersOwned'
BY DEF ReadersOwned, Awaited

\* Handles and readers do not change, and no dial leaves "handle".
LEMMA DialReaders ==
    ASSUME PeersTyped, ReadersOwned, NEW d \in Dials,
           \/ DialStarts(d) \/ ForeignDial(d) \/ Handshake(d) \/ TieLost(d) \/ AddConnection(d) \/ SpawnHandler(d)
    PROVE  ReadersOwned'
<1>1. dialer \in [Dials -> [pc : DialPcs, by : Nodes, how : {"connect", "fallback"}, reads : Slots]]
    BY DEF PeersTyped, DialsTyped
<1>2. dialer[d].pc # "handle" /\ \A e \in Dials \ {d} : dialer'[e] = dialer[e]
    <2>1. CASE DialStarts(d) \/ ForeignDial(d) \/ Handshake(d)
        BY <1>1, <2>1 DEF DialStarts, ForeignDial, Handshake, Goes
    <2>2. CASE TieLost(d) \/ AddConnection(d) \/ SpawnHandler(d)
        BY <1>1, <2>2 DEF TieLost, AddConnection, SpawnHandler, Goes
    <2> QED
        BY <2>1, <2>2
<1>3. UNCHANGED <<readers, handle, acceptor>>
    BY DEF DialStarts, ForeignDial, Handshake, TieLost, AddConnection, SpawnHandler, readerState
<1> QED
    BY <1>2, <1>3, ReadersStay DEF Awaited

\* A reader is spawned, by a task that will store its handle.
LEMMA SpawnedOwned ==
    ASSUME PeersTyped, ReadersOwned, NEW n \in Nodes, NEW c \in Slots, Spawned(n, c), Awaited(n, c)',
           \A m \in Nodes, x \in Slots : Awaited(m, x) => Awaited(m, x)'
    PROVE  ReadersOwned'
<1>1. handle' = handle /\ \A m \in Nodes : readers'[m] \subseteq readers[m] \cup (IF m = n THEN {c} ELSE {})
    BY DEF Spawned, PeersTyped, ReadersTyped
<1> QED
    BY <1>1 DEF ReadersOwned, Awaited

\* A handle is stored, and the reader it takes the place of is aborted.
LEMMA HandledOwned ==
    ASSUME PeersTyped, ReadersOwned, NEW n \in Nodes, NEW c \in Slots, Handled(n, c),
           \A m \in Nodes, x \in Slots : (m # n \/ x # c) /\ Awaited(m, x) => Awaited(m, x)'
    PROVE  ReadersOwned'
<1>1. /\ \A m \in Nodes \ {n} : handle'[m] = handle[m] /\ readers'[m] = readers[m]
      /\ handle'[n] = c /\ readers'[n] = IF handle[n] = c THEN readers[n] ELSE readers[n] \ {handle[n]}
    BY DEF Handled, PeersTyped, ReadersTyped
<1> SUFFICES ASSUME NEW m \in Nodes, NEW x \in Slots, x \in readers'[m]
             PROVE  handle'[m] = x \/ Awaited(m, x)'
    BY DEF ReadersOwned, Awaited
<1>2. x \in readers[m]
    BY <1>1
<1>3. handle[m] = x \/ Awaited(m, x)
    BY <1>2 DEF ReadersOwned, Awaited
<1>4. CASE m # n
    BY <1>1, <1>3, <1>4
<1>5. CASE m = n /\ x = c
    BY <1>1, <1>5
<1>6. CASE m = n /\ x # c
    <2>1. handle[m] # x
        BY <1>1, <1>6
    <2> QED
        BY <1>3, <1>6, <2>1
<1> QED
    BY <1>4, <1>5, <1>6

\* A dial spawns its reader, stores the handle, or goes on without.
LEMMA DialGoesOnReaders ==
    ASSUME PeersTyped, ReadersOwned, NEW d \in Dials, DialGoesOn(d)
    PROVE  ReadersOwned'
<1>1. /\ dialer \in [Dials -> [pc : DialPcs, by : Nodes, how : {"connect", "fallback"}, reads : Slots]]
      /\ acceptor' = acceptor
    BY DEF PeersTyped, DialsTyped, DialGoesOn
<1> PICK n \in Nodes, c \in Slots : n = dialer[d].by /\ c = dialer[d].reads
    BY <1>1
<1>2. ASSUME NEW q, Goes(d, q)
      PROVE  /\ dialer'[d].pc = q /\ dialer'[d].by = n /\ dialer'[d].reads = c
             /\ \A e \in Dials \ {d} : dialer'[e] = dialer[e]
    BY <1>1, <1>2 DEF Goes
<1>3. CASE dialer[d].pc = "spawn" /\ Goes(d, "handle") /\ Spawned(n, c)
    <2>1. Awaited(n, c)' /\ \A m \in Nodes, x \in Slots : Awaited(m, x) => Awaited(m, x)'
        BY <1>1, <1>2, <1>3 DEF Awaited
    <2> QED
        BY <1>1, <1>3, <2>1, SpawnedOwned
<1>4. CASE dialer[d].pc = "handle" /\ Goes(d, "register") /\ Handled(n, c)
    <2>1. \A m \in Nodes, x \in Slots : (m # n \/ x # c) /\ Awaited(m, x) => Awaited(m, x)'
        BY <1>1, <1>2, <1>4 DEF Awaited
    <2> QED
        BY <1>1, <1>4, <2>1, HandledOwned
<1>5. CASE dialer[d].pc \in {"register", "announce"} /\ (Goes(d, "announce") \/ Goes(d, "done")) /\ UNCHANGED readerState
    <2>1. \A m \in Nodes, x \in Slots : Awaited(m, x) => Awaited(m, x)'
        BY <1>1, <1>2, <1>5 DEF Awaited
    <2> QED
        BY <1>5, <2>1, ReadersStay DEF readerState
<1> QED
    BY <1>3, <1>4, <1>5 DEF DialGoesOn

\* accept() does the same.
LEMMA AcceptReaders ==
    ASSUME PeersTyped, ReadersOwned, NEW n \in Nodes, Accept(n)
    PROVE  ReadersOwned'
<1>1. acceptor \in [Nodes -> [pc : AcceptPcs, conn : Slots]] /\ dialer' = dialer
    BY DEF PeersTyped, TasksTyped, Accept
<1> PICK c \in Slots : c = acceptor[n].conn
    BY <1>1
<1>2. ASSUME NEW q, acceptor' = [acceptor EXCEPT ![n].pc = q]
      PROVE  acceptor'[n].pc = q /\ acceptor'[n].conn = c /\ \A m \in Nodes \ {n} : acceptor'[m] = acceptor[m]
    BY <1>1, <1>2
<1>3. CASE acceptor[n].pc = "spawn" /\ acceptor' = [acceptor EXCEPT ![n].pc = "handle"] /\ Spawned(n, c)
    <2>1. Awaited(n, c)' /\ \A m \in Nodes, x \in Slots : Awaited(m, x) => Awaited(m, x)'
        BY <1>1, <1>2, <1>3 DEF Awaited
    <2> QED
        BY <1>3, <2>1, SpawnedOwned
<1>4. CASE acceptor[n].pc = "handle" /\ acceptor' = [acceptor EXCEPT ![n].pc = "register"] /\ Handled(n, c)
    <2>1. \A m \in Nodes, x \in Slots : (m # n \/ x # c) /\ Awaited(m, x) => Awaited(m, x)'
        BY <1>1, <1>2, <1>4 DEF Awaited
    <2> QED
        BY <1>1, <1>4, <2>1, HandledOwned
<1>5. CASE acceptor[n].pc \in {"register", "announce", "idle"} /\ UNCHANGED readerState
    <2>1. \A m \in Nodes \ {n} : acceptor'[m] = acceptor[m]
        BY <1>1 DEF Accept
    <2>2. \A m \in Nodes, x \in Slots : Awaited(m, x) => Awaited(m, x)'
        BY <1>1, <1>5, <2>1 DEF Awaited
    <2> QED
        BY <1>5, <2>2, ReadersStay DEF readerState
<1> QED
    BY <1>3, <1>4, <1>5 DEF Accept

\* The other steps store no handle and spawn no reader.
LEMMA RestReaders ==
    ASSUME PeersTyped, ReadersOwned,
           \/ \E d \in Dials : AcceptLoop(d) \/ Cut(d)
           \/ \E n \in acting : \/ Forward(n) \/ CloseArrives(n) \/ Poll(n) \/ StaleReaper(n)
                                \/ ExitHandler(n) \/ ReaperRemoves(n) \/ Disconnect(n)
                                \/ \E c \in Dials : ReaderExits(n, c)
                                \/ \E k \in Cleaners : CleanupGoesOn(n, k)
    PROVE  ReadersOwned'
<1>1. readers \in [Nodes -> SUBSET Slots] /\ handle \in [Nodes -> Slots] /\ acting \subseteq Nodes
    BY DEF PeersTyped, ReadersTyped, TasksTyped
<1>2. ASSUME UNCHANGED <<dialer, acceptor, handle>>, \A n \in Nodes : readers'[n] \subseteq readers[n]
      PROVE  ReadersOwned'
    BY <1>2, ReadersStay DEF Awaited
<1>3. ASSUME NEW d \in Dials, AcceptLoop(d) \/ Cut(d)
      PROVE  ReadersOwned'
    BY <1>2, <1>3 DEF AcceptLoop, Cut, readerState
<1>4. ASSUME NEW n \in acting, Forward(n) \/ CloseArrives(n) \/ Poll(n) \/ StaleReaper(n)
      PROVE  ReadersOwned'
    BY <1>2, <1>4 DEF Forward, CloseArrives, Poll, StaleReaper, readerState
<1>5. ASSUME NEW n \in acting, ExitHandler(n) \/ ReaperRemoves(n) \/ Disconnect(n)
      PROVE  ReadersOwned'
    BY <1>2, <1>5 DEF ExitHandler, ReaperRemoves, Disconnect, CleanupStarts, readerState
<1>6. ASSUME NEW n \in acting, NEW c \in Dials, ReaderExits(n, c)
      PROVE  ReadersOwned'
    BY <1>1, <1>2, <1>6 DEF ReaderExits
<1>7. ASSUME NEW n \in acting, NEW k \in Cleaners, CleanupGoesOn(n, k)
      PROVE  ReadersOwned'
    <2>1. UNCHANGED <<dialer, acceptor>>
        BY <1>7 DEF CleanupGoesOn
    <2>2. CASE UNCHANGED <<readers, handle>>
        BY <1>2, <2>1, <2>2
    <2>3. CASE readers' = [readers EXCEPT ![n] = @ \ {handle[n]}] /\ handle' = [handle EXCEPT ![n] = 0]
        <3>1. /\ readers'[n] = readers[n] \ {handle[n]}
              /\ \A m \in Nodes \ {n} : readers'[m] = readers[m] /\ handle'[m] = handle[m]
            BY <1>1, <2>3
        <3> QED
            BY <2>1, <3>1 DEF ReadersOwned
    <2> QED
        BY <1>7, <2>2, <2>3 DEF CleanupGoesOn, eventState
<1> QED
    BY <1>3, <1>4, <1>5, <1>6, <1>7

-----------------------------------------------------------------------------
(* Peers: a dial that nothing disturbs *)

\* The dial and its nodes are as they were, where it matters.
LEMMA AloneSame ==
    ASSUME NEW d \in Dials, AloneOk(d), dialer'[d] = dialer[d],
           UNCHANGED <<conns, emitted, lost, peers, told, last_event, readers, handle, exits, inbox,
                       acceptor, cleaner, established, acting>>
    PROVE  AloneOk(d)'
BY DEF AloneOk, NodeAlone, DialAlone, AcceptAlone

\* A dial starts beside it, or is the one: nothing is reaped.
LEMMA DialStartsAlone ==
    ASSUME PeersTyped, NEW d \in Dials, Alone(d), AloneOk(d), UNCHANGED acting, NEW e \in Dials, DialStarts(e), Alone(d)'
    PROVE  AloneOk(d)'
<1> DEFINE n == dialer[e].by
<1>1. /\ dialer \in [Dials -> [pc : DialPcs, by : Nodes, how : {"connect", "fallback"}, reads : Slots]]
      /\ n \in Nodes /\ n \in acting /\ conns \in [Nodes -> Slots] /\ peers \in [Nodes -> BOOLEAN]
    BY DEF PeersTyped, DialsTyped, TablesTyped, DialStarts
<1>2. closed[n] = {}
    BY <1>1 DEF Alone, Nodes
<1>3. Live(n) \/ (conns[n] = 0 /\ ~peers[n])
    <2>1. NodeAlone(d, n)
        BY <1>1 DEF AloneOk
    <2> QED
        BY <1>1, <1>2, <2>1, PeerConstants DEF Live, NodeAlone
<1>4. conns' = conns
    BY <1>1, <1>3 DEF DialStarts, Reaped
<1>5. peers' = peers
    BY <1>1, <1>3 DEF DialStarts
<1>6. UNCHANGED <<emitted, lost, told, last_event, readers, handle, exits, inbox, acceptor, cleaner, established>>
    BY DEF DialStarts, quicState, eventState, readerState
<1>7. CASE e # d
    <2>1. dialer'[d] = dialer[d]
        BY <1>1, <1>7 DEF DialStarts, Goes
    <2> QED
        BY <1>4, <1>5, <1>6, <2>1, AloneSame
<1>8. CASE e = d
    <2>1. dialer'[d].by = dialer[d].by /\ dialer'[d].pc \in {"reused", "handshake"}
        BY <1>1, <1>8 DEF DialStarts, Goes
    <2> QED
        BY <1>4, <1>5, <1>6, <2>1 DEF AloneOk, NodeAlone, DialAlone, AcceptAlone
<1> QED
    BY <1>7, <1>8

\* It is dialled by a peer that is not modelled, or gets through its handshake.
LEMMA HandshakeAlone ==
    ASSUME PeersTyped, NEW d \in Dials, Alone(d), AloneOk(d), UNCHANGED acting,
           ForeignDial(d) \/ Handshake(d) \/ TieLost(d), Alone(d)'
    PROVE  AloneOk(d)'
<1> DEFINE n == dialer[d].by
<1>1. /\ dialer \in [Dials -> [pc : DialPcs, by : Nodes, how : {"connect", "fallback"}, reads : Slots]]
      /\ n \in Nodes /\ established \in [Nodes -> SUBSET Dials] /\ closed \in [Nodes -> SUBSET Dials]
    BY DEF PeersTyped, DialsTyped, TablesTyped
<1>2. UNCHANGED <<conns, emitted, lost, peers, told, last_event, readers, handle, exits, inbox, acceptor, cleaner>>
    BY DEF ForeignDial, Handshake, TieLost, natState, eventState, readerState
<1>3. closed'[n] = {}
    BY <1>1 DEF Alone, Nodes
<1>4. /\ established' = [established EXCEPT ![n] = @ \cup {d}] /\ dialer'[d].by = n
      /\ dialer'[d].pc = "established" \/ (dialer'[d].pc = "done" /\ n \notin acting)
    <2>1. ~(closed' = [closed EXCEPT ![n] = @ \cup {d}])
        BY <1>1, <1>3
    <2>2. ~TieLost(d)
        BY <2>1 DEF TieLost
    <2>3. CASE ForeignDial(d)
        BY <1>1, <2>3 DEF ForeignDial, Goes
    <2>4. CASE Handshake(d)
        BY <1>1, <2>1, <2>4 DEF Handshake, Goes
    <2> QED
        BY <2>2, <2>3, <2>4
<1>5. Other(n) # n
    BY <1>1, NodesDiffer DEF Other, Nodes
<1>6. d \in established'[n] /\ established'[Other(n)] = established[Other(n)]
    BY <1>1, <1>4, <1>5
<1> QED
    BY <1>2, <1>4, <1>6 DEF AloneOk, NodeAlone, DialAlone, AcceptAlone

\* It is added to the table of the node that dials.
LEMMA AddAlone ==
    ASSUME PeersTyped, NEW d \in Dials, Alone(d), AloneOk(d), UNCHANGED acting, AddConnection(d)
    PROVE  AloneOk(d)'
<1> DEFINE n == dialer[d].by
<1>1. /\ dialer \in [Dials -> [pc : DialPcs, by : Nodes, how : {"connect", "fallback"}, reads : Slots]]
      /\ n \in Nodes /\ conns \in [Nodes -> Slots]
    BY DEF PeersTyped, DialsTyped, TablesTyped
<1>2. UNCHANGED <<emitted, lost, peers, told, last_event, readers, handle, exits, inbox, acceptor, cleaner, established>>
    BY DEF AddConnection, quicState, eventState, readerState
<1>3. /\ conns'[n] = d /\ (\A m \in Nodes \ {n} : conns'[m] = conns[m])
      /\ dialer'[d].pc = "added" /\ dialer'[d].by = n
    BY <1>1 DEF AddConnection, Goes
<1>4. Other(n) \in Nodes \ {n} /\ acting \subseteq Nodes
    BY <1>1, NodesDiffer DEF Other, Nodes, PeersTyped, TasksTyped
<1>5. \A m \in acting : NodeAlone(d, m)'
    BY <1>2, <1>3, <1>4 DEF AloneOk, NodeAlone
<1>6. n \in acting => DialAlone(d, n)'
    BY <1>2, <1>3 DEF DialAlone
<1>7. Other(n) \in acting => AcceptAlone(d, Other(n))'
    BY <1>2, <1>3, <1>4 DEF AloneOk, AcceptAlone
<1>8. d \in established'[n]
    BY <1>2 DEF AloneOk, AddConnection
<1> QED
    BY <1>3, <1>5, <1>6, <1>7, <1>8 DEF AloneOk

\* Its handler is spawned, for the connection that the table holds: this one.
LEMMA SpawnHandlerAlone ==
    ASSUME PeersTyped, NEW d \in Dials, Alone(d), AloneOk(d), UNCHANGED acting, SpawnHandler(d)
    PROVE  AloneOk(d)'
<1> DEFINE n == dialer[d].by
<1>1. /\ dialer \in [Dials -> [pc : DialPcs, by : Nodes, how : {"connect", "fallback"}, reads : Slots]]
      /\ n \in Nodes /\ emitted \in [Nodes -> BOOLEAN] /\ lost \in [Nodes -> Nat] /\ d # 0
    BY PeerConstants DEF PeersTyped, DialsTyped, TablesTyped
<1>2. /\ UNCHANGED <<conns, peers, told, last_event, readers, handle, exits, inbox, acceptor, cleaner, established>>
      /\ dialer[d].pc = "added"
    BY DEF SpawnHandler, quicState, eventState, readerState
<1>3. n \in acting => conns[n] = d
    BY <1>2 DEF AloneOk, DialAlone
<1>4. /\ dialer'[d].pc \in {"spawn", "register"} /\ dialer'[d].by = n
      /\ n \in acting => dialer'[d].pc = "spawn" /\ dialer'[d].reads = d
    <2>1. PICK q \in {"spawn", "register"} :
             /\ dialer' = [dialer EXCEPT ![d].pc = q, ![d].reads = conns[n]]
             /\ conns[n] # 0 => q = "spawn"
        BY DEF SpawnHandler
    <2>2. dialer'[d].pc = q /\ dialer'[d].by = n /\ dialer'[d].reads = conns[n]
        BY <1>1, <2>1
    <2> QED
        BY <1>1, <1>3, <2>1, <2>2
<1>5. \A m \in Nodes \ {n} : emitted'[m] = emitted[m] /\ lost'[m] = lost[m]
    BY <1>1 DEF SpawnHandler
<1>6. acting \subseteq Nodes
    BY DEF PeersTyped, TasksTyped
<1>7. \A m \in acting : NodeAlone(d, m)'
    BY <1>2, <1>3, <1>5, <1>6 DEF AloneOk, NodeAlone
<1>8. n \in acting => DialAlone(d, n)'
    BY <1>2, <1>3, <1>4 DEF DialAlone
<1>9. Other(n) \in acting => AcceptAlone(d, Other(n))'
    BY <1>2, <1>4 DEF AloneOk, AcceptAlone
<1>10. d \in established'[n]
    BY <1>2 DEF AloneOk
<1> QED
    BY <1>4, <1>7, <1>8, <1>9, <1>10 DEF AloneOk

\* The reader, the handle, the registration and the announcement of the node that dials.
LEMMA DialGoesOnAlone ==
    ASSUME PeersTyped, NEW d \in Dials, Alone(d), AloneOk(d), UNCHANGED acting, DialGoesOn(d)
    PROVE  AloneOk(d)'
<1>1. /\ dialer \in [Dials -> [pc : DialPcs, by : Nodes, how : {"connect", "fallback"}, reads : Slots]]
      /\ readers \in [Nodes -> SUBSET Slots] /\ handle \in [Nodes -> Slots] /\ peers \in [Nodes -> BOOLEAN]
      /\ told \in [Nodes -> BOOLEAN] /\ last_event \in [Nodes -> PeerEvents] /\ acting \subseteq Nodes /\ d # 0
    BY PeerConstants DEF PeersTyped, DialsTyped, TablesTyped, ReadersTyped, TasksTyped
<1> PICK n \in Nodes, c \in Slots : n = dialer[d].by /\ c = dialer[d].reads
    BY <1>1
<1>2. UNCHANGED <<conns, emitted, lost, inbox, acceptor, cleaner, established, exits>>
    BY DEF DialGoesOn, quicState, natState, readerState, Spawned, Handled
<1>3. /\ n \in acting => conns[n] = d
      /\ n \in acting /\ dialer[d].pc \in {"spawn", "handle"} => c = d
      /\ n \in acting /\ dialer[d].pc \in {"handle", "register", "announce"} => d \in readers[n]
      /\ n \in acting /\ dialer[d].pc = "announce" => peers[n]
      /\ d \in established[n]
    BY DEF AloneOk, DialAlone, DialGoesOn
<1>4. ASSUME NEW q, Goes(d, q)
      PROVE  dialer'[d].pc = q /\ dialer'[d].by = n /\ dialer'[d].reads = c
    BY <1>1, <1>4 DEF Goes
<1>5. ASSUME dialer'[d].by = n,
             \A m \in Nodes \ {n} : /\ readers'[m] = readers[m] /\ handle'[m] = handle[m] /\ peers'[m] = peers[m]
                                    /\ told'[m] = told[m] /\ last_event'[m] = last_event[m],
             n \in acting => /\ handle'[n] \in {0, d} /\ readers'[n] \cup {0} = readers[n] \cup {0} \cup readers'[n]
                             /\ peers[n] => peers'[n]
                             /\ told'[n] => last_event'[n] = "PeerConnected"
                             /\ DialAlone(d, n)'
      PROVE  AloneOk(d)'
    <2>1. n \in acting /\ d \in readers[n] => d \in readers'[n]
        BY <1>1, <1>5
    <2>2. n \in acting => NodeAlone(d, n)'
        BY <1>2, <1>3, <1>5, <2>1 DEF AloneOk, NodeAlone
    <2>3. \A m \in acting : NodeAlone(d, m)'
        BY <1>1, <1>2, <1>5, <2>2 DEF AloneOk, NodeAlone
    <2>4. Other(n) \in Nodes \ {n}
        BY NodesDiffer DEF Other, Nodes
    <2>5. Other(n) \in acting => AcceptAlone(d, Other(n))'
        BY <1>2, <1>5, <2>4 DEF AloneOk, AcceptAlone
    <2>6. d \in established'[n]
        BY <1>2, <1>3
    <2> QED
        BY <1>5, <2>3, <2>5, <2>6 DEF AloneOk
<1>6. n \in acting => NodeAlone(d, n)
    BY DEF AloneOk
<1>7. CASE dialer[d].pc = "spawn" /\ Goes(d, "handle") /\ Spawned(n, c) /\ UNCHANGED <<peers, eventState>>
    <2>1. UNCHANGED <<peers, told, last_event, handle>> /\ readers' = [readers EXCEPT ![n] = @ \cup {c}]
        BY <1>7 DEF Spawned, eventState
    <2>2. readers'[n] = readers[n] \cup {c} /\ \A m \in Nodes \ {n} : readers'[m] = readers[m]
        BY <1>1, <2>1
    <2>3. n \in acting => DialAlone(d, n)'
        BY <1>2, <1>3, <1>4, <1>7, <2>2 DEF DialAlone
    <2> QED
        BY <1>4, <1>5, <1>6, <1>7, <2>1, <2>2, <2>3 DEF NodeAlone
<1>8. CASE dialer[d].pc = "handle" /\ Goes(d, "register") /\ Handled(n, c) /\ UNCHANGED <<peers, eventState>>
    <2>1. /\ UNCHANGED <<peers, told, last_event>> /\ handle' = [handle EXCEPT ![n] = c]
          /\ readers' = [readers EXCEPT ![n] = IF handle[n] = c THEN @ ELSE @ \ {handle[n]}]
        BY <1>8 DEF Handled, eventState
    <2>2. /\ \A m \in Nodes \ {n} : readers'[m] = readers[m] /\ handle'[m] = handle[m]
          /\ handle'[n] = c /\ readers'[n] = IF handle[n] = c THEN readers[n] ELSE readers[n] \ {handle[n]}
        BY <1>1, <2>1
    <2>3. n \in acting => handle'[n] = d /\ readers'[n] \cup {0} = readers[n] \cup {0} /\ d \in readers'[n]
        BY <1>1, <1>3, <1>6, <1>8, <2>2 DEF NodeAlone
    <2>4. n \in acting => DialAlone(d, n)'
        BY <1>2, <1>3, <1>4, <1>8, <2>3 DEF DialAlone
    <2> QED
        BY <1>4, <1>5, <1>6, <1>8, <2>1, <2>2, <2>3, <2>4 DEF NodeAlone
<1>9. CASE dialer[d].pc = "register" /\ Goes(d, "announce") /\ peers' = [peers EXCEPT ![n] = TRUE] /\ UNCHANGED <<readerState, eventState>>
    <2>1. UNCHANGED <<readers, handle, told, last_event>> /\ peers'[n] /\ \A m \in Nodes \ {n} : peers'[m] = peers[m]
        BY <1>1, <1>9 DEF readerState, eventState
    <2>2. n \in acting => DialAlone(d, n)'
        BY <1>2, <1>3, <1>4, <1>9, <2>1 DEF DialAlone
    <2> QED
        BY <1>4, <1>5, <1>6, <1>9, <2>1, <2>2 DEF NodeAlone
<1>10. CASE dialer[d].pc = "announce" /\ Goes(d, "done") /\ Broadcast(n) /\ UNCHANGED <<readerState, peers>>
    <2>1. UNCHANGED <<readers, handle, peers>> /\ told'[n] /\ \A m \in Nodes \ {n} : told'[m] = told[m] /\ last_event'[m] = last_event[m]
        BY <1>1, <1>10 DEF readerState, Broadcast
    <2>2. n \in acting => last_event'[n] = "PeerConnected"
        BY <1>1, <1>6, <1>10 DEF Broadcast, NodeAlone
    <2>3. n \in acting => DialAlone(d, n)'
        BY <1>2, <1>3, <1>4, <1>10, <2>1 DEF DialAlone
    <2> QED
        BY <1>4, <1>5, <1>6, <1>10, <2>1, <2>2, <2>3 DEF NodeAlone
<1> QED
    BY <1>7, <1>8, <1>9, <1>10 DEF DialGoesOn

\* It reaches the accept loop of the other node, which knows of no other connection.
LEMMA AcceptLoopAlone ==
    ASSUME PeersTyped, NEW d \in Dials, Alone(d), AloneOk(d), UNCHANGED acting, AcceptLoop(d)
    PROVE  AloneOk(d)'
<1>1. /\ dialer \in [Dials -> [pc : DialPcs, by : Nodes, how : {"connect", "fallback"}, reads : Slots]]
      /\ conns \in [Nodes -> Slots] /\ emitted \in [Nodes -> BOOLEAN] /\ established \in [Nodes -> SUBSET Dials]
      /\ inbox \in [Nodes -> Seq(Slots)] /\ acting \subseteq Nodes /\ d # 0 /\ d \in Slots
    BY PeerConstants DEF PeersTyped, DialsTyped, TablesTyped, TasksTyped, Slots
<1> PICK n \in Nodes : n = Other(dialer[d].by)
    BY DEF Other, Nodes
<1>2. n \in acting /\ d \notin established[n] /\ dialer[d].by \in Nodes \ {n}
    BY <1>1, NodesDiffer DEF AcceptLoop, Other, Nodes
<1>3. NodeAlone(d, n) /\ conns[n] = 0
    BY <1>2 DEF AloneOk, AcceptAlone
<1>4. ~emitted[n] /\ ~peers[n] /\ ~told[n] /\ inbox[n] = <<>> /\ acceptor[n].pc = "idle" /\ ~Live(n)
    BY <1>1, <1>3 DEF NodeAlone, Live
<1>5. /\ established' = [established EXCEPT ![n] = @ \cup {d}] /\ conns' = [conns EXCEPT ![n] = d]
      /\ emitted' = [emitted EXCEPT ![n] = TRUE] /\ inbox' = [inbox EXCEPT ![n] = Append(inbox[n], d)]
    BY <1>1, <1>4 DEF AcceptLoop, Announces
<1>6. /\ inbox'[n] = <<d>> /\ conns'[n] = d /\ d \in established'[n]
      /\ \A m \in Nodes \ {n} : /\ conns'[m] = conns[m] /\ emitted'[m] = emitted[m]
                                /\ inbox'[m] = inbox[m] /\ established'[m] = established[m]
    BY <1>1, <1>4, <1>5
<1>7. UNCHANGED <<dialer, lost, peers, told, last_event, readers, handle, exits, acceptor, cleaner>>
    BY DEF AcceptLoop, eventState, readerState
<1>8. DOMAIN <<d>> = {1} /\ <<d>>[1] = d /\ <<d>> # <<>>
    OBVIOUS
<1>9. NodeAlone(d, n)'
    BY <1>3, <1>6, <1>7, <1>8 DEF NodeAlone
<1>10. \A m \in acting : NodeAlone(d, m)'
    BY <1>1, <1>6, <1>7, <1>9 DEF AloneOk, NodeAlone
<1>11. AcceptAlone(d, n)'
    BY <1>6, <1>8 DEF AcceptAlone
<1>12. dialer[d].by \in acting => DialAlone(d, dialer[d].by)'
    BY <1>2, <1>6, <1>7 DEF AloneOk, DialAlone
<1>13. d \in established'[dialer[d].by]
    BY <1>2, <1>6 DEF AcceptLoop
<1> QED
    BY <1>7, <1>10, <1>11, <1>12, <1>13 DEF AloneOk

\* A node goes on, and forgets nothing that the dial needs.
LEMMA NodeMovesAlone ==
    ASSUME PeersTyped, NEW d \in Dials, AloneOk(d), NEW n \in acting,
           UNCHANGED <<acting, dialer, conns, established>>,
           \A m \in Nodes \ {n} : /\ emitted'[m] = emitted[m] /\ lost'[m] = lost[m] /\ peers'[m] = peers[m]
                                  /\ told'[m] = told[m] /\ last_event'[m] = last_event[m]
                                  /\ readers'[m] = readers[m] /\ handle'[m] = handle[m]
                                  /\ inbox'[m] = inbox[m] /\ acceptor'[m] = acceptor[m]
                                  /\ exits'[m] = exits[m] /\ cleaner'[m] = cleaner[m],
           NodeAlone(d, n)', peers[n] => peers'[n], told[n] => told'[n],
           d \in readers[n] => d \in readers'[n],
           inbox[n] # <<>> \/ acceptor[n].pc # "idle" =>
              inbox'[n] # <<>> \/ acceptor'[n].pc # "idle" \/ (peers'[n] /\ told'[n] /\ d \in readers'[n])
    PROVE  AloneOk(d)'
<1>1. acting \subseteq Nodes /\ dialer[d].by \in Nodes /\ Other(dialer[d].by) \in Nodes
    BY DEF PeersTyped, TasksTyped, DialsTyped, Other, Nodes
<1>2. \A m \in acting : NodeAlone(d, m)'
    <2> TAKE m \in acting
    <2>1. CASE m = n
        BY <2>1
    <2>2. CASE m # n
        BY <1>1, <2>2 DEF AloneOk, NodeAlone
    <2> QED
        BY <2>1, <2>2
<1> PICK a \in Nodes : a = dialer[d].by
    BY <1>1
<1> PICK o \in Nodes : o = Other(a)
    BY <1>1
<1>3. a \in acting => DialAlone(d, a)'
    <2>1. a \in acting => DialAlone(d, a)
        BY DEF AloneOk
    <2>2. CASE a = n
        BY <2>1, <2>2 DEF DialAlone
    <2>3. CASE a # n
        BY <2>1, <2>3 DEF DialAlone
    <2> QED
        BY <2>2, <2>3
<1>4. o \in acting => AcceptAlone(d, o)'
    <2>1. o \in acting => AcceptAlone(d, o)
        BY DEF AloneOk
    <2>2. CASE o = n
        BY <2>1, <2>2 DEF AcceptAlone
    <2>3. CASE o # n
        BY <2>1, <2>3 DEF AcceptAlone
    <2> QED
        BY <2>2, <2>3
<1> QED
    BY <1>2, <1>3, <1>4 DEF AloneOk

\* The accept loop forwards what add_connection left.
LEMMA ForwardAlone ==
    ASSUME PeersTyped, NEW d \in Dials, AloneOk(d), UNCHANGED acting, NEW n \in acting, Forward(n)
    PROVE  AloneOk(d)'
<1>1. /\ emitted \in [Nodes -> BOOLEAN] /\ inbox \in [Nodes -> Seq(Slots)] /\ n \in Nodes
      /\ conns[n] \in Slots /\ d \in Slots
    BY DEF PeersTyped, TablesTyped, TasksTyped, Slots
<1>2. NodeAlone(d, n) /\ conns[n] = d
    BY DEF AloneOk, NodeAlone, Forward
<1>3. UNCHANGED <<dialer, conns, established, lost, peers, told, last_event, readers, handle, exits, acceptor, cleaner>>
    BY DEF Forward, quicState, eventState, readerState
<1>4. /\ inbox'[n] = Append(inbox[n], d)
      /\ \A m \in Nodes \ {n} : inbox'[m] = inbox[m] /\ emitted'[m] = emitted[m]
    BY <1>1, <1>2 DEF Forward
<1>5. inbox'[n] # <<>> /\ \A i \in DOMAIN inbox'[n] : inbox'[n][i] = d
    <2> PICK q \in Seq(Slots) : q = inbox[n]
        BY <1>1
    <2>1. \A i \in DOMAIN q : q[i] = d
        BY <1>2 DEF NodeAlone
    <2>2. Append(q, d) # <<>> /\ \A i \in DOMAIN Append(q, d) : Append(q, d)[i] = d
        <3>1. Append(q, d) # <<>> /\ DOMAIN Append(q, d) = 1 .. Len(q) + 1 /\ DOMAIN q = 1 .. Len(q) /\ Len(q) \in Nat
            BY <1>1
        <3>2. \A i \in 1 .. Len(q) : Append(q, d)[i] = q[i]
            BY <1>1
        <3>3. Append(q, d)[Len(q) + 1] = d
            BY <1>1
        <3>4. ASSUME NEW i \in 1 .. Len(q) + 1
              PROVE  Append(q, d)[i] = d
            <4>1. CASE i = Len(q) + 1
                BY <3>3, <4>1
            <4>2. CASE i # Len(q) + 1
                <5>1. i \in 1 .. Len(q)
                    BY <3>1, <4>2
                <5> QED
                    BY <2>1, <3>1, <3>2, <5>1
            <4> QED
                BY <4>1, <4>2
        <3> QED
            BY <3>1, <3>4
    <2> QED
        BY <1>4, <2>2
<1>6. NodeAlone(d, n)'
    BY <1>2, <1>3, <1>5 DEF NodeAlone
<1> QED
    BY <1>3, <1>4, <1>5, <1>6, NodeMovesAlone

\* The application accepts it.
LEMMA AcceptAloneStep ==
    ASSUME PeersTyped, NEW d \in Dials, AloneOk(d), UNCHANGED acting, NEW n \in acting, Accept(n)
    PROVE  AloneOk(d)'
<1>1. /\ emitted \in [Nodes -> BOOLEAN] /\ inbox \in [Nodes -> Seq(Slots)] /\ n \in Nodes /\ d \in Slots /\ d # 0
      /\ acceptor \in [Nodes -> [pc : AcceptPcs, conn : Slots]] /\ lost \in [Nodes -> Nat]
      /\ readers \in [Nodes -> SUBSET Slots] /\ handle \in [Nodes -> Slots] /\ peers \in [Nodes -> BOOLEAN]
      /\ told \in [Nodes -> BOOLEAN] /\ last_event \in [Nodes -> PeerEvents]
    BY PeerConstants DEF PeersTyped, TablesTyped, TasksTyped, ReadersTyped, Slots
<1>2. NodeAlone(d, n)
    BY DEF AloneOk
<1>3. UNCHANGED <<dialer, conns, established, exits, cleaner>>
    BY DEF Accept, quicState, readerState, Spawned, Handled
<1>4. conns[n] = d
    BY <1>2 DEF Accept, NodeAlone
<1> PICK c \in Slots : c = acceptor[n].conn
    BY <1>1
<1>5. CASE /\ acceptor[n].pc = "idle" /\ inbox[n] # <<>>
           /\ acceptor' = [acceptor EXCEPT ![n] = [pc |-> "spawn", conn |-> Head(inbox[n])]]
           /\ inbox' = [inbox EXCEPT ![n] = Tail(@)]
           /\ emitted' = [emitted EXCEPT ![n] = TRUE]
           /\ lost' = [lost EXCEPT ![n] = IF emitted[n] THEN @ ELSE @ + 1]
           /\ UNCHANGED <<peers, eventState, readerState>>
    <2>1. UNCHANGED <<peers, told, last_event, readers, handle>>
        BY <1>5 DEF eventState, readerState
    <2> PICK q \in Seq(Slots) : q = inbox[n]
        BY <1>1
    <2>2. q # <<>> /\ \A i \in DOMAIN q : q[i] = d
        BY <1>2, <1>5 DEF NodeAlone
    <2>3. Head(q) = d /\ \A i \in DOMAIN Tail(q) : Tail(q)[i] = d
        BY <2>2
    <2>4. /\ acceptor'[n] = [pc |-> "spawn", conn |-> d] /\ inbox'[n] = Tail(q)
          /\ \A m \in Nodes \ {n} : /\ acceptor'[m] = acceptor[m] /\ inbox'[m] = inbox[m]
                                    /\ emitted'[m] = emitted[m] /\ lost'[m] = lost[m]
        BY <1>1, <1>5, <2>3
    <2>5. NodeAlone(d, n)'
        BY <1>2, <1>3, <1>4, <2>1, <2>3, <2>4 DEF NodeAlone
    <2> QED
        BY <1>3, <2>1, <2>4, <2>5, NodeMovesAlone
<1>6. ASSUME NEW q, acceptor' = [acceptor EXCEPT ![n].pc = q]
      PROVE  /\ acceptor'[n].pc = q /\ acceptor'[n].conn = c
             /\ \A m \in Nodes \ {n} : acceptor'[m] = acceptor[m]
    BY <1>1, <1>6
<1>7. acceptor[n].pc # "idle" => c = d
    BY <1>2 DEF NodeAlone
<1>8. CASE /\ acceptor[n].pc = "spawn" /\ acceptor' = [acceptor EXCEPT ![n].pc = "handle"] /\ Spawned(n, c)
           /\ UNCHANGED <<inbox, emitted, lost, peers, eventState>>
    <2>1. UNCHANGED <<inbox, emitted, lost, peers, told, last_event, handle>> /\ readers' = [readers EXCEPT ![n] = @ \cup {d}]
        BY <1>7, <1>8 DEF Spawned, eventState
    <2>2. readers'[n] = readers[n] \cup {d} /\ \A m \in Nodes \ {n} : readers'[m] = readers[m]
        BY <1>1, <2>1
    <2>3. NodeAlone(d, n)'
        BY <1>2, <1>3, <1>4, <1>6, <1>7, <1>8, <2>1, <2>2 DEF NodeAlone
    <2> QED
        BY <1>3, <1>6, <1>8, <2>1, <2>2, <2>3, NodeMovesAlone
<1>9. CASE /\ acceptor[n].pc = "handle" /\ acceptor' = [acceptor EXCEPT ![n].pc = "register"] /\ Handled(n, c)
           /\ UNCHANGED <<inbox, emitted, lost, peers, eventState>>
    <2>1. /\ UNCHANGED <<inbox, emitted, lost, peers, told, last_event>> /\ handle' = [handle EXCEPT ![n] = d]
          /\ readers' = [readers EXCEPT ![n] = IF handle[n] = d THEN @ ELSE @ \ {handle[n]}]
        BY <1>7, <1>9 DEF Handled, eventState
    <2>2. /\ \A m \in Nodes \ {n} : readers'[m] = readers[m] /\ handle'[m] = handle[m]
          /\ handle'[n] = d /\ readers'[n] = IF handle[n] = d THEN readers[n] ELSE readers[n] \ {handle[n]}
        BY <1>1, <2>1
    <2>3. d \in readers'[n]
        BY <1>1, <1>2, <1>9, <2>2 DEF NodeAlone
    <2>4. NodeAlone(d, n)'
        BY <1>2, <1>3, <1>4, <1>6, <1>7, <1>9, <2>1, <2>2, <2>3 DEF NodeAlone
    <2> QED
        BY <1>3, <1>6, <1>9, <2>1, <2>2, <2>3, <2>4, NodeMovesAlone
<1>10. CASE /\ acceptor[n].pc = "register" /\ acceptor' = [acceptor EXCEPT ![n].pc = "announce"]
            /\ peers' = [peers EXCEPT ![n] = TRUE]
            /\ UNCHANGED <<inbox, emitted, lost, eventState, readerState>>
    <2>1. /\ UNCHANGED <<inbox, emitted, lost, told, last_event, readers, handle>>
          /\ peers'[n] /\ \A m \in Nodes \ {n} : peers'[m] = peers[m]
        BY <1>1, <1>10 DEF readerState, eventState
    <2>2. NodeAlone(d, n)'
        BY <1>2, <1>3, <1>4, <1>6, <1>7, <1>10, <2>1 DEF NodeAlone
    <2> QED
        BY <1>3, <1>6, <1>10, <2>1, <2>2, NodeMovesAlone
<1>11. CASE /\ acceptor[n].pc = "announce" /\ acceptor' = [acceptor EXCEPT ![n].pc = "idle"] /\ Broadcast(n)
            /\ UNCHANGED <<inbox, emitted, lost, peers, readerState>>
    <2>1. /\ UNCHANGED <<inbox, emitted, lost, peers, readers, handle>>
          /\ told'[n] /\ \A m \in Nodes \ {n} : told'[m] = told[m] /\ last_event'[m] = last_event[m]
        BY <1>1, <1>11 DEF readerState, Broadcast
    <2>2. last_event'[n] = "PeerConnected"
        BY <1>1, <1>2, <1>11 DEF Broadcast, NodeAlone
    <2>3. peers[n] /\ d \in readers[n]
        BY <1>2, <1>11 DEF NodeAlone
    <2>4. NodeAlone(d, n)'
        BY <1>2, <1>3, <1>4, <1>6, <1>7, <1>11, <2>1, <2>2 DEF NodeAlone
    <2> QED
        BY <1>3, <1>6, <1>11, <2>1, <2>2, <2>3, <2>4, NodeMovesAlone
<1> QED
    BY <1>5, <1>8, <1>9, <1>10, <1>11 DEF Accept

\* A node polls: it announces this connection, and none has died.
LEMMA PollAlone ==
    ASSUME PeersTyped, NEW d \in Dials, Alone(d), AloneOk(d), UNCHANGED acting, NEW n \in acting, Poll(n)
    PROVE  AloneOk(d)'
<1>1. /\ n \in Nodes /\ lost \in [Nodes -> Nat] /\ told \in [Nodes -> BOOLEAN] /\ last_event \in [Nodes -> PeerEvents]
    BY DEF PeersTyped, TablesTyped, TasksTyped
<1>2. closed[n] = {} /\ NodeAlone(d, n)
    BY <1>1 DEF Alone, AloneOk, Nodes
<1>3. /\ lost[n] > 0 /\ lost' = [lost EXCEPT ![n] = @ - 1] /\ Broadcast(n)
      /\ UNCHANGED <<dialer, conns, established, emitted, peers, readers, handle, exits, inbox, acceptor, cleaner>>
    BY <1>2 DEF Poll, quicState, readerState
<1>4. conns[n] = d
    BY <1>2, <1>3 DEF NodeAlone
<1>5. told'[n] /\ \A m \in Nodes \ {n} : told'[m] = told[m] /\ last_event'[m] = last_event[m] /\ lost'[m] = lost[m]
    BY <1>1, <1>3 DEF Broadcast
<1>6. last_event'[n] = "PeerConnected"
    BY <1>1, <1>2, <1>3 DEF Broadcast, NodeAlone
<1>7. NodeAlone(d, n)'
    BY <1>2, <1>3, <1>4, <1>5, <1>6 DEF NodeAlone
<1>8. inbox[n] # <<>> \/ acceptor[n].pc # "idle" => inbox'[n] # <<>> \/ acceptor'[n].pc # "idle"
    BY <1>3
<1> QED
    BY <1>3, <1>5, <1>7, <1>8, NodeMovesAlone

\* A step of another dial ends its solitude, and so does every close.
LEMMA OtherDialAlone ==
    ASSUME PeersTyped, DialsEstablished, NEW d \in Dials, Alone(d), NEW e \in Dials, e # d,
           \/ ForeignDial(e) \/ Handshake(e) \/ TieLost(e) \/ AddConnection(e)
           \/ SpawnHandler(e) \/ DialGoesOn(e) \/ AcceptLoop(e)
    PROVE  ~Alone(d)'
<1>1. /\ dialer \in [Dials -> [pc : DialPcs, by : Nodes, how : {"connect", "fallback"}, reads : Slots]]
      /\ dialer[e].by \in Nodes
    BY DEF PeersTyped, DialsTyped
<1>2. dialer[e].pc \in Quiet
    BY DEF Alone, Quiet
<1>3. ForeignDial(e)
    <2>1. ~AcceptLoop(e)
        BY <1>1, <1>2 DEF AcceptLoop, DialsEstablished, Quiet
    <2> QED
        BY <1>2, <2>1 DEF Quiet, Handshake, TieLost, AddConnection, SpawnHandler, DialGoesOn
<1>4. dialer'[e].pc = "done"
    BY <1>1, <1>3 DEF ForeignDial, Goes
<1> QED
    BY <1>4 DEF Alone

\* Nothing is cut, closed, reaped or cleaned up while it is alone.
LEMMA NothingEndsAlone ==
    ASSUME PeersTyped, NEW d \in Dials, Alone(d), AloneOk(d), NEW n \in acting,
           \/ CloseArrives(n) \/ ExitHandler(n) \/ StaleReaper(n) \/ ReaperRemoves(n)
           \/ \E c \in Dials : ReaderExits(n, c)
           \/ \E k \in Cleaners : CleanupGoesOn(n, k)
    PROVE  FALSE
<1>1. n \in Nodes /\ Other(n) \in Nodes /\ conns \in [Nodes -> Slots] /\ d # 0
    BY PeerConstants DEF PeersTyped, TablesTyped, TasksTyped, Other, Nodes
<1>2. closed[n] = {} /\ closed[Other(n)] = {} /\ NodeAlone(d, n)
    BY <1>1 DEF Alone, AloneOk, Nodes
<1>3. ~CloseArrives(n) /\ ~\E c \in Dials : ReaderExits(n, c)
    BY <1>2 DEF CloseArrives, ReaderExits
<1>4. ~ExitHandler(n)
    BY <1>2 DEF ExitHandler, NodeAlone
<1>5. ~StaleReaper(n)
    BY <1>1, <1>2 DEF StaleReaper, Stale, Live, NodeAlone
<1>6. ~ReaperRemoves(n) /\ ~\E k \in Cleaners : CleanupGoesOn(n, k)
    BY <1>2 DEF ReaperRemoves, CleanupStarts, CleanupGoesOn, NodeAlone, Cleaners
<1> QED
    BY <1>3, <1>4, <1>5, <1>6

LEMMA EndsAlone ==
    ASSUME PeersTyped, NEW d \in Dials, Alone(d), AloneOk(d),
           (\E e \in Dials : Cut(e)) \/ \E n \in acting : Disconnect(n)
    PROVE  ~Alone(d)'
<1>1. closed \in [Nodes -> SUBSET Dials] /\ acting \subseteq Nodes /\ d # 0
    BY PeerConstants DEF PeersTyped, TablesTyped, TasksTyped
<1>2. ASSUME NEW n \in Nodes, NEW e, closed' = [closed EXCEPT ![n] = @ \cup {e}]
      PROVE  ~Alone(d)'
    <2>1. closed'[n] # {}
        BY <1>1, <1>2
    <2> QED
        BY <2>1 DEF Alone, Nodes
<1>3. ASSUME NEW e \in Dials, Cut(e)
      PROVE  ~Alone(d)'
    BY <1>2, <1>3 DEF Cut
<1>4. ASSUME NEW n \in acting, Disconnect(n)
      PROVE  ~Alone(d)'
    <2>1. peers[n] /\ NodeAlone(d, n)
        BY <1>4 DEF Disconnect, AloneOk
    <2>2. Removes(n, 0)
        BY <1>1, <2>1 DEF Removes, NodeAlone
    <2>3. closed' = [closed EXCEPT ![n] = @ \cup {conns[n]}]
        BY <1>4, <2>2 DEF Disconnect, CleanupStarts
    <2> QED
        BY <1>1, <1>2, <2>3
<1> QED
    BY <1>3, <1>4

-----------------------------------------------------------------------------
(* Peers: the invariant *)

LEMMA PeersStart == PeersInit => PeersInv
<1> SUFFICES ASSUME PeersInit
             PROVE  PeersInv
    OBVIOUS
<1> PICK s \in PeerSettings : StartsAs(s)
    BY DEF PeersInit
<1>1. /\ s.dials \in Seq([by : Nodes, how : {"connect", "fallback"}]) /\ s.cuts \in Nat
      /\ s.disconnects \in Nat /\ s.acting \subseteq Nodes /\ NodeA \in Nodes /\ NodeB \in Nodes
    BY PeerConstants DEF Nodes
<1>2. \A d \in Dials : /\ dialer[d] \in [pc : DialPcs, by : Nodes, how : {"connect", "fallback"}, reads : Slots]
                       /\ dialer[d].pc \in {"absent", "idle"}
    <2> TAKE d \in Dials
    <2>1. CASE d > Len(s.dials)
        <3>1. dialer[d] = [pc |-> "absent", by |-> NodeA, how |-> "connect", reads |-> 0]
            BY <2>1 DEF StartsAs, DialsOf
        <3> QED
            BY <1>1, <3>1 DEF DialPcs, Slots
    <2>2. CASE ~(d > Len(s.dials))
        <3>1. dialer[d] = [pc |-> "idle", by |-> s.dials[d].by, how |-> s.dials[d].how, reads |-> 0]
            BY <2>2 DEF StartsAs, DialsOf
        <3>2. d \in 1 .. Len(s.dials)
            BY <1>1, <2>2, PeerConstants
        <3>3. s.dials[d] \in [by : Nodes, how : {"connect", "fallback"}]
            BY <1>1, <3>2, ElementOfSeq
        <3> QED
            BY <3>1, <3>3 DEF DialPcs, Slots
    <2> QED
        BY <2>1, <2>2
<1>3. DialsTyped
    <2>1. dialer = [d \in Dials |-> dialer[d]]
        BY DEF StartsAs, DialsOf
    <2> QED
        BY <1>2, <2>1 DEF DialsTyped
<1>4. TablesTyped
    BY DEF TablesTyped, PeersInit, PeerEvents, Slots
<1>5. ReadersTyped
    BY DEF ReadersTyped, PeersInit, Slots
<1>6. TasksTyped
    <2>1. inbox \in [Nodes -> Seq(Slots)] /\ acceptor \in [Nodes -> [pc : AcceptPcs, conn : Slots]]
        BY DEF PeersInit, Slots, AcceptPcs
    <2>2. cleaner \in [Nodes -> [Cleaners -> [pc : CleanerPcs, expected : Slots, removed : BOOLEAN]]]
        BY DEF PeersInit, Slots, CleanerPcs
    <2>3. allowance \in [cuts : Nat, disconnects : Nat] /\ acting \subseteq Nodes
        BY <1>1 DEF StartsAs
    <2> QED
        BY <2>1, <2>2, <2>3 DEF TasksTyped
<1>7. DialsEstablished /\ ReadersOwned
    BY DEF PeersInit, DialsEstablished, ReadersOwned
<1>8. ASSUME NEW d \in Dials
      PROVE  AloneOk(d)
    <2>1. dialer[d].by \in Nodes /\ Other(dialer[d].by) \in Nodes /\ dialer[d].pc \in {"absent", "idle"} /\ acting \subseteq Nodes
        BY <1>2, <1>6 DEF Other, Nodes, TasksTyped
    <2>2. \A n \in Nodes : NodeAlone(d, n)
        BY DEF PeersInit, NodeAlone
    <2>3. \A n \in Nodes : AcceptAlone(d, n)
        BY DEF PeersInit, AcceptAlone
    <2> QED
        BY <2>1, <2>2, <2>3 DEF AloneOk, DialAlone
<1> QED
    BY <1>3, <1>4, <1>5, <1>6, <1>7, <1>8 DEF PeersInv, PeersTyped

\* A dial that is alone goes through undisturbed.
LEMMA StepAlone ==
    ASSUME PeersTyped, DialsEstablished, PeersNext, Forth, NEW d \in Dials, Alone(d) => AloneOk(d), Alone(d)'
    PROVE  AloneOk(d)'
<1>1. Alone(d) /\ AloneOk(d) /\ UNCHANGED acting
    BY AloneBefore DEF PeersNext
<1>2. ASSUME NEW e \in Dials, DialStarts(e)
      PROVE  AloneOk(d)'
    BY <1>1, <1>2, DialStartsAlone
<1>3. ASSUME NEW e \in Dials, ForeignDial(e) \/ DialStep(e)
      PROVE  AloneOk(d)'
    <2>1. e = d
        BY <1>1, <1>3, OtherDialAlone DEF DialStep
    <2>2. CASE ForeignDial(d) \/ Handshake(d) \/ TieLost(d)
        BY <1>1, <2>2, HandshakeAlone
    <2>3. CASE AddConnection(d)
        BY <1>1, <2>3, AddAlone
    <2>4. CASE SpawnHandler(d)
        BY <1>1, <2>4, SpawnHandlerAlone
    <2>5. CASE DialGoesOn(d)
        BY <1>1, <2>5, DialGoesOnAlone
    <2>6. CASE AcceptLoop(d)
        BY <1>1, <2>6, AcceptLoopAlone
    <2> QED
        BY <1>3, <2>1, <2>2, <2>3, <2>4, <2>5, <2>6 DEF DialStep
<1>4. ASSUME NEW n \in acting, NodeStep(n) \/ StaleReaper(n)
      PROVE  AloneOk(d)'
    <2>1. CASE Forward(n)
        BY <1>1, <2>1, ForwardAlone
    <2>2. CASE Accept(n)
        BY <1>1, <2>2, AcceptAloneStep
    <2>3. CASE Poll(n)
        BY <1>1, <2>3, PollAlone
    <2> QED
        BY <1>1, <1>4, <2>1, <2>2, <2>3, NothingEndsAlone DEF NodeStep
<1>5. ~((\E e \in Dials : Cut(e)) \/ \E n \in acting : Disconnect(n))
    BY <1>1, EndsAlone
<1> QED
    BY <1>2, <1>3, <1>4, <1>5 DEF PeersNext

\* What never goes back does not in any step.
LEMMA StepForth ==
    ASSUME PeersTyped, DialsEstablished, PeersNext
    PROVE  Forth
<1>1. ASSUME NEW n \in acting, ExitHandler(n) \/ ReaperRemoves(n) \/ Disconnect(n)
      PROVE  \E k \in Cleaners, c \in Slots, from \in CleanerPcs : CleanupStarts(n, k, from, c)
    <2>1. n \in Nodes /\ exits[n] \in Seq(Slots) /\ 0 \in Slots
        BY DEF PeersTyped, ReadersTyped, TasksTyped, Slots
    <2>2. ExitHandler(n) => Head(exits[n]) \in Slots
        BY <2>1 DEF ExitHandler
    <2>3. {"exit", "reaper", "user"} \subseteq Cleaners /\ {"idle", "stale"} \subseteq CleanerPcs
        BY DEF Cleaners, CleanerPcs
    <2> QED
        BY <1>1, <2>1, <2>2, <2>3 DEF ExitHandler, ReaperRemoves, Disconnect
<1>2. CASE \E d \in Dials : DialStarts(d) \/ ForeignDial(d) \/ DialStep(d) \/ Cut(d)
    <2> PICK d \in Dials : DialStarts(d) \/ ForeignDial(d) \/ DialStep(d) \/ Cut(d)
        BY <1>2
    <2>1. CASE AcceptLoop(d) \/ Cut(d)
        BY <2>1, RestForth
    <2> QED
        BY <2>1, DialForth DEF DialStep
<1>3. CASE \E n \in acting : NodeStep(n) \/ StaleReaper(n) \/ Disconnect(n)
    <2> PICK n \in acting : NodeStep(n) \/ StaleReaper(n) \/ Disconnect(n)
        BY <1>3
    <2>1. CASE ExitHandler(n) \/ ReaperRemoves(n) \/ Disconnect(n)
        BY <1>1, <2>1, RestForth
    <2> QED
        BY <2>1, RestForth DEF NodeStep
<1> QED
    BY <1>2, <1>3 DEF PeersNext

LEMMA PeersStep == PeersInv /\ [PeersNext]_peerVars => PeersInv'
<1> SUFFICES ASSUME PeersInv, [PeersNext]_peerVars
             PROVE  PeersInv'
    OBVIOUS
<1>1. CASE UNCHANGED peerVars
    <2>1. PeersTyped'
        BY <1>1 DEF PeersInv, peerVars, PeersTyped, DialsTyped, TablesTyped, ReadersTyped, TasksTyped
    <2>2. DialsEstablished' /\ ReadersOwned'
        BY <1>1 DEF PeersInv, peerVars, DialsEstablished, ReadersOwned
    <2>3. ASSUME NEW d \in Dials, Alone(d)'
          PROVE  AloneOk(d)'
        <3>1. Alone(d)
            BY <1>1, <2>3 DEF peerVars, Alone
        <3> QED
            BY <1>1, <3>1, AloneSame DEF PeersInv, peerVars
    <2> QED
        BY <2>1, <2>2, <2>3 DEF PeersInv
<1>2. CASE PeersNext
    <2>1. PeersTyped /\ DialsEstablished /\ ReadersOwned /\ UNCHANGED acting
        BY <1>2 DEF PeersInv, PeersNext
    <2>2. Forth
        BY <1>2, <2>1, StepForth
    <2>3. ASSUME NEW d \in Dials, DialStarts(d) \/ ForeignDial(d) \/ DialStep(d) \/ Cut(d)
          PROVE  PeersTyped' /\ ReadersOwned'
        <3>1. PeersTyped'
            BY <2>1, <2>3, DialTyped, AcceptTyped, EndTyped DEF DialStep
        <3>2. ReadersOwned'
            BY <2>1, <2>3, DialReaders, DialGoesOnReaders, RestReaders DEF DialStep
        <3> QED
            BY <3>1, <3>2
    <2>4. ASSUME NEW n \in acting, NodeStep(n) \/ StaleReaper(n) \/ Disconnect(n)
          PROVE  PeersTyped' /\ ReadersOwned'
        <3>1. PeersTyped'
            BY <2>1, <2>4, AcceptTyped, EndTyped, CleanupTyped DEF NodeStep
        <3>2. n \in Nodes
            BY <2>1 DEF PeersTyped, TasksTyped
        <3>3. ReadersOwned'
            BY <2>1, <2>4, <3>2, AcceptReaders, RestReaders DEF NodeStep
        <3> QED
            BY <3>1, <3>3
    <2>5. PeersTyped' /\ ReadersOwned'
        BY <1>2, <2>3, <2>4 DEF PeersNext
    <2>6. \A d \in Dials : Alone(d)' => AloneOk(d)'
        BY <1>2, <2>1, <2>2, StepAlone DEF PeersInv
    <2> QED
        BY <2>2, <2>5, <2>6 DEF PeersInv, Forth
<1> QED
    BY <1>1, <1>2

\* The tables agree at rest.
LEMMA PeersInvAgree == PeersInv => PeerTablesAgree
<1> SUFFICES ASSUME PeersInv
             PROVE  PeerTablesAgree
    OBVIOUS
<1>1. ReadersAreHandled
    <2> SUFFICES ASSUME NEW n \in Nodes, Resting(n), NEW c, c \in readers[n]
                 PROVE  c = handle[n]
        BY DEF ReadersAreHandled
    <2>1. c \in Slots
        BY DEF PeersInv, PeersTyped, ReadersTyped
    <2> QED
        BY <2>1 DEF PeersInv, ReadersOwned, Resting
<1>2. UsableWhenAlone
    <2> SUFFICES ASSUME AtRest, NEW d \in Dials, dialer[d].pc = "done",
                        \A e \in Dials \ {d} : dialer[e].pc \in {"absent", "idle", "reused"},
                        closed[NodeA] = {}, closed[NodeB] = {}, NEW n \in acting
                 PROVE  conns[n] = d /\ peers[n] /\ d \in readers[n] /\ last_event[n] = "PeerConnected"
        BY DEF UsableWhenAlone
    <2>1. AloneOk(d) /\ n \in Nodes /\ dialer[d].by \in Nodes
        BY DEF PeersInv, Alone, PeersTyped, TasksTyped, DialsTyped
    <2>2. NodeAlone(d, n) /\ Resting(n) /\ d \in established[dialer[d].by]
        BY <2>1 DEF AloneOk, AtRest
    <2>3. CASE n = dialer[d].by
        BY <2>1, <2>2, <2>3 DEF AloneOk, DialAlone, NodeAlone
    <2>4. CASE n # dialer[d].by
        <3>1. n = Other(dialer[d].by) /\ dialer[d].by = Other(n) /\ closed[n] = {}
            BY <2>1, <2>4, NodesDiffer DEF Other, Nodes
        <3>2. d \in established[n] /\ AcceptAlone(d, n)
            BY <2>1, <2>2, <3>1 DEF Resting, AloneOk
        <3> QED
            BY <2>2, <3>2 DEF AcceptAlone, Resting, NodeAlone
    <2> QED
        BY <2>3, <2>4
<1> QED
    BY <1>1, <1>2 DEF PeerTablesAgree

(* Whatever the dials, the cuts and the disconnects: when the tasks of a node are at rest  *)
(* each of its readers has its handle, and a dial that nothing disturbed is in the tables   *)
(* of both ends, registered, read from and announced (P2pEndpoint's registration and        *)
(* cleanup, each await a step).                                                             *)
THEOREM PeersAgree == PeersSpec => []PeerTablesAgree
<1>1. PeersInit => PeersInv
    BY PeersStart
<1>2. PeersInv /\ [PeersNext]_peerVars => PeersInv'
    BY PeersStep
<1>3. PeersInv => PeerTablesAgree
    BY PeersInvAgree
<1> QED
    BY <1>1, <1>2, <1>3, PTL DEF PeersSpec

=============================================================================
