--------------------------- MODULE MtuDiscovery ----------------------------
(***************************************************************************)
(* Path MTU discovery of a QUIC connection (src/connection/mtud.rs) with   *)
(* the parts of the connection that drive it: probes sent when there is    *)
(* nothing else to send, acknowledgments, and the detection of lost        *)
(* packets (src/connection/mod.rs, on_ack_received, detect_lost_packets).  *)
(*                                                                         *)
(* The path carries datagrams of up to path_mtu bytes, which may change.   *)
(* Packets are declared lost from the oldest on, below the largest that    *)
(* was acknowledged.  mtud is the whole of struct MtuDiscovery, with the   *)
(* SearchState of the last search; a burst of losses is named by its last  *)
(* packet.                                                                 *)
(***************************************************************************)
EXTENDS Integers, FiniteSets

CONSTANTS
    MinMtu,          \* min_mtu
    MtuUpperBound,   \* MtuDiscoveryConfig::upper_bound
    MaxRetransmits,  \* MAX_PROBE_RETRANSMITS (3)
    Threshold,       \* BLACK_HOLE_THRESHOLD (3)
    MaxPn,           \* bound: packets sent
    MtuSettings      \* alternatives: minimum_change, the peer's limit, the MTU of the
                     \* path, get_initial_mtu() and, as bounds, datagrams, drops, changes
                     \* and later searches

ASSUME MtuConstants ==
    /\ {MinMtu, MtuUpperBound, MaxRetransmits, Threshold, MaxPn} \subseteq Nat
    /\ MtuSettings \subseteq [minimum_change : Nat, peer_max : Nat, path : Nat, initial : Nat,
                              datagrams : Nat, drops : Nat, changes : Nat, restarts : Nat]
    /\ \A s \in MtuSettings : MinMtu <= s.path /\ MinMtu <= s.initial

VARIABLES
    mtud,          \* MtuDiscovery
    mtu_sent,      \* packet number -> size, and whether the path carried it
    mtu_pn,        \* next packet number
    mtu_acked,     \* largest_acked_packet
    path_mtu,
    path_since,    \* the first packet number since the path has this MTU
    mtu_setting,
    holes,         \* losses of datagrams too big for the path since a bigger one got through
    searched       \* the search that is running or complete: it began at an MTU that is
                   \* admitted, and since then the path was the same and lost what is too big

mtuVars == <<mtud, mtu_sent, mtu_pn, mtu_acked, path_mtu, path_since, mtu_setting, holes, searched>>

NoBurst == [latest |-> 0, smallest |-> 0]
MtuMin(a, b) == IF a < b THEN a ELSE b

MtuInit ==
    /\ mtu_setting \in MtuSettings
    /\ path_mtu = mtu_setting.path
    /\ mtud = [current |-> MtuMin(mtu_setting.initial, mtu_setting.peer_max), phase |-> "Initial",
               lower |-> 0, upper |-> 0, last |-> 0, probe |-> 0, lost |-> 0,
               detector |-> [bursts |-> {}, burst |-> NoBurst, post |-> 0, acked |-> MinMtu]]
    /\ mtu_sent = <<>>
    /\ mtu_pn = 1 /\ mtu_acked = 0 /\ path_since = 1
    /\ holes = 0
    /\ searched = FALSE

-----------------------------------------------------------------------------
(* SearchState *)

Clamp(x, low, high) == IF x < low THEN low ELSE IF x > high THEN high ELSE x

\* SearchState::new.
NewSearch(m) ==
    LET low == MtuMin(m.current, mtu_setting.peer_max) IN
    [m EXCEPT !.phase = "Searching", !.lower = low, !.last = low, !.probe = 0, !.lost = 0,
              !.upper = Clamp(MtuUpperBound, low, mtu_setting.peer_max)]

\* next_mtu_to_probe: the bounds after the last probe.
Narrowed(m, succeeded) ==
    [m EXCEPT !.lower = IF succeeded THEN m.last ELSE @,
              !.upper = IF succeeded THEN @ ELSE m.last - 1, !.lost = 0]

Distance(a, b) == IF a < b THEN b - a ELSE a - b

\* next_mtu_to_probe: the size, if any.
NextSizes(m) ==
    LET mid == (m.lower + m.upper) \div 2 IN
    IF Distance(mid, m.last) >= mtu_setting.minimum_change THEN {mid}
    ELSE IF m.upper - m.last >= mtu_setting.minimum_change THEN {m.upper} ELSE {}

\* poll_transmit in phase Searching, with no probe in flight.
Probe(m) ==
    IF 0 < m.lost /\ m.lost < MaxRetransmits THEN [m EXCEPT !.probe = mtu_pn]
    ELSE LET n == Narrowed(m, m.lost = 0) IN
         IF NextSizes(n) = {} THEN [n EXCEPT !.phase = "Complete"]
         ELSE [n EXCEPT !.probe = mtu_pn, !.last = CHOOSE s \in NextSizes(n) : TRUE]

-----------------------------------------------------------------------------
(* BlackHoleDetector *)

\* finish_loss_burst.
Suspicious(h) ==
    ~(h.burst.smallest < MinMtu \/ (h.burst.latest < h.post /\ h.burst.smallest < h.acked))

Remembered(bursts, b) ==
    IF Cardinality(bursts) <= Threshold THEN bursts \cup {b}
    ELSE LET least == CHOOSE x \in bursts : \A y \in bursts : x.smallest <= y.smallest
         IN  IF least.smallest < b.smallest THEN (bursts \ {least}) \cup {b} ELSE bursts

FinishBurst(h) ==
    IF h.burst = NoBurst THEN h
    ELSE IF ~Suspicious(h) THEN [h EXCEPT !.burst = NoBurst]
    ELSE [h EXCEPT !.burst = NoBurst,
                   !.acked = IF h.burst.latest > h.post THEN MinMtu ELSE @,
                   !.bursts = Remembered(@, h.burst)]

\* on_non_probe_lost.
NonProbeLost(h, pn, size) ==
    LET f == IF h.burst # NoBurst /\ pn - h.burst.latest # 1 THEN FinishBurst(h) ELSE h
    IN  [f EXCEPT !.burst = [latest |-> pn, smallest |->
            IF f.burst = NoBurst THEN size ELSE MtuMin(f.burst.smallest, size)]]

\* on_non_probe_lost for each of the lost packets, the oldest first.
AllLost(h, sent, lost, last) ==
    LET upTo[n \in 0 .. last] ==
          IF n = 0 THEN h
          ELSE IF n \in lost THEN NonProbeLost(upTo[n - 1], n, sent[n].size) ELSE upTo[n - 1]
    IN  upTo[last]

\* black_hole_detected.
BlackHole(m, h) ==
    LET f == FinishBurst(h) IN
    IF Cardinality(f.bursts) <= Threshold THEN [m EXCEPT !.detector = f]
    ELSE [m EXCEPT !.detector = [f EXCEPT !.bursts = {}], !.current = MinMtu, !.phase = "Complete"]

\* BlackHoleDetector::on_non_probe_acked.
NonProbeAcked(h, pn, size) ==
    IF size <= h.acked THEN h
    ELSE [h EXCEPT !.acked = size, !.post = pn, !.bursts = {b \in @ : b.smallest > size}]

\* MtuDiscovery::on_acked.
Acked(m, pn, size) ==
    IF m.phase = "Searching" /\ m.probe = pn
    THEN [m EXCEPT !.probe = 0, !.lost = 0, !.current = m.last,
                   !.detector = [@ EXCEPT !.bursts = {}, !.acked = size, !.post = pn]]
    ELSE [m EXCEPT !.detector = NonProbeAcked(@, pn, size)]

-----------------------------------------------------------------------------
(* The connection *)

SendMtu(size) ==
    /\ mtu_pn <= MaxPn
    /\ mtu_sent' = [pn \in DOMAIN mtu_sent \cup {mtu_pn} |->
                      IF pn = mtu_pn THEN [size |-> size, fits |-> size <= path_mtu] ELSE mtu_sent[pn]]
    /\ mtu_pn' = mtu_pn + 1

\* Datagrams of any size up to the current MTU; a loss probe is small.
SendDatagram(size) ==
    /\ size <= mtud.current
    /\ mtu_setting.datagrams > 0
    /\ mtu_setting' = [mtu_setting EXCEPT !.datagrams = @ - 1]
    /\ SendMtu(size)
    /\ UNCHANGED <<mtud, mtu_acked, path_mtu, path_since, holes, searched>>

\* What the path, the peer and the configuration admit.
Target == MtuMin(path_mtu, MtuMin(MtuUpperBound, mtu_setting.peer_max))

(* poll_transmit with nothing else to send.  The time of the next search  *)
(* comes while the search is complete.                                     *)
PollProbe ==
    LET start == mtud.phase # "Searching"
        m == IF start THEN NewSearch(mtud) ELSE mtud
        p == Probe(m)
    IN  /\ mtud.phase = "Complete" => mtu_setting.restarts > 0
        /\ m.probe = 0
        /\ mtud' = p
        /\ searched' = IF start
                       THEN mtud.current <= Target /\ \A pn \in DOMAIN mtu_sent : mtu_sent[pn].fits
                       ELSE searched
        /\ mtu_setting' = [mtu_setting EXCEPT !.restarts = IF mtud.phase = "Complete" THEN @ - 1 ELSE @]
        /\ IF p.probe = 0 THEN UNCHANGED <<mtu_sent, mtu_pn>> ELSE SendMtu(p.last)
        /\ UNCHANGED <<mtu_acked, path_mtu, path_since, holes>>

\* in_flight_mtu_probe.
InFlightProbe(m) == IF m.phase = "Searching" THEN m.probe ELSE 0

Lost(sent, limit) == {pn \in DOMAIN sent : pn < limit}

\* Mutant: a lost probe is forgotten when other packets are lost with it.
DetectOthersFirst(m, sent, limit) ==
    LET probe == InFlightProbe(m)
        others == Lost(sent, limit) \ {probe}
    IN  IF others # {} THEN BlackHole(m, AllLost(m.detector, sent, others, mtu_pn))
        ELSE IF probe \in Lost(sent, limit) THEN [m EXCEPT !.probe = 0, !.lost = @ + 1] ELSE m

\* detect_lost_packets on the state m: packets below limit are lost.  The probe in
\* flight is set apart, and comes last.
Detect(m, sent, limit) ==
    LET probe == InFlightProbe(m)
        others == Lost(sent, limit) \ {probe}
        n == IF others = {} THEN m ELSE BlackHole(m, AllLost(m.detector, sent, others, mtu_pn))
    IN  IF probe \in Lost(sent, limit) /\ n.phase = "Searching"
        THEN [n EXCEPT !.probe = 0, !.lost = @ + 1] ELSE n

\* What is declared lost: the path did not carry it, or drops it (a bound).
Resolve(m, sent, limit, largest, seen) ==
    LET lost == Lost(sent, limit)
        dropped == Cardinality({pn \in lost : sent[pn].fits})
        others == lost \ {InFlightProbe(m)}
        big == {pn \in others : pn >= path_since /\ ~sent[pn].fits}
    IN  /\ limit <= largest
        /\ dropped <= mtu_setting.drops
        /\ mtu_setting' = [mtu_setting EXCEPT !.drops = @ - dropped]
        /\ mtud' = Detect(m, sent, limit)
        /\ mtu_sent' = [pn \in DOMAIN sent \ lost |-> sent[pn]]
        /\ searched' = (searched /\ dropped = 0)
        /\ holes' = IF mtud'.current <= path_mtu THEN 0
                    ELSE IF others # {} /\ others = big THEN seen + 1 ELSE seen

(* on_ack_received: a packet leaves a distance of three to those before it *)
(* that are not declared lost; more are when their time has come.          *)
Acknowledged(pn, limit) ==
    LET largest == IF pn > mtu_acked THEN pn ELSE mtu_acked IN
    /\ pn \in DOMAIN mtu_sent /\ mtu_sent[pn].fits
    /\ limit > largest - 3
    /\ mtu_acked' = largest
    /\ Resolve(Acked(mtud, pn, mtu_sent[pn].size), [k \in DOMAIN mtu_sent \ {pn} |-> mtu_sent[k]],
               limit, largest, IF mtu_sent[pn].size > path_mtu THEN 0 ELSE holes)
    /\ UNCHANGED <<mtu_pn, path_mtu, path_since>>

\* on_loss_detection_timeout, when the time threshold of a packet has come.
LossTimeout(limit) ==
    /\ Lost(mtu_sent, limit) # {}
    /\ Resolve(mtud, mtu_sent, limit, mtu_acked, holes)
    /\ UNCHANGED <<mtu_pn, mtu_acked, path_mtu, path_since>>

\* The route changes, for what is sent from then on.
PathChanges(mtu) ==
    /\ mtu_setting.changes > 0 /\ mtu # path_mtu
    /\ mtu_setting' = [mtu_setting EXCEPT !.changes = @ - 1]
    /\ path_mtu' = mtu /\ path_since' = mtu_pn
    /\ searched' = FALSE
    /\ holes' = 0
    /\ UNCHANGED <<mtud, mtu_sent, mtu_pn, mtu_acked>>

MtuNext ==
    \/ \E size \in {MinMtu - 1, MinMtu, mtud.current} : SendDatagram(size)
    \/ PollProbe
    \/ \E pn \in 1 .. MaxPn, limit \in 0 .. MaxPn : Acknowledged(pn, limit)
    \/ \E limit \in 0 .. MaxPn : LossTimeout(limit)
    \/ \E mtu \in MinMtu .. MtuUpperBound : PathChanges(mtu)

MtuSpec == MtuInit /\ [][MtuNext]_mtuVars

-----------------------------------------------------------------------------
(* Properties *)

\* A search over a path that stays as it is, from an MTU that is admitted, finds the
\* path's MTU up to what two steps of minimum_change leave, and never goes beyond what
\* the path, the peer and the configuration admit (next_mtu_to_probe).
SearchFindsMtu ==
    searched /\ mtud.phase = "Complete" =>
        mtud.current <= Target /\ Target - mtud.current < 2 * mtu_setting.minimum_change

\* The probe the search waits for is one the connection still tracks: the search
\* cannot wait for an answer that will not come.
ProbeIsTracked ==
    mtud.phase = "Searching" /\ mtud.probe # 0 => mtud.probe \in DOMAIN mtu_sent

\* Once datagrams that are too big were lost more than BLACK_HOLE_THRESHOLD times, with
\* nothing else lost, the MTU is back at what the path carries.
BlackHoleFound == holes <= Threshold

\* MTU discovery: the search comes to the path's MTU, waits for nothing that
\* will not come, and notices when the path no longer carries it.
MtuFound == SearchFindsMtu /\ ProbeIsTracked /\ BlackHoleFound
=============================================================================
