------------------------------ MODULE QuicPaths -----------------------------
(***************************************************************************)
(* The network path of a QUIC connection at a server that permits          *)
(* migration: migrate, path validation, the return to the previous path    *)
(* and the packets each path counts as in flight (src/connection/mod.rs,   *)
(* src/connection/paths.rs, src/connection/spaces.rs).                     *)
(*                                                                         *)
(* The peer's packets come from any of its addresses.  Every packet sent   *)
(* elicits an acknowledgment and has the size one; it is acknowledged or   *)
(* declared lost in any order.                                             *)
(***************************************************************************)
EXTENDS Integers, FiniteSets

CONSTANTS
    Addresses,     \* where packets of the peer come from
    Home,          \* the address of the handshake
    MaxSentOnPath, \* bound: packets sent
    PathSettings   \* alternatives: bounds on migrations, and on validations begun on the
                   \* path in use for a NAT traversal round

ASSUME HomeAssumption == Home \in Addresses

VARIABLES
    path,          \* self.path
    prev_path,     \* self.prev_path
    on_path,       \* sent_packets: packet number -> the path it was sent on
    next_packet,
    path_timer,    \* Timer::PathValidation is set
    challenges,    \* challenges sent or under way: token and address
    tokens,        \* tokens drawn so far
    proven,        \* addresses that returned the token they were sent
    restored,      \* a validation failed, or its path was left before it ended
    path_setting

pathVars == <<path, prev_path, on_path, next_packet, path_timer, challenges, tokens,
              proven, restored, path_setting>>

\* PathData::new and from_previous; a path is told apart by its token.
NewPath(remote, token) ==
    [remote |-> remote, id |-> token, challenge |-> token, pending |-> token # 0, validated |-> token = 0,
     first |-> 0, bytes |-> 0]
NoPath == [NewPath(Home, 0) EXCEPT !.id = -1]

PathInit ==
    /\ path_setting \in PathSettings
    /\ path = NewPath(Home, 0)
    /\ prev_path = NoPath
    /\ on_path = <<>>
    /\ next_packet = 1
    /\ path_timer = FALSE
    /\ challenges = {}
    /\ tokens = 0
    /\ proven = {Home}
    /\ restored = FALSE

\* Mutant: the path left last is always the one to return to.
KeptPathLast == path

\* Don't clobber the original path if the previous one hasn't been validated yet.
KeptPath == IF path.challenge = 0 THEN path ELSE prev_path

\* process_payload, and migrate_to_nat_traversal_path: migrate.
MigrateTo(remote) ==
    /\ path_setting.migrations > 0 /\ remote # path.remote
    /\ path_setting' = [path_setting EXCEPT !.migrations = @ - 1]
    /\ tokens' = tokens + 1
    /\ path' = NewPath(remote, tokens + 1)
    /\ prev_path' = KeptPath
    /\ restored' = (restored \/ path.challenge # 0)
    /\ path_timer' = TRUE
    /\ UNCHANGED <<on_path, next_packet, challenges, proven>>

\* start_nat_traversal_validation: the path in use is given a challenge.
ChallengeInUse ==
    /\ path_setting.rounds > 0
    /\ path_setting' = [path_setting EXCEPT !.rounds = @ - 1]
    /\ tokens' = tokens + 1
    /\ path' = [path EXCEPT !.challenge = tokens + 1, !.pending = TRUE]
    /\ path_timer' = TRUE
    /\ UNCHANGED <<prev_path, on_path, next_packet, challenges, proven, restored>>

\* poll_transmit with finish_and_track: the token goes with every packet.
SendOnPath ==
    /\ next_packet <= MaxSentOnPath
    /\ next_packet' = next_packet + 1
    /\ on_path' = [pn \in DOMAIN on_path \cup {next_packet} |->
                     IF pn = next_packet THEN path.id ELSE on_path[pn]]
    /\ path' = [path EXCEPT !.bytes = @ + 1, !.pending = FALSE,
                            !.first = IF @ = 0 THEN next_packet ELSE @]
    /\ challenges' = IF path.challenge = 0 THEN challenges
                     ELSE challenges \cup {[token |-> path.challenge, to |-> path.remote]}
    /\ UNCHANGED <<prev_path, path_timer, tokens, proven, restored, path_setting>>

\* The timer after the answer of the path in use.
TimerAfterResponse == FALSE

\* A PATH_RESPONSE; what does not answer the path in use is of no effect here.
PathResponse(c, from) ==
    /\ c \in challenges
    /\ challenges' = challenges \ {c}
    /\ proven' = IF from = c.to THEN proven \cup {from} ELSE proven
    /\ IF path.challenge = c.token /\ from = path.remote
       THEN /\ path' = [path EXCEPT !.challenge = 0, !.validated = TRUE]
            /\ path_timer' = TimerAfterResponse
       ELSE UNCHANGED <<path, path_timer>>
    /\ UNCHANGED <<prev_path, on_path, next_packet, tokens, restored, path_setting>>

\* Timer::PathValidation.
ValidationTimeout ==
    /\ path_timer
    /\ path_timer' = FALSE
    /\ path' = [(IF prev_path = NoPath THEN path ELSE prev_path) EXCEPT !.challenge = 0, !.pending = FALSE]
    /\ prev_path' = NoPath
    /\ restored' = TRUE
    /\ UNCHANGED <<on_path, next_packet, challenges, tokens, proven, path_setting>>

\* PathData::remove_in_flight: whether the packet is taken off p.
SentSince(p, pn) == p.first # 0 /\ p.first <= pn

\* Connection::remove_in_flight: the paths are asked from the newest to the oldest.
ResolvePacket(pn) ==
    /\ pn \in DOMAIN on_path
    /\ on_path' = [k \in DOMAIN on_path \ {pn} |-> on_path[k]]
    /\ IF SentSince(path, pn) THEN path' = [path EXCEPT !.bytes = @ - 1] /\ UNCHANGED prev_path
       ELSE IF prev_path # NoPath /\ SentSince(prev_path, pn)
       THEN prev_path' = [prev_path EXCEPT !.bytes = @ - 1] /\ UNCHANGED path
       ELSE UNCHANGED <<path, prev_path>>
    /\ UNCHANGED <<next_packet, path_timer, challenges, tokens, proven, restored, path_setting>>

PathNext ==
    \/ \E remote \in Addresses : MigrateTo(remote)
    \/ ChallengeInUse
    \/ SendOnPath
    \/ \E c \in challenges, from \in Addresses : PathResponse(c, from)
    \/ ValidationTimeout
    \/ \E pn \in 1 .. MaxSentOnPath : ResolvePacket(pn)

PathSpec == PathInit /\ [][PathNext]_pathVars

-----------------------------------------------------------------------------
(* Properties *)

InFlightOn(p) == Cardinality({pn \in DOMAIN on_path : on_path[pn] = p.id})

\* Over migrations that are validated, each path counts what was sent on it and is
\* neither acknowledged nor lost, although both lose packets by number alone.
InFlightOverMigration ==
    ~restored => path.bytes = InFlightOn(path) /\ (prev_path # NoPath => prev_path.bytes = InFlightOn(prev_path))

\* When no validation is under way the connection uses an address that has returned
\* its token, however migrations, answers and timeouts were interleaved; NAT
\* traversal rounds that challenge the path in use during a migration left aside.
SettlesOnProven == path.challenge = 0 => path.remote \in proven

\* The validation of the path in use ends: its timer runs, and it runs for no other
\* reason, so that a proven path is not given up.
ValidationTimed == (path.challenge # 0) = path_timer

\* A migration ends on an address that was proven, its validation ends, and the
\* congestion state of both paths stays true meanwhile (migrate, handle_path_response,
\* on_packet_acked).
MigrationSafe == SettlesOnProven /\ ValidationTimed /\ InFlightOverMigration
=============================================================================
