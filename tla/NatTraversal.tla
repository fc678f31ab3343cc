---------------------------- MODULE NatTraversal ----------------------------
(***************************************************************************)
(* NAT traversal on one established QUIC connection: the peer's address    *)
(* candidates, their pairing and validation, and the coordination rounds   *)
(* of hole punching (NatTraversalState in src/connection/nat_traversal.rs, *)
(* driven by the frame handlers, poll_transmit and the NAT timer of        *)
(* src/connection/mod.rs).                                                 *)
(*                                                                         *)
(* The peer advertises and removes addresses and has PUNCH_ME_NOW frames   *)
(* relayed; its frames may be lost, delivered late, out of order and more  *)
(* than once (a spurious retransmission carries the same frame again).     *)
(* PATH_CHALLENGEs may be lost, and their echoes may come back through a   *)
(* NAT from another address than the one challenged.  Time is abstracted:  *)
(* at any call, any pending deadline may or may not have passed.           *)
(*                                                                         *)
(* Refusals without effect (rate limits, memory pressure, addresses of a   *)
(* suspicious form) are stuttering steps.  The challenge that the timer    *)
(* puts on the connection's own path belongs to path validation and is not *)
(* kept here.                                                              *)
(***************************************************************************)
EXTENDS Naturals, Sequences, FiniteSets, FiniteSetsExt

CONSTANTS
    Home,            \* the address the connection runs over at first
    Addrs,           \* the other addresses of the peer, and those predicted for it
    LocalAddrs,      \* our own addresses
    Prio,            \* candidate priority of every address in Addrs and LocalAddrs
    RemoteMayMigrate, \* we are the server, with migration allowed (the default)
    Predictions,     \* what the port predictor may add: a set of [seq, addr]
    MaxCandidates,   \* max_candidates
    MaxPairs,        \* max_candidate_pairs
    MaxConcurrent,   \* concurrent validations that start_validation allows
    MaxRetries,      \* max_retries of validations and of rounds
    MaxRoundGap,     \* how far apart our round and the peer's may be (100)
    MaxLive,         \* the peer advertises at most this many addresses at a time
    MaxSeq,          \* bound: addresses advertised by the peer
    MaxPunches,      \* bound: PUNCH_ME_NOW frames that arrive
    MaxChallenges,   \* bound: PATH_CHALLENGEs sent
    MaxRounds        \* bound: coordination rounds we start

ASSUME NatConstants ==
    /\ \A a \in Addrs \cup LocalAddrs : Prio[a] \in Nat
    /\ Predictions \subseteq [seq : Nat, addr : Addrs]
    /\ {MaxPairs, MaxRetries, MaxSeq, MaxChallenges, MaxRounds} \subseteq Nat

VARIABLES
    nat,             \* Connection.nat_traversal: the state, or Disabled
    conn,            \* "up", or "closed" with a PROTOCOL_VIOLATION
    path,            \* the address the connection runs over
    frames,          \* ADD_ADDRESS and REMOVE_ADDRESS frames the peer has sent
    challenges,      \* PATH_CHALLENGEs sent: address and challenge
    echoed,          \* PATH_RESPONSEs received: source address and challenge
    used             \* how much of each bound has been used

vars == <<nat, conn, path, frames, challenges, echoed, used>>

-----------------------------------------------------------------------------
(* State *)

\* None, for the whole state and for its coordination round.
Disabled == [round |-> "disabled"]
NoRound  == [phase |-> "None"]

\* The challenge of a validation that trigger_candidate_validation records:
\* drawn at random, and never sent.
NeverSent == 0

Candidate(addr, state) == [addr |-> addr, state |-> state]

Validation(challenge) == [challenge |-> challenge, retries |-> 0, timeouts |-> 0]

\* CoordinationState.  retries is retry_count, timeouts is
\* timeout_state.consecutive_timeouts.
Round(round, targets, phase, peer_received) ==
    [round |-> round, targets |-> targets, phase |-> phase, request_sent |-> FALSE,
     peer_received |-> peer_received, retries |-> 0, timeouts |-> 0]

NewState ==
    [local         |-> <<>>,     \* sequence number -> address
     remote        |-> <<>>,     \* sequence number -> candidate
     pairs         |-> <<>>,     \* candidate_pairs
     index         |-> <<>>,     \* pair_index: remote address -> index
     validations   |-> <<>>,     \* active_validations: address -> validation
     round         |-> NoRound,
     next_sequence |-> 1,
     responded     |-> FALSE]    \* network_monitor has recorded a success

Without(f, x) == [y \in DOMAIN f \ {x} |-> f[y]]
With(f, x, v) == [y \in DOMAIN f \cup {x} |-> IF y = x THEN v ELSE f[y]]

AddressesOf(candidates) == {candidates[s].addr : s \in DOMAIN candidates}

-----------------------------------------------------------------------------
(* Candidate pairs *)

\* calculate_pair_priority, with a span that keeps the order of 2^32.
Span == 1000
PairPriority(g, d) ==
    Span * Min({g, d}) + 2 * Max({g, d}) + IF g > d THEN 1 ELSE 0

\* classify_pair_type: local candidates are host candidates, an advertised one
\* is peer reflexive, a predicted one server reflexive.
PairTypeOf(seq) == IF seq \in 1 .. MaxSeq THEN "PeerReflexive" ELSE "HostToServerReflexive"

Pair(local, seq, remote) ==
    [seq |-> seq, local |-> local, addr |-> remote, type |-> PairTypeOf(seq),
     prio |-> PairPriority(Prio[local], Prio[remote]), state |-> "Waiting"]

\* The place of a pair when the highest priority comes first.
Rank(pairs, i) ==
    Cardinality({j \in DOMAIN pairs : \/ pairs[j].prio > pairs[i].prio
                                     \/ (pairs[j].prio = pairs[i].prio /\ j <= i)})
Sorted(pairs) == [k \in DOMAIN pairs |-> pairs[CHOOSE i \in DOMAIN pairs : Rank(pairs, i) = k]]

FirstPairs(pairs) ==
    [a \in {pairs[i].addr : i \in DOMAIN pairs} |-> Min({i \in DOMAIN pairs : pairs[i].addr = a})]

\* Mutant: the pairs are sorted, and the index is only extended.
SortWithoutReindex(n, pairs) ==
    LET all == FirstPairs(Sorted(pairs))
    IN [n EXCEPT !.pairs = Sorted(pairs),
                 !.index = [a \in DOMAIN all |-> IF a \in DOMAIN @ THEN @[a] ELSE all[a]]]

(* sort_and_reindex_pairs: highest priority first; the index of an address *)
(* is that of its first pair.                                              *)
SortAndReindex(n, pairs) == [n EXCEPT !.pairs = Sorted(pairs), !.index = FirstPairs(Sorted(pairs))]

SeqOfSet(S) == CHOOSE f \in [1 .. Cardinality(S) -> S] : \A x \in S : \E i \in DOMAIN f : f[i] = x
Take(S, k) == CHOOSE T \in SUBSET S : Cardinality(T) = Min({k, Cardinality(S)})

(* add_pairs_for_remote_candidate *)
AddPairsForRemote(n, seq) ==
    LET new == {Pair(n.local[l], seq, n.remote[seq].addr) : l \in DOMAIN n.local}
        room == MaxPairs - Len(n.pairs)
    IN IF Len(n.pairs) >= MaxPairs \/ new = {}
       THEN n ELSE SortAndReindex(n, n.pairs \o SeqOfSet(Take(new, room)))

(* generate_candidate_pairs: every pair anew, and none of them tested. *)
GeneratePairs(n) ==
    LET live == {s \in DOMAIN n.remote : n.remote[s].state # "Removed"}
    IN SortAndReindex(n, SeqOfSet({Pair(n.local[l], s, n.remote[s].addr) : l \in DOMAIN n.local, s \in live}))

(* get_next_validation_pairs: the first k of those that wait. *)
WaitingPairs(n, k) ==
    LET waiting == {i \in DOMAIN n.pairs : n.pairs[i].state = "Waiting"}
    IN [j \in 1 .. Min({k, Cardinality(waiting)}) |->
          n.pairs[CHOOSE i \in waiting : Cardinality({h \in waiting : h <= i}) = j]]

(* mark_pair_succeeded: the indexed pair, and weaker ones of its type are frozen. *)
MarkPairSucceeded(n, addr) ==
    IF addr \notin DOMAIN n.index THEN n
    ELSE LET won == n.index[addr] IN
         [n EXCEPT !.pairs = [i \in DOMAIN @ |->
            CASE i = won -> [@[i] EXCEPT !.state = "Succeeded"]
              [] /\ i # won
                 /\ @[i].type = @[won].type
                 /\ @[i].prio < @[won].prio
                 /\ @[i].state = "Waiting" -> [@[i] EXCEPT !.state = "Frozen"]
              [] OTHER -> @[i]]]

(* get_best_succeeded_pairs, for one address family. *)
BestSucceeded(n) ==
    {n.pairs[i] : i \in {j \in DOMAIN n.pairs :
        /\ n.pairs[j].state = "Succeeded"
        /\ \A k \in DOMAIN n.pairs : n.pairs[k].state = "Succeeded" => n.pairs[k].prio <= n.pairs[j].prio}}

-----------------------------------------------------------------------------
(* Frames from the peer *)

\* generate_predicted_candidates: any of the predictor's guesses, unless the
\* address is known, as long as there is room.
WithPrediction(n, p) ==
    IF p.addr \in AddressesOf(n.remote) \/ Cardinality(DOMAIN n.remote) >= MaxCandidates
    THEN n
    ELSE AddPairsForRemote([n EXCEPT !.remote = With(@, p.seq, Candidate(p.addr, "New"))], p.seq)

(* trigger_candidate_validation *)
TriggerValidation(n, addr) ==
    IF addr \in DOMAIN n.validations THEN n
    ELSE [n EXCEPT !.validations = With(@, addr, Validation(NeverSent))]

\* The part of add_remote_candidate after its checks.
WithCandidate(n, seq, addr) ==
    AddPairsForRemote([n EXCEPT !.remote = With(@, seq, Candidate(addr, "New"))], seq)

Known(n, addr) ==
    \E s \in DOMAIN n.remote : n.remote[s].addr = addr /\ n.remote[s].state # "Removed"

(* handle_add_address *)
AddAddress(f) ==
    /\ f.type = "ADD"
    /\ \/ /\ nat = Disabled                      \* no NAT state: a protocol violation
          /\ conn' = "closed"
          /\ UNCHANGED nat
       \/ /\ nat # Disabled
          /\ f.addr # path
          /\ Cardinality(DOMAIN nat.remote) >= MaxCandidates
          /\ conn' = "closed"
          /\ UNCHANGED nat
       \/ /\ nat # Disabled
          /\ f.addr # path
          /\ Cardinality(DOMAIN nat.remote) < MaxCandidates
          /\ ~Known(nat, f.addr)
          /\ LET added == WithCandidate(nat, f.seq, f.addr) IN
               \E n \in {added} \cup {WithPrediction(added, p) : p \in Predictions} :
                  nat' = TriggerValidation(n, f.addr)
          /\ UNCHANGED conn
    /\ UNCHANGED <<path, frames, challenges, echoed, used>>

(* handle_remove_address *)
RemoveAddress(f) ==
    /\ f.type = "REMOVE"
    /\ \/ /\ nat = Disabled
          /\ conn' = "closed"
          /\ UNCHANGED nat
       \/ /\ nat # Disabled
          /\ f.seq \in DOMAIN nat.remote
          /\ nat' = [nat EXCEPT !.remote[f.seq].state = "Removed",
                                !.validations = Without(@, nat.remote[f.seq].addr)]
          /\ UNCHANGED conn
    /\ UNCHANGED <<path, frames, challenges, echoed, used>>

\* handle_peer_punch_request: a round that is past negotiation, or another
\* one, is dropped for the peer's.
PeerPunched(r, round) ==
    IF r # NoRound /\ r.phase \in {"Requesting", "Coordinating"} /\ r.round = round
    THEN [r EXCEPT !.peer_received = TRUE, !.phase = "Preparing"]
    ELSE Round(round, <<>>, "Preparing", TRUE)

\* is_peer_coordination_suspicious, for the rounds of a peer, which are not 0.
Suspicious(r, round) ==
    r # NoRound /\ (round > r.round + MaxRoundGap \/ round + MaxRoundGap < r.round)

(* handle_punch_me_now, for a frame without target_peer_id. *)
PunchMeNow(round) ==
    /\ used.punches < MaxPunches
    /\ used' = [used EXCEPT !.punches = @ + 1]
    /\ \/ /\ nat = Disabled
          /\ conn' = "closed"
          /\ UNCHANGED nat
       \/ /\ nat # Disabled
          /\ Suspicious(nat.round, round)
          /\ conn' = "closed"
          /\ UNCHANGED nat
       \/ /\ nat # Disabled
          /\ ~Suspicious(nat.round, round)
          /\ nat' = [nat EXCEPT !.round = PeerPunched(@, round)]
          /\ UNCHANGED conn
    /\ UNCHANGED <<path, frames, challenges, echoed>>

\* Mutant: any echo from an address under validation is taken for its answer.
ExpectedFromAddress(addr, challenge) == addr \in DOMAIN nat.validations

\* handle_validation_success: the challenge of the address' own validation.
Expected(addr, challenge) ==
    addr \in DOMAIN nat.validations /\ nat.validations[addr].challenge = challenge

\* handle_event: a client discards datagrams from any address but its path's.
Accepted(addr) == RemoteMayMigrate \/ addr = path

\* Mutant: a target that answers ends the round before we have punched.
CompletesRoundEarly(r, addr) ==
    /\ r # NoRound
    /\ r.phase \in {"Preparing", "Punching", "Validating"}
    /\ \E i \in DOMAIN r.targets : r.targets[i].addr = addr

\* handle_coordination_success
CompletesRound(r, addr) ==
    /\ r # NoRound
    /\ r.phase = "Validating"
    /\ \E i \in DOMAIN r.targets : r.targets[i].addr = addr

(* handle_validation_success, then handle_coordination_success with the    *)
(* migration it may lead to, or mark_pair_succeeded.  The candidate is the *)
(* first one found with the address, whatever its state.                   *)
PathResponse(addr, challenge) ==
    /\ nat # Disabled
    /\ <<addr, challenge>> \notin echoed
    /\ echoed' = echoed \cup {<<addr, challenge>>}
    /\ \/ /\ Accepted(addr)
          /\ Expected(addr, challenge)
          /\ \E s \in {t \in DOMAIN nat.remote : nat.remote[t].addr = addr} :
               LET valid == [nat EXCEPT !.remote[s].state = "Valid",
                                        !.validations = Without(@, addr),
                                        !.responded = TRUE]
               IN \/ /\ CompletesRound(nat.round, addr)
                     /\ nat' = [valid EXCEPT !.round.phase = "Succeeded", !.round.timeouts = 0]
                     /\ path' = IF addr \in {b.addr : b \in BestSucceeded(valid)} THEN addr ELSE path
                  \/ /\ ~CompletesRound(nat.round, addr)
                     /\ nat' = MarkPairSucceeded(valid, addr)
                     /\ UNCHANGED path
       \/ /\ ~(/\ Accepted(addr)
               /\ Expected(addr, challenge)
               /\ addr \in AddressesOf(nat.remote))
          /\ UNCHANGED <<nat, path>>
    /\ UNCHANGED <<conn, frames, challenges, used>>

-----------------------------------------------------------------------------
(* poll_transmit *)

\* Bound: failures counted for one round.
RetryCap == 2 * MaxRetries + 1

(* handle_coordination_failure.  is_suitable_for_coordination depends on   *)
(* the history of round trips and timeouts: it may be so (good) only after *)
(* a success, since the timeout being counted is a rate of one otherwise.  *)
CoordinationFailure(n, good) ==
    LET r == [n.round EXCEPT !.retries = @ + 1, !.timeouts = @ + 1]
    IN [n EXCEPT
          !.round = IF r.timeouts < MaxRetries /\ good /\ n.responded
                    THEN [r EXCEPT !.phase = "Requesting", !.request_sent = FALSE, !.peer_received = FALSE]
                    ELSE [r EXCEPT !.phase = "Failed"]]

(* check_validation_timeouts *)
CheckValidationTimeouts(n, late) ==
    LET expired == {a \in late : n.validations[a].timeouts >= MaxRetries}
        counted(v) == [v EXCEPT !.retries = @ + 1, !.timeouts = @ + 1]
    IN [n EXCEPT !.validations = [a \in DOMAIN @ \ expired |-> IF a \in late THEN counted(@[a]) ELSE @[a]]]

(* send_coordination_request: one PUNCH_ME_NOW per target. *)
SendCoordinationRequest(n) ==
    LET r == n.round IN
    IF r # NoRound /\ r.phase = "Requesting" /\ ~r.request_sent /\ r.targets # <<>>
    THEN [n EXCEPT !.round.request_sent = TRUE, !.round.phase = "Coordinating"]
    ELSE n

\* Mutant: the grace period alone starts the punching.
ShouldStartUnsynchronized(r, due) ==
    r # NoRound /\ due /\ r.phase \in {"Preparing", "Coordinating"}

(* should_start_punching *)
ShouldStartPunching(r, due) ==
    /\ r # NoRound
    /\ due
    /\ \/ r.phase = "Preparing"
       \/ r.phase = "Coordinating" /\ r.peer_received

(* start_punching_phase *)
StartPunching(n, due) ==
    IF ShouldStartPunching(n.round, due) THEN [n EXCEPT !.round.phase = "Punching"] ELSE n

Punching(n) == n.round # NoRound /\ n.round.phase = "Punching" /\ n.round.targets # <<>>

\* get_validation_candidates: the first of them.
FirstNew(n) ==
    {s \in DOMAIN n.remote :
        /\ n.remote[s].state = "New"
        /\ \A t \in DOMAIN n.remote :
              n.remote[t].state = "New" => Prio[n.remote[t].addr] <= Prio[n.remote[s].addr]}

(* start_validation *)
StartValidation(n, s, challenge) ==
    [n EXCEPT !.remote[s].state = "Validating",
              !.validations = With(@, n.remote[s].addr, Validation(challenge))]

\* What poll_transmit does before it looks for something to send.
BeforeSending(late_round, late, due, good) ==
    LET n1 == IF late_round THEN CoordinationFailure(nat, good) ELSE nat
    IN StartPunching(SendCoordinationRequest(CheckValidationTimeouts(n1, late)), due)

PollTransmit(late_round, late, due, good) ==
    /\ nat # Disabled
    /\ late_round => nat.round # NoRound /\ nat.round.retries < RetryCap
    /\ LET n == BeforeSending(late_round, late, due, good) IN
       \/ /\ Punching(n)                  \* send_coordinated_path_challenge
          /\ nat' = [n EXCEPT !.round.phase = "Validating"]
          /\ challenges' = challenges \cup {<<n.round.targets[1].addr, n.round.targets[1].challenge>>}
          /\ UNCHANGED used
       \/ /\ ~Punching(n)
          /\ Cardinality(DOMAIN n.validations) < MaxConcurrent
          /\ used.challenges < MaxChallenges
          /\ used' = [used EXCEPT !.challenges = @ + 1]
          /\ \E s \in FirstNew(n) :
               /\ nat' = StartValidation(n, s, used.challenges + 1)
               /\ challenges' = challenges \cup {<<n.remote[s].addr, used.challenges + 1>>}
       \/ /\ ~Punching(n)
          /\ FirstNew(n) = {} \/ Cardinality(DOMAIN n.validations) >= MaxConcurrent
          /\ nat' = n
          /\ UNCHANGED <<challenges, used>>
    /\ UNCHANGED <<conn, path, frames, echoed>>

-----------------------------------------------------------------------------
(* The NAT timer *)

\* Mutant: the retries of an unanswered punch are not counted.
TimedOutUncounted(r) ==
    CASE r.phase \in {"Requesting", "Coordinating"} ->
            [r EXCEPT !.retries = @ + 1, !.phase = IF r.retries + 1 >= MaxRetries THEN "Failed" ELSE "Requesting"]
      [] r.phase = "Preparing" -> [r EXCEPT !.phase = "Punching"]
      [] r.phase \in {"Punching", "Validating"} -> [r EXCEPT !.phase = "Punching"]
      [] OTHER -> r

\* The round's part of NatTraversalState::handle_timeout, past its deadline.
TimedOut(r) ==
    CASE r.phase \in {"Requesting", "Coordinating"} ->
            [r EXCEPT !.retries = @ + 1, !.phase = IF r.retries + 1 >= MaxRetries THEN "Failed" ELSE "Requesting"]
      [] r.phase = "Preparing" -> [r EXCEPT !.phase = "Punching"]
      [] r.phase \in {"Punching", "Validating"} ->
            [r EXCEPT !.retries = @ + 1, !.phase = IF r.retries + 1 >= MaxRetries THEN "Failed" ELSE "Punching"]
      [] OTHER -> r

\* The validations' part: a validation out of retries is dropped.
ExpireValidations(n, late) ==
    LET expired == {a \in late : n.validations[a].retries + 1 >= MaxRetries}
        counted(v) == [v EXCEPT !.retries = @ + 1]
    IN [n EXCEPT !.validations = [a \in DOMAIN @ \ expired |-> IF a \in late THEN counted(@[a]) ELSE @[a]]]

(* handle_nat_traversal_timeout: a failed round disables NAT traversal.    *)
NatTimer(due, late) ==
    /\ nat # Disabled
    /\ LET r == IF nat.round # NoRound /\ due THEN TimedOut(nat.round) ELSE nat.round
       IN nat' = IF r # NoRound /\ r.phase = "Failed"
                 THEN Disabled
                 ELSE ExpireValidations([nat EXCEPT !.round = r], late)
    /\ UNCHANGED <<conn, path, frames, challenges, echoed, used>>

-----------------------------------------------------------------------------
(* Our side's calls *)

(* send_nat_address_advertisement: no pair is made for the new address. *)
AdvertiseLocal(a) ==
    /\ nat # Disabled
    /\ a \notin used.locals
    /\ used' = [used EXCEPT !.locals = @ \cup {a}]
    /\ nat' = [nat EXCEPT !.local = With(@, nat.next_sequence, a), !.next_sequence = @ + 1]
    /\ UNCHANGED <<conn, path, frames, challenges, echoed>>

(* send_nat_address_removal *)
WithdrawLocal(s) ==
    /\ nat' = [nat EXCEPT !.local = Without(@, s)]
    /\ UNCHANGED <<conn, path, frames, challenges, echoed, used>>

(* initiate_nat_traversal_coordination: does anything only while a round   *)
(* is to be requested.  The pairs are made anew; start_coordination_round  *)
(* refuses targets that repeat an address.                                 *)
InitiateCoordination ==
    /\ nat # Disabled
    /\ nat.round # NoRound /\ nat.round.phase = "Requesting" /\ ~nat.round.request_sent
    /\ used.rounds < MaxRounds
    /\ LET n == GeneratePairs(nat)
           pairs == WaitingPairs(n, 3)
           distinct == Cardinality({pairs[i].addr : i \in DOMAIN pairs}) = Len(pairs)
           targets == [i \in DOMAIN pairs |-> [addr |-> pairs[i].addr, challenge |-> used.challenges + i]]
       IN \/ /\ pairs = <<>> \/ ~distinct
             /\ nat' = n
             /\ UNCHANGED used
          \/ /\ pairs # <<>> /\ distinct
             /\ used.challenges + Len(pairs) <= MaxChallenges
             /\ nat' = [n EXCEPT
                  !.round = [Round(n.next_sequence, targets, "Coordinating", FALSE) EXCEPT !.request_sent = TRUE],
                  !.next_sequence = @ + 1]
             /\ used' = [used EXCEPT !.rounds = @ + 1, !.challenges = @ + Len(pairs)]
    /\ UNCHANGED <<conn, path, frames, challenges, echoed>>

-----------------------------------------------------------------------------
(* The peer *)

\* ADD_ADDRESS frames that the peer has not taken back.
Advertised ==
    {f \in frames : f.type = "ADD" /\ ~\E g \in frames : g.type = "REMOVE" /\ g.seq = f.seq}

PeerAdvertises(a) ==
    /\ used.seq < MaxSeq
    /\ Cardinality(Advertised) < MaxLive
    /\ \A f \in Advertised : f.addr # a
    /\ used' = [used EXCEPT !.seq = @ + 1]
    /\ frames' = frames \cup {[type |-> "ADD", seq |-> used.seq + 1, addr |-> a]}
    /\ UNCHANGED <<nat, conn, path, challenges, echoed>>

PeerRemoves(f) ==
    /\ frames' = frames \cup {[f EXCEPT !.type = "REMOVE"]}
    /\ UNCHANGED <<nat, conn, path, challenges, echoed, used>>

Init ==
    /\ nat = NewState
    /\ conn = "up"
    /\ path = Home
    /\ frames = {}
    /\ challenges = {}
    /\ echoed = {}
    /\ used = [seq |-> 0, punches |-> 0, challenges |-> 0, rounds |-> 0, locals |-> {}]

\* Addresses of validations whose deadline may have passed.
Pending == IF nat = Disabled THEN {} ELSE DOMAIN nat.validations

\* Rounds the peer may ask for: its own count starts at one.
PeerRounds == 1 .. MaxRounds + 2

Next ==
    /\ conn = "up"
    /\ \/ \E a \in Addrs : PeerAdvertises(a)
       \/ \E f \in Advertised : PeerRemoves(f)
       \/ \E f \in frames : AddAddress(f) \/ RemoveAddress(f)
       \/ \E r \in PeerRounds : PunchMeNow(r)
       \/ \E a \in Addrs, sent \in challenges : PathResponse(a, sent[2])
       \/ \E late \in SUBSET Pending, due \in BOOLEAN :
             \/ \E late_round, good \in BOOLEAN : PollTransmit(late_round, late, due, good)
             \/ NatTimer(due, late)
       \/ \E a \in LocalAddrs : AdvertiseLocal(a)
       \/ nat # Disabled /\ \E s \in DOMAIN nat.local : WithdrawLocal(s)
       \/ InitiateCoordination

Spec == Init /\ [][Next]_vars

(* poll_timeout arms the NAT timer for every deadline of the state, and    *)
(* the driver calls handle_timeout when it passes.  Nothing is assumed of  *)
(* the peer, of the network or of the calls of our side.                   *)
FairSpec == Spec /\ WF_vars(conn = "up" /\ NatTimer(TRUE, Pending))

-----------------------------------------------------------------------------
(* Properties *)

\* The pair index finds, for every address with a pair, the best pair of that
\* address, whatever additions and regenerations came in between
\* (sort_and_reindex_pairs; mark_pair_succeeded relies on it).
PairIndexBest ==
    nat # Disabled =>
        /\ DOMAIN nat.index = {nat.pairs[i].addr : i \in DOMAIN nat.pairs}
        /\ \A a \in DOMAIN nat.index :
              /\ nat.pairs[nat.index[a]].addr = a
              /\ \A i \in DOMAIN nat.pairs :
                    nat.pairs[i].addr = a => nat.pairs[i].prio <= nat.pairs[nat.index[a]].prio

\* An address was proven reachable if a challenge sent to it came back from it.
Proven(a) == \E c \in 1 .. MaxChallenges : <<a, c>> \in challenges \cap echoed

\* Nothing counts as usable that was not proven: neither a valid candidate nor
\* a succeeded pair, also when echoes come back from other addresses, late, or
\* for validations that were dropped or begun anew (handle_validation_success,
\* mark_pair_succeeded).
UsableIsProven ==
    nat # Disabled =>
        /\ \A s \in DOMAIN nat.remote : nat.remote[s].state = "Valid" => Proven(nat.remote[s].addr)
        /\ \A i \in DOMAIN nat.pairs : nat.pairs[i].state = "Succeeded" => Proven(nat.pairs[i].addr)

\* The connection moves to a proven address only, and only when both sides have
\* punched: a candidate that happens to answer while the round is still being
\* negotiated does not end the round (migrate_to_nat_traversal_path).
PathMovesAfterPunch ==
    [][path' # path => /\ Proven(path)'
                       /\ nat.round.peer_received
                       /\ <<nat.round.targets[1].addr, nat.round.targets[1].challenge>> \in challenges]_vars

\* Hole punching is simultaneous or not at all: challenges are sent only in a
\* round for which the peer's PUNCH_ME_NOW has arrived since its last retry
\* (should_start_punching, handle_coordination_failure).
PunchIsSynchronized ==
    nat # Disabled /\ nat.round # NoRound =>
        (nat.round.phase \in {"Punching", "Validating", "Succeeded"} => nat.round.peer_received)

\* A round comes to an end, in success or in failure, however often its retry
\* paths (the timer's and poll_transmit's) take turns.
RoundActive == conn = "up" /\ nat # Disabled /\ nat.round # NoRound
                 /\ nat.round.phase \notin {"Succeeded", "Failed"}
RoundEnds == RoundActive ~> ~RoundActive

\* "Don't terminate connection for non-critical errors": the connection that
\* carries the frames outlives failed hole punching.
ConnectionSurvives == conn = "up"
=============================================================================
