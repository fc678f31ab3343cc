----------------------------- MODULE DialLadder -----------------------------
(***************************************************************************)
(* Dialling a peer by P2pEndpoint::connect_with_fallback: calls for one    *)
(* target share one dial through the table of pending dials; the call that *)
(* owns the dial climbs the ladder of ConnectionStrategy, from the direct  *)
(* addresses, raced by Happy Eyeballs, over hole punching to a relay.      *)
(*                                                                         *)
(* The calls are asynchronous: each await is a point at which other calls  *)
(* run and at which the caller may drop the future.  Timeouts are taken at *)
(* any time; that a pending dial outlives what a waiting call allows it is *)
(* the step Overrun: the wait is computed from the waiting call's own      *)
(* configuration, and finalisation and locks are outside of every budget.  *)
(* A dial's errors are kept by the code for one message and left out here. *)
(***************************************************************************)
EXTENDS Naturals, Sequences, FiniteSets

LOCAL INSTANCE Functions

CONSTANTS
    Calls,        \* calls of connect_with_fallback for one target, in their order
    DialSettings  \* the configurations to check, see DialSetting

\* A configuration: the direct addresses by their family, StrategyConfig, and
\* how often the environment may act.
DialSetting ==
    [addrs : Seq({"v4", "v6"}),     \* target_ipv6 and target_ipv4, those given
     endpoint : BOOLEAN,            \* the QUIC endpoint is there
     ipv6 : BOOLEAN, punch : BOOLEAN, relay : BOOLEAN,
     coordinator : BOOLEAN,         \* a coordinator was found
     relays : Nat,                  \* length of relay_addrs
     rounds : Nat,                  \* max_holepunch_rounds
     callers : SUBSET Calls,
     drops : Nat,                   \* bound: futures dropped by their callers
     overruns : Nat,                \* bound: dials that outlive their budget
     arrivals : Nat,                \* bound: connections the target makes to us
     shutdowns : Nat]

ASSUME DialSettingsTyped == Calls \subseteq Nat /\ DialSettings \subseteq DialSetting

VARIABLES
    ladder,      \* the configuration
    calls,       \* call -> its progress
    pending,     \* id of the entry of pending_dials, 0 if there is none
    slots,       \* id -> its broadcast channel, and whether the dial has overrun
    known,       \* inner.is_connected(target)
    down,        \* the shutdown token is cancelled
    dialChances      \* drops, overruns, arrivals and shutdowns left
dialVars == <<ladder, calls, pending, slots, known, down, dialChances>>

------------------------------------------------------------------------------
(* Happy Eyeballs.                                                         *)

\* sort_addresses: the first address of the preferred family, IPv6, then the
\* families in turn, beginning with the other one, then what is left.
SortAddresses(addrs) ==
    LET preferred == SelectSeq(addrs, LAMBDA a : a = "v6")
        others    == SelectSeq(addrs, LAMBDA a : a # "v6")
        first     == IF preferred = <<>> THEN <<>> ELSE <<Head(preferred)>>
        rest      == IF preferred = <<>> THEN <<>> ELSE Tail(preferred)
        both      == IF Len(others) < Len(rest) THEN Len(others) ELSE Len(rest)
        longer    == IF Len(others) < Len(rest) THEN rest ELSE others
    IN  first \o [i \in 1 .. Len(others) + Len(rest) |->
                    CASE i > 2 * both -> longer[i - both]
                      [] i % 2 = 1    -> others[(i + 1) \div 2]
                      [] OTHER        -> rest[i \div 2]]

\* A race before its first attempt.  Attempts are tasks; they send their
\* result to the inbox of the race.
NoRace == [next |-> 1, attempt |-> <<>>, inbox |-> <<>>]

\* spawn_attempt for the next address.
Spawn(r) == [r EXCEPT !.next = @ + 1, !.attempt = Append(@, "dialling")]

\* in_flight: attempts started whose failure has not been received.
InFlight(r) == Cardinality({i \in DOMAIN r.attempt : r.attempt[i] = "dialling"}) + Len(r.inbox)

\* Mutant: a guard without Drop leaves the tasks of a dropped race detached.
EndRaceDetached(r, keep) ==
    [r EXCEPT !.attempt = [i \in DOMAIN @ |->
                  IF keep = {} \/ i \in keep \/ @[i] = "lost" THEN @[i] ELSE "aborted"],
              !.inbox = <<>>]

\* abort_all, and the drop of the channel with the connections in it; keep
\* is the attempt whose connection is returned, if any.
EndRace(r, keep) ==
    [r EXCEPT !.attempt = [i \in DOMAIN @ |->
                  IF i \in keep \/ @[i] = "lost" THEN @[i] ELSE "aborted"],
              !.inbox = <<>>]

------------------------------------------------------------------------------
(* ConnectionStrategy: the transitions, on a call's progress s.            *)

RelayInternal(s) ==
    [s EXCEPT !.stage = IF ladder.relay /\ ladder.relays > 0 THEN "relay" ELSE "failed"]

\* Mutant: without a coordinator the ladder ends.
HolepunchOrFail(s) ==
    IF ladder.punch
      THEN [s EXCEPT !.stage = IF ladder.coordinator THEN "punch" ELSE "failed", !.round = 1]
      ELSE RelayInternal(s)

HolepunchInternal(s) ==
    IF ladder.punch /\ ladder.coordinator
      THEN [s EXCEPT !.stage = "punch", !.round = 1]
      ELSE RelayInternal(s)

TransitionToIpv6(s) ==
    IF ladder.ipv6 THEN [s EXCEPT !.stage = "direct6"] ELSE HolepunchInternal(s)

TransitionToHolepunch(s) == HolepunchInternal(s)

\* Mutant: after the last round the first one begins again.
RetryForever(s) == [s EXCEPT !.round = IF @ < ladder.rounds THEN @ + 1 ELSE 1]

\* should_retry_holepunch, then increment_round or transition_to_relay.
NextRound(s) ==
    IF s.round < ladder.rounds THEN [s EXCEPT !.round = @ + 1] ELSE RelayInternal(s)

------------------------------------------------------------------------------
(* The table of pending dials.                                             *)

\* ConnectionStrategy::new, and a call that has not begun.
Uncalled ==
    [pc |-> "idle", id |-> 0, sub |-> 0, stage |-> "direct4", round |-> 0,
     race |-> NoRace, tried |-> {}, result |-> "none"]

DialInit ==
    /\ ladder \in DialSettings
    /\ calls = [c \in Calls |-> Uncalled]
    /\ pending = 0
    /\ slots = <<>>
    /\ known = FALSE
    /\ down = FALSE
    /\ dialChances = [drops |-> ladder.drops, overruns |-> ladder.overruns,
                  arrivals |-> ladder.arrivals, shutdowns |-> ladder.shutdowns]

Becomes(c, s) == calls' = [calls EXCEPT ![c] = s]
Moves(c, pc) == Becomes(c, [calls[c] EXCEPT !.pc = pc])
Finishes(c, r) == Becomes(c, [Uncalled EXCEPT !.pc = "ended", !.result = r])
Returns(c, r) == Becomes(c, [calls[c] EXCEPT !.pc = "finish", !.result = r])

\* The entry is dropped with its sender: receivers see the channel closed.
Closed(id) == [slots EXCEPT ![id].answer = "closed"]

\* Mutant: the entry of the target goes, whoever owns it.
RemoveAny(id) ==
    /\ pending' = 0
    /\ slots' = IF pending = 0 THEN slots ELSE Closed(pending)

RemovePendingIfOwned(id) ==
    /\ pending' = IF pending = id THEN 0 ELSE pending
    /\ slots' = IF pending = id THEN Closed(id) ELSE slots

\* The call begins; it ends at once when the endpoint is shutting down.
Call(c) ==
    /\ calls[c].pc = "idle" /\ c \in ladder.callers
    /\ \A b \in ladder.callers : b < c => calls[b].pc # "idle"
    /\ IF down THEN Finishes(c, "down") ELSE Moves(c, "ask")
    /\ UNCHANGED <<ladder, pending, slots, known, down, dialChances>>

\* One turn of the loop under the lock of pending_dials: wait for the dial in
\* flight, remove one that has overrun, or register as the owner of a dial.
Ask(c) ==
    /\ calls[c].pc = "ask"
    /\ \/ /\ ladder.addrs = <<>>
          /\ Moves(c, "dial")
          /\ UNCHANGED <<pending, slots>>
       \/ /\ ladder.addrs # <<>> /\ pending # 0 /\ ~slots[pending].stale
          /\ Becomes(c, [calls[c] EXCEPT !.pc = "wait", !.sub = pending])
          /\ UNCHANGED <<pending, slots>>
       \/ /\ ladder.addrs # <<>> /\ pending # 0 /\ slots[pending].stale
          /\ pending' = 0
          /\ slots' = Closed(pending)
          /\ UNCHANGED calls
       \/ /\ ladder.addrs # <<>> /\ pending = 0
          /\ slots' = Append(slots, [answer |-> "open", stale |-> FALSE])
          /\ pending' = Len(slots) + 1
          /\ Becomes(c, [calls[c] EXCEPT !.pc = "dial", !.id = Len(slots) + 1])
    /\ UNCHANGED <<ladder, known, down, dialChances>>

\* rx.recv() returns: a waiting call shares a success, and otherwise asks again.
Answered(c) ==
    /\ calls[c].pc = "wait" /\ slots[calls[c].sub].answer # "open"
    /\ IF slots[calls[c].sub].answer = "ok"
         THEN Finishes(c, "ok")
         ELSE Moves(c, "ask")
    /\ UNCHANGED <<ladder, pending, slots, known, down, dialChances>>

\* The wait times out; the entry is removed under a lock taken later.
WaitTimesOut(c) ==
    /\ calls[c].pc = "wait"
    /\ slots[calls[c].sub].answer = "open" /\ slots[calls[c].sub].stale
    /\ Moves(c, "evict")
    /\ UNCHANGED <<ladder, pending, slots, known, down, dialChances>>

Evict(c) ==
    /\ calls[c].pc = "evict"
    /\ RemovePendingIfOwned(calls[c].sub)
    /\ Moves(c, "ask")
    /\ UNCHANGED <<ladder, known, down, dialChances>>

\* PendingDialGuard::complete: only the owner of the entry answers.
Complete(c) ==
    /\ calls[c].pc = "finish"
    /\ Finishes(c, calls[c].result)
    /\ IF calls[c].id # 0 /\ pending = calls[c].id
         THEN /\ pending' = 0
              /\ slots' = [slots EXCEPT ![pending].answer = calls[c].result]
         ELSE UNCHANGED <<pending, slots>>
    /\ UNCHANGED <<ladder, known, down, dialChances>>

\* The caller drops the future: the attempts of a race are aborted, and the
\* guard of a pending dial starts a task that removes its entry.
Drop(c) ==
    /\ calls[c].pc \in {"ask", "wait", "evict", "dial", "finalize", "finish"}
    /\ dialChances.drops > 0
    /\ dialChances' = [dialChances EXCEPT !.drops = @ - 1]
    /\ Becomes(c, [calls[c] EXCEPT !.pc = IF @ \in {"dial", "finalize", "finish"} /\ calls[c].id # 0
                                         THEN "cleanup" ELSE "ended",
                                !.race = EndRace(@, {}), !.result = "dropped"])
    /\ UNCHANGED <<ladder, pending, slots, known, down>>

Cleanup(c) ==
    /\ calls[c].pc = "cleanup"
    /\ RemovePendingIfOwned(calls[c].id)
    /\ Finishes(c, "dropped")
    /\ UNCHANGED <<ladder, known, down, dialChances>>

------------------------------------------------------------------------------
(* connect_with_fallback_inner: one turn of its loop or one event in it.   *)

\* The top of the loop, before the call has begun what its stage asks for.
Turn(c) == calls[c].pc = "dial" /\ calls[c].race = NoRace

\* The loop ends when the target has become connected by then.
FoundConnected(c) ==
    /\ Turn(c) /\ known /\ ladder.addrs # <<>>
    /\ Returns(c, "ok")
    /\ UNCHANGED <<ladder, pending, slots, known, down, dialChances>>

Stage(c, stage) == Turn(c) /\ ~(known /\ ladder.addrs # <<>>) /\ calls[c].stage = stage

\* Nothing to race, or nothing to race with.
SkipDirect(c) ==
    /\ Stage(c, "direct4") /\ (ladder.addrs = <<>> \/ ~ladder.endpoint)
    /\ Becomes(c, IF ladder.addrs = <<>> THEN TransitionToIpv6(calls[c])
               ELSE TransitionToHolepunch(TransitionToIpv6(calls[c])))
    /\ UNCHANGED <<ladder, pending, slots, known, down, dialChances>>

StartRace(c) ==
    /\ Stage(c, "direct4") /\ ladder.addrs # <<>> /\ ladder.endpoint
    /\ Becomes(c, [calls[c] EXCEPT !.race = Spawn(@)])
    /\ UNCHANGED <<ladder, pending, slots, known, down, dialChances>>

\* An attempt connects or fails, by its timeouts at the latest.
AttemptEnds(c) ==
    /\ \E i \in DOMAIN calls[c].race.attempt, end \in {"won", "lost"} :
         /\ calls[c].race.attempt[i] = "dialling"
         /\ Becomes(c, [calls[c] EXCEPT !.race.attempt[i] = end,
                                     !.race.inbox = Append(@, i)])
    /\ UNCHANGED <<ladder, pending, slots, known, down, dialChances>>

\* Is there an address that has not been tried?
More(c) == calls[c].race.next <= Len(SortAddresses(ladder.addrs))

\* rx.recv(): the first success ends the race, a failure starts the next one.
RaceReceives(c) ==
    /\ calls[c].pc = "dial" /\ calls[c].race.inbox # <<>>
    /\ LET r == calls[c].race
           i == Head(r.inbox)
           rest == [r EXCEPT !.inbox = Tail(@)]
       IN  IF r.attempt[i] = "won"
             THEN Becomes(c, [calls[c] EXCEPT !.pc = "finalize", !.race = EndRace(r, {i})])
             ELSE Becomes(c, [calls[c] EXCEPT !.race = IF More(c) THEN Spawn(rest) ELSE rest])
    /\ UNCHANGED <<ladder, pending, slots, known, down, dialChances>>

\* connection_attempt_delay passes; results are looked at first.
RaceDelayPasses(c) ==
    /\ calls[c].pc = "dial" /\ calls[c].race # NoRace
    /\ calls[c].race.inbox = <<>> /\ More(c)
    /\ Becomes(c, [calls[c] EXCEPT !.race = Spawn(@)])
    /\ UNCHANGED <<ladder, pending, slots, known, down, dialChances>>

\* The addresses of a race, as steps of the ladder that were tried.
Raced == Range(ladder.addrs) \X {1}

\* Every attempt has failed.
RaceFails(c) ==
    /\ calls[c].pc = "dial" /\ calls[c].race # NoRace
    /\ ~More(c) /\ InFlight(calls[c].race) = 0
    /\ Becomes(c, TransitionToHolepunch(TransitionToIpv6(
                   [calls[c] EXCEPT !.race = NoRace, !.tried = @ \cup Raced])))
    /\ UNCHANGED <<ladder, pending, slots, known, down, dialChances>>

\* finalize_direct_connection: the connection is registered, or gives way to
\* one the target has opened, which may not be known to the peer table in time.
Finalize(c) ==
    /\ calls[c].pc = "finalize"
    /\ \/ Returns(c, "ok") /\ known' = TRUE
       \/ known /\ Returns(c, "err") /\ UNCHANGED known
    /\ UNCHANGED <<ladder, pending, slots, down, dialChances>>

Direct6(c) ==
    /\ Stage(c, "direct6")
    /\ Becomes(c, TransitionToHolepunch(calls[c]))
    /\ UNCHANGED <<ladder, pending, slots, known, down, dialChances>>

\* A hole punch needs an address, as does a relay.
NoAddress(c) ==
    /\ Turn(c) /\ calls[c].stage \in {"punch", "relay"} /\ ladder.addrs = <<>>
    /\ Returns(c, "err")
    /\ UNCHANGED <<ladder, pending, slots, known, down, dialChances>>

\* One round: try_hole_punch waits for the target to connect to us, and a
\* round that failed or timed out is followed by a quick direct connect.
HolePunch(c) ==
    /\ Stage(c, "punch") /\ ladder.addrs # <<>>
    /\ \/ Returns(c, "ok") /\ known' = TRUE
       \/ /\ Becomes(c, NextRound([calls[c] EXCEPT !.tried = @ \cup {<<"punch", calls[c].round>>}]))
          /\ UNCHANGED known
    /\ UNCHANGED <<ladder, pending, slots, down, dialChances>>

\* try_relay_connection through the first relay.
RelayDial(c) ==
    /\ Stage(c, "relay") /\ ladder.addrs # <<>>
    /\ \/ Returns(c, "ok") /\ known' = TRUE
       \/ /\ Becomes(c, [calls[c] EXCEPT !.stage = "failed", !.tried = @ \cup {<<"relay", 1>>}])
          /\ UNCHANGED known
    /\ UNCHANGED <<ladder, pending, slots, down, dialChances>>

AllStrategiesFailed(c) ==
    /\ Stage(c, "failed")
    /\ Returns(c, "err")
    /\ UNCHANGED <<ladder, pending, slots, known, down, dialChances>>

------------------------------------------------------------------------------
(* The environment.                                                        *)

\* A dial in flight becomes older than a waiting call allows.
Overrun ==
    /\ pending # 0 /\ ~slots[pending].stale /\ dialChances.overruns > 0
    /\ slots' = [slots EXCEPT ![pending].stale = TRUE]
    /\ dialChances' = [dialChances EXCEPT !.overruns = @ - 1]
    /\ UNCHANGED <<ladder, calls, pending, known, down>>

\* The target connects to us.
Arrival ==
    /\ ~known /\ dialChances.arrivals > 0
    /\ known' = TRUE
    /\ dialChances' = [dialChances EXCEPT !.arrivals = @ - 1]
    /\ UNCHANGED <<ladder, calls, pending, slots, down>>

Shutdown ==
    /\ ~down /\ dialChances.shutdowns > 0
    /\ down' = TRUE
    /\ dialChances' = [dialChances EXCEPT !.shutdowns = @ - 1]
    /\ UNCHANGED <<ladder, calls, pending, slots, known>>

\* What a call does by itself once it has begun.
CallStep(c) ==
    \/ Ask(c) \/ Answered(c) \/ WaitTimesOut(c) \/ Evict(c) \/ Complete(c) \/ Cleanup(c)
    \/ FoundConnected(c) \/ SkipDirect(c) \/ StartRace(c) \/ RaceReceives(c)
    \/ RaceDelayPasses(c) \/ RaceFails(c) \/ Finalize(c) \/ Direct6(c)
    \/ NoAddress(c) \/ HolePunch(c) \/ RelayDial(c) \/ AllStrategiesFailed(c)

DialNext ==
    \/ \E c \in Calls : Call(c) \/ CallStep(c) \/ AttemptEnds(c) \/ Drop(c)
    \/ Overrun \/ Arrival \/ Shutdown

\* Tasks that can run are run, and attempts end by their timeouts.
DialFairness == \A c \in Calls : WF_dialVars(CallStep(c)) /\ WF_dialVars(AttemptEnds(c))

DialSpec == DialInit /\ [][DialNext]_dialVars /\ DialFairness

------------------------------------------------------------------------------
(* Properties.                                                             *)

Dialling(c) == calls[c].pc \in {"dial", "finalize", "finish"}

\* Two calls dial one target at the same time only when a dial has overrun
\* its budget: the entry of a dial in time is removed neither by a call that
\* waited for an earlier dial nor by the end or the drop of an earlier owner
\* (the dedup of connect_with_fallback, remove_pending_dial_if_owned).
OneDialInTime ==
    Cardinality({c \in Calls : Dialling(c) /\ calls[c].id # 0 /\ ~slots[calls[c].id].stale}) <= 1

\* An entry of pending_dials has an owner that will remove it: a call that
\* dials, or the task that its dropped guard has started; so a dropped owner
\* cannot leave a permanent entry behind (PendingDialGuard).
PendingIsOwned ==
    pending # 0 =>
      \E c \in Calls : calls[c].id = pending /\ (Dialling(c) \/ calls[c].pc = "cleanup")

\* A dial reports that all strategies failed only when every address was
\* raced and lost, every hole-punch round was tried when there was a
\* coordinator, and a relay when there was one, whichever stages are off.
FailedTriedAll ==
    \A c \in Calls :
      calls[c].result = "err" /\ calls[c].stage = "failed" /\ ladder.addrs # <<>> =>
        /\ ladder.endpoint => Raced \subseteq calls[c].tried
        /\ ladder.punch /\ ladder.coordinator => {"punch"} \X (1 .. ladder.rounds) \subseteq calls[c].tried
        /\ ladder.relay /\ ladder.relays > 0 => <<"relay", 1>> \in calls[c].tried

\* A race that is over, won or dropped with its future, leaves no attempt
\* behind that goes on with its handshake (AttemptHandles).
NoOrphanAttempt ==
    \A c \in Calls : calls[c].pc # "dial" =>
      \A i \in DOMAIN calls[c].race.attempt : calls[c].race.attempt[i] # "dialling"

\* Whatever a dial has started has an owner or is gone: its entry in
\* pending_dials, and the attempts of its race.
DialsAreOwned == PendingIsOwned /\ NoOrphanAttempt

\* Every call of connect_with_fallback returns, also one that waits for the
\* dial of a call which fails or is dropped: again and again no call is under
\* way, and a call is made only once.
DialsEnd == []<>(\A c \in Calls : calls[c].pc \in {"idle", "ended"})
=============================================================================
