---------------------------- MODULE ReachProofs -----------------------------
(***************************************************************************)
(* Proofs about how a node reaches a peer, for any number of calls,        *)
(* addresses, hole-punch rounds and relays.                                *)
(*                                                                         *)
(* Dialling (DialLadder): calls share one dial in time, what a dial has    *)
(* started is owned, and a dial that fails has tried everything.           *)
(*                                                                         *)
(* Candidates (NatTraversal): the pair index leads to the best pair of an  *)
(* address, what counts as usable has answered its own challenge, no punch *)
(* goes out without the peer's, and the connection moves only after both.  *)
(***************************************************************************)
EXTENDS NatTraversal, DialLadder, SequenceTheorems, FiniteSetTheorems, WellFoundedInduction, TLAPS

-----------------------------------------------------------------------------
(* Dialling: the inductive invariant *)

CallPcs == {"idle", "ask", "wait", "evict", "dial", "finalize", "finish", "cleanup", "ended"}
Results == {"none", "ok", "err", "down", "dropped"}
CallFields == {"pc", "id", "sub", "stage", "round", "race", "tried", "result"}
Slot == [answer : Results \cup {"open", "closed"}, stale : BOOLEAN]

\* A call owns an entry from its registration until it completes or cleans up, and knows
\* the entry it waits for.
CallOk(s, entries) ==
    /\ DOMAIN s = CallFields
    /\ s.pc \in CallPcs /\ s.result \in Results /\ s.round \in Nat
    /\ s.id \in 0 .. entries /\ s.sub \in 0 .. entries
    /\ s.id # 0 => s.pc \in {"dial", "finalize", "finish", "cleanup"}
    /\ s.pc \in {"wait", "evict"} => s.sub # 0

\* Attempts are under way only while their race is.
RaceOk(s) ==
    /\ DOMAIN s.race = {"next", "attempt", "inbox"}
    /\ s.pc # "dial" => \A i \in DOMAIN s.race.attempt : s.race.attempt[i] # "dialling"

\* A stage is reached when those below it have been tried, or cannot be.
StageOk(s) ==
    ladder.addrs # <<>> =>
      /\ s.stage \in {"direct6", "punch", "relay", "failed"} /\ ladder.endpoint => Raced \subseteq s.tried
      /\ s.stage = "punch" => \A k \in 1 .. s.round - 1 : <<"punch", k>> \in s.tried
      /\ s.stage \in {"relay", "failed"} /\ ladder.punch /\ ladder.coordinator =>
           \A k \in 1 .. ladder.rounds : <<"punch", k>> \in s.tried
      /\ s.stage = "failed" /\ ladder.relay /\ ladder.relays > 0 => <<"relay", 1>> \in s.tried

CallsOk ==
    /\ DOMAIN calls = Calls
    /\ \A c \in Calls : CallOk(calls[c], Len(slots)) /\ RaceOk(calls[c]) /\ StageOk(calls[c])

\* The entry of a dial in time is there, and an entry has one owner.
EntryInv ==
    /\ slots \in Seq(Slot) /\ pending \in 0 .. Len(slots)
    /\ \A c, d \in Calls : calls[c].id # 0 /\ calls[c].id = calls[d].id => c = d
    /\ pending # 0 => \E c \in Calls : calls[c].id = pending
    /\ \A c \in Calls : calls[c].id # 0 /\ ~slots[calls[c].id].stale => pending = calls[c].id
    /\ \A c \in Calls : calls[c].pc = "evict" => slots[calls[c].sub].stale

DialInv ==
    /\ ladder \in DialSettings
    /\ CallsOk
    /\ EntryInv

-----------------------------------------------------------------------------
(* One call moves *)

\* The call c becomes s, and the other calls stay as they are.
LEMMA OneCall ==
    ASSUME CallsOk, NEW c \in Calls, NEW s, Becomes(c, s)
    PROVE  DOMAIN calls' = Calls /\ calls'[c] = s /\ \A d \in Calls : d # c => calls'[d] = calls[d]
BY DEF CallsOk, Becomes

\* The table of pending dials is not touched.
LEMMA OwnStep ==
    ASSUME DialInv, NEW c \in Calls, NEW s, Becomes(c, s), UNCHANGED <<ladder, pending, slots>>,
           CallOk(s, Len(slots)), RaceOk(s), StageOk(s), s.id = calls[c].id,
           s.pc = "evict" => slots[s.sub].stale
    PROVE  DialInv'
<1>1. CallsOk /\ EntryInv /\ ladder \in DialSettings
    BY DEF DialInv
<1>2. DOMAIN calls' = Calls /\ calls'[c] = s /\ \A d \in Calls : d # c => calls'[d] = calls[d]
    BY <1>1, OneCall
<1>3. CallsOk'
    <2>1. \A d \in Calls : CallOk(calls'[d], Len(slots)) /\ RaceOk(calls'[d]) /\ StageOk(calls'[d])
        BY <1>1, <1>2 DEF CallsOk
    <2> QED
        BY <1>2, <2>1 DEF CallsOk, CallOk, RaceOk, StageOk, Raced
<1>4. EntryInv'
    <2>1. \A d \in Calls : calls'[d].id = calls[d].id
        BY <1>2
    <2>2. \A d \in Calls : calls'[d].pc = "evict" => slots[calls'[d].sub].stale
        BY <1>1, <1>2 DEF EntryInv
    <2> QED
        BY <1>1, <2>1, <2>2 DEF EntryInv
<1> QED
    BY <1>1, <1>3, <1>4 DEF DialInv

\* A call goes on with what it has, or with nothing.
LEMMA FinishedOk ==
    ASSUME NEW r \in Results, NEW entries \in Nat
    PROVE  LET s == [Uncalled EXCEPT !.pc = "ended", !.result = r]
           IN  CallOk(s, entries) /\ RaceOk(s) /\ StageOk(s) /\ s.id = 0 /\ s.pc = "ended"
<1> DEFINE s == [Uncalled EXCEPT !.pc = "ended", !.result = r]
<1>1. DOMAIN s = CallFields
    BY DEF Uncalled, CallFields
<1>2. /\ s.pc = "ended" /\ s.result = r /\ s.id = 0 /\ s.sub = 0 /\ s.round = 0
      /\ s.race = NoRace /\ s.stage = "direct4" /\ s.tried = {}
    BY DEF Uncalled
<1> HIDE DEF s
<1>3. CallOk(s, entries)
    BY <1>1, <1>2 DEF CallOk, CallPcs
<1>4. RaceOk(s)
    BY <1>2 DEF RaceOk, NoRace
<1>5. StageOk(s)
    BY <1>2 DEF StageOk
<1> QED
    BY <1>2, <1>3, <1>4, <1>5 DEF s

\* A call returns, or only its program counter moves.
LEMMA ReturnedOk ==
    ASSUME DialInv, NEW c \in Calls, NEW pc \in CallPcs, NEW r \in Results,
           calls[c].id # 0 => pc \in {"dial", "finalize", "finish", "cleanup"},
           pc \in {"wait", "evict"} => calls[c].sub # 0,
           pc # "dial" => \A i \in DOMAIN calls[c].race.attempt : calls[c].race.attempt[i] # "dialling"
    PROVE  /\ LET s == [calls[c] EXCEPT !.pc = pc, !.result = r]
              IN  CallOk(s, Len(slots)) /\ RaceOk(s) /\ StageOk(s) /\ s.id = calls[c].id /\ s.sub = calls[c].sub
                  /\ s.pc = pc
           /\ LET s == [calls[c] EXCEPT !.pc = pc]
              IN  CallOk(s, Len(slots)) /\ RaceOk(s) /\ StageOk(s) /\ s.id = calls[c].id /\ s.sub = calls[c].sub
                  /\ s.pc = pc
<1>1. CallOk(calls[c], Len(slots)) /\ RaceOk(calls[c]) /\ StageOk(calls[c])
    BY DEF DialInv, CallsOk
<1>2. ASSUME NEW s, DOMAIN s = CallFields, s.pc = pc, s.result \in Results, s.id = calls[c].id, s.sub = calls[c].sub,
             s.round = calls[c].round, s.race = calls[c].race, s.stage = calls[c].stage, s.tried = calls[c].tried
      PROVE  CallOk(s, Len(slots)) /\ RaceOk(s) /\ StageOk(s)
    <2>1. CallOk(s, Len(slots))
        BY <1>1, <1>2 DEF CallOk
    <2>2. RaceOk(s)
        BY <1>1, <1>2 DEF RaceOk
    <2>3. StageOk(s)
        BY <1>1, <1>2 DEF StageOk
    <2> QED
        BY <2>1, <2>2, <2>3
<1>3. DOMAIN calls[c] = CallFields /\ calls[c].result \in Results
    BY <1>1 DEF CallOk
<1> DEFINE s1 == [calls[c] EXCEPT !.pc = pc, !.result = r]
           s2 == [calls[c] EXCEPT !.pc = pc]
<1>4. /\ DOMAIN s1 = CallFields /\ s1.pc = pc /\ s1.result \in Results /\ s1.id = calls[c].id /\ s1.sub = calls[c].sub
      /\ s1.round = calls[c].round /\ s1.race = calls[c].race /\ s1.stage = calls[c].stage /\ s1.tried = calls[c].tried
    BY <1>3 DEF CallFields
<1>5. /\ DOMAIN s2 = CallFields /\ s2.pc = pc /\ s2.result \in Results /\ s2.id = calls[c].id /\ s2.sub = calls[c].sub
      /\ s2.round = calls[c].round /\ s2.race = calls[c].race /\ s2.stage = calls[c].stage /\ s2.tried = calls[c].tried
    BY <1>3 DEF CallFields
<1> HIDE DEF s1, s2
<1>6. CallOk(s1, Len(slots)) /\ RaceOk(s1) /\ StageOk(s1) /\ CallOk(s2, Len(slots)) /\ RaceOk(s2) /\ StageOk(s2)
    BY <1>2, <1>4, <1>5
<1> QED
    BY <1>4, <1>5, <1>6 DEF s1, s2

\* A call returns or moves, and leaves the table alone.
LEMMA MoveStep ==
    ASSUME DialInv, NEW c \in Calls, NEW pc \in CallPcs, NEW r \in Results,
           Moves(c, pc) \/ Becomes(c, [calls[c] EXCEPT !.pc = pc, !.result = r]),
           UNCHANGED <<ladder, pending, slots>>,
           calls[c].id # 0 => pc \in {"dial", "finalize", "finish", "cleanup"},
           pc \in {"wait", "evict"} => calls[c].sub # 0,
           pc = "evict" => slots[calls[c].sub].stale,
           pc # "dial" => \A i \in DOMAIN calls[c].race.attempt : calls[c].race.attempt[i] # "dialling"
    PROVE  DialInv'
<1> DEFINE s1 == [calls[c] EXCEPT !.pc = pc, !.result = r]
           s2 == [calls[c] EXCEPT !.pc = pc]
<1>1. /\ CallOk(s1, Len(slots)) /\ RaceOk(s1) /\ StageOk(s1) /\ s1.id = calls[c].id /\ s1.sub = calls[c].sub /\ s1.pc = pc
      /\ CallOk(s2, Len(slots)) /\ RaceOk(s2) /\ StageOk(s2) /\ s2.id = calls[c].id /\ s2.sub = calls[c].sub /\ s2.pc = pc
    BY ReturnedOk
<1>2. Becomes(c, s1) \/ Becomes(c, s2)
    BY DEF Moves
<1> HIDE DEF s1, s2
<1> QED
    BY <1>1, <1>2, OwnStep

-----------------------------------------------------------------------------
(* The ladder *)

\* The call t is s at another stage.
SameDial(s, t) ==
    /\ DOMAIN t = CallFields
    /\ t.pc = s.pc /\ t.id = s.id /\ t.sub = s.sub /\ t.race = s.race /\ t.tried = s.tried
    /\ t.result = s.result /\ t.round \in Nat

\* What has to be tried before a hole punch, and before a relay.
DirectTried(s) == ladder.addrs # <<>> /\ ladder.endpoint => Raced \subseteq s.tried
PunchTried(s) ==
    ladder.addrs # <<>> /\ ladder.punch /\ ladder.coordinator =>
      \A k \in 1 .. ladder.rounds : <<"punch", k>> \in s.tried

\* transition_to_relay keeps the ladder's order.
LEMMA RelayInternalOk ==
    ASSUME NEW s, DOMAIN s = CallFields, s.round \in Nat, DirectTried(s), PunchTried(s)
    PROVE  SameDial(s, RelayInternal(s)) /\ StageOk(RelayInternal(s))
<1> DEFINE t == RelayInternal(s)
<1>1. /\ DOMAIN t = CallFields
      /\ t.pc = s.pc /\ t.id = s.id /\ t.sub = s.sub /\ t.race = s.race /\ t.tried = s.tried
      /\ t.result = s.result /\ t.round = s.round
      /\ t.stage = IF ladder.relay /\ ladder.relays > 0 THEN "relay" ELSE "failed"
    BY DEF RelayInternal, CallFields
<1> HIDE DEF t
<1>2. SameDial(s, t)
    BY <1>1 DEF SameDial
<1>3. StageOk(t)
    BY <1>1 DEF StageOk, DirectTried, PunchTried
<1> QED
    BY <1>2, <1>3 DEF t

\* transition_to_holepunch begins with the first round, or passes on to the relay.
LEMMA HolepunchOk ==
    ASSUME NEW s, DOMAIN s = CallFields, s.round \in Nat, DirectTried(s)
    PROVE  SameDial(s, TransitionToHolepunch(s)) /\ StageOk(TransitionToHolepunch(s))
<1>1. CASE ladder.punch /\ ladder.coordinator
    <2> DEFINE t == [s EXCEPT !.stage = "punch", !.round = 1]
    <2>1. TransitionToHolepunch(s) = t
        BY <1>1 DEF TransitionToHolepunch, HolepunchInternal
    <2>2. /\ DOMAIN t = CallFields
          /\ t.pc = s.pc /\ t.id = s.id /\ t.sub = s.sub /\ t.race = s.race /\ t.tried = s.tried
          /\ t.result = s.result /\ t.round = 1 /\ t.stage = "punch"
        BY DEF CallFields
    <2> HIDE DEF t
    <2>3. SameDial(s, t)
        BY <2>2 DEF SameDial
    <2>4. StageOk(t)
        BY <2>2 DEF StageOk, DirectTried
    <2> QED
        BY <2>1, <2>3, <2>4
<1>2. CASE ~(ladder.punch /\ ladder.coordinator)
    BY <1>2, RelayInternalOk DEF TransitionToHolepunch, HolepunchInternal, PunchTried
<1> QED
    BY <1>1, <1>2

\* transition_to_ipv6 changes the stage only, whatever it comes to.
LEMMA Ipv6Ok ==
    ASSUME NEW s, DOMAIN s = CallFields, s.round \in Nat, DirectTried(s)
    PROVE  SameDial(s, TransitionToIpv6(s))
<1>1. CASE ladder.ipv6
    <2> DEFINE t == [s EXCEPT !.stage = "direct6"]
    <2>1. TransitionToIpv6(s) = t
        BY <1>1 DEF TransitionToIpv6
    <2>2. /\ DOMAIN t = CallFields
          /\ t.pc = s.pc /\ t.id = s.id /\ t.sub = s.sub /\ t.race = s.race /\ t.tried = s.tried
          /\ t.result = s.result /\ t.round = s.round
        BY DEF CallFields
    <2> HIDE DEF t
    <2> QED
        BY <2>1, <2>2 DEF SameDial
<1>2. CASE ~ladder.ipv6
    BY <1>2, HolepunchOk DEF TransitionToIpv6, TransitionToHolepunch
<1> QED
    BY <1>1, <1>2

\* A dial that goes on: with another race, or at another stage.
LEMMA DialGoesOn ==
    ASSUME DialInv, NEW c \in Calls, NEW s, Becomes(c, s), UNCHANGED <<ladder, pending, slots>>,
           calls[c].pc = "dial", DOMAIN s = CallFields, s.pc = "dial", s.id = calls[c].id,
           s.sub = calls[c].sub, s.result = calls[c].result, s.round \in Nat,
           DOMAIN s.race = {"next", "attempt", "inbox"}, StageOk(s)
    PROVE  DialInv'
<1>1. CallOk(calls[c], Len(slots))
    BY DEF DialInv, CallsOk
<1>2. CallOk(s, Len(slots))
    BY <1>1 DEF CallOk
<1>3. RaceOk(s)
    BY DEF RaceOk
<1> QED
    BY <1>2, <1>3, OwnStep

\* The race of a dial goes on.
LEMMA RaceGoesOn ==
    ASSUME DialInv, NEW c \in Calls, NEW q, Becomes(c, [calls[c] EXCEPT !.race = q]),
           UNCHANGED <<ladder, pending, slots>>, calls[c].pc = "dial", DOMAIN q = {"next", "attempt", "inbox"}
    PROVE  DialInv'
<1> DEFINE s == [calls[c] EXCEPT !.race = q]
<1>1. CallOk(calls[c], Len(slots)) /\ StageOk(calls[c])
    BY DEF DialInv, CallsOk
<1>2. DOMAIN calls[c] = CallFields /\ calls[c].round \in Nat
    BY <1>1 DEF CallOk
<1>3. /\ DOMAIN s = CallFields
      /\ s.pc = calls[c].pc /\ s.id = calls[c].id /\ s.sub = calls[c].sub /\ s.race = q /\ s.tried = calls[c].tried
      /\ s.result = calls[c].result /\ s.round = calls[c].round /\ s.stage = calls[c].stage
    BY <1>2 DEF CallFields
<1>4. Becomes(c, s)
    OBVIOUS
<1> HIDE DEF s
<1>5. StageOk(s)
    BY <1>1, <1>3 DEF StageOk
<1> QED
    BY <1>2, <1>3, <1>4, <1>5, DialGoesOn

\* StartRace, RaceDelayPasses, AttemptEnds: an attempt begins or ends.
LEMMA RaceSteps ==
    ASSUME DialInv, NEW c \in Calls, StartRace(c) \/ RaceDelayPasses(c) \/ AttemptEnds(c)
    PROVE  DialInv'
<1>1. CallOk(calls[c], Len(slots)) /\ RaceOk(calls[c])
    BY DEF DialInv, CallsOk
<1>2. DOMAIN calls[c] = CallFields /\ DOMAIN calls[c].race = {"next", "attempt", "inbox"}
    BY <1>1 DEF CallOk, RaceOk
<1>3. CASE StartRace(c) \/ RaceDelayPasses(c)
    <2>1. DOMAIN Spawn(calls[c].race) = {"next", "attempt", "inbox"}
        BY <1>2 DEF Spawn
    <2>2. Becomes(c, [calls[c] EXCEPT !.race = Spawn(calls[c].race)])
        BY <1>2, <1>3 DEF StartRace, RaceDelayPasses, CallFields
    <2>3. calls[c].pc = "dial" /\ UNCHANGED <<ladder, pending, slots>>
        BY <1>3 DEF StartRace, RaceDelayPasses, Stage, Turn
    <2> QED
        BY <2>1, <2>2, <2>3, RaceGoesOn
<1>4. CASE AttemptEnds(c)
    <2>1. PICK i \in DOMAIN calls[c].race.attempt, end \in {"won", "lost"} :
            /\ calls[c].race.attempt[i] = "dialling"
            /\ Becomes(c, [calls[c] EXCEPT !.race.attempt[i] = end, !.race.inbox = Append(@, i)])
        BY <1>4 DEF AttemptEnds
    <2> DEFINE q == [calls[c].race EXCEPT !.attempt[i] = end, !.inbox = Append(@, i)]
    <2>2. DOMAIN q = {"next", "attempt", "inbox"}
        BY <1>2
    <2>3. [calls[c] EXCEPT !.race.attempt[i] = end, !.race.inbox = Append(@, i)] = [calls[c] EXCEPT !.race = q]
        BY <1>2 DEF CallFields
    <2>4. Becomes(c, [calls[c] EXCEPT !.race = q])
        BY <2>1, <2>3
    <2>5. calls[c].pc = "dial" /\ UNCHANGED <<ladder, pending, slots>>
        BY <1>1, <1>4, <2>1 DEF RaceOk, AttemptEnds
    <2> HIDE DEF q
    <2> QED
        BY <2>2, <2>4, <2>5, RaceGoesOn, SMTT(30)
<1> QED
    BY <1>3, <1>4

\* abort_all leaves no attempt under way but one that has ended.
LEMMA EndedRace ==
    ASSUME NEW r, DOMAIN r = {"next", "attempt", "inbox"}, NEW keep,
           \A i \in keep : r.attempt[i] # "dialling"
    PROVE  /\ DOMAIN EndRace(r, keep) = {"next", "attempt", "inbox"}
           /\ \A i \in DOMAIN EndRace(r, keep).attempt : EndRace(r, keep).attempt[i] # "dialling"
<1>1. DOMAIN EndRace(r, keep) = {"next", "attempt", "inbox"}
    BY DEF EndRace
<1>2. EndRace(r, keep).attempt =
        [i \in DOMAIN r.attempt |-> IF i \in keep \/ r.attempt[i] = "lost" THEN r.attempt[i] ELSE "aborted"]
    BY DEF EndRace
<1>3. ASSUME NEW i \in DOMAIN EndRace(r, keep).attempt
      PROVE  EndRace(r, keep).attempt[i] # "dialling"
    <2>1. i \in DOMAIN r.attempt
        BY <1>2, <1>3
    <2>2. EndRace(r, keep).attempt[i] = IF i \in keep \/ r.attempt[i] = "lost" THEN r.attempt[i] ELSE "aborted"
        BY <1>2, <2>1
    <2>3. i \in keep => r.attempt[i] # "dialling"
        OBVIOUS
    <2> QED
        BY <2>2, <2>3
<1> QED
    BY <1>1, <1>3

\* A call leaves its race, with the winner or dropped with its future.
LEMMA RaceIsLeft ==
    ASSUME DialInv, NEW c \in Calls, NEW s, Becomes(c, s), UNCHANGED <<ladder, pending, slots>>,
           NEW keep, \A i \in keep : calls[c].race.attempt[i] # "dialling",
           DOMAIN s = CallFields, s.pc \in CallPcs, s.pc # "evict", s.pc # "wait",
           s.id # 0 => s.pc \in {"dial", "finalize", "finish", "cleanup"},
           s.race = EndRace(calls[c].race, keep), s.result \in Results,
           s.id = calls[c].id, s.sub = calls[c].sub, s.round = calls[c].round,
           s.stage = calls[c].stage, s.tried = calls[c].tried
    PROVE  DialInv'
<1>1. CallOk(calls[c], Len(slots)) /\ RaceOk(calls[c]) /\ StageOk(calls[c])
    BY DEF DialInv, CallsOk
<1>2. CallOk(s, Len(slots))
    BY <1>1 DEF CallOk
<1>3. RaceOk(s)
    <2>1. DOMAIN calls[c].race = {"next", "attempt", "inbox"}
        BY <1>1 DEF RaceOk
    <2>2. /\ DOMAIN EndRace(calls[c].race, keep) = {"next", "attempt", "inbox"}
          /\ \A i \in DOMAIN EndRace(calls[c].race, keep).attempt :
                EndRace(calls[c].race, keep).attempt[i] # "dialling"
        BY <2>1, EndedRace
    <2> QED
        BY <2>2 DEF RaceOk
<1>4. StageOk(s)
    BY <1>1 DEF StageOk
<1> QED
    BY <1>2, <1>3, <1>4, OwnStep

\* The race takes what an attempt put in its inbox: the attempt is no longer under
\* way.
LEMMA RaceReceivesStep ==
    ASSUME DialInv, NEW c \in Calls, RaceReceives(c)
    PROVE  DialInv'
<1> DEFINE r == calls[c].race
           i == Head(r.inbox)
           rest == [r EXCEPT !.inbox = Tail(@)]
<1>1. CallOk(calls[c], Len(slots)) /\ RaceOk(calls[c])
    BY DEF DialInv, CallsOk
<1>2. DOMAIN calls[c] = CallFields /\ DOMAIN r = {"next", "attempt", "inbox"} /\ calls[c].result \in Results
    BY <1>1 DEF CallOk, RaceOk
<1>3. calls[c].pc = "dial" /\ UNCHANGED <<ladder, pending, slots>>
    BY DEF RaceReceives
<1>4. CASE r.attempt[i] = "won"
    <2> DEFINE s == [calls[c] EXCEPT !.pc = "finalize", !.race = EndRace(r, {i})]
    <2>1. Becomes(c, s)
        BY <1>4 DEF RaceReceives
    <2>2. /\ DOMAIN s = CallFields /\ s.pc = "finalize" /\ s.race = EndRace(r, {i})
          /\ s.result = calls[c].result /\ s.id = calls[c].id /\ s.sub = calls[c].sub
          /\ s.round = calls[c].round /\ s.stage = calls[c].stage /\ s.tried = calls[c].tried
        BY <1>2 DEF CallFields
    <2>3. \A j \in {i} : calls[c].race.attempt[j] # "dialling"
        BY <1>4
    <2> HIDE DEF s
    <2> QED
        BY <1>2, <1>3, <2>1, <2>2, <2>3, RaceIsLeft DEF CallPcs
<1>5. CASE r.attempt[i] # "won"
    <2> DEFINE q == IF More(c) THEN Spawn(rest) ELSE rest
    <2>1. Becomes(c, [calls[c] EXCEPT !.race = q])
        BY <1>5 DEF RaceReceives
    <2>2. DOMAIN rest = {"next", "attempt", "inbox"}
        BY <1>2
    <2>3. DOMAIN q = {"next", "attempt", "inbox"}
        BY <2>2 DEF Spawn
    <2> HIDE DEF q
    <2> QED
        BY <1>3, <2>1, <2>3, RaceGoesOn
<1> QED
    BY <1>4, <1>5

\* The future of a call is dropped: it keeps its entry until its cleanup has run.
LEMMA DropStep ==
    ASSUME DialInv, NEW c \in Calls, Drop(c)
    PROVE  DialInv'
<1> DEFINE pc == IF calls[c].pc \in {"dial", "finalize", "finish"} /\ calls[c].id # 0 THEN "cleanup" ELSE "ended"
           s == [calls[c] EXCEPT !.pc = pc, !.race = EndRace(@, {}), !.result = "dropped"]
<1>1. CallOk(calls[c], Len(slots))
    BY DEF DialInv, CallsOk
<1>2. DOMAIN calls[c] = CallFields /\ (calls[c].id # 0 => calls[c].pc \in {"dial", "finalize", "finish", "cleanup"})
    BY <1>1 DEF CallOk
<1>3. Becomes(c, s) /\ UNCHANGED <<ladder, pending, slots>>
    BY <1>2 DEF Drop, CallFields
<1>4. /\ DOMAIN s = CallFields /\ s.pc = pc /\ s.race = EndRace(calls[c].race, {})
      /\ s.result = "dropped" /\ s.id = calls[c].id /\ s.sub = calls[c].sub
      /\ s.round = calls[c].round /\ s.stage = calls[c].stage /\ s.tried = calls[c].tried
    BY <1>2 DEF CallFields
<1>5. pc \in {"cleanup", "ended"} /\ (calls[c].id # 0 => pc = "cleanup")
    BY <1>2 DEF Drop
<1>6. \A i \in {} : calls[c].race.attempt[i] # "dialling"
    OBVIOUS
<1> HIDE DEF s, pc
<1>7. s.pc \in CallPcs /\ s.result \in Results /\ s.pc # "evict" /\ s.pc # "wait"
    BY <1>4, <1>5 DEF CallPcs, Results
<1>8. s.id # 0 => s.pc \in {"dial", "finalize", "finish", "cleanup"}
    BY <1>4, <1>5
<1> QED
    BY <1>3, <1>4, <1>6, <1>7, <1>8, RaceIsLeft

\* RaceFails, SkipDirect, Direct6: on to the hole punch.
LEMMA ClimbStep ==
    ASSUME DialInv, NEW c \in Calls, RaceFails(c) \/ SkipDirect(c) \/ Direct6(c)
    PROVE  DialInv'
<1>1. CallOk(calls[c], Len(slots)) /\ RaceOk(calls[c]) /\ StageOk(calls[c])
    BY DEF DialInv, CallsOk
<1>2. /\ DOMAIN calls[c] = CallFields /\ calls[c].round \in Nat
      /\ DOMAIN calls[c].race = {"next", "attempt", "inbox"}
    BY <1>1 DEF CallOk, RaceOk
<1>3. calls[c].pc = "dial" /\ UNCHANGED <<ladder, pending, slots>>
    BY DEF RaceFails, SkipDirect, Direct6, Stage, Turn
<1>4. ASSUME NEW s, DOMAIN s = CallFields, s.pc = "dial", s.id = calls[c].id, s.sub = calls[c].sub,
             s.result = calls[c].result, s.round \in Nat, DOMAIN s.race = {"next", "attempt", "inbox"},
             DirectTried(s),
             \/ Becomes(c, TransitionToHolepunch(s))
             \/ Becomes(c, TransitionToHolepunch(TransitionToIpv6(s)))
             \/ Becomes(c, TransitionToIpv6(s)) /\ ladder.addrs = <<>>
      PROVE  DialInv'
    <2> DEFINE u == TransitionToIpv6(s)
               t1 == TransitionToHolepunch(s)
               t2 == TransitionToHolepunch(u)
    <2>1. SameDial(s, u)
        BY <1>4, Ipv6Ok
    <2>2. SameDial(s, t1) /\ StageOk(t1)
        BY <1>4, HolepunchOk
    <2> HIDE DEF u
    <2>3. SameDial(u, t2) /\ StageOk(t2)
        <3>1. DOMAIN u = CallFields /\ u.round \in Nat /\ u.tried = s.tried
            BY <2>1 DEF SameDial
        <3>2. DirectTried(u)
            BY <1>4, <3>1 DEF DirectTried
        <3> QED
            BY <3>1, <3>2, HolepunchOk
    <2> HIDE DEF t1, t2
    <2>4. Becomes(c, t1) \/ Becomes(c, t2) \/ (Becomes(c, u) /\ StageOk(u))
        BY <1>4 DEF t1, t2, u, StageOk
    <2>5. ASSUME NEW t, SameDial(s, t), StageOk(t), Becomes(c, t)
          PROVE  DialInv'
        <3>1. /\ DOMAIN t = CallFields /\ t.pc = "dial" /\ t.id = calls[c].id /\ t.sub = calls[c].sub
              /\ t.result = calls[c].result /\ t.round \in Nat /\ DOMAIN t.race = {"next", "attempt", "inbox"}
            BY <1>4, <2>5 DEF SameDial
        <3> QED
            BY <1>3, <2>5, <3>1, DialGoesOn
    <2>6. SameDial(s, t2)
        BY <2>1, <2>3 DEF SameDial
    <2> QED
        BY <2>1, <2>2, <2>3, <2>4, <2>5, <2>6
<1>5. CASE RaceFails(c)
    <2> DEFINE s == [calls[c] EXCEPT !.race = NoRace, !.tried = @ \cup Raced]
    <2>1. Becomes(c, TransitionToHolepunch(TransitionToIpv6(s)))
        BY <1>5 DEF RaceFails
    <2>2. /\ DOMAIN s = CallFields /\ s.pc = calls[c].pc /\ s.id = calls[c].id /\ s.sub = calls[c].sub
          /\ s.result = calls[c].result /\ s.round = calls[c].round /\ s.race = NoRace
          /\ s.tried = calls[c].tried \cup Raced
        BY <1>2 DEF CallFields
    <2> HIDE DEF s
    <2>3. DOMAIN s.race = {"next", "attempt", "inbox"} /\ DirectTried(s)
        BY <2>2 DEF NoRace, DirectTried
    <2> QED
        BY <1>2, <1>3, <1>4, <2>1, <2>2, <2>3
<1>6. CASE SkipDirect(c)
    <2>1. DirectTried(calls[c])
        BY <1>6 DEF SkipDirect, DirectTried
    <2>2. \/ Becomes(c, TransitionToHolepunch(TransitionToIpv6(calls[c])))
          \/ Becomes(c, TransitionToIpv6(calls[c])) /\ ladder.addrs = <<>>
        BY <1>6 DEF SkipDirect
    <2> QED
        BY <1>2, <1>3, <1>4, <2>1, <2>2
<1>7. CASE Direct6(c)
    <2>1. DirectTried(calls[c])
        BY <1>1, <1>7 DEF Direct6, Stage, StageOk, DirectTried
    <2>2. Becomes(c, TransitionToHolepunch(calls[c]))
        BY <1>7 DEF Direct6
    <2> QED
        BY <1>2, <1>3, <1>4, <2>1, <2>2
<1> QED
    BY <1>5, <1>6, <1>7

\* A call that dials and runs no race returns.
LEMMA ReturnStep ==
    ASSUME DialInv, NEW c \in Calls, NEW r \in {"ok", "err"}, Returns(c, r), UNCHANGED <<ladder, pending, slots>>,
           Turn(c) \/ calls[c].pc = "finalize"
    PROVE  DialInv'
<1>1. CallOk(calls[c], Len(slots)) /\ RaceOk(calls[c])
    BY DEF DialInv, CallsOk
<1>2. \A i \in DOMAIN calls[c].race.attempt : calls[c].race.attempt[i] # "dialling"
    <2>1. CASE Turn(c)
        BY <2>1 DEF Turn, NoRace
    <2>2. CASE calls[c].pc = "finalize"
        BY <1>1, <2>2 DEF RaceOk
    <2> QED
        BY <2>1, <2>2
<1>3. Becomes(c, [calls[c] EXCEPT !.pc = "finish", !.result = r])
    BY DEF Returns
<1>4. "finish" \in CallPcs /\ r \in Results
    BY DEF CallPcs, Results
<1> QED
    BY <1>2, <1>3, <1>4, MoveStep

\* Hole punching and the relay are climbed in turn, and recorded when they were
\* tried.
LEMMA PunchAndRelayStep ==
    ASSUME DialInv, NEW c \in Calls, HolePunch(c) \/ RelayDial(c)
    PROVE  DialInv'
<1>1. CallOk(calls[c], Len(slots)) /\ RaceOk(calls[c]) /\ StageOk(calls[c])
    BY DEF DialInv, CallsOk
<1>2. /\ DOMAIN calls[c] = CallFields /\ calls[c].round \in Nat
      /\ DOMAIN calls[c].race = {"next", "attempt", "inbox"}
    BY <1>1 DEF CallOk, RaceOk
<1>3. Turn(c) /\ calls[c].pc = "dial" /\ UNCHANGED <<ladder, pending, slots>> /\ ladder.addrs # <<>>
    BY DEF HolePunch, RelayDial, Stage, Turn
<1>4. CASE Returns(c, "ok")
    BY <1>3, <1>4, ReturnStep
<1>5. CASE HolePunch(c) /\ ~Returns(c, "ok")
    <2> DEFINE s == [calls[c] EXCEPT !.tried = @ \cup {<<"punch", calls[c].round>>}]
               t == NextRound(s)
    <2>1. Becomes(c, t) /\ calls[c].stage = "punch"
        BY <1>5 DEF HolePunch, Stage
    <2>2. /\ DOMAIN s = CallFields /\ s.pc = calls[c].pc /\ s.id = calls[c].id /\ s.sub = calls[c].sub
          /\ s.result = calls[c].result /\ s.round = calls[c].round /\ s.race = calls[c].race
          /\ s.stage = calls[c].stage /\ s.tried = calls[c].tried \cup {<<"punch", calls[c].round>>}
        BY <1>2 DEF CallFields
    <2> HIDE DEF s
    <2>3. DirectTried(s)
        BY <1>1, <2>1, <2>2 DEF DirectTried, StageOk
    <2>4. \A k \in 1 .. s.round : <<"punch", k>> \in s.tried
        <3>1. \A k \in 1 .. s.round - 1 : <<"punch", k>> \in s.tried
            BY <1>1, <1>3, <2>1, <2>2 DEF StageOk
        <3>2. <<"punch", s.round>> \in s.tried
            BY <2>2
        <3>3. \A k \in 1 .. s.round : k = s.round \/ k \in 1 .. s.round - 1
            BY <1>2, <2>2
        <3> QED
            BY <3>1, <3>2, <3>3
    <2>5. ladder.rounds \in Nat
        <3>1. ladder \in DialSetting
            BY DialSettingsTyped DEF DialInv
        <3> QED
            BY <3>1 DEF DialSetting
    <2>6. SameDial(s, t) /\ StageOk(t)
        <3>1. CASE s.round < ladder.rounds
            <4> DEFINE u == [s EXCEPT !.round = @ + 1]
            <4>1. t = u
                BY <3>1 DEF NextRound
            <4>2. /\ DOMAIN u = CallFields /\ u.pc = s.pc /\ u.id = s.id /\ u.sub = s.sub /\ u.result = s.result
                  /\ u.race = s.race /\ u.tried = s.tried /\ u.stage = "punch" /\ u.round = s.round + 1
                BY <2>1, <2>2 DEF CallFields
            <4> HIDE DEF u
            <4>3. SameDial(s, u)
                BY <1>2, <2>2, <4>2 DEF SameDial
            <4>4. \A k \in 1 .. u.round - 1 : <<"punch", k>> \in u.tried
                <5>1. u.round - 1 = s.round
                    BY <1>2, <2>2, <4>2
                <5> QED
                    BY <2>4, <4>2, <5>1
            <4>5. StageOk(u)
                BY <2>3, <4>2, <4>4 DEF StageOk, DirectTried
            <4> QED
                BY <4>1, <4>3, <4>5
        <3>2. CASE ~(s.round < ladder.rounds)
            <4>1. \A k \in 1 .. ladder.rounds : k \in 1 .. s.round
                BY <1>2, <2>2, <2>5, <3>2
            <4>2. PunchTried(s)
                BY <2>4, <4>1 DEF PunchTried
            <4>3. t = RelayInternal(s)
                BY <3>2 DEF NextRound
            <4> QED
                BY <1>2, <2>2, <2>3, <4>2, <4>3, RelayInternalOk
        <3> QED
            BY <3>1, <3>2
    <2> HIDE DEF t
    <2>7. /\ DOMAIN t = CallFields /\ t.pc = "dial" /\ t.id = calls[c].id /\ t.sub = calls[c].sub
          /\ t.result = calls[c].result /\ t.round \in Nat /\ DOMAIN t.race = {"next", "attempt", "inbox"}
        BY <1>2, <1>3, <2>2, <2>6 DEF SameDial
    <2> QED
        BY <1>3, <2>1, <2>6, <2>7, DialGoesOn
<1>6. CASE RelayDial(c) /\ ~Returns(c, "ok")
    <2> DEFINE t == [calls[c] EXCEPT !.stage = "failed", !.tried = @ \cup {<<"relay", 1>>}]
    <2>1. Becomes(c, t) /\ calls[c].stage = "relay"
        BY <1>6 DEF RelayDial, Stage
    <2>2. /\ DOMAIN t = CallFields /\ t.pc = calls[c].pc /\ t.id = calls[c].id /\ t.sub = calls[c].sub
          /\ t.result = calls[c].result /\ t.round = calls[c].round /\ t.race = calls[c].race
          /\ t.stage = "failed" /\ t.tried = calls[c].tried \cup {<<"relay", 1>>}
        BY <1>2 DEF CallFields
    <2> HIDE DEF t
    <2>3. StageOk(t)
        BY <1>1, <2>1, <2>2 DEF StageOk
    <2> QED
        BY <1>2, <1>3, <2>1, <2>2, <2>3, DialGoesOn
<1> QED
    BY <1>4, <1>5, <1>6

-----------------------------------------------------------------------------
(* The table of pending dials *)

\* Call, Answered, WaitTimesOut, and the cases of Ask that only look at the table.
LEMMA TurnStep ==
    ASSUME DialInv, NEW c \in Calls,
           \/ Call(c) \/ Answered(c) \/ WaitTimesOut(c)
           \/ Ask(c) /\ (ladder.addrs = <<>> \/ (pending # 0 /\ ~slots[pending].stale))
    PROVE  DialInv'
<1>1. CallOk(calls[c], Len(slots)) /\ RaceOk(calls[c]) /\ StageOk(calls[c]) /\ EntryInv
    BY DEF DialInv, CallsOk
<1>2. /\ DOMAIN calls[c] = CallFields /\ Len(slots) \in Nat
      /\ calls[c].id # 0 => calls[c].pc \in {"dial", "finalize", "finish", "cleanup"}
    BY <1>1 DEF CallOk, EntryInv
<1>3. calls[c].pc \in {"idle", "ask", "wait"} /\ UNCHANGED <<ladder, pending, slots>>
    BY DEF Call, Answered, WaitTimesOut, Ask
<1>4. calls[c].id = 0
    BY <1>2, <1>3
<1>5. ASSUME NEW r \in Results, Finishes(c, r)
      PROVE  DialInv'
    <2> DEFINE s == [Uncalled EXCEPT !.pc = "ended", !.result = r]
    <2>1. CallOk(s, Len(slots)) /\ RaceOk(s) /\ StageOk(s) /\ s.id = 0 /\ s.pc = "ended"
        BY <1>2, FinishedOk
    <2>2. Becomes(c, s)
        BY <1>5 DEF Finishes
    <2> HIDE DEF s
    <2> QED
        BY <1>3, <1>4, <2>1, <2>2, OwnStep
<1>6. ASSUME NEW pc \in {"ask", "dial", "evict"}, Moves(c, pc), pc = "evict" => WaitTimesOut(c)
      PROVE  DialInv'
    <2>1. pc \in CallPcs /\ "none" \in Results
        BY <1>6 DEF CallPcs, Results
    <2>2. \A i \in DOMAIN calls[c].race.attempt : calls[c].race.attempt[i] # "dialling"
        BY <1>1, <1>3 DEF RaceOk
    <2>3. pc = "evict" => calls[c].sub # 0 /\ slots[calls[c].sub].stale
        BY <1>1, <1>6 DEF CallOk, WaitTimesOut
    <2>4. pc # "wait"
        BY <1>6
    <2> QED
        BY <1>3, <1>4, <1>6, <2>1, <2>2, <2>3, <2>4, MoveStep
<1>7. CASE Call(c)
    BY <1>5, <1>6, <1>7 DEF Call, Results
<1>8. CASE Answered(c)
    BY <1>5, <1>6, <1>8 DEF Answered, Results
<1>9. CASE WaitTimesOut(c)
    BY <1>6, <1>9 DEF WaitTimesOut
<1>10. CASE Ask(c) /\ ladder.addrs = <<>>
    BY <1>6, <1>10 DEF Ask
<1>11. CASE Ask(c) /\ ladder.addrs # <<>> /\ pending # 0 /\ ~slots[pending].stale
    <2> DEFINE s == [calls[c] EXCEPT !.pc = "wait", !.sub = pending]
    <2>1. Becomes(c, s) /\ calls[c].pc = "ask"
        BY <1>11 DEF Ask
    <2>2. /\ DOMAIN s = CallFields /\ s.pc = "wait" /\ s.sub = pending /\ s.id = calls[c].id
          /\ s.result = calls[c].result /\ s.round = calls[c].round /\ s.race = calls[c].race
          /\ s.stage = calls[c].stage /\ s.tried = calls[c].tried
        BY <1>2 DEF CallFields
    <2> HIDE DEF s
    <2>3. CallOk(s, Len(slots))
        BY <1>1, <1>4, <1>11, <2>2 DEF CallOk, CallPcs, EntryInv
    <2>4. RaceOk(s)
        BY <1>1, <2>1, <2>2 DEF RaceOk
    <2>5. StageOk(s)
        BY <1>1, <2>2 DEF StageOk
    <2> QED
        BY <1>3, <2>1, <2>2, <2>3, <2>4, <2>5, OwnStep
<1> QED
    BY <1>7, <1>8, <1>9, <1>10, <1>11

\* An entry is answered, closed or marked as overrun; no entry gets back in time.
LEMMA SlotChanged ==
    ASSUME slots \in Seq(Slot), NEW k \in 1 .. Len(slots), NEW x \in Slot, slots[k].stale => x.stale,
           slots' = [slots EXCEPT ![k] = x]
    PROVE  /\ slots' \in Seq(Slot) /\ Len(slots') = Len(slots) /\ slots'[k] = x
           /\ \A j \in 1 .. Len(slots) : slots[j].stale => slots'[j].stale
<1>1. DOMAIN slots' = 1 .. Len(slots) /\ Len(slots) \in Nat /\ slots'[k] = x
    OBVIOUS
<1>2. \A j \in 1 .. Len(slots) : slots'[j] = IF j = k THEN x ELSE slots[j]
    OBVIOUS
<1>3. \A j \in 1 .. Len(slots) : slots'[j] \in Slot
    BY <1>2
<1>4. slots' \in [1 .. Len(slots) -> Slot]
    BY <1>3
<1>5. slots' \in Seq(Slot) /\ Len(slots') = Len(slots)
    BY <1>1, <1>4
<1> QED
    BY <1>1, <1>2, <1>5

\* Answering the subscribers of an entry leaves every entry an entry, as old as it
\* was.
LEMMA SlotAnswered ==
    ASSUME slots \in Seq(Slot), NEW k \in 1 .. Len(slots), NEW a \in Results \cup {"open", "closed"},
           slots' = [slots EXCEPT ![k].answer = a]
    PROVE  /\ slots' \in Seq(Slot) /\ Len(slots') = Len(slots)
           /\ \A j \in 1 .. Len(slots) : slots[j].stale => slots'[j].stale
<1> DEFINE x == [slots[k] EXCEPT !.answer = a]
<1>1. slots[k] \in Slot
    OBVIOUS
<1>2. x \in Slot /\ x.stale = slots[k].stale
    BY <1>1 DEF Slot
<1>3. slots' = [slots EXCEPT ![k] = x]
    OBVIOUS
<1> HIDE DEF x
<1> QED
    BY <1>2, <1>3, SlotChanged

\* A call moves and the entry stays, or goes: overrun, or with its owner.
LEMMA TableStep ==
    ASSUME DialInv, NEW c \in Calls, NEW s, Becomes(c, s) \/ (calls' = calls /\ s = calls[c]), UNCHANGED ladder,
           slots' \in Seq(Slot), Len(slots') = Len(slots),
           \A j \in 1 .. Len(slots) : slots[j].stale => slots'[j].stale,
           CallOk(s, Len(slots)), RaceOk(s), StageOk(s), s.pc # "evict",
           s.id = calls[c].id \/ (s.id = 0 /\ (calls[c].id # 0 => pending' # calls[c].id)),
           \/ pending' = pending
           \/ pending' = 0 /\ pending # 0 /\ (slots'[pending].stale \/ (calls[c].id = pending /\ s.id = 0))
    PROVE  DialInv'
<1>1. CallsOk /\ EntryInv /\ ladder \in DialSettings
    BY DEF DialInv
<1>2. DOMAIN calls' = Calls /\ calls'[c] = s /\ \A d \in Calls : d # c => calls'[d] = calls[d]
    <2>1. CASE Becomes(c, s)
        BY <1>1, <2>1, OneCall
    <2>2. CASE calls' = calls /\ s = calls[c]
        BY <1>1, <2>2 DEF CallsOk
    <2> QED
        BY <2>1, <2>2
<1>3. CallsOk'
    <2>1. \A d \in Calls : CallOk(calls'[d], Len(slots)) /\ RaceOk(calls'[d]) /\ StageOk(calls'[d])
        BY <1>1, <1>2 DEF CallsOk
    <2>2. \A d \in Calls : CallOk(calls'[d], Len(slots'))
        BY <2>1
    <2> QED
        BY <1>2, <2>1, <2>2 DEF CallsOk, CallOk, RaceOk, StageOk, Raced
<1>4. Len(slots) \in Nat /\ \A d \in Calls : calls[d].id \in 0 .. Len(slots) /\ calls[d].sub \in 0 .. Len(slots)
    BY <1>1 DEF CallsOk, CallOk, EntryInv
<1>5. \A d \in Calls : calls'[d].id = calls[d].id \/ (d = c /\ calls'[d].id = 0)
    BY <1>2
<1>6. pending' \in 0 .. Len(slots')
    BY <1>1, <1>4 DEF EntryInv
<1>7. \A d, e \in Calls : calls'[d].id # 0 /\ calls'[d].id = calls'[e].id => d = e
    BY <1>1, <1>5 DEF EntryInv
<1>8. pending' # 0 => \E d \in Calls : calls'[d].id = pending'
    <2>1. ASSUME pending' # 0
          PROVE  \E d \in Calls : calls'[d].id = pending'
        <3>1. pending' = pending
            BY <2>1
        <3>2. PICK d \in Calls : calls[d].id = pending
            BY <1>1, <2>1, <3>1 DEF EntryInv
        <3>3. calls'[d].id = calls[d].id
            BY <1>2, <2>1, <3>1, <3>2
        <3> QED
            BY <3>1, <3>2, <3>3
    <2> QED
        BY <2>1
<1>9. ASSUME NEW d \in Calls, calls'[d].id # 0, ~slots'[calls'[d].id].stale
      PROVE  pending' = calls'[d].id
    <2>1. calls'[d].id = calls[d].id /\ calls[d].id \in 1 .. Len(slots)
        BY <1>4, <1>5, <1>9
    <2>2. ~slots[calls[d].id].stale
        BY <1>9, <2>1
    <2>3. pending = calls[d].id
        BY <1>1, <1>9, <2>1, <2>2 DEF EntryInv
    <2>4. CASE pending' = pending
        BY <2>1, <2>3, <2>4
    <2>5. CASE pending' = 0 /\ pending # 0 /\ calls[c].id = pending /\ s.id = 0
        <3>1. c = d
            BY <1>1, <2>3, <2>5 DEF EntryInv
        <3> QED
            BY <1>2, <1>9, <2>5, <3>1
    <2>6. CASE slots'[pending].stale
        BY <1>9, <2>1, <2>3, <2>6
    <2> QED
        BY <2>4, <2>5, <2>6
<1>10. ASSUME NEW d \in Calls, calls'[d].pc = "evict"
       PROVE  slots'[calls'[d].sub].stale
    <2>1. d # c /\ calls'[d] = calls[d]
        BY <1>2, <1>10
    <2>2. slots[calls[d].sub].stale
        BY <1>1, <1>10, <2>1 DEF EntryInv
    <2>3. calls[d].sub \in 1 .. Len(slots)
        <3>1. CallOk(calls[d], Len(slots))
            BY <1>1 DEF CallsOk
        <3> QED
            BY <1>4, <1>10, <2>1, <3>1 DEF CallOk
    <2> QED
        BY <2>1, <2>2, <2>3
<1>11. EntryInv'
    BY <1>6, <1>7, <1>8, <1>9, <1>10 DEF EntryInv
<1> QED
    BY <1>1, <1>3, <1>11 DEF DialInv

\* Evict, and a turn of the loop that finds an overrun entry.
LEMMA OverrunIsRemoved ==
    ASSUME DialInv, NEW c \in Calls,
           Evict(c) \/ (Ask(c) /\ ladder.addrs # <<>> /\ pending # 0 /\ slots[pending].stale)
    PROVE  DialInv'
<1>1. CallOk(calls[c], Len(slots)) /\ RaceOk(calls[c]) /\ StageOk(calls[c]) /\ EntryInv /\ CallsOk
    BY DEF DialInv, CallsOk
<1>2. /\ calls[c].pc \in {"evict", "ask"} /\ UNCHANGED ladder
      /\ calls[c].id = 0
    BY <1>1 DEF Evict, Ask, CallOk
<1>3. slots \in Seq(Slot) /\ Len(slots) \in Nat /\ pending \in 0 .. Len(slots) /\ "closed" \in Results \cup {"open", "closed"}
    BY <1>1 DEF EntryInv
<1>4. CASE Evict(c)
    <2> DEFINE s == [calls[c] EXCEPT !.pc = "ask"]
    <2>1. Becomes(c, s)
        BY <1>4 DEF Evict, Moves
    <2>2. "ask" \in CallPcs /\ "none" \in Results /\ \A i \in DOMAIN calls[c].race.attempt : calls[c].race.attempt[i] # "dialling"
        BY <1>1, <1>2 DEF RaceOk, CallPcs, Results
    <2>3. CallOk(s, Len(slots)) /\ RaceOk(s) /\ StageOk(s) /\ s.id = calls[c].id /\ s.pc = "ask"
        BY <1>2, <2>2, ReturnedOk
    <2>4. calls[c].sub # 0 /\ slots[calls[c].sub].stale
        BY <1>1, <1>4 DEF Evict, CallOk, EntryInv
    <2> HIDE DEF s
    <2>5. CASE pending = calls[c].sub
        <3>1. pending' = 0 /\ slots' = [slots EXCEPT ![pending].answer = "closed"]
            BY <1>4, <2>5 DEF Evict, RemovePendingIfOwned, Closed
        <3>2. pending \in 1 .. Len(slots)
            BY <1>3, <2>4, <2>5
        <3>3. /\ slots' \in Seq(Slot) /\ Len(slots') = Len(slots)
              /\ \A j \in 1 .. Len(slots) : slots[j].stale => slots'[j].stale
            BY <1>3, <3>1, <3>2, SlotAnswered
        <3>4. slots'[pending].stale /\ pending # 0
            BY <2>4, <2>5, <3>2, <3>3
        <3> QED
            BY <1>2, <2>1, <2>3, <3>1, <3>3, <3>4, TableStep
    <2>6. CASE pending # calls[c].sub
        <3>1. UNCHANGED <<ladder, pending, slots>> /\ s.pc # "evict"
            BY <1>4, <2>3, <2>6 DEF Evict, RemovePendingIfOwned
        <3> QED
            BY <2>1, <2>3, <3>1, OwnStep
    <2> QED
        BY <2>5, <2>6
<1>5. CASE Ask(c) /\ ladder.addrs # <<>> /\ pending # 0 /\ slots[pending].stale
    <2>1. pending' = 0 /\ slots' = [slots EXCEPT ![pending].answer = "closed"] /\ calls' = calls /\ calls[c].pc = "ask"
        BY <1>5 DEF Ask, Closed
    <2>3. pending \in 1 .. Len(slots)
        BY <1>3, <1>5
    <2>4. /\ slots' \in Seq(Slot) /\ Len(slots') = Len(slots)
          /\ \A j \in 1 .. Len(slots) : slots[j].stale => slots'[j].stale
        BY <1>3, <2>1, <2>3, SlotAnswered
    <2>5. slots'[pending].stale
        BY <1>5, <2>3, <2>4
    <2> QED
        BY <1>1, <1>2, <1>5, <2>1, <2>4, <2>5, TableStep
<1> QED
    BY <1>4, <1>5

\* Complete and Cleanup: the owner ends and takes its entry with it.
LEMMA OwnerEnds ==
    ASSUME DialInv, NEW c \in Calls, Complete(c) \/ Cleanup(c)
    PROVE  DialInv'
<1>1. CallOk(calls[c], Len(slots)) /\ EntryInv
    BY DEF DialInv, CallsOk
<1>2. slots \in Seq(Slot) /\ Len(slots) \in Nat /\ pending \in 0 .. Len(slots) /\ UNCHANGED ladder
    BY <1>1 DEF EntryInv, Complete, Cleanup
<1>3. calls[c].id \in Nat /\ calls[c].result \in Results /\ "dropped" \in Results
    BY <1>1, <1>2 DEF CallOk, Results
<1>4. PICK r \in Results : Finishes(c, r)
    BY <1>3 DEF Complete, Cleanup
<1> DEFINE s == [Uncalled EXCEPT !.pc = "ended", !.result = r]
<1>5. CallOk(s, Len(slots)) /\ RaceOk(s) /\ StageOk(s) /\ s.id = 0 /\ s.pc = "ended"
    BY <1>2, FinishedOk
<1>6. Becomes(c, s)
    BY <1>4 DEF Finishes
<1> HIDE DEF s
<1>7. CASE calls[c].id # 0 /\ pending = calls[c].id
    <2>1. PICK a \in Results \cup {"open", "closed"} :
            pending' = 0 /\ slots' = [slots EXCEPT ![pending].answer = a]
        BY <1>3, <1>7 DEF Complete, Cleanup, RemovePendingIfOwned, Closed
    <2>2. pending \in 1 .. Len(slots)
        BY <1>2, <1>7
    <2>3. /\ slots' \in Seq(Slot) /\ Len(slots') = Len(slots)
          /\ \A j \in 1 .. Len(slots) : slots[j].stale => slots'[j].stale
        BY <1>2, <2>1, <2>2, SlotAnswered
    <2> QED
        BY <1>2, <1>5, <1>6, <1>7, <2>1, <2>3, TableStep
<1>8. CASE ~(calls[c].id # 0 /\ pending = calls[c].id)
    <2>1. pending' = pending
        BY <1>8 DEF Complete, Cleanup, RemovePendingIfOwned
    <2>2. slots' = slots
        <3>1. CASE pending # calls[c].id \/ Complete(c)
            BY <1>8, <3>1 DEF Complete, Cleanup, RemovePendingIfOwned
        <3>2. CASE pending = 0 /\ calls[c].id = 0 /\ Cleanup(c)
            <4>1. slots' = [slots EXCEPT ![0].answer = "closed"]
                BY <3>2 DEF Cleanup, RemovePendingIfOwned, Closed
            <4>2. 0 \notin DOMAIN slots
                BY <1>2
            <4> QED
                BY <1>2, <4>1, <4>2
        <3> QED
            BY <1>8, <3>1, <3>2
    <2>3. calls[c].id # 0 => pending' # calls[c].id
        BY <1>8, <2>1
    <2> QED
        BY <1>2, <1>5, <1>6, <2>1, <2>2, <2>3, TableStep
<1> QED
    BY <1>7, <1>8

\* A dial overruns its budget: its entry becomes stale and may be evicted.
LEMMA OverrunStep ==
    ASSUME DialInv, Overrun
    PROVE  DialInv'
<1>1. CallsOk /\ EntryInv
    BY DEF DialInv
<1>2. slots \in Seq(Slot) /\ Len(slots) \in Nat /\ pending \in 1 .. Len(slots)
    BY <1>1 DEF EntryInv, Overrun
<1>3. PICK c \in Calls : calls[c].id = pending
    BY <1>1 DEF EntryInv, Overrun
<1>4. CallOk(calls[c], Len(slots)) /\ RaceOk(calls[c]) /\ StageOk(calls[c])
    BY <1>1 DEF CallsOk
<1>5. calls[c].pc # "evict"
    BY <1>2, <1>3, <1>4 DEF CallOk
<1>6. calls' = calls /\ UNCHANGED ladder /\ pending' = pending
    BY DEF Overrun
<1> DEFINE x == [slots[pending] EXCEPT !.stale = TRUE]
<1>7. slots[pending] \in Slot
    BY <1>2
<1>8. x \in Slot /\ (slots[pending].stale => x.stale)
    BY <1>7 DEF Slot
<1>9. slots' = [slots EXCEPT ![pending] = x]
    BY <1>2 DEF Overrun
<1> HIDE DEF x
<1>10. /\ slots' \in Seq(Slot) /\ Len(slots') = Len(slots)
       /\ \A j \in 1 .. Len(slots) : slots[j].stale => slots'[j].stale
    BY <1>2, <1>8, <1>9, SlotChanged
<1> QED
    BY <1>4, <1>5, <1>6, <1>10, TableStep

\* A turn of the loop that finds no entry: the call becomes the owner of a new one.
LEMMA RegisterStep ==
    ASSUME DialInv, NEW c \in Calls, Ask(c), ladder.addrs # <<>>, pending = 0
    PROVE  DialInv'
<1> DEFINE n == Len(slots)
           new == [answer |-> "open", stale |-> FALSE]
           s == [calls[c] EXCEPT !.pc = "dial", !.id = n + 1]
<1>1. CallsOk /\ EntryInv /\ ladder \in DialSettings
    BY DEF DialInv
<1>2. n \in Nat /\ slots \in Seq(Slot) /\ new \in Slot
    BY <1>1 DEF EntryInv, Slot
<1>3. slots' = Append(slots, new) /\ pending' = n + 1 /\ Becomes(c, s) /\ UNCHANGED ladder
    BY DEF Ask
<1>4. slots' \in Seq(Slot) /\ Len(slots') = n + 1 /\ \A j \in 1 .. n : slots'[j] = slots[j]
    BY <1>2, <1>3
<1>5. DOMAIN calls' = Calls /\ calls'[c] = s /\ \A d \in Calls : d # c => calls'[d] = calls[d]
    BY <1>1, <1>3, OneCall
<1>6. CallOk(calls[c], n) /\ RaceOk(calls[c]) /\ StageOk(calls[c])
    BY <1>1 DEF CallsOk
<1>7. /\ DOMAIN s = CallFields /\ s.pc = "dial" /\ s.id = n + 1 /\ s.sub = calls[c].sub
      /\ s.result = calls[c].result /\ s.round = calls[c].round /\ s.race = calls[c].race
      /\ s.stage = calls[c].stage /\ s.tried = calls[c].tried
    BY <1>6 DEF CallOk, CallFields
<1> HIDE DEF s, n, new
<1>8. CallOk(s, n + 1)
    BY <1>2, <1>6, <1>7 DEF CallOk, CallPcs
<1>9. RaceOk(s) /\ StageOk(s)
    BY <1>6, <1>7 DEF RaceOk, StageOk
<1>10. \A d \in Calls : d # c => CallOk(calls[d], n) /\ CallOk(calls[d], n + 1) /\ RaceOk(calls[d]) /\ StageOk(calls[d])
    BY <1>1, <1>2 DEF CallsOk, CallOk, n
<1>11. CallsOk'
    <2>1. \A d \in Calls : CallOk(calls'[d], n + 1) /\ RaceOk(calls'[d]) /\ StageOk(calls'[d])
        BY <1>5, <1>8, <1>9, <1>10
    <2>2. \A d \in Calls : CallOk(calls'[d], Len(slots'))
        BY <1>4, <2>1
    <2> QED
        BY <1>3, <1>5, <2>1, <2>2 DEF CallsOk, CallOk, RaceOk, StageOk, Raced
<1>12. \A d \in Calls : d # c =>
         /\ calls'[d] = calls[d] /\ calls[d].id \in 0 .. n /\ calls[d].sub \in 0 .. n
         /\ calls[d].pc = "evict" => calls[d].sub # 0
    BY <1>5, <1>10 DEF CallOk
<1>13. calls'[c].id = n + 1 /\ calls'[c].pc # "evict"
    BY <1>5, <1>7
<1>14. ASSUME NEW d \in Calls, NEW e \in Calls, calls'[d].id # 0, calls'[d].id = calls'[e].id
       PROVE  d = e
    <2>1. CASE d # c /\ e # c
        BY <1>1, <1>12, <1>14, <2>1 DEF EntryInv
    <2>2. \A x \in Calls : x # c => calls'[x].id # n + 1
        BY <1>2, <1>12
    <2> QED
        BY <1>13, <1>14, <2>1, <2>2
<1>15. ASSUME NEW d \in Calls, calls'[d].id # 0, ~slots'[calls'[d].id].stale
       PROVE  pending' = calls'[d].id
    <2>1. CASE d # c
        <3>1. calls[d].id \in 1 .. n /\ ~slots[calls[d].id].stale
            BY <1>2, <1>4, <1>12, <1>15, <2>1
        <3> QED
            BY <1>1, <1>2, <3>1 DEF EntryInv
    <2> QED
        BY <1>3, <1>13, <2>1
<1>16. ASSUME NEW d \in Calls, calls'[d].pc = "evict"
       PROVE  slots'[calls'[d].sub].stale
    <2>1. d # c /\ calls'[d] = calls[d] /\ calls[d].sub \in 1 .. n
        BY <1>2, <1>12, <1>13, <1>16
    <2> QED
        BY <1>1, <1>4, <1>16, <2>1 DEF EntryInv
<1>17. pending' \in 0 .. Len(slots') /\ \E d \in Calls : calls'[d].id = pending'
    BY <1>2, <1>3, <1>4, <1>13
<1>18. EntryInv'
    BY <1>4, <1>14, <1>15, <1>16, <1>17 DEF EntryInv
<1> QED
    BY <1>1, <1>3, <1>11, <1>18 DEF DialInv

-----------------------------------------------------------------------------
(* The invariant holds, and with it the properties *)

\* No call has begun: the invariant holds of the initial states.
LEMMA DialInitInv == DialInit => DialInv
<1> SUFFICES ASSUME DialInit
             PROVE  DialInv
    OBVIOUS
<1>1. /\ ladder \in DialSettings /\ DOMAIN calls = Calls /\ pending = 0 /\ slots = <<>>
      /\ \A c \in Calls : calls[c] = Uncalled
    BY DEF DialInit
<1>2. slots \in Seq(Slot) /\ Len(slots) = 0
    BY <1>1
<1>3. DOMAIN Uncalled = CallFields
    BY DEF Uncalled, CallFields
<1>4. /\ Uncalled.pc = "idle" /\ Uncalled.id = 0 /\ Uncalled.sub = 0 /\ Uncalled.stage = "direct4"
      /\ Uncalled.round = 0 /\ Uncalled.race = NoRace /\ Uncalled.result = "none"
    BY DEF Uncalled
<1>5. CallOk(Uncalled, 0)
    BY <1>3, <1>4 DEF CallOk, CallPcs, Results
<1>6. RaceOk(Uncalled)
    BY <1>4 DEF RaceOk, NoRace
<1>7. StageOk(Uncalled)
    BY <1>4 DEF StageOk
<1>8. CallsOk
    BY <1>1, <1>2, <1>5, <1>6, <1>7 DEF CallsOk
<1>9. EntryInv
    BY <1>1, <1>2, <1>4 DEF EntryInv
<1> QED
    BY <1>1, <1>8, <1>9 DEF DialInv

\* Every step of a call keeps the invariant.
LEMMA DialNextInv == DialInv /\ [DialNext]_dialVars => DialInv'
<1> SUFFICES ASSUME DialInv, [DialNext]_dialVars
             PROVE  DialInv'
    OBVIOUS
<1>1. ASSUME NEW c \in Calls, Ask(c)
      PROVE  DialInv'
    <2>1. CASE ladder.addrs = <<>> \/ (pending # 0 /\ ~slots[pending].stale)
        BY <1>1, <2>1, TurnStep
    <2>2. CASE ladder.addrs # <<>> /\ pending # 0 /\ slots[pending].stale
        BY <1>1, <2>2, OverrunIsRemoved
    <2>3. CASE ladder.addrs # <<>> /\ pending = 0
        BY <1>1, <2>3, RegisterStep
    <2> QED
        BY <2>1, <2>2, <2>3
<1>2. ASSUME NEW c \in Calls, Call(c) \/ Answered(c) \/ WaitTimesOut(c)
      PROVE  DialInv'
    BY <1>2, TurnStep
<1>3. ASSUME NEW c \in Calls, Evict(c)
      PROVE  DialInv'
    BY <1>3, OverrunIsRemoved
<1>4. ASSUME NEW c \in Calls, Complete(c) \/ Cleanup(c)
      PROVE  DialInv'
    BY <1>4, OwnerEnds
<1>5. ASSUME NEW c \in Calls, FoundConnected(c) \/ NoAddress(c) \/ AllStrategiesFailed(c)
      PROVE  DialInv'
    <2>1. Turn(c) /\ UNCHANGED <<ladder, pending, slots>> /\ (Returns(c, "ok") \/ Returns(c, "err"))
        BY <1>5 DEF FoundConnected, NoAddress, AllStrategiesFailed, Stage
    <2> QED
        BY <2>1, ReturnStep
<1>6. ASSUME NEW c \in Calls, Finalize(c)
      PROVE  DialInv'
    <2>1. calls[c].pc = "finalize" /\ UNCHANGED <<ladder, pending, slots>> /\ (Returns(c, "ok") \/ Returns(c, "err"))
        BY <1>6 DEF Finalize
    <2> QED
        BY <2>1, ReturnStep
<1>7. ASSUME NEW c \in Calls, SkipDirect(c) \/ RaceFails(c) \/ Direct6(c)
      PROVE  DialInv'
    BY <1>7, ClimbStep
<1>8. ASSUME NEW c \in Calls, StartRace(c) \/ RaceDelayPasses(c) \/ AttemptEnds(c)
      PROVE  DialInv'
    BY <1>8, RaceSteps
<1>9. ASSUME NEW c \in Calls, HolePunch(c) \/ RelayDial(c)
      PROVE  DialInv'
    BY <1>9, PunchAndRelayStep
<1>10. ASSUME NEW c \in Calls, RaceReceives(c)
      PROVE  DialInv'
    BY <1>10, RaceReceivesStep
<1>11. ASSUME NEW c \in Calls, Drop(c)
      PROVE  DialInv'
    BY <1>11, DropStep
<1>12. CASE Overrun
    BY <1>12, OverrunStep
<1>13. CASE Arrival \/ Shutdown \/ UNCHANGED dialVars
    <2>1. UNCHANGED <<ladder, calls, pending, slots>>
        BY <1>13 DEF Arrival, Shutdown, dialVars
    <2>2. CallsOk'
        BY <2>1 DEF DialInv, CallsOk, CallOk, RaceOk, StageOk, Raced
    <2>3. EntryInv'
        BY <2>1 DEF DialInv, EntryInv
    <2> QED
        BY <2>1, <2>2, <2>3 DEF DialInv
<1> QED
    BY <1>1, <1>2, <1>3, <1>4, <1>5, <1>6, <1>7, <1>8, <1>9, <1>10, <1>11, <1>12, <1>13 DEF DialNext, CallStep

\* The invariant holds in every state of the specification.
LEMMA DialInvariant == DialSpec => []DialInv
BY DialInitInv, DialNextInv, PTL DEF DialSpec

\* Calls of connect_with_fallback share one dial: however many calls there are
\* and in whichever order they time out, end or are dropped, two of them
\* own a dial that has not overrun its budget at no time.
THEOREM DialsAreShared == DialSpec => []OneDialInTime
<1>1. DialInv => OneDialInTime
    <2> SUFFICES ASSUME DialInv
                 PROVE  OneDialInTime
        OBVIOUS
    <2> DEFINE S == {c \in Calls : Dialling(c) /\ calls[c].id # 0 /\ ~slots[calls[c].id].stale}
    <2>1. \A c, d \in S : c = d
        <3>1. \A c \in S : c \in Calls /\ calls[c].id # 0 /\ pending = calls[c].id
            BY DEF DialInv, EntryInv
        <3> HIDE DEF S
        <3> QED
            BY <3>1 DEF DialInv, EntryInv
    <2> HIDE DEF S
    <2>2. CASE S = {}
        BY <2>2, FS_EmptySet DEF OneDialInTime, S
    <2>3. CASE S # {}
        <3>1. PICK c : c \in S
            BY <2>3
        <3>2. S = {c}
            BY <2>1, <3>1
        <3>3. Cardinality(S) = 1
            BY <3>2, FS_Singleton
        <3> QED
            BY <3>3 DEF OneDialInTime, S
    <2> QED
        BY <2>2, <2>3
<1> QED
    BY <1>1, DialInvariant, PTL

\* Whatever a dial has started has an owner or is gone: the guard of a pending
\* dial removes its entry and the handles of a race abort its attempts, also
\* when the future of connect_with_fallback is dropped.
THEOREM DialsOwned == DialSpec => []DialsAreOwned
<1>1. DialInv => DialsAreOwned
    <2> SUFFICES ASSUME DialInv
                 PROVE  DialsAreOwned
        OBVIOUS
    <2>1. \A c \in Calls : CallOk(calls[c], Len(slots)) /\ RaceOk(calls[c])
        BY DEF DialInv, CallsOk
    <2>2. PendingIsOwned
        <3>1. \A c \in Calls : calls[c].id # 0 => Dialling(c) \/ calls[c].pc = "cleanup"
            BY <2>1 DEF CallOk, Dialling
        <3> QED
            BY <3>1 DEF DialInv, EntryInv, PendingIsOwned
    <2>3. NoOrphanAttempt
        BY <2>1 DEF RaceOk, NoOrphanAttempt
    <2> QED
        BY <2>2, <2>3 DEF DialsAreOwned
<1> QED
    BY <1>1, DialInvariant, PTL

\* A dial that reports that all strategies failed has raced every address,
\* tried every hole-punch round and a relay, whichever of them there were,
\* for any number of addresses, rounds and relays.
THEOREM LadderIsClimbed == DialSpec => []FailedTriedAll
<1>1. DialInv => FailedTriedAll
    <2> SUFFICES ASSUME DialInv, NEW c \in Calls, calls[c].stage = "failed", ladder.addrs # <<>>
                 PROVE  /\ ladder.endpoint => Raced \subseteq calls[c].tried
                        /\ ladder.punch /\ ladder.coordinator => {"punch"} \X (1 .. ladder.rounds) \subseteq calls[c].tried
                        /\ ladder.relay /\ ladder.relays > 0 => <<"relay", 1>> \in calls[c].tried
        BY DEF FailedTriedAll
    <2>1. StageOk(calls[c])
        BY DEF DialInv, CallsOk
    <2>2. (\A k \in 1 .. ladder.rounds : <<"punch", k>> \in calls[c].tried)
            => {"punch"} \X (1 .. ladder.rounds) \subseteq calls[c].tried
        OBVIOUS
    <2> QED
        BY <2>1, <2>2 DEF StageOk
<1> QED
    BY <1>1, DialInvariant, PTL

-----------------------------------------------------------------------------
(* Candidates: the inductive invariant *)

NatFields == {"local", "remote", "pairs", "index", "validations", "round", "next_sequence", "responded"}
Candidates == [addr : Addrs, state : {"New", "Validating", "Valid", "Removed"}]
Pairs ==
    [seq : Nat, local : LocalAddrs, addr : Addrs, type : {"PeerReflexive", "HostToServerReflexive"},
     prio : Nat, state : {"Waiting", "Succeeded", "Frozen"}]
Validations == [challenge : Nat, retries : Nat, timeouts : Nat]
Targets == [addr : Addrs, challenge : 1 .. MaxChallenges]
NatRounds ==
    [round : Nat, targets : Seq(Targets), request_sent : BOOLEAN, peer_received : BOOLEAN,
     phase : {"Requesting", "Coordinating", "Preparing", "Punching", "Validating", "Succeeded", "Failed"},
     retries : Nat, timeouts : Nat]

\* Of the candidates, those that are valid are among the addresses in good.
CandidatesOk(n, good) ==
    /\ IsFiniteSet(DOMAIN n.local) /\ \A l \in DOMAIN n.local : n.local[l] \in LocalAddrs
    /\ IsFiniteSet(DOMAIN n.remote) /\ DOMAIN n.remote \subseteq Nat
    /\ \A s \in DOMAIN n.remote : n.remote[s] \in Candidates
    /\ \A s \in DOMAIN n.remote : n.remote[s].state = "Valid" => n.remote[s].addr \in good

\* The index leads from an address to a pair of it, and to none with a lower priority than
\* another.
IndexOf(index, pairs) ==
    /\ DOMAIN index = {pairs[i].addr : i \in DOMAIN pairs}
    /\ \A a \in DOMAIN index :
         /\ index[a] \in DOMAIN pairs /\ pairs[index[a]].addr = a
         /\ \A i \in DOMAIN pairs : pairs[i].addr = a => pairs[i].prio <= pairs[index[a]].prio

PairsOk(n, good) ==
    /\ n.pairs \in Seq(Pairs)
    /\ IndexOf(n.index, n.pairs)
    /\ \A i \in DOMAIN n.pairs : n.pairs[i].state = "Succeeded" => n.pairs[i].addr \in good

\* What a validation waits for was sent to its address, if it was sent at all.
ValidationsOk(n, sent) ==
    \A a \in DOMAIN n.validations :
      /\ n.validations[a] \in Validations
      /\ n.validations[a].challenge # NeverSent => <<a, n.validations[a].challenge>> \in sent

\* A round leaves its negotiation when the peer has asked for it, and waits for an answer
\* when its first target has been challenged.
RoundOk(r, sent) ==
    r # NoRound =>
      /\ r \in NatRounds
      /\ r.phase \in {"Preparing", "Punching", "Validating", "Succeeded"} => r.peer_received
      /\ r.phase = "Validating" => <<r.targets[1].addr, r.targets[1].challenge>> \in sent

NatOk(n, good, sent) ==
    /\ DOMAIN n = NatFields /\ n.next_sequence \in Nat
    /\ CandidatesOk(n, good)
    /\ PairsOk(n, good)
    /\ ValidationsOk(n, sent)
    /\ RoundOk(n.round, sent)

ProvenAddrs == {a \in Addrs : Proven(a)}

NatInv ==
    /\ nat # Disabled => NatOk(nat, ProvenAddrs, challenges)
    /\ frames \subseteq [type : {"ADD", "REMOVE"}, seq : Nat, addr : Addrs]
    /\ challenges \subseteq Addrs \X (1 .. MaxChallenges)
    /\ used \in [seq : Nat, punches : Nat, challenges : 0 .. MaxChallenges, rounds : Nat, locals : SUBSET LocalAddrs]

-----------------------------------------------------------------------------
(* Candidates: sorting *)

\* A non-empty set of natural numbers has a least element: the well-ordering of Nat.
LEMMA LeastOf ==
    ASSUME NEW S \in SUBSET Nat, S # {}
    PROVE  \E x \in S : \A y \in S : x <= y
<1> DEFINE R == {ss \in Nat \X Nat : ss[1] < ss[2]}
<1>1. IsWellFoundedOn(R, Nat)
    BY NatLessThanWellFounded DEF OpToRel
<1>2. PICK x \in S : \A y \in S : ~(<<y, x>> \in R)
    BY <1>1, WFMin
<1>3. \A y \in S : ~(y < x)
    BY <1>2
<1> QED
    BY <1>3

\* The least and the greatest of two numbers (calculate_pair_priority).
LEMMA LeastAndGreatest ==
    ASSUME NEW g \in Nat, NEW d \in Nat
    PROVE  /\ Min({g, d}) \in {g, d} /\ Min({g, d}) <= g /\ Min({g, d}) <= d
           /\ Max({g, d}) \in {g, d} /\ Max({g, d}) >= g /\ Max({g, d}) >= d
<1>1. \E x \in {g, d} : \A y \in {g, d} : x <= y
    OBVIOUS
<1>2. \E x \in {g, d} : \A y \in {g, d} : x >= y
    OBVIOUS
<1> QED
    BY <1>1, <1>2 DEF Min, Max

\* The priority of a pair is a number (calculate_pair_priority).
LEMMA PairTyped ==
    ASSUME NEW l \in LocalAddrs, NEW s \in Nat, NEW a \in Addrs
    PROVE  Pair(l, s, a) \in Pairs /\ Pair(l, s, a).state = "Waiting" /\ Pair(l, s, a).addr = a
<1>1. Prio[l] \in Nat /\ Prio[a] \in Nat
    BY NatConstants
<1>2. PairPriority(Prio[l], Prio[a]) \in Nat
    BY <1>1, LeastAndGreatest DEF PairPriority, Span
<1> QED
    BY <1>2 DEF Pair, Pairs, PairTypeOf

\* What a pair holds.
LEMMA PairFields ==
    ASSUME NEW p \in Pairs
    PROVE  p.prio \in Nat /\ p.addr \in Addrs /\ p.state \in {"Waiting", "Succeeded", "Frozen"}
BY DEF Pairs

\* What a sequence of pairs holds.
LEMMA PairSeq ==
    ASSUME NEW pairs \in Seq(Pairs)
    PROVE  /\ DOMAIN pairs = 1 .. Len(pairs) /\ Len(pairs) \in Nat /\ DOMAIN pairs \subseteq Nat
           /\ \A i \in DOMAIN pairs : pairs[i] \in Pairs /\ pairs[i].prio \in Nat
<1>1. \A i \in DOMAIN pairs : pairs[i] \in Pairs
    OBVIOUS
<1> QED
    BY <1>1, PairFields

\* The pairs that come no later than the one at i.
UpTo(pairs, i) ==
    {j \in DOMAIN pairs : pairs[j].prio > pairs[i].prio \/ (pairs[j].prio = pairs[i].prio /\ j <= i)}

\* A set of places of a sequence of pairs is finite.
LEMMA PlacesFinite ==
    ASSUME NEW pairs \in Seq(Pairs), NEW T \in SUBSET (DOMAIN pairs)
    PROVE  IsFiniteSet(T) /\ Cardinality(T) \in Nat /\ Cardinality(T) <= Len(pairs)
<1>1. DOMAIN pairs = 1 .. Len(pairs) /\ Len(pairs) \in Nat
    BY PairSeq
<1>2. IsFiniteSet(DOMAIN pairs) /\ Cardinality(DOMAIN pairs) = Len(pairs)
    <2>1. \A n \in Nat : IsFiniteSet(1 .. n) /\ Cardinality(1 .. n) = n
        BY FS_Interval
    <2> QED
        BY <1>1, <2>1
<1> QED
    BY <1>2, FS_Subset, FS_CardinalityType

\* A pair that comes before another has the lower rank.
LEMMA RankOrders ==
    ASSUME NEW pairs \in Seq(Pairs), NEW i \in DOMAIN pairs, NEW j \in DOMAIN pairs,
           i # j, i \in UpTo(pairs, j)
    PROVE  Rank(pairs, i) < Rank(pairs, j)
<1>1. /\ DOMAIN pairs \subseteq Nat
      /\ \A k \in DOMAIN pairs : pairs[k].prio \in Nat
    BY PairSeq
<1>2. UpTo(pairs, i) \subseteq UpTo(pairs, j) /\ j \in UpTo(pairs, j) /\ j \notin UpTo(pairs, i)
    BY <1>1 DEF UpTo
<1>3. /\ IsFiniteSet(UpTo(pairs, j)) /\ Cardinality(UpTo(pairs, j)) \in Nat
      /\ Cardinality(UpTo(pairs, i)) \in Nat
    BY PlacesFinite DEF UpTo
<1>4. Cardinality(UpTo(pairs, i)) < Cardinality(UpTo(pairs, j))
    BY <1>2, <1>3, FS_Subset
<1> QED
    BY <1>4 DEF Rank, UpTo

\* Every place is taken: the ranks of the pairs are the places of the sequence.
LEMMA RankOnto ==
    ASSUME NEW pairs \in Seq(Pairs), NEW k \in DOMAIN pairs
    PROVE  \E i \in DOMAIN pairs : Rank(pairs, i) = k
<1> DEFINE f == [i \in DOMAIN pairs |-> Rank(pairs, i)]
<1>1. /\ DOMAIN pairs = 1 .. Len(pairs) /\ Len(pairs) \in Nat
      /\ \A i \in DOMAIN pairs : pairs[i].prio \in Nat
    BY PairSeq
<1>2. ASSUME NEW i \in DOMAIN pairs
      PROVE  Rank(pairs, i) \in DOMAIN pairs
    <2>1. i \in UpTo(pairs, i) /\ UpTo(pairs, i) \subseteq DOMAIN pairs
        BY <1>1 DEF UpTo
    <2>2. /\ IsFiniteSet(UpTo(pairs, i)) /\ Cardinality(UpTo(pairs, i)) \in Nat
          /\ Cardinality(UpTo(pairs, i)) <= Len(pairs)
        BY <2>1, PlacesFinite
    <2>3. Cardinality(UpTo(pairs, i)) # 0
        BY <2>1, <2>2, FS_EmptySet
    <2> QED
        BY <1>1, <2>2, <2>3 DEF Rank, UpTo
<1>3. ASSUME NEW i \in DOMAIN pairs, NEW j \in DOMAIN pairs, Rank(pairs, i) = Rank(pairs, j)
      PROVE  i = j
    <2>1. i \in UpTo(pairs, j) \/ j \in UpTo(pairs, i)
        BY <1>1 DEF UpTo
    <2>2. Rank(pairs, i) \in Nat /\ Rank(pairs, j) \in Nat
        BY <1>1, <1>2
    <2> QED
        BY <1>3, <2>1, <2>2, RankOrders
<1>4. f \in Injection(DOMAIN pairs, DOMAIN pairs)
    BY <1>2, <1>3 DEF Injection, IsInjective
<1>5. f \in Surjection(DOMAIN pairs, DOMAIN pairs)
    BY <1>1, <1>4, FS_Injection, FS_Interval
<1> QED
    BY <1>5 DEF Surjection

\* Sorting keeps the pairs, and puts one of higher priority first (sort_unstable_by_key).
LEMMA SortedPairs ==
    ASSUME NEW pairs \in Seq(Pairs)
    PROVE  /\ Sorted(pairs) \in Seq(Pairs) /\ Len(Sorted(pairs)) = Len(pairs)
           /\ \A k \in DOMAIN pairs : \E i \in DOMAIN pairs : Sorted(pairs)[k] = pairs[i]
           /\ \A i, j \in DOMAIN pairs : i < j => Sorted(pairs)[j].prio <= Sorted(pairs)[i].prio
<1> DEFINE at(k) == CHOOSE i \in DOMAIN pairs : Rank(pairs, i) = k
<1>1. /\ DOMAIN pairs = 1 .. Len(pairs) /\ Len(pairs) \in Nat
      /\ \A i \in DOMAIN pairs : pairs[i] \in Pairs /\ pairs[i].prio \in Nat
    BY PairSeq
<1>2. ASSUME NEW k \in DOMAIN pairs
      PROVE  at(k) \in DOMAIN pairs /\ Rank(pairs, at(k)) = k
    BY RankOnto
<1>3. Sorted(pairs) = [k \in DOMAIN pairs |-> pairs[at(k)]]
    BY DEF Sorted
<1> HIDE DEF at
<1>4. Sorted(pairs) \in Seq(Pairs) /\ Len(Sorted(pairs)) = Len(pairs)
    BY <1>1, <1>2, <1>3
<1>5. ASSUME NEW i \in DOMAIN pairs, NEW j \in DOMAIN pairs, i < j
      PROVE  pairs[at(j)].prio <= pairs[at(i)].prio
    <2>1. CASE pairs[at(j)].prio > pairs[at(i)].prio
        <3>1. at(j) \in UpTo(pairs, at(i)) /\ at(i) # at(j)
            BY <1>1, <1>2, <2>1 DEF UpTo
        <3> QED
            BY <1>1, <1>2, <1>5, <3>1, RankOrders
    <2> QED
        BY <1>1, <1>2, <2>1
<1> QED
    BY <1>1, <1>2, <1>3, <1>4, <1>5

\* The index of an address is that of its best pair (sort_and_reindex_pairs).
LEMMA FirstIsBest ==
    ASSUME NEW pairs \in Seq(Pairs)
    PROVE  IndexOf(FirstPairs(Sorted(pairs)), Sorted(pairs))
<1> DEFINE sorted == Sorted(pairs)
           of(a) == {i \in DOMAIN sorted : sorted[i].addr = a}
<1>1. /\ sorted \in Seq(Pairs) /\ DOMAIN sorted = DOMAIN pairs /\ DOMAIN sorted \subseteq Nat
      /\ \A i, j \in DOMAIN sorted : i < j => sorted[j].prio <= sorted[i].prio
      /\ \A i \in DOMAIN sorted : sorted[i].prio \in Nat
    <2>1. sorted \in Seq(Pairs) /\ Len(sorted) = Len(pairs)
        BY SortedPairs
    <2> HIDE DEF sorted
    <2>2. DOMAIN sorted = DOMAIN pairs /\ DOMAIN sorted \subseteq Nat /\ \A i \in DOMAIN sorted : sorted[i].prio \in Nat
        BY <2>1, PairSeq
    <2> QED
        BY <2>1, <2>2, SortedPairs DEF sorted
<1>2. ASSUME NEW a \in {sorted[i].addr : i \in DOMAIN sorted}
      PROVE  Min(of(a)) \in of(a) /\ \A i \in of(a) : Min(of(a)) <= i
    <2>1. of(a) # {} /\ of(a) \subseteq Nat
        BY <1>1
    <2>2. \E x \in of(a) : \A y \in of(a) : x <= y
        BY <2>1, LeastOf
    <2> QED
        BY <2>2 DEF Min
<1>3. FirstPairs(sorted) = [a \in {sorted[i].addr : i \in DOMAIN sorted} |-> Min(of(a))]
    BY DEF FirstPairs
<1> HIDE DEF sorted
<1>4. IndexOf(FirstPairs(sorted), sorted)
    <2> SUFFICES ASSUME NEW a \in {sorted[i].addr : i \in DOMAIN sorted}
                 PROVE  /\ Min(of(a)) \in DOMAIN sorted /\ sorted[Min(of(a))].addr = a
                        /\ \A i \in DOMAIN sorted : sorted[i].addr = a => sorted[i].prio <= sorted[Min(of(a))].prio
        BY <1>3, ZenonT(60) DEF IndexOf
    <2> DEFINE m == Min(of(a))
    <2>1. m \in DOMAIN sorted /\ sorted[m].addr = a /\ \A i \in DOMAIN sorted : sorted[i].addr = a => m <= i
        BY <1>2
    <2> HIDE DEF m
    <2>2. \A i \in DOMAIN sorted : sorted[i].addr = a => sorted[i].prio <= sorted[m].prio
        BY <1>1, <2>1
    <2> QED
        BY <2>1, <2>2 DEF m
<1> QED
    BY <1>4 DEF sorted

-----------------------------------------------------------------------------
(* Candidates: the operations on pairs *)

\* A finite set of pairs can be put in sequence.
LEMMA SetInSequence ==
    ASSUME NEW S \in SUBSET Pairs, IsFiniteSet(S)
    PROVE  SeqOfSet(S) \in Seq(Pairs) /\ \A i \in DOMAIN SeqOfSet(S) : SeqOfSet(S)[i] \in S
<1> DEFINE c == Cardinality(S)
<1>1. c \in Nat /\ ExistsBijection(1 .. c, S)
    BY FS_CardinalityType
<1>2. PICK f : f \in Bijection(1 .. c, S)
    BY <1>1 DEF ExistsBijection
<1>3. f \in [1 .. c -> S] /\ \A x \in S : \E i \in 1 .. c : f[i] = x
    BY <1>2 DEF Bijection, Injection, Surjection, IsInjective
<1>4. \E g \in [1 .. c -> S] : \A x \in S : \E i \in DOMAIN g : g[i] = x
    BY <1>3
<1>5. SeqOfSet(S) \in [1 .. c -> S]
    BY <1>4 DEF SeqOfSet
<1> HIDE DEF c
<1>6. SeqOfSet(S) \in Seq(S)
    BY <1>1, <1>5
<1> QED
    BY <1>6

\* Some of a set can be taken (add_pairs_for_remote_candidate, up to the limit).
LEMMA TakeSome ==
    ASSUME NEW S, IsFiniteSet(S), NEW k \in Nat
    PROVE  Take(S, k) \subseteq S
<1> DEFINE c == Cardinality(S)
           m == Min({k, c})
<1>1. c \in Nat /\ ExistsBijection(1 .. c, S)
    BY FS_CardinalityType
<1>2. PICK f : f \in Bijection(1 .. c, S)
    BY <1>1 DEF ExistsBijection
<1>3. f \in [1 .. c -> S] /\ \A i, j \in 1 .. c : f[i] = f[j] => i = j
    BY <1>2 DEF Bijection, Injection, Surjection, IsInjective
<1>4. m \in Nat /\ m <= c
    BY <1>1, LeastAndGreatest
<1> DEFINE T == {f[i] : i \in 1 .. m}
           g == [i \in 1 .. m |-> f[i]]
<1> HIDE DEF c, m
<1>5. T \subseteq S /\ g \in Bijection(1 .. m, T)
    BY <1>1, <1>3, <1>4 DEF Bijection, Injection, Surjection, IsInjective
<1>6. IsFiniteSet(1 .. m) /\ Cardinality(1 .. m) = m
    BY <1>4, FS_Interval
<1>7. Cardinality(T) = m
    <2>1. ExistsBijection(1 .. m, T)
        BY <1>5 DEF ExistsBijection
    <2> QED
        BY <1>6, <2>1, FS_Bijection
<1>8. \E U \in SUBSET S : Cardinality(U) = Min({k, Cardinality(S)})
    BY <1>5, <1>7 DEF m, c
<1> QED
    BY <1>8 DEF Take

\* New pairs take their place in the order, and the index follows
\* (sort_and_reindex_pairs).
LEMMA ReindexOk ==
    ASSUME NEW n, NEW good, NEW sent, NatOk(n, good, sent),
           NEW pairs \in Seq(Pairs),
           \A i \in DOMAIN pairs : pairs[i].state = "Succeeded" => pairs[i].addr \in good
    PROVE  NatOk(SortAndReindex(n, pairs), good, sent)
<1> DEFINE m == SortAndReindex(n, pairs)
<1>1. DOMAIN n = NatFields
    BY DEF NatOk
<1>2. /\ DOMAIN m = NatFields /\ m.next_sequence = n.next_sequence /\ m.round = n.round
      /\ m.local = n.local /\ m.remote = n.remote /\ m.validations = n.validations
      /\ m.pairs = Sorted(pairs) /\ m.index = FirstPairs(Sorted(pairs))
    BY <1>1 DEF SortAndReindex, NatFields
<1> HIDE DEF m
<1>3. PairsOk(m, good)
    <2>1. Sorted(pairs) \in Seq(Pairs) /\ DOMAIN Sorted(pairs) = DOMAIN pairs
        BY SortedPairs, PairSeq
    <2>2. \A k \in DOMAIN pairs : Sorted(pairs)[k].state = "Succeeded" => Sorted(pairs)[k].addr \in good
        BY SortedPairs
    <2> QED
        BY <1>2, <2>1, <2>2, FirstIsBest DEF PairsOk
<1>4. CandidatesOk(m, good) /\ ValidationsOk(m, sent) /\ RoundOk(m.round, sent) /\ m.next_sequence \in Nat
    BY <1>2 DEF NatOk, CandidatesOk, ValidationsOk
<1> QED
    BY <1>2, <1>3, <1>4 DEF NatOk, m

\* Pairs that wait join the others.
LEMMA JoinedPairs ==
    ASSUME NEW pairs \in Seq(Pairs), NEW more \in Seq(Pairs), NEW good,
           \A i \in DOMAIN pairs : pairs[i].state = "Succeeded" => pairs[i].addr \in good,
           \A i \in DOMAIN more : more[i].state = "Waiting"
    PROVE  /\ pairs \o more \in Seq(Pairs)
           /\ \A i \in DOMAIN (pairs \o more) :
                (pairs \o more)[i].state = "Succeeded" => (pairs \o more)[i].addr \in good
<1>1. /\ pairs \o more \in Seq(Pairs) /\ Len(pairs \o more) = Len(pairs) + Len(more)
      /\ \A i \in 1 .. Len(pairs) + Len(more) :
           (pairs \o more)[i] = IF i <= Len(pairs) THEN pairs[i] ELSE more[i - Len(pairs)]
    BY ConcatProperties
<1>2. /\ DOMAIN (pairs \o more) = 1 .. Len(pairs) + Len(more)
      /\ Len(pairs) \in Nat /\ Len(more) \in Nat
      /\ DOMAIN pairs = 1 .. Len(pairs) /\ DOMAIN more = 1 .. Len(more)
    BY <1>1, PairSeq
<1>3. ASSUME NEW i \in 1 .. Len(pairs) + Len(more), (pairs \o more)[i].state = "Succeeded"
      PROVE  (pairs \o more)[i].addr \in good
    <2>1. CASE i <= Len(pairs)
        BY <1>1, <1>2, <1>3, <2>1
    <2>2. CASE ~(i <= Len(pairs))
        <3>1. i - Len(pairs) \in DOMAIN more /\ (pairs \o more)[i] = more[i - Len(pairs)]
            BY <1>1, <1>2, <2>2
        <3> QED
            BY <1>3, <3>1
    <2> QED
        BY <2>1, <2>2
<1> QED
    BY <1>1, <1>2, <1>3

\* add_pairs_for_remote_candidate
LEMMA AddPairsOk ==
    ASSUME NEW n, NEW good, NEW sent, NatOk(n, good, sent), NEW seq \in DOMAIN n.remote
    PROVE  NatOk(AddPairsForRemote(n, seq), good, sent)
<1> DEFINE new == {Pair(n.local[l], seq, n.remote[seq].addr) : l \in DOMAIN n.local}
           room == MaxPairs - Len(n.pairs)
           chosen == Take(new, room)
           pairs == n.pairs \o SeqOfSet(chosen)
<1>1. CASE Len(n.pairs) >= MaxPairs \/ new = {}
    BY <1>1 DEF AddPairsForRemote
<1>2. CASE ~(Len(n.pairs) >= MaxPairs \/ new = {})
    <2>1. /\ IsFiniteSet(DOMAIN n.local) /\ \A l \in DOMAIN n.local : n.local[l] \in LocalAddrs
          /\ seq \in Nat /\ n.remote[seq] \in Candidates
          /\ n.pairs \in Seq(Pairs) /\ \A i \in DOMAIN n.pairs : n.pairs[i].state = "Succeeded" => n.pairs[i].addr \in good
        BY DEF NatOk, CandidatesOk, PairsOk
    <2>2. n.remote[seq].addr \in Addrs
        BY <2>1 DEF Candidates
    <2>3. \A l \in DOMAIN n.local : /\ Pair(n.local[l], seq, n.remote[seq].addr) \in Pairs
                                    /\ Pair(n.local[l], seq, n.remote[seq].addr).state = "Waiting"
        BY <2>1, <2>2, PairTyped
    <2>4. IsFiniteSet(new)
        <3> DEFINE f == [l \in DOMAIN n.local |-> Pair(n.local[l], seq, n.remote[seq].addr)]
        <3>1. f \in Surjection(DOMAIN n.local, new)
            BY DEF Surjection
        <3> QED
            BY <2>1, <3>1, FS_Surjection
    <2>5. new \subseteq Pairs /\ \A p \in new : p.state = "Waiting"
        BY <2>3
    <2>6. room \in Nat
        BY <1>2, <2>1, NatConstants, PairSeq
    <2> HIDE DEF new, room
    <2>7. chosen \subseteq new /\ IsFiniteSet(chosen)
        BY <2>4, <2>6, TakeSome, FS_Subset
    <2> HIDE DEF chosen
    <2>8. SeqOfSet(chosen) \in Seq(Pairs) /\ \A i \in DOMAIN SeqOfSet(chosen) : SeqOfSet(chosen)[i].state = "Waiting"
        BY <2>5, <2>7, SetInSequence
    <2>9. pairs \in Seq(Pairs) /\ \A i \in DOMAIN pairs : pairs[i].state = "Succeeded" => pairs[i].addr \in good
        BY <2>1, <2>8, JoinedPairs
    <2>10. AddPairsForRemote(n, seq) = SortAndReindex(n, pairs)
        BY <1>2 DEF AddPairsForRemote, new, room, chosen
    <2> HIDE DEF pairs
    <2> QED
        BY <2>9, <2>10, ReindexOk
<1> QED
    BY <1>1, <1>2

\* generate_candidate_pairs
LEMMA GeneratePairsOk ==
    ASSUME NEW n, NEW good, NEW sent, NatOk(n, good, sent)
    PROVE  NatOk(GeneratePairs(n), good, sent)
<1> DEFINE live == {s \in DOMAIN n.remote : n.remote[s].state # "Removed"}
           new == {Pair(n.local[l], s, n.remote[s].addr) : l \in DOMAIN n.local, s \in live}
<1>1. /\ IsFiniteSet(DOMAIN n.local) /\ \A l \in DOMAIN n.local : n.local[l] \in LocalAddrs
      /\ IsFiniteSet(DOMAIN n.remote) /\ DOMAIN n.remote \subseteq Nat
      /\ \A s \in DOMAIN n.remote : n.remote[s] \in Candidates
    BY DEF NatOk, CandidatesOk
<1>2. \A s \in DOMAIN n.remote : n.remote[s].addr \in Addrs
    BY <1>1 DEF Candidates
<1>3. \A l \in DOMAIN n.local, s \in DOMAIN n.remote :
        /\ Pair(n.local[l], s, n.remote[s].addr) \in Pairs
        /\ Pair(n.local[l], s, n.remote[s].addr).state = "Waiting"
    BY <1>1, <1>2, PairTyped
<1>4. IsFiniteSet(new)
    <2> DEFINE both == (DOMAIN n.local) \X live
               f == [x \in both |-> Pair(n.local[x[1]], x[2], n.remote[x[2]].addr)]
    <2>1. IsFiniteSet(live)
        BY <1>1, FS_Subset
    <2>2. IsFiniteSet(both)
        BY <1>1, <2>1, FS_Product
    <2>3. f \in Surjection(both, new)
        <3>1. \A x \in both : x[1] \in DOMAIN n.local /\ x[2] \in live
            OBVIOUS
        <3>2. \A l \in DOMAIN n.local, s \in live :
                <<l, s>> \in both /\ f[<<l, s>>] = Pair(n.local[l], s, n.remote[s].addr)
            OBVIOUS
        <3>3. f \in [both -> new]
            BY <3>1
        <3>4. ASSUME NEW p \in new
              PROVE  \E x \in both : f[x] = p
            <4>1. PICK l \in DOMAIN n.local, s \in live : p = Pair(n.local[l], s, n.remote[s].addr)
                OBVIOUS
            <4> HIDE DEF f, both
            <4>2. <<l, s>> \in both /\ f[<<l, s>>] = p
                BY <3>2, <4>1
            <4> QED
                BY <4>2
        <3> HIDE DEF f, both, new
        <3> QED
            BY <3>3, <3>4 DEF Surjection
    <2> QED
        BY <2>2, <2>3, FS_Surjection
<1>5. new \subseteq Pairs /\ \A p \in new : p.state = "Waiting"
    BY <1>3
<1> DEFINE pairs == SeqOfSet(new)
<1>6. GeneratePairs(n) = SortAndReindex(n, pairs)
    BY DEF GeneratePairs
<1> HIDE DEF new
<1>7. pairs \in Seq(Pairs) /\ \A i \in DOMAIN pairs : pairs[i].state = "Waiting"
    BY <1>4, <1>5, SetInSequence
<1>8. \A i \in DOMAIN pairs : pairs[i].state = "Succeeded" => pairs[i].addr \in good
    BY <1>7
<1> HIDE DEF pairs
<1> QED
    BY <1>6, <1>7, <1>8, ReindexOk

-----------------------------------------------------------------------------
(* Candidates: changes of one field *)

\* The candidates are replaced.
LEMMA CandidatesChange ==
    ASSUME NEW n, NEW good, NEW sent, NatOk(n, good, sent), NEW remote,
           IsFiniteSet(DOMAIN remote), DOMAIN remote \subseteq Nat,
           \A s \in DOMAIN remote : remote[s] \in Candidates,
           \A s \in DOMAIN remote : remote[s].state = "Valid" => remote[s].addr \in good
    PROVE  NatOk([n EXCEPT !.remote = remote], good, sent)
<1> DEFINE m == [n EXCEPT !.remote = remote]
<1>1. DOMAIN n = NatFields
    BY DEF NatOk
<1>2. /\ DOMAIN m = NatFields /\ m.next_sequence = n.next_sequence /\ m.round = n.round
      /\ m.local = n.local /\ m.remote = remote /\ m.validations = n.validations
      /\ m.pairs = n.pairs /\ m.index = n.index
    BY <1>1 DEF NatFields
<1> HIDE DEF m
<1>3. CandidatesOk(m, good)
    BY <1>2 DEF NatOk, CandidatesOk
<1>4. PairsOk(m, good) /\ ValidationsOk(m, sent) /\ RoundOk(m.round, sent) /\ m.next_sequence \in Nat
    BY <1>2 DEF NatOk, PairsOk, ValidationsOk
<1> QED
    BY <1>2, <1>3, <1>4 DEF NatOk, m

\* The validations are replaced.
LEMMA ValidationsChange ==
    ASSUME NEW n, NEW good, NEW sent, NatOk(n, good, sent), NEW validations,
           \A a \in DOMAIN validations :
             /\ validations[a] \in Validations
             /\ validations[a].challenge # NeverSent => <<a, validations[a].challenge>> \in sent
    PROVE  NatOk([n EXCEPT !.validations = validations], good, sent)
<1> DEFINE m == [n EXCEPT !.validations = validations]
<1>1. DOMAIN n = NatFields
    BY DEF NatOk
<1>2. /\ DOMAIN m = NatFields /\ m.next_sequence = n.next_sequence /\ m.round = n.round
      /\ m.local = n.local /\ m.remote = n.remote /\ m.validations = validations
      /\ m.pairs = n.pairs /\ m.index = n.index
    BY <1>1 DEF NatFields
<1> HIDE DEF m
<1>3. ValidationsOk(m, sent)
    BY <1>2 DEF ValidationsOk
<1>4. CandidatesOk(m, good) /\ PairsOk(m, good) /\ RoundOk(m.round, sent) /\ m.next_sequence \in Nat
    BY <1>2 DEF NatOk, PairsOk, CandidatesOk
<1> QED
    BY <1>2, <1>3, <1>4 DEF NatOk, m

\* The round is replaced.
LEMMA RoundChange ==
    ASSUME NEW n, NEW good, NEW sent, NatOk(n, good, sent), NEW r, RoundOk(r, sent)
    PROVE  NatOk([n EXCEPT !.round = r], good, sent)
<1> DEFINE m == [n EXCEPT !.round = r]
<1>1. DOMAIN n = NatFields
    BY DEF NatOk
<1>2. /\ DOMAIN m = NatFields /\ m.next_sequence = n.next_sequence /\ m.round = r
      /\ m.local = n.local /\ m.remote = n.remote /\ m.validations = n.validations
      /\ m.pairs = n.pairs /\ m.index = n.index
    BY <1>1 DEF NatFields
<1> HIDE DEF m
<1>3. CandidatesOk(m, good) /\ PairsOk(m, good) /\ ValidationsOk(m, sent) /\ m.next_sequence \in Nat
    BY <1>2 DEF NatOk, PairsOk, CandidatesOk, ValidationsOk
<1> QED
    BY <1>2, <1>3 DEF NatOk, m

\* The local addresses are replaced, and the sequence number moves on.
LEMMA LocalChange ==
    ASSUME NEW n, NEW good, NEW sent, NatOk(n, good, sent), NEW local, NEW next \in Nat,
           IsFiniteSet(DOMAIN local), \A l \in DOMAIN local : local[l] \in LocalAddrs
    PROVE  NatOk([n EXCEPT !.local = local, !.next_sequence = next], good, sent)
<1> DEFINE m == [n EXCEPT !.local = local, !.next_sequence = next]
<1>1. DOMAIN n = NatFields
    BY DEF NatOk
<1>2. /\ DOMAIN m = NatFields /\ m.next_sequence = next /\ m.round = n.round
      /\ m.local = local /\ m.remote = n.remote /\ m.validations = n.validations
      /\ m.pairs = n.pairs /\ m.index = n.index
    BY <1>1 DEF NatFields
<1> HIDE DEF m
<1>3. CandidatesOk(m, good) /\ PairsOk(m, good) /\ ValidationsOk(m, sent) /\ RoundOk(m.round, sent)
    BY <1>2 DEF NatOk, PairsOk, CandidatesOk, ValidationsOk
<1> QED
    BY <1>2, <1>3 DEF NatOk, m

\* More addresses proven, and more challenges sent, disturb nothing.
LEMMA NatGrows ==
    ASSUME NEW n, NEW good, NEW sent, NEW good2, NEW sent2, NatOk(n, good, sent),
           good \subseteq good2, sent \subseteq sent2
    PROVE  NatOk(n, good2, sent2)
<1>1. CandidatesOk(n, good2)
    BY DEF NatOk, CandidatesOk
<1>2. PairsOk(n, good2)
    BY DEF NatOk, PairsOk
<1>3. ValidationsOk(n, sent2) /\ RoundOk(n.round, sent2)
    BY DEF NatOk, ValidationsOk, RoundOk
<1> QED
    BY <1>1, <1>2, <1>3 DEF NatOk

\* A candidate that was only heard of joins the others (add_remote_candidate).
LEMMA WithCandidateOk ==
    ASSUME NEW n, NEW good, NEW sent, NatOk(n, good, sent), NEW seq \in Nat, NEW addr \in Addrs
    PROVE  NatOk(WithCandidate(n, seq, addr), good, sent)
<1> DEFINE remote == With(n.remote, seq, Candidate(addr, "New"))
           m == [n EXCEPT !.remote = remote]
<1>1. /\ IsFiniteSet(DOMAIN n.remote) /\ DOMAIN n.remote \subseteq Nat /\ DOMAIN n = NatFields
      /\ \A s \in DOMAIN n.remote : n.remote[s] \in Candidates
      /\ \A s \in DOMAIN n.remote : n.remote[s].state = "Valid" => n.remote[s].addr \in good
    BY DEF NatOk, CandidatesOk
<1>2. /\ DOMAIN remote = DOMAIN n.remote \cup {seq} /\ remote[seq] = Candidate(addr, "New")
      /\ \A s \in DOMAIN remote : s # seq => s \in DOMAIN n.remote /\ remote[s] = n.remote[s]
    BY DEF With
<1>3. Candidate(addr, "New") \in Candidates /\ Candidate(addr, "New").state # "Valid"
    BY DEF Candidate, Candidates
<1> HIDE DEF remote
<1>4. IsFiniteSet(DOMAIN remote) /\ DOMAIN remote \subseteq Nat
    BY <1>1, <1>2, FS_AddElement
<1>5. \A s \in DOMAIN remote : remote[s] \in Candidates /\ (remote[s].state = "Valid" => remote[s].addr \in good)
    BY <1>1, <1>2, <1>3
<1>6. NatOk(m, good, sent)
    BY <1>4, <1>5, CandidatesChange
<1>7. seq \in DOMAIN m.remote
    BY <1>1, <1>2 DEF NatFields
<1>8. WithCandidate(n, seq, addr) = AddPairsForRemote(m, seq)
    BY DEF WithCandidate, remote
<1> HIDE DEF m
<1> QED
    BY <1>6, <1>7, <1>8, AddPairsOk

\* generate_predicted_candidates
LEMMA WithPredictionOk ==
    ASSUME NEW n, NEW good, NEW sent, NatOk(n, good, sent), NEW p \in Predictions
    PROVE  NatOk(WithPrediction(n, p), good, sent)
<1>1. p.seq \in Nat /\ p.addr \in Addrs
    BY NatConstants
<1>2. WithPrediction(n, p) \in {n, WithCandidate(n, p.seq, p.addr)}
    BY DEF WithPrediction, WithCandidate
<1> QED
    BY <1>1, <1>2, WithCandidateOk

\* trigger_candidate_validation
LEMMA TriggerOk ==
    ASSUME NEW n, NEW good, NEW sent, NatOk(n, good, sent), NEW addr
    PROVE  NatOk(TriggerValidation(n, addr), good, sent)
<1> DEFINE v == With(n.validations, addr, Validation(NeverSent))
<1>1. \A a \in DOMAIN n.validations :
        /\ n.validations[a] \in Validations
        /\ n.validations[a].challenge # NeverSent => <<a, n.validations[a].challenge>> \in sent
    BY DEF NatOk, ValidationsOk
<1>2. Validation(NeverSent) \in Validations /\ Validation(NeverSent).challenge = NeverSent
    BY DEF Validation, Validations, NeverSent
<1>3. \A a \in DOMAIN v : /\ v[a] \in Validations
                          /\ v[a].challenge # NeverSent => <<a, v[a].challenge>> \in sent
    BY <1>1, <1>2 DEF With
<1>4. TriggerValidation(n, addr) \in {n, [n EXCEPT !.validations = v]}
    BY DEF TriggerValidation
<1> HIDE DEF v
<1>5. NatOk([n EXCEPT !.validations = v], good, sent)
    BY <1>3, ValidationsChange
<1> QED
    BY <1>4, <1>5

\* A validation that is dropped is missed by none.
LEMMA DropOk ==
    ASSUME NEW n, NEW good, NEW sent, NatOk(n, good, sent), NEW addr
    PROVE  NatOk([n EXCEPT !.validations = Without(n.validations, addr)], good, sent)
<1> DEFINE v == Without(n.validations, addr)
<1>1. \A a \in DOMAIN n.validations :
        /\ n.validations[a] \in Validations
        /\ n.validations[a].challenge # NeverSent => <<a, n.validations[a].challenge>> \in sent
    BY DEF NatOk, ValidationsOk
<1>2. \A a \in DOMAIN v : /\ v[a] \in Validations
                          /\ v[a].challenge # NeverSent => <<a, v[a].challenge>> \in sent
    BY <1>1 DEF Without
<1> HIDE DEF v
<1>3. NatOk([n EXCEPT !.validations = v], good, sent)
    BY <1>2, ValidationsChange
<1> QED
    BY <1>3 DEF v

\* A candidate takes another state; valid ones are proven.
LEMMA CandidateStateOk ==
    ASSUME NEW n, NEW good, NEW sent, NatOk(n, good, sent), NEW s \in DOMAIN n.remote,
           NEW state \in {"New", "Validating", "Valid", "Removed"},
           state = "Valid" => n.remote[s].addr \in good
    PROVE  NatOk([n EXCEPT !.remote[s].state = state], good, sent)
<1> DEFINE remote == [n.remote EXCEPT ![s].state = state]
<1>1. /\ IsFiniteSet(DOMAIN n.remote) /\ DOMAIN n.remote \subseteq Nat /\ DOMAIN n = NatFields
      /\ \A t \in DOMAIN n.remote : n.remote[t] \in Candidates
      /\ \A t \in DOMAIN n.remote : n.remote[t].state = "Valid" => n.remote[t].addr \in good
    BY DEF NatOk, CandidatesOk
<1>2. [n.remote[s] EXCEPT !.state = state] \in Candidates
    BY <1>1 DEF Candidates
<1>3. /\ [n.remote[s] EXCEPT !.state = state].state = state
      /\ [n.remote[s] EXCEPT !.state = state].addr = n.remote[s].addr
    BY <1>1 DEF Candidates
<1>4. /\ DOMAIN remote = DOMAIN n.remote /\ remote[s] = [n.remote[s] EXCEPT !.state = state]
      /\ \A t \in DOMAIN n.remote : t # s => remote[t] = n.remote[t]
    OBVIOUS
<1>5. [n EXCEPT !.remote[s].state = state] = [n EXCEPT !.remote = remote]
    OBVIOUS
<1> HIDE DEF remote
<1>6. \A t \in DOMAIN remote : remote[t] \in Candidates /\ (remote[t].state = "Valid" => remote[t].addr \in good)
    BY <1>1, <1>2, <1>3, <1>4
<1> QED
    BY <1>1, <1>4, <1>5, <1>6, CandidatesChange

-----------------------------------------------------------------------------
(* Candidates: poll_transmit and the timer *)

\* What is kept of a round when it changes.
LEMMA RoundTyped ==
    ASSUME NEW r, NEW sent, RoundOk(r, sent), r # NoRound
    PROVE  /\ r \in NatRounds /\ r.retries \in Nat /\ r.timeouts \in Nat /\ r.targets \in Seq(Targets)
           /\ r.phase \in {"Preparing", "Punching", "Validating", "Succeeded"} => r.peer_received
           /\ r.phase = "Validating" => <<r.targets[1].addr, r.targets[1].challenge>> \in sent
<1> DEFINE T == Seq(Targets)
<1>1. r \in NatRounds
    BY DEF RoundOk
<1> HIDE DEF T
<1>2. r.retries \in Nat /\ r.timeouts \in Nat /\ r.targets \in T
    BY <1>1 DEF NatRounds, T
<1> QED
    BY <1>1, <1>2 DEF RoundOk, T

\* A round starts with a name (Round, of handle_peer_punch_request and
\* start_coordination_round).
LEMMA NewRoundOk ==
    ASSUME NEW round \in Nat, NEW targets \in Seq(Targets), NEW phase \in {"Preparing", "Coordinating"},
           NEW received \in BOOLEAN, phase = "Preparing" => received, NEW sent
    PROVE  RoundOk(Round(round, targets, phase, received), sent)
<1> DEFINE T == Seq(Targets)
<1>1. targets \in T
    OBVIOUS
<1>2. Round(round, targets, phase, received) \in NatRounds
    <2> HIDE DEF T
    <2> QED
        BY <1>1 DEF Round, NatRounds, T
<1>3. /\ Round(round, targets, phase, received).phase = phase
      /\ Round(round, targets, phase, received).peer_received = received
    BY DEF Round
<1> QED
    BY <1>2, <1>3 DEF RoundOk

\* handle_peer_punch_request
LEMMA PeerPunchedOk ==
    ASSUME NEW r, NEW sent, RoundOk(r, sent), NEW round \in Nat
    PROVE  RoundOk(PeerPunched(r, round), sent)
<1>1. CASE r # NoRound /\ r.phase \in {"Requesting", "Coordinating"} /\ r.round = round
    <2> DEFINE q == [r EXCEPT !.peer_received = TRUE, !.phase = "Preparing"]
               T == Seq(Targets)
    <2>1. r \in NatRounds
        BY <1>1, RoundTyped
    <2> HIDE DEF T
    <2>2. q \in NatRounds /\ q.phase = "Preparing" /\ q.peer_received = TRUE
        BY <2>1 DEF NatRounds, T
    <2>3. PeerPunched(r, round) = q
        BY <1>1 DEF PeerPunched
    <2> QED
        BY <2>2, <2>3 DEF RoundOk
<1>2. CASE ~(r # NoRound /\ r.phase \in {"Requesting", "Coordinating"} /\ r.round = round)
    <2>1. <<>> \in Seq(Targets)
        OBVIOUS
    <2>2. RoundOk(Round(round, <<>>, "Preparing", TRUE), sent)
        BY <2>1, NewRoundOk
    <2> QED
        BY <1>2, <2>2 DEF PeerPunched
<1> QED
    BY <1>1, <1>2

\* What a round holds.
LEMMA RoundFields ==
    ASSUME NEW r \in NatRounds
    PROVE  /\ DOMAIN r = {"round", "targets", "request_sent", "peer_received", "phase", "retries", "timeouts"}
           /\ r.request_sent \in BOOLEAN /\ r.peer_received \in BOOLEAN
           /\ r.phase \in {"Requesting", "Coordinating", "Preparing", "Punching", "Validating", "Succeeded", "Failed"}
           /\ r.retries \in Nat /\ r.timeouts \in Nat
<1> DEFINE T == Seq(Targets)
<1> HIDE DEF T
<1> QED
    BY DEF NatRounds, T

\* The counters of a round move on, and it takes another phase.
Moved(r, retries, timeouts, phase, asked, received) ==
    [r EXCEPT !.retries = retries, !.timeouts = timeouts, !.phase = phase,
              !.request_sent = asked, !.peer_received = received]

\* Wherever it goes, a round is past its negotiation only when the peer has asked for it.
LEMMA RoundMovesOk ==
    ASSUME NEW r, NEW sent, RoundOk(r, sent), r # NoRound,
           NEW retries \in Nat, NEW timeouts \in Nat, NEW asked \in BOOLEAN, NEW received \in BOOLEAN,
           NEW phase \in {"Requesting", "Coordinating", "Preparing", "Punching", "Validating", "Succeeded", "Failed"},
           phase \in {"Preparing", "Punching", "Validating", "Succeeded"} => received,
           phase = "Validating" => <<r.targets[1].addr, r.targets[1].challenge>> \in sent
    PROVE  RoundOk(Moved(r, retries, timeouts, phase, asked, received), sent)
<1> DEFINE T == Seq(Targets)
           q == Moved(r, retries, timeouts, phase, asked, received)
<1>1. r \in NatRounds
    BY RoundTyped
<1>2. r \in [round : Nat, targets : T, request_sent : BOOLEAN, peer_received : BOOLEAN,
             phase : {"Requesting", "Coordinating", "Preparing", "Punching", "Validating", "Succeeded", "Failed"},
             retries : Nat, timeouts : Nat]
    BY <1>1 DEF NatRounds
<1> HIDE DEF T
<1>3. /\ q \in [round : Nat, targets : T, request_sent : BOOLEAN, peer_received : BOOLEAN,
             phase : {"Requesting", "Coordinating", "Preparing", "Punching", "Validating", "Succeeded", "Failed"},
             retries : Nat, timeouts : Nat]
      /\ q.targets = r.targets /\ q.phase = phase /\ q.peer_received = received
    BY <1>2 DEF Moved
<1> HIDE DEF q
<1>4. q \in NatRounds
    BY <1>3 DEF NatRounds, T
<1>5. RoundOk(q, sent)
    BY <1>3, <1>4 DEF RoundOk
<1> QED
    BY <1>5 DEF q

\* NatTraversalState::handle_timeout, the round's part
LEMMA TimedOutOk ==
    ASSUME NEW r, NEW sent, RoundOk(r, sent), r # NoRound
    PROVE  RoundOk(TimedOut(r), sent)
<1>1. /\ r \in NatRounds
      /\ r.phase \in {"Preparing", "Punching", "Validating", "Succeeded"} => r.peer_received
    BY RoundTyped
<1>2. /\ DOMAIN r = {"round", "targets", "request_sent", "peer_received", "phase", "retries", "timeouts"}
      /\ r.request_sent \in BOOLEAN /\ r.peer_received \in BOOLEAN
      /\ r.phase \in {"Requesting", "Coordinating", "Preparing", "Punching", "Validating", "Succeeded", "Failed"}
      /\ r.retries \in Nat /\ r.timeouts \in Nat
    BY <1>1, RoundFields
<1> DEFINE move(retries, phase) == Moved(r, retries, r.timeouts, phase, r.request_sent, r.peer_received)
<1>3. ASSUME NEW retries, NEW phase
      PROVE  [r EXCEPT !.retries = retries, !.phase = phase] = move(retries, phase)
    BY <1>2 DEF Moved
<1>4. [r EXCEPT !.phase = "Punching"] = move(r.retries, "Punching")
    BY <1>2 DEF Moved
<1>5. ASSUME NEW retries \in Nat, NEW phase \in {"Requesting", "Punching", "Failed"},
             phase = "Punching" => r.peer_received
      PROVE  RoundOk(move(retries, phase), sent)
    BY <1>2, <1>5, RoundMovesOk
<1> HIDE DEF move
<1>6. CASE r.phase \in {"Requesting", "Coordinating"}
    <2> DEFINE phase == IF r.retries + 1 >= MaxRetries THEN "Failed" ELSE "Requesting"
    <2>1. TimedOut(r) = [r EXCEPT !.retries = r.retries + 1, !.phase = phase]
        BY <1>6 DEF TimedOut
    <2>2. phase \in {"Requesting", "Failed"} /\ r.retries + 1 \in Nat
        BY <1>2
    <2> HIDE DEF phase
    <2>3. TimedOut(r) = move(r.retries + 1, phase)
        BY <1>3, <2>1
    <2>4. RoundOk(move(r.retries + 1, phase), sent)
        BY <1>5, <2>2
    <2> QED
        BY <2>3, <2>4
<1>7. CASE r.phase \in {"Punching", "Validating"}
    <2> DEFINE phase == IF r.retries + 1 >= MaxRetries THEN "Failed" ELSE "Punching"
    <2>1. TimedOut(r) = [r EXCEPT !.retries = r.retries + 1, !.phase = phase]
        BY <1>7 DEF TimedOut
    <2>2. phase \in {"Punching", "Failed"} /\ r.retries + 1 \in Nat
        BY <1>2
    <2> HIDE DEF phase
    <2>3. TimedOut(r) = move(r.retries + 1, phase)
        BY <1>3, <2>1
    <2>4. RoundOk(move(r.retries + 1, phase), sent)
        BY <1>1, <1>5, <1>7, <2>2
    <2> QED
        BY <2>3, <2>4
<1>8. CASE r.phase = "Preparing"
    <2>1. TimedOut(r) = move(r.retries, "Punching")
        BY <1>4, <1>8 DEF TimedOut
    <2> QED
        BY <1>1, <1>2, <1>5, <1>8, <2>1
<1>9. CASE r.phase \in {"Succeeded", "Failed"}
    BY <1>9 DEF TimedOut
<1> QED
    BY <1>2, <1>6, <1>7, <1>8, <1>9

\* handle_coordination_failure
LEMMA FailureOk ==
    ASSUME NEW n, NEW good, NEW sent, NatOk(n, good, sent), n.round # NoRound, NEW fit \in BOOLEAN
    PROVE  NatOk(CoordinationFailure(n, fit), good, sent)
<1> DEFINE r == n.round
           c == [r EXCEPT !.retries = @ + 1, !.timeouts = @ + 1]
           again == [c EXCEPT !.phase = "Requesting", !.request_sent = FALSE, !.peer_received = FALSE]
           failed == [c EXCEPT !.phase = "Failed"]
           move(phase, asked, received) == Moved(r, r.retries + 1, r.timeouts + 1, phase, asked, received)
<1>1. CoordinationFailure(n, fit) = [n EXCEPT !.round = again] \/ CoordinationFailure(n, fit) = [n EXCEPT !.round = failed]
    BY DEF CoordinationFailure
<1>2. RoundOk(r, sent) /\ r # NoRound
    BY DEF NatOk
<1> HIDE DEF r
<1>3. r \in NatRounds
    BY <1>2, RoundTyped
<1>4. /\ DOMAIN r = {"round", "targets", "request_sent", "peer_received", "phase", "retries", "timeouts"}
      /\ r.request_sent \in BOOLEAN /\ r.peer_received \in BOOLEAN
      /\ r.retries \in Nat /\ r.timeouts \in Nat
    BY <1>3, RoundFields
<1>5. again = move("Requesting", FALSE, FALSE)
    BY <1>4 DEF Moved
<1>6. failed = move("Failed", r.request_sent, r.peer_received)
    BY <1>4 DEF Moved
<1>7. RoundOk(move("Requesting", FALSE, FALSE), sent) /\ RoundOk(move("Failed", r.request_sent, r.peer_received), sent)
    <2>1. r.retries + 1 \in Nat /\ r.timeouts + 1 \in Nat
        BY <1>4
    <2>2. RoundOk(move("Requesting", FALSE, FALSE), sent)
        BY <1>2, <2>1, RoundMovesOk
    <2>3. RoundOk(move("Failed", r.request_sent, r.peer_received), sent)
        BY <1>2, <1>4, <2>1, RoundMovesOk
    <2> QED
        BY <2>2, <2>3
<1> HIDE DEF again, failed, move
<1>8. NatOk([n EXCEPT !.round = again], good, sent) /\ NatOk([n EXCEPT !.round = failed], good, sent)
    BY <1>5, <1>6, <1>7, RoundChange
<1> QED
    BY <1>1, <1>8

\* A validation that is late may be counted or dropped: its challenge stays.
LEMMA LateOk ==
    ASSUME NEW n, NEW good, NEW sent, NatOk(n, good, sent), NEW late \in SUBSET (DOMAIN n.validations)
    PROVE  NatOk(CheckValidationTimeouts(n, late), good, sent) /\ NatOk(ExpireValidations(n, late), good, sent)
<1>1. /\ DOMAIN n = NatFields
      /\ \A a \in DOMAIN n.validations :
           /\ n.validations[a] \in Validations
           /\ n.validations[a].challenge # NeverSent => <<a, n.validations[a].challenge>> \in sent
    BY DEF NatOk, ValidationsOk
<1> DEFINE both(v) == [v EXCEPT !.retries = @ + 1, !.timeouts = @ + 1]
           one(v) == [v EXCEPT !.retries = @ + 1]
<1>2. ASSUME NEW v \in Validations
      PROVE  both(v) \in Validations /\ both(v).challenge = v.challenge
    <2>1. v.retries + 1 \in Nat /\ v.timeouts + 1 \in Nat
        BY DEF Validations
    <2>2. \A x, y \in Nat : /\ [v EXCEPT !.retries = x, !.timeouts = y] \in Validations
                            /\ [v EXCEPT !.retries = x, !.timeouts = y].challenge = v.challenge
        BY DEF Validations
    <2> QED
        BY <2>1, <2>2
<1>3. ASSUME NEW v \in Validations
      PROVE  one(v) \in Validations /\ one(v).challenge = v.challenge
    BY DEF Validations
<1>4. NatOk(CheckValidationTimeouts(n, late), good, sent)
    <2> DEFINE expired == {a \in late : n.validations[a].timeouts >= MaxRetries}
               v == [a \in DOMAIN n.validations \ expired |->
                       IF a \in late THEN both(n.validations[a]) ELSE n.validations[a]]
    <2>1. CheckValidationTimeouts(n, late) = [n EXCEPT !.validations = v]
        BY DEF CheckValidationTimeouts
    <2> HIDE DEF expired, both
    <2>2. \A a \in DOMAIN v : /\ v[a] \in Validations
                              /\ v[a].challenge # NeverSent => <<a, v[a].challenge>> \in sent
        BY <1>1, <1>2
    <2> HIDE DEF v
    <2>3. NatOk([n EXCEPT !.validations = v], good, sent)
        BY <2>2, ValidationsChange
    <2> QED
        BY <2>1, <2>3
<1>5. NatOk(ExpireValidations(n, late), good, sent)
    <2> DEFINE expired == {a \in late : n.validations[a].retries + 1 >= MaxRetries}
               v == [a \in DOMAIN n.validations \ expired |->
                       IF a \in late THEN one(n.validations[a]) ELSE n.validations[a]]
    <2>1. ExpireValidations(n, late) = [n EXCEPT !.validations = v]
        BY DEF ExpireValidations
    <2> HIDE DEF expired, one
    <2>2. \A a \in DOMAIN v : /\ v[a] \in Validations
                              /\ v[a].challenge # NeverSent => <<a, v[a].challenge>> \in sent
        BY <1>1, <1>3
    <2> HIDE DEF v
    <2>3. NatOk([n EXCEPT !.validations = v], good, sent)
        BY <2>2, ValidationsChange
    <2> QED
        BY <2>1, <2>3
<1> QED
    BY <1>4, <1>5

\* A round takes another phase.
LEMMA PhaseOk ==
    ASSUME NEW n, NEW good, NEW sent, NatOk(n, good, sent), n.round # NoRound,
           NEW phase \in {"Punching", "Validating", "Succeeded"}, n.round.peer_received,
           phase = "Validating" => <<n.round.targets[1].addr, n.round.targets[1].challenge>> \in sent
    PROVE  /\ NatOk([n EXCEPT !.round.phase = phase], good, sent)
           /\ NatOk([n EXCEPT !.round.phase = phase, !.round.timeouts = 0], good, sent)
<1> DEFINE r == n.round
<1>1. RoundOk(r, sent) /\ r # NoRound /\ DOMAIN n = NatFields
    BY DEF NatOk
<1>2. /\ DOMAIN r = {"round", "targets", "request_sent", "peer_received", "phase", "retries", "timeouts"}
      /\ r.request_sent \in BOOLEAN /\ r.peer_received \in BOOLEAN
      /\ r.retries \in Nat /\ r.timeouts \in Nat
    BY <1>1, RoundTyped, RoundFields
<1>3. [n EXCEPT !.round.phase = phase] = [n EXCEPT !.round = [r EXCEPT !.phase = phase]]
    OBVIOUS
<1>4. [n EXCEPT !.round.phase = phase, !.round.timeouts = 0] = [n EXCEPT !.round = [r EXCEPT !.phase = phase, !.timeouts = 0]]
    BY <1>1 DEF NatFields
<1>5. r.peer_received /\ (phase = "Validating" => <<r.targets[1].addr, r.targets[1].challenge>> \in sent)
    OBVIOUS
<1> HIDE DEF r
<1>6. [r EXCEPT !.phase = phase] = Moved(r, r.retries, r.timeouts, phase, r.request_sent, r.peer_received)
    BY <1>2 DEF Moved
<1>7. [r EXCEPT !.phase = phase, !.timeouts = 0] = Moved(r, r.retries, 0, phase, r.request_sent, r.peer_received)
    BY <1>2 DEF Moved
<1>8. RoundOk(Moved(r, r.retries, r.timeouts, phase, r.request_sent, r.peer_received), sent)
    BY <1>1, <1>2, <1>5, RoundMovesOk
<1>9. RoundOk(Moved(r, r.retries, 0, phase, r.request_sent, r.peer_received), sent)
    BY <1>1, <1>2, <1>5, RoundMovesOk
<1>10. NatOk([n EXCEPT !.round = [r EXCEPT !.phase = phase]], good, sent)
    BY <1>6, <1>8, RoundChange
<1>11. NatOk([n EXCEPT !.round = [r EXCEPT !.phase = phase, !.timeouts = 0]], good, sent)
    BY <1>7, <1>9, RoundChange
<1> QED
    BY <1>3, <1>4, <1>10, <1>11

\* send_coordination_request
LEMMA RequestOk ==
    ASSUME NEW n, NEW good, NEW sent, NatOk(n, good, sent)
    PROVE  NatOk(SendCoordinationRequest(n), good, sent)
<1> DEFINE r == n.round
           q == [r EXCEPT !.request_sent = TRUE, !.phase = "Coordinating"]
<1>1. RoundOk(r, sent) /\ DOMAIN n = NatFields
    BY DEF NatOk
<1>2. SendCoordinationRequest(n) = n \/ (r # NoRound /\ SendCoordinationRequest(n) = [n EXCEPT !.round = q])
    BY <1>1 DEF SendCoordinationRequest, NatFields
<1> HIDE DEF r
<1>3. CASE r # NoRound
    <2>1. /\ DOMAIN r = {"round", "targets", "request_sent", "peer_received", "phase", "retries", "timeouts"}
          /\ r.peer_received \in BOOLEAN /\ r.retries \in Nat /\ r.timeouts \in Nat
        BY <1>1, <1>3, RoundTyped, RoundFields
    <2>2. q = Moved(r, r.retries, r.timeouts, "Coordinating", TRUE, r.peer_received)
        BY <2>1 DEF Moved
    <2>3. RoundOk(Moved(r, r.retries, r.timeouts, "Coordinating", TRUE, r.peer_received), sent)
        BY <1>1, <1>3, <2>1, RoundMovesOk
    <2> HIDE DEF q
    <2>4. NatOk([n EXCEPT !.round = q], good, sent)
        BY <2>2, <2>3, RoundChange
    <2> QED
        BY <1>2, <2>4
<1> QED
    BY <1>2, <1>3

\* start_punching_phase
LEMMA StartPunchingOk ==
    ASSUME NEW n, NEW good, NEW sent, NatOk(n, good, sent), NEW due \in BOOLEAN
    PROVE  NatOk(StartPunching(n, due), good, sent)
<1>1. RoundOk(n.round, sent)
    BY DEF NatOk
<1>2. CASE ShouldStartPunching(n.round, due)
    <2>1. n.round # NoRound /\ n.round.peer_received
        BY <1>1, <1>2, RoundTyped DEF ShouldStartPunching
    <2>2. NatOk([n EXCEPT !.round.phase = "Punching"], good, sent)
        BY <2>1, PhaseOk
    <2> QED
        BY <1>2, <2>2 DEF StartPunching
<1> QED
    BY <1>2 DEF StartPunching

\* start_validation: the challenge that is recorded is the one that is sent.
LEMMA StartValidationOk ==
    ASSUME NEW n, NEW good, NEW sent, NatOk(n, good, sent), NEW s \in DOMAIN n.remote, NEW challenge \in Nat,
           <<n.remote[s].addr, challenge>> \in sent
    PROVE  NatOk(StartValidation(n, s, challenge), good, sent)
<1> DEFINE m == [n EXCEPT !.remote[s].state = "Validating"]
           a0 == n.remote[s].addr
           v == With(n.validations, a0, Validation(challenge))
<1>1. NatOk(m, good, sent)
    BY CandidateStateOk
<1>2. /\ DOMAIN n = NatFields
      /\ \A a \in DOMAIN n.validations :
           /\ n.validations[a] \in Validations
           /\ n.validations[a].challenge # NeverSent => <<a, n.validations[a].challenge>> \in sent
    BY DEF NatOk, ValidationsOk
<1>3. Validation(challenge) \in Validations /\ Validation(challenge).challenge = challenge
    BY DEF Validation, Validations
<1>4. <<a0, challenge>> \in sent
    OBVIOUS
<1>5. StartValidation(n, s, challenge) = [m EXCEPT !.validations = v]
    BY <1>2 DEF StartValidation, NatFields
<1> HIDE DEF a0, m
<1>6. \A a \in DOMAIN v : /\ v[a] \in Validations
                          /\ v[a].challenge # NeverSent => <<a, v[a].challenge>> \in sent
    BY <1>2, <1>3, <1>4 DEF With
<1> HIDE DEF v
<1>7. NatOk([m EXCEPT !.validations = v], good, sent)
    BY <1>1, <1>6, ValidationsChange
<1> QED
    BY <1>5, <1>7

-----------------------------------------------------------------------------
(* Candidates: pairs that succeed, pairs that are chosen *)

\* mark_pair_succeeded: the pairs keep their order, and the one that succeeds has the
\* address that was proven.
LEMMA MarkOk ==
    ASSUME NEW n, NEW good, NEW sent, NatOk(n, good, sent), NEW addr \in good
    PROVE  NatOk(MarkPairSucceeded(n, addr), good, sent)
<1>1. CASE addr \notin DOMAIN n.index
    BY <1>1 DEF MarkPairSucceeded
<1>2. CASE addr \in DOMAIN n.index
    <2> DEFINE won == n.index[addr]
               old == n.pairs
               freezes(i) == /\ i # won /\ old[i].type = old[won].type
                             /\ old[i].prio < old[won].prio /\ old[i].state = "Waiting"
               new == [i \in DOMAIN old |->
                         CASE i = won -> [old[i] EXCEPT !.state = "Succeeded"]
                           [] freezes(i) -> [old[i] EXCEPT !.state = "Frozen"]
                           [] OTHER -> old[i]]
               m == [n EXCEPT !.pairs = new]
    <2>1. MarkPairSucceeded(n, addr) = m
        BY <1>2 DEF MarkPairSucceeded
    <2>2. /\ DOMAIN n = NatFields /\ old \in Seq(Pairs) /\ IndexOf(n.index, old)
          /\ \A i \in DOMAIN old : old[i].state = "Succeeded" => old[i].addr \in good
        BY DEF NatOk, PairsOk
    <2>3. won \in DOMAIN old /\ old[won].addr = addr
        BY <1>2, <2>2 DEF IndexOf
    <2>4. DOMAIN old = 1 .. Len(old) /\ Len(old) \in Nat /\ \A i \in DOMAIN old : old[i] \in Pairs
        BY <2>2, PairSeq
    <2>5. ASSUME NEW p \in Pairs, NEW state \in {"Waiting", "Succeeded", "Frozen"}
          PROVE  /\ [p EXCEPT !.state = state] \in Pairs /\ [p EXCEPT !.state = state].addr = p.addr
                 /\ [p EXCEPT !.state = state].prio = p.prio /\ [p EXCEPT !.state = state].state = state
        BY DEF Pairs
    <2>6. ASSUME NEW i \in DOMAIN old
          PROVE  /\ new[i] \in Pairs /\ new[i].addr = old[i].addr /\ new[i].prio = old[i].prio
                 /\ new[i].state = "Succeeded" => new[i].addr \in good
        <3>1. CASE i = won
            <4>1. new[i] = [old[i] EXCEPT !.state = "Succeeded"]
                BY <3>1
            <4> HIDE DEF new, won, old
            <4>2. old[i] \in Pairs
                BY <2>4
            <4> DEFINE p == old[i]
            <4>3. p \in Pairs /\ new[i] = [p EXCEPT !.state = "Succeeded"]
                BY <4>1, <4>2
            <4> HIDE DEF p
            <4>4. new[i] \in Pairs /\ new[i].addr = p.addr /\ new[i].prio = p.prio
                BY <4>3 DEF Pairs
            <4> QED
                BY <2>3, <3>1, <4>4 DEF p
        <3>2. CASE i # won /\ freezes(i)
            <4>1. new[i] = [old[i] EXCEPT !.state = "Frozen"]
                BY <3>2
            <4> HIDE DEF new, won, old
            <4>2. PICK p \in Pairs : p = old[i]
                BY <2>4
            <4>3. new[i] = [p EXCEPT !.state = "Frozen"]
                BY <4>1, <4>2
            <4>4. /\ new[i] \in Pairs /\ new[i].addr = p.addr /\ new[i].prio = p.prio
                  /\ new[i].state = "Frozen"
                BY <2>5, <4>3, ZenonT(60)
            <4> QED
                BY <4>2, <4>4
        <3>3. CASE i # won /\ ~freezes(i)
            <4>1. new[i] = old[i]
                BY <3>3
            <4> HIDE DEF new, won, old
            <4> QED
                BY <2>2, <2>4, <4>1
        <3> QED
            BY <3>1, <3>2, <3>3
    <2>7. /\ DOMAIN m = NatFields /\ m.next_sequence = n.next_sequence /\ m.round = n.round
          /\ m.local = n.local /\ m.remote = n.remote /\ m.validations = n.validations
          /\ m.pairs = new /\ m.index = n.index
        BY <2>2 DEF NatFields
    <2>8. DOMAIN new = DOMAIN old
        OBVIOUS
    <2> HIDE DEF new, m, won
    <2>9. new \in Seq(Pairs)
        <3>1. new = [i \in 1 .. Len(old) |-> new[i]]
            BY <2>4 DEF new
        <3> HIDE DEF old
        <3>2. new \in [1 .. Len(old) -> Pairs]
            BY <2>4, <2>6, <3>1
        <3> QED
            BY <2>4, <3>2
    <2>10. IndexOf(n.index, new)
        <3> HIDE DEF old
        <3>1. {new[i].addr : i \in DOMAIN new} = {old[i].addr : i \in DOMAIN old}
            BY <2>6, <2>8
        <3> QED
            BY <2>2, <2>6, <2>8, <3>1 DEF IndexOf
    <2>11. PairsOk(m, good)
        BY <2>6, <2>7, <2>8, <2>9, <2>10 DEF PairsOk
    <2>12. CandidatesOk(m, good) /\ ValidationsOk(m, sent) /\ RoundOk(m.round, sent) /\ m.next_sequence \in Nat
        BY <2>7 DEF NatOk, CandidatesOk, ValidationsOk
    <2> QED
        BY <2>1, <2>7, <2>11, <2>12 DEF NatOk
<1> QED
    BY <1>1, <1>2

\* The k-th of a finite set of places exists.
LEMMA NthPlace ==
    ASSUME NEW pairs \in Seq(Pairs), NEW W \in SUBSET (DOMAIN pairs), NEW k \in 1 .. Cardinality(W)
    PROVE  \E i \in W : Cardinality({h \in W : h <= i}) = k
<1> DEFINE below(i) == {h \in W : h <= i}
           c == Cardinality(W)
           f == [i \in W |-> Cardinality(below(i))]
<1>1. DOMAIN pairs \subseteq Nat
    BY PairSeq
<1>2. IsFiniteSet(W) /\ c \in Nat
    BY PlacesFinite
<1>3. ASSUME NEW i \in W
      PROVE  f[i] \in 1 .. c
    <2>1. i \in below(i) /\ below(i) \subseteq W
        BY <1>1
    <2>2. IsFiniteSet(below(i)) /\ Cardinality(below(i)) \in Nat /\ Cardinality(below(i)) <= c
        BY <1>2, <2>1, FS_Subset, FS_CardinalityType
    <2>3. Cardinality(below(i)) # 0
        BY <2>1, <2>2, FS_EmptySet
    <2> QED
        BY <1>2, <2>2, <2>3
<1>4. ASSUME NEW i \in W, NEW j \in W, i < j
      PROVE  f[i] < f[j]
    <2>1. below(i) \subseteq below(j) /\ j \in below(j) /\ j \notin below(i)
        BY <1>1, <1>4
    <2>2. IsFiniteSet(below(j)) /\ Cardinality(below(j)) \in Nat /\ Cardinality(below(i)) \in Nat
        BY PlacesFinite
    <2> QED
        BY <2>1, <2>2, FS_Subset
<1>5. ASSUME NEW i \in W, NEW j \in W, f[i] = f[j]
      PROVE  i = j
    <2>1. f[i] \in Nat /\ f[j] \in Nat /\ i \in Nat /\ j \in Nat
        BY <1>1, <1>2, <1>3
    <2> HIDE DEF f
    <2> QED
        BY <1>4, <1>5, <2>1
<1>6. f \in Injection(W, 1 .. c)
    BY <1>3, <1>5 DEF Injection, IsInjective
<1>7. f \in Surjection(W, 1 .. c)
    <2>1. IsFiniteSet(1 .. c) /\ Cardinality(1 .. c) = c
        BY <1>2, FS_Interval
    <2> HIDE DEF f
    <2> QED
        BY <1>2, <1>6, <2>1, FS_Injection
<1> QED
    BY <1>7 DEF Surjection

\* get_next_validation_pairs: as many as wait, and no more than were asked for.
LEMMA WaitingOk ==
    ASSUME NEW n, n.pairs \in Seq(Pairs), NEW k \in Nat
    PROVE  WaitingPairs(n, k) \in Seq(Pairs)
<1> DEFINE waiting == {i \in DOMAIN n.pairs : n.pairs[i].state = "Waiting"}
           c == Cardinality(waiting)
           m == Min({k, c})
           at(j) == CHOOSE i \in waiting : Cardinality({h \in waiting : h <= i}) = j
<1>1. c \in Nat
    BY PlacesFinite
<1>2. m \in Nat /\ m <= c
    BY <1>1, LeastAndGreatest
<1>3. WaitingPairs(n, k) = [j \in 1 .. m |-> n.pairs[at(j)]]
    BY DEF WaitingPairs
<1>4. ASSUME NEW j \in 1 .. m
      PROVE  n.pairs[at(j)] \in Pairs
    <2>1. j \in 1 .. c
        BY <1>1, <1>2
    <2>2. \E i \in waiting : Cardinality({h \in waiting : h <= i}) = j
        BY <2>1, NthPlace, ZenonT(60)
    <2>3. at(j) \in waiting
        BY <2>2
    <2> QED
        BY <2>3, PairSeq
<1> HIDE DEF m, at
<1> QED
    BY <1>2, <1>3, <1>4

-----------------------------------------------------------------------------
(* Candidates: the invariant *)

\* A connection starts without candidates.
LEMMA NatInit ==
    ASSUME Init
    PROVE  NatInv
<1>1. nat = NewState /\ DOMAIN nat = NatFields
    BY DEF Init, NewState, NatFields
<1>2. /\ nat.next_sequence = 1 /\ nat.round = NoRound /\ nat.local = <<>> /\ nat.remote = <<>>
      /\ nat.pairs = <<>> /\ nat.index = <<>> /\ nat.validations = <<>>
    BY <1>1 DEF NewState
<1>3. IsFiniteSet({})
    BY FS_EmptySet
<1>4. DOMAIN <<>> = {} /\ <<>> \in Seq(Pairs)
    OBVIOUS
<1>5. CandidatesOk(nat, ProvenAddrs)
    BY <1>2, <1>3, <1>4 DEF CandidatesOk
<1>6. PairsOk(nat, ProvenAddrs)
    BY <1>2, <1>4 DEF PairsOk, IndexOf
<1>7. ValidationsOk(nat, challenges) /\ RoundOk(nat.round, challenges)
    BY <1>2, <1>4 DEF ValidationsOk, RoundOk
<1>8. used \in [seq : Nat, punches : Nat, challenges : 0 .. MaxChallenges, rounds : Nat, locals : SUBSET LocalAddrs]
    BY NatConstants DEF Init
<1>9. frames \subseteq [type : {"ADD", "REMOVE"}, seq : Nat, addr : Addrs] /\ challenges \subseteq Addrs \X (1 .. MaxChallenges)
    BY DEF Init
<1> QED
    BY <1>1, <1>2, <1>5, <1>6, <1>7, <1>8, <1>9 DEF NatInv, NatOk

\* An address that is proven stays so.
LEMMA ProvenGrows ==
    ASSUME challenges \subseteq challenges', echoed \subseteq echoed'
    PROVE  ProvenAddrs \subseteq ProvenAddrs'
BY DEF ProvenAddrs, Proven

\* handle_add_address
LEMMA AddAddressKeeps ==
    ASSUME NatInv, NEW f \in frames, AddAddress(f)
    PROVE  NatInv'
<1>1. f.seq \in Nat /\ f.addr \in Addrs
    BY DEF NatInv
<1>2. ProvenAddrs' = ProvenAddrs /\ UNCHANGED <<challenges, frames, used>>
    BY DEF AddAddress, ProvenAddrs, Proven
<1>3. CASE UNCHANGED nat
    BY <1>2, <1>3 DEF NatInv
<1>4. ASSUME nat # Disabled, NEW n,
             n \in {WithCandidate(nat, f.seq, f.addr)} \cup {WithPrediction(WithCandidate(nat, f.seq, f.addr), p) : p \in Predictions},
             nat' = TriggerValidation(n, f.addr)
      PROVE  NatInv'
    <2>1. NatOk(nat, ProvenAddrs, challenges)
        BY <1>4 DEF NatInv
    <2>2. NatOk(WithCandidate(nat, f.seq, f.addr), ProvenAddrs, challenges)
        BY <1>1, <2>1, WithCandidateOk
    <2>3. \A p \in Predictions : NatOk(WithPrediction(WithCandidate(nat, f.seq, f.addr), p), ProvenAddrs, challenges)
        BY <2>2, WithPredictionOk
    <2>4. NatOk(n, ProvenAddrs, challenges)
        BY <1>4, <2>2, <2>3
    <2>5. NatOk(nat', ProvenAddrs, challenges)
        BY <1>4, <2>4, TriggerOk
    <2> QED
        BY <1>2, <2>5 DEF NatInv
<1> QED
    BY <1>3, <1>4 DEF AddAddress

\* handle_remove_address
LEMMA RemoveAddressKeeps ==
    ASSUME NatInv, NEW f \in frames, RemoveAddress(f)
    PROVE  NatInv'
<1>1. ProvenAddrs' = ProvenAddrs /\ UNCHANGED <<challenges, frames, used>>
    BY DEF RemoveAddress, ProvenAddrs, Proven
<1>2. CASE UNCHANGED nat
    BY <1>1, <1>2 DEF NatInv
<1>3. ASSUME nat # Disabled, f.seq \in DOMAIN nat.remote,
             nat' = [nat EXCEPT !.remote[f.seq].state = "Removed",
                                !.validations = Without(@, nat.remote[f.seq].addr)]
      PROVE  NatInv'
    <2> DEFINE m == [nat EXCEPT !.remote[f.seq].state = "Removed"]
               a == nat.remote[f.seq].addr
    <2>1. NatOk(nat, ProvenAddrs, challenges) /\ DOMAIN nat = NatFields
        BY <1>3 DEF NatInv, NatOk
    <2>2. NatOk(m, ProvenAddrs, challenges)
        BY <1>3, <2>1, CandidateStateOk
    <2>3. nat' = [m EXCEPT !.validations = Without(m.validations, a)]
        BY <1>3, <2>1 DEF NatFields
    <2> HIDE DEF m, a
    <2>4. NatOk(nat', ProvenAddrs, challenges)
        BY <2>2, <2>3, DropOk
    <2> QED
        BY <1>1, <2>4 DEF NatInv
<1> QED
    BY <1>2, <1>3 DEF RemoveAddress

\* handle_punch_me_now
LEMMA PunchKeeps ==
    ASSUME NatInv, NEW round \in Nat, PunchMeNow(round)
    PROVE  NatInv'
<1>1. ProvenAddrs' = ProvenAddrs /\ UNCHANGED <<challenges, frames>>
    BY DEF PunchMeNow, ProvenAddrs, Proven
<1>2. used' \in [seq : Nat, punches : Nat, challenges : 0 .. MaxChallenges, rounds : Nat, locals : SUBSET LocalAddrs]
    BY DEF PunchMeNow, NatInv
<1>3. CASE UNCHANGED nat
    BY <1>1, <1>2, <1>3 DEF NatInv
<1>4. CASE nat # Disabled /\ nat' = [nat EXCEPT !.round = PeerPunched(@, round)]
    <2>1. NatOk(nat, ProvenAddrs, challenges) /\ RoundOk(nat.round, challenges)
        BY <1>4 DEF NatInv, NatOk
    <2>2. RoundOk(PeerPunched(nat.round, round), challenges)
        BY <2>1, PeerPunchedOk
    <2>3. NatOk(nat', ProvenAddrs, challenges)
        BY <1>4, <2>1, <2>2, RoundChange
    <2> QED
        BY <1>1, <1>2, <2>3 DEF NatInv
<1> QED
    BY <1>3, <1>4 DEF PunchMeNow

\* The bounds' counters, apart from the one of the challenges.
UsedType == [seq : Nat, punches : Nat, challenges : 0 .. MaxChallenges, rounds : Nat, locals : SUBSET LocalAddrs]

\* handle_validation_success and what follows it: the challenge that came back is the one that
\* was sent to this address, so that it is proven.
LEMMA PathResponseKeeps ==
    ASSUME NatInv, NEW a \in Addrs, NEW c \in 1 .. MaxChallenges, PathResponse(a, c)
    PROVE  NatInv'
<1>1. UNCHANGED <<challenges, frames, used>> /\ nat # Disabled /\ echoed' = echoed \cup {<<a, c>>}
    BY DEF PathResponse
<1>2. ProvenAddrs \subseteq ProvenAddrs'
    BY <1>1, ProvenGrows
<1>3. NatOk(nat, ProvenAddrs', challenges)
    BY <1>1, <1>2, NatGrows DEF NatInv
<1>4. DOMAIN nat = NatFields
    BY <1>3 DEF NatOk
<1>5. CASE UNCHANGED nat
    BY <1>1, <1>3, <1>5 DEF NatInv
<1>6. ASSUME Expected(a, c), NEW s \in DOMAIN nat.remote, nat.remote[s].addr = a
      PROVE  /\ a \in ProvenAddrs'
             /\ NatOk([nat EXCEPT !.remote[s].state = "Valid", !.validations = Without(@, a), !.responded = TRUE],
                      ProvenAddrs', challenges)
    <2> DEFINE n1 == [nat EXCEPT !.remote[s].state = "Valid"]
               n2 == [n1 EXCEPT !.validations = Without(n1.validations, a)]
    <2>1. <<a, c>> \in challenges
        <3>1. a \in DOMAIN nat.validations /\ nat.validations[a].challenge = c
            BY <1>6 DEF Expected
        <3>2. c # NeverSent
            BY NatConstants DEF NeverSent
        <3> QED
            BY <1>3, <3>1, <3>2 DEF NatOk, ValidationsOk
    <2>2. a \in ProvenAddrs'
        BY <1>1, <2>1 DEF ProvenAddrs, Proven
    <2>3. NatOk(n1, ProvenAddrs', challenges)
        BY <1>3, <1>6, <2>2, CandidateStateOk
    <2>4. [nat EXCEPT !.remote[s].state = "Valid", !.validations = Without(@, a), !.responded = TRUE]
             = [n2 EXCEPT !.responded = TRUE]
        BY <1>4 DEF NatFields
    <2> HIDE DEF n1
    <2>5. NatOk(n2, ProvenAddrs', challenges)
        BY <2>3, DropOk
    <2> HIDE DEF n2
    <2>6. NatOk([n2 EXCEPT !.responded = TRUE], ProvenAddrs', challenges)
        <3> DEFINE m == [n2 EXCEPT !.responded = TRUE]
        <3>1. /\ DOMAIN m = NatFields /\ m.next_sequence = n2.next_sequence /\ m.round = n2.round
              /\ m.local = n2.local /\ m.remote = n2.remote /\ m.validations = n2.validations
              /\ m.pairs = n2.pairs /\ m.index = n2.index
            BY <2>5 DEF NatOk, NatFields
        <3> HIDE DEF m
        <3>2. NatOk(m, ProvenAddrs', challenges)
            BY <2>5, <3>1 DEF NatOk, CandidatesOk, PairsOk, ValidationsOk
        <3> QED
            BY <3>2 DEF m
    <2> QED
        BY <2>2, <2>4, <2>6
<1>7. ASSUME Expected(a, c), NEW s \in DOMAIN nat.remote, nat.remote[s].addr = a, NEW valid,
             valid = [nat EXCEPT !.remote[s].state = "Valid", !.validations = Without(@, a), !.responded = TRUE],
             \/ CompletesRound(nat.round, a) /\ nat' = [valid EXCEPT !.round.phase = "Succeeded", !.round.timeouts = 0]
             \/ nat' = MarkPairSucceeded(valid, a)
      PROVE  NatInv'
    <2>1. a \in ProvenAddrs' /\ NatOk(valid, ProvenAddrs', challenges)
        BY <1>6, <1>7
    <2>2. valid.round = nat.round
        BY <1>4, <1>7 DEF NatFields
    <2>3. CASE CompletesRound(nat.round, a) /\ nat' = [valid EXCEPT !.round.phase = "Succeeded", !.round.timeouts = 0]
        <3>1. valid.round # NoRound /\ valid.round.phase = "Validating" /\ RoundOk(valid.round, challenges)
            BY <2>1, <2>2, <2>3 DEF CompletesRound, NatOk
        <3>2. valid.round.peer_received
            BY <3>1, RoundTyped
        <3>3. NatOk(nat', ProvenAddrs', challenges)
            BY <2>1, <2>3, <3>1, <3>2, PhaseOk
        <3> QED
            BY <1>1, <3>3 DEF NatInv
    <2>4. CASE nat' = MarkPairSucceeded(valid, a)
        <3>1. NatOk(nat', ProvenAddrs', challenges)
            BY <2>1, <2>4, MarkOk
        <3> QED
            BY <1>1, <3>1 DEF NatInv
    <2> QED
        BY <1>7, <2>3, <2>4
<1>8. CASE UNCHANGED nat \/ Expected(a, c)
    <2>1. ASSUME ~UNCHANGED nat
          PROVE  \E s \in {t \in DOMAIN nat.remote : nat.remote[t].addr = a} :
                   LET valid == [nat EXCEPT !.remote[s].state = "Valid", !.validations = Without(@, a), !.responded = TRUE]
                   IN \/ CompletesRound(nat.round, a) /\ nat' = [valid EXCEPT !.round.phase = "Succeeded", !.round.timeouts = 0]
                      \/ nat' = MarkPairSucceeded(valid, a)
        BY <2>1 DEF PathResponse
    <2> QED
        BY <1>5, <1>7, <1>8, <2>1
<1> QED
    BY <1>8 DEF PathResponse

\* handle_nat_traversal_timeout
LEMMA NatTimerKeeps ==
    ASSUME NatInv, NEW due \in BOOLEAN, NEW late \in SUBSET Pending, NatTimer(due, late)
    PROVE  NatInv'
<1> DEFINE r == IF nat.round # NoRound /\ due THEN TimedOut(nat.round) ELSE nat.round
           n == [nat EXCEPT !.round = r]
<1>1. UNCHANGED <<challenges, frames, used>> /\ ProvenAddrs' = ProvenAddrs /\ nat # Disabled
    BY DEF NatTimer, ProvenAddrs, Proven
<1>2. nat' = Disabled \/ nat' = ExpireValidations(n, late)
    BY DEF NatTimer
<1>3. NatOk(nat, ProvenAddrs, challenges) /\ DOMAIN nat = NatFields /\ RoundOk(nat.round, challenges)
    BY <1>1 DEF NatInv, NatOk
<1>4. RoundOk(r, challenges)
    BY <1>3, TimedOutOk
<1>5. late \in SUBSET (DOMAIN n.validations)
    BY <1>1, <1>3 DEF Pending, NatFields
<1> HIDE DEF r
<1>6. NatOk(n, ProvenAddrs, challenges)
    BY <1>3, <1>4, RoundChange
<1> HIDE DEF n
<1>7. NatOk(ExpireValidations(n, late), ProvenAddrs, challenges)
    BY <1>5, <1>6, LateOk
<1> QED
    BY <1>1, <1>2, <1>7 DEF NatInv

\* Before poll_transmit sends, the state keeps what it had.
LEMMA BeforeSendingOk ==
    ASSUME NatInv, nat # Disabled, NEW late_round \in BOOLEAN, NEW late \in SUBSET Pending,
           NEW due \in BOOLEAN, NEW fit \in BOOLEAN, late_round => nat.round # NoRound
    PROVE  NatOk(BeforeSending(late_round, late, due, fit), ProvenAddrs, challenges)
<1> DEFINE n1 == IF late_round THEN CoordinationFailure(nat, fit) ELSE nat
           n2 == CheckValidationTimeouts(n1, late)
           n3 == SendCoordinationRequest(n2)
<1>1. NatOk(nat, ProvenAddrs, challenges) /\ DOMAIN nat = NatFields
    BY DEF NatInv, NatOk
<1>2. NatOk(n1, ProvenAddrs, challenges)
    BY <1>1, FailureOk
<1>3. late \in SUBSET (DOMAIN n1.validations)
    BY <1>1 DEF Pending, CoordinationFailure, NatFields
<1>4. BeforeSending(late_round, late, due, fit) = StartPunching(n3, due)
    BY DEF BeforeSending
<1> HIDE DEF n1
<1>5. NatOk(n2, ProvenAddrs, challenges)
    BY <1>2, <1>3, LateOk
<1> HIDE DEF n2
<1>6. NatOk(n3, ProvenAddrs, challenges)
    BY <1>5, RequestOk
<1> HIDE DEF n3
<1> QED
    BY <1>4, <1>6, StartPunchingOk

\* poll_transmit: what is sent is recorded as sent.
LEMMA PollTransmitKeeps ==
    ASSUME NatInv, NEW late_round \in BOOLEAN, NEW late \in SUBSET Pending,
           NEW due \in BOOLEAN, NEW fit \in BOOLEAN, PollTransmit(late_round, late, due, fit)
    PROVE  NatInv'
<1> DEFINE n == BeforeSending(late_round, late, due, fit)
<1>1. /\ nat # Disabled /\ UNCHANGED <<frames, echoed>> /\ (late_round => nat.round # NoRound)
      /\ challenges \subseteq challenges'
    BY DEF PollTransmit
<1>2. NatOk(n, ProvenAddrs, challenges)
    BY <1>1, BeforeSendingOk
<1>3. ProvenAddrs \subseteq ProvenAddrs'
    BY <1>1, ProvenGrows
<1>4. NatOk(n, ProvenAddrs', challenges')
    BY <1>1, <1>2, <1>3, NatGrows
<1>5. frames' \subseteq [type : {"ADD", "REMOVE"}, seq : Nat, addr : Addrs] /\ used \in UsedType
      /\ challenges \subseteq Addrs \X (1 .. MaxChallenges)
    BY <1>1 DEF NatInv, UsedType
<1>6. \/ /\ Punching(n) /\ nat' = [n EXCEPT !.round.phase = "Validating"]
         /\ challenges' = challenges \cup {<<n.round.targets[1].addr, n.round.targets[1].challenge>>}
         /\ UNCHANGED used
      \/ /\ used.challenges < MaxChallenges
         /\ used' = [used EXCEPT !.challenges = @ + 1]
         /\ \E s \in FirstNew(n) :
               /\ nat' = StartValidation(n, s, used.challenges + 1)
               /\ challenges' = challenges \cup {<<n.remote[s].addr, used.challenges + 1>>}
      \/ nat' = n /\ UNCHANGED <<challenges, used>>
    BY DEF PollTransmit
<1> HIDE DEF n
<1>7. CASE /\ Punching(n) /\ nat' = [n EXCEPT !.round.phase = "Validating"]
           /\ challenges' = challenges \cup {<<n.round.targets[1].addr, n.round.targets[1].challenge>>}
           /\ UNCHANGED used
    <2> DEFINE t == n.round.targets
    <2>1. /\ n.round # NoRound /\ n.round.phase = "Punching" /\ t # <<>> /\ RoundOk(n.round, challenges')
        BY <1>4, <1>7 DEF Punching, NatOk
    <2>2. n.round.peer_received /\ t \in Seq(Targets)
        BY <2>1, RoundTyped
    <2>3. t[1] \in Targets
        BY <2>1, <2>2
    <2>4. <<t[1].addr, t[1].challenge>> \in Addrs \X (1 .. MaxChallenges)
        BY <2>3 DEF Targets
    <2>5. NatOk(nat', ProvenAddrs', challenges')
        BY <1>4, <1>7, <2>1, <2>2, PhaseOk
    <2>6. challenges' \subseteq Addrs \X (1 .. MaxChallenges)
        BY <1>5, <1>7, <2>4
    <2> QED
        BY <1>5, <1>7, <2>5, <2>6 DEF NatInv, UsedType
<1>8. ASSUME used.challenges < MaxChallenges, used' = [used EXCEPT !.challenges = @ + 1],
             NEW s \in FirstNew(n), nat' = StartValidation(n, s, used.challenges + 1),
             challenges' = challenges \cup {<<n.remote[s].addr, used.challenges + 1>>}
      PROVE  NatInv'
    <2>1. used.challenges + 1 \in 1 .. MaxChallenges
        BY <1>5, <1>8, NatConstants DEF UsedType
    <2>2. s \in DOMAIN n.remote
        BY DEF FirstNew
    <2>3. n.remote[s].addr \in Addrs
        BY <1>2, <2>2 DEF NatOk, CandidatesOk, Candidates
    <2>4. <<n.remote[s].addr, used.challenges + 1>> \in challenges' /\ used.challenges + 1 \in Nat
        BY <1>8, <2>1
    <2>5. NatOk(nat', ProvenAddrs', challenges')
        BY <1>4, <1>8, <2>2, <2>4, StartValidationOk
    <2>6. used' \in UsedType
        <3> DEFINE k == used.challenges + 1
        <3>1. k \in 0 .. MaxChallenges /\ used' = [used EXCEPT !.challenges = k]
            BY <1>8, <2>1, NatConstants
        <3> HIDE DEF k
        <3> QED
            BY <1>5, <3>1 DEF UsedType
    <2>7. challenges' \subseteq Addrs \X (1 .. MaxChallenges)
        BY <1>5, <1>8, <2>1, <2>3
    <2> QED
        BY <1>5, <2>5, <2>6, <2>7 DEF NatInv, UsedType
<1>9. CASE nat' = n /\ UNCHANGED <<challenges, used>>
    BY <1>4, <1>5, <1>9 DEF NatInv, UsedType
<1> QED
    BY <1>6, <1>7, <1>8, <1>9

\* send_nat_address_advertisement
LEMMA AdvertiseKeeps ==
    ASSUME NatInv, NEW a \in LocalAddrs, AdvertiseLocal(a)
    PROVE  NatInv'
<1> DEFINE local == With(nat.local, nat.next_sequence, a)
           next == nat.next_sequence + 1
<1>1. UNCHANGED <<challenges, frames>> /\ ProvenAddrs' = ProvenAddrs /\ nat # Disabled
    BY DEF AdvertiseLocal, ProvenAddrs, Proven
<1>2. /\ NatOk(nat, ProvenAddrs, challenges) /\ DOMAIN nat = NatFields
      /\ IsFiniteSet(DOMAIN nat.local) /\ \A l \in DOMAIN nat.local : nat.local[l] \in LocalAddrs
    BY <1>1 DEF NatInv, NatOk, CandidatesOk
<1>3. next \in Nat
    BY <1>2 DEF NatOk
<1>4. IsFiniteSet(DOMAIN local) /\ \A l \in DOMAIN local : local[l] \in LocalAddrs
    <2>1. IsFiniteSet(DOMAIN nat.local \cup {nat.next_sequence})
        BY <1>2, FS_AddElement
    <2> QED
        BY <1>2, <2>1 DEF With
<1>5. nat' = [nat EXCEPT !.local = local, !.next_sequence = next]
    BY <1>2 DEF AdvertiseLocal, NatFields
<1>6. used' \in UsedType
    BY DEF AdvertiseLocal, NatInv, UsedType
<1> HIDE DEF local, next
<1>7. NatOk(nat', ProvenAddrs, challenges)
    BY <1>2, <1>3, <1>4, <1>5, LocalChange
<1> QED
    BY <1>1, <1>6, <1>7 DEF NatInv, UsedType

\* send_nat_address_removal
LEMMA WithdrawKeeps ==
    ASSUME NatInv, nat # Disabled, NEW s, WithdrawLocal(s)
    PROVE  NatInv'
<1> DEFINE local == Without(nat.local, s)
<1>1. UNCHANGED <<challenges, frames, used>> /\ ProvenAddrs' = ProvenAddrs
    BY DEF WithdrawLocal, ProvenAddrs, Proven
<1>2. /\ NatOk(nat, ProvenAddrs, challenges) /\ DOMAIN nat = NatFields /\ nat.next_sequence \in Nat
      /\ IsFiniteSet(DOMAIN nat.local) /\ \A l \in DOMAIN nat.local : nat.local[l] \in LocalAddrs
    BY <1>1 DEF NatInv, NatOk, CandidatesOk
<1>3. IsFiniteSet(DOMAIN local) /\ \A l \in DOMAIN local : local[l] \in LocalAddrs
    <2>1. IsFiniteSet(DOMAIN nat.local \ {s})
        BY <1>2, FS_RemoveElement
    <2> QED
        BY <1>2, <2>1 DEF Without
<1>4. nat' = [nat EXCEPT !.local = local, !.next_sequence = nat.next_sequence]
    BY <1>2 DEF WithdrawLocal, NatFields
<1> HIDE DEF local
<1>5. NatOk(nat', ProvenAddrs, challenges)
    BY <1>2, <1>3, <1>4, LocalChange
<1> QED
    BY <1>1, <1>5 DEF NatInv

\* initiate_nat_traversal_coordination
LEMMA InitiateKeeps ==
    ASSUME NatInv, InitiateCoordination
    PROVE  NatInv'
<1> DEFINE n == GeneratePairs(nat)
           pairs == WaitingPairs(n, 3)
           targets == [i \in DOMAIN pairs |-> [addr |-> pairs[i].addr, challenge |-> used.challenges + i]]
           asked == [Round(n.next_sequence, targets, "Coordinating", FALSE) EXCEPT !.request_sent = TRUE]
<1>1. UNCHANGED <<challenges, frames>> /\ ProvenAddrs' = ProvenAddrs /\ nat # Disabled
    BY DEF InitiateCoordination, ProvenAddrs, Proven
<1>2. NatOk(nat, ProvenAddrs, challenges)
    BY <1>1 DEF NatInv
<1>3. NatOk(n, ProvenAddrs, challenges)
    BY <1>2, GeneratePairsOk
<1>4. \/ nat' = n /\ UNCHANGED used
      \/ /\ used.challenges + Len(pairs) <= MaxChallenges
         /\ nat' = [n EXCEPT !.round = asked, !.next_sequence = @ + 1]
         /\ used' = [used EXCEPT !.rounds = @ + 1, !.challenges = @ + Len(pairs)]
    BY DEF InitiateCoordination
<1>5. used \in UsedType
    BY DEF NatInv, UsedType
<1> HIDE DEF n
<1>6. CASE nat' = n /\ UNCHANGED used
    BY <1>1, <1>3, <1>6 DEF NatInv
<1>7. CASE /\ used.challenges + Len(pairs) <= MaxChallenges
           /\ nat' = [n EXCEPT !.round = asked, !.next_sequence = @ + 1]
           /\ used' = [used EXCEPT !.rounds = @ + 1, !.challenges = @ + Len(pairs)]
    <2>1. pairs \in Seq(Pairs)
        BY <1>3, WaitingOk DEF NatOk, PairsOk
    <2> HIDE DEF pairs
    <2>2. DOMAIN pairs = 1 .. Len(pairs) /\ Len(pairs) \in Nat /\ \A i \in DOMAIN pairs : pairs[i].addr \in Addrs
        BY <2>1, PairSeq, PairFields
    <2>3. used.challenges \in Nat /\ used.rounds \in Nat
        BY <1>5, NatConstants DEF UsedType
    <2>4. ASSUME NEW i \in DOMAIN pairs
          PROVE  targets[i] \in Targets
        <3>1. used.challenges + i \in 1 .. MaxChallenges
            BY <1>7, <2>2, <2>3, NatConstants
        <3> QED
            BY <2>2, <3>1 DEF Targets
    <2>5. targets \in Seq(Targets)
        <3>1. targets \in [1 .. Len(pairs) -> Targets]
            BY <2>2, <2>4
        <3> HIDE DEF targets
        <3> QED
            BY <2>2, <3>1
    <2>6. n.next_sequence \in Nat /\ DOMAIN n = NatFields
        BY <1>3 DEF NatOk
    <2>7. RoundOk(asked, challenges)
        <3> DEFINE r == Round(n.next_sequence, targets, "Coordinating", FALSE)
        <3>1. RoundOk(r, challenges)
            BY <2>5, <2>6, NewRoundOk
        <3>2. r # NoRound
            <4>1. r.phase = "Coordinating" /\ NoRound.phase = "None"
                BY DEF Round, NoRound
            <4> QED
                BY <4>1
        <3>3. asked = Moved(r, 0, 0, "Coordinating", TRUE, FALSE)
            <4>1. /\ DOMAIN r = {"round", "targets", "request_sent", "peer_received", "phase", "retries", "timeouts"}
                  /\ r.retries = 0 /\ r.timeouts = 0 /\ r.phase = "Coordinating" /\ r.peer_received = FALSE
                BY DEF Round
            <4> HIDE DEF r
            <4>2. [r EXCEPT !.request_sent = TRUE] = Moved(r, 0, 0, "Coordinating", TRUE, FALSE)
                BY <4>1 DEF Moved
            <4> QED
                BY <4>2 DEF r
        <3> HIDE DEF r, asked
        <3> QED
            BY <3>1, <3>2, <3>3, RoundMovesOk
    <2> HIDE DEF asked
    <2>8. NatOk([n EXCEPT !.round = asked], ProvenAddrs, challenges)
        BY <1>3, <2>7, RoundChange
    <2>9. NatOk(nat', ProvenAddrs, challenges)
        <3> DEFINE m == [n EXCEPT !.round = asked]
                   next == n.next_sequence + 1
        <3>1. nat' = [m EXCEPT !.local = m.local, !.next_sequence = next] /\ next \in Nat
            <4>1. nat' = [n EXCEPT !.round = asked, !.next_sequence = next] /\ next \in Nat
                BY <1>7, <2>6
            <4>2. nat' = [m EXCEPT !.next_sequence = next]
                BY <2>6, <4>1 DEF NatFields
            <4>3. DOMAIN m = NatFields
                BY <2>6
            <4> HIDE DEF m
            <4> QED
                BY <4>1, <4>2, <4>3 DEF NatFields
        <3> HIDE DEF m, next
        <3>2. IsFiniteSet(DOMAIN m.local) /\ \A l \in DOMAIN m.local : m.local[l] \in LocalAddrs
            BY <2>8 DEF NatOk, CandidatesOk, m
        <3> QED
            BY <2>8, <3>1, <3>2, LocalChange DEF m
    <2>10. used' \in UsedType
        <3> DEFINE k == used.challenges + Len(pairs)
                   rounds == used.rounds + 1
        <3>1. k \in 0 .. MaxChallenges /\ rounds \in Nat /\ used' = [used EXCEPT !.rounds = rounds, !.challenges = k]
            BY <1>7, <2>2, <2>3, NatConstants
        <3> HIDE DEF k, rounds
        <3> QED
            BY <1>5, <3>1 DEF UsedType
    <2> QED
        BY <1>1, <2>9, <2>10 DEF NatInv, UsedType
<1> QED
    BY <1>4, <1>6, <1>7

\* The peer's own steps
LEMMA PeerKeeps ==
    ASSUME NatInv,
           (\E a \in Addrs : PeerAdvertises(a)) \/ (\E f \in Advertised : PeerRemoves(f))
    PROVE  NatInv'
<1> DEFINE F == [type : {"ADD", "REMOVE"}, seq : Nat, addr : Addrs]
<1>1. ASSUME NEW a \in Addrs, PeerAdvertises(a)
      PROVE  NatInv'
    <2>1. UNCHANGED <<nat, challenges>> /\ ProvenAddrs' = ProvenAddrs
        BY <1>1 DEF PeerAdvertises, ProvenAddrs, Proven
    <2>2. used' \in UsedType /\ frames' \subseteq F
        BY <1>1 DEF PeerAdvertises, NatInv, UsedType
    <2> QED
        BY <2>1, <2>2 DEF NatInv, UsedType
<1>2. ASSUME NEW f \in Advertised, PeerRemoves(f)
      PROVE  NatInv'
    <2>1. UNCHANGED <<nat, challenges, used>> /\ ProvenAddrs' = ProvenAddrs
        BY <1>2 DEF PeerRemoves, ProvenAddrs, Proven
    <2>2. f \in F /\ frames \subseteq F
        BY DEF Advertised, NatInv
    <2>3. frames' \subseteq F
        BY <1>2, <2>2 DEF PeerRemoves
    <2> QED
        BY <2>1, <2>3 DEF NatInv
<1> QED
    BY <1>1, <1>2

\* Every step keeps the invariant.
LEMMA NatStep ==
    ASSUME NatInv, [Next]_vars
    PROVE  NatInv'
<1>1. CASE UNCHANGED vars
    BY <1>1 DEF vars, NatInv, ProvenAddrs, Proven
<1>2. ASSUME NEW f \in frames, AddAddress(f) \/ RemoveAddress(f)
      PROVE  NatInv'
    BY <1>2, AddAddressKeeps, RemoveAddressKeeps
<1>3. ASSUME NEW r \in PeerRounds, PunchMeNow(r)
      PROVE  NatInv'
    <2>1. r \in Nat
        BY NatConstants DEF PeerRounds
    <2> QED
        BY <1>3, <2>1, PunchKeeps
<1>4. ASSUME NEW a \in Addrs, NEW sent \in challenges, PathResponse(a, sent[2])
      PROVE  NatInv'
    <2>1. sent[2] \in 1 .. MaxChallenges
        BY DEF NatInv
    <2> QED
        BY <1>4, <2>1, PathResponseKeeps
<1>5. ASSUME NEW late \in SUBSET Pending, NEW due \in BOOLEAN,
             (\E late_round, fit \in BOOLEAN : PollTransmit(late_round, late, due, fit)) \/ NatTimer(due, late)
      PROVE  NatInv'
    BY <1>5, PollTransmitKeeps, NatTimerKeeps
<1>6. ASSUME NEW a \in LocalAddrs, AdvertiseLocal(a)
      PROVE  NatInv'
    BY <1>6, AdvertiseKeeps
<1>7. ASSUME nat # Disabled, NEW s \in DOMAIN nat.local, WithdrawLocal(s)
      PROVE  NatInv'
    BY <1>7, WithdrawKeeps
<1>8. CASE InitiateCoordination
    BY <1>8, InitiateKeeps
<1>9. CASE (\E a \in Addrs : PeerAdvertises(a)) \/ (\E f \in Advertised : PeerRemoves(f))
    BY <1>9, PeerKeeps
<1> QED
    BY <1>1, <1>2, <1>3, <1>4, <1>5, <1>6, <1>7, <1>8, <1>9 DEF Next

\* The invariant holds throughout.
LEMMA NatInvariant == Spec => []NatInv
<1>1. Init => NatInv
    BY NatInit
<1>2. NatInv /\ [Next]_vars => NatInv'
    BY NatStep
<1> QED
    BY <1>1, <1>2, PTL DEF Spec

\* The index leads to the best pair of every address that has one (sort_and_reindex_pairs,
\* mark_pair_succeeded), whatever additions, predictions, withdrawals and regenerations came
\* in between, for any priorities and any number of addresses and pairs.
THEOREM PairIndexCorrect == Spec => []PairIndexBest
<1>1. NatInv => PairIndexBest
    BY DEF NatInv, NatOk, PairsOk, IndexOf, PairIndexBest
<1> QED
    BY <1>1, NatInvariant, PTL

\* What is marked as usable has answered a challenge that was sent to it (start_validation,
\* handle_validation_success), whatever frames, echoes, timeouts and retries came in between.
THEOREM UsableCorrect == Spec => []UsableIsProven
<1>1. NatInv => UsableIsProven
    BY DEF NatInv, NatOk, PairsOk, CandidatesOk, ProvenAddrs, UsableIsProven
<1> QED
    BY <1>1, NatInvariant, PTL

\* A challenge is punched through only in a round that the peer has asked for since its last
\* retry (should_start_punching, handle_coordination_failure).
THEOREM PunchCorrect == Spec => []PunchIsSynchronized
<1>1. NatInv => PunchIsSynchronized
    BY RoundTyped DEF NatInv, NatOk, PunchIsSynchronized
<1> QED
    BY <1>1, NatInvariant, PTL

\* The connection moves to a proven address only, and only after both sides have punched
\* (handle_coordination_success, migrate_to_nat_traversal_path).
THEOREM PathMoves == Spec => PathMovesAfterPunch
<1> DEFINE A == path' # path => /\ Proven(path)'
                                /\ nat.round.peer_received
                                /\ <<nat.round.targets[1].addr, nat.round.targets[1].challenge>> \in challenges
<1>1. ASSUME NatInv, NatInv', Next, path' # path
      PROVE  A
    <2>1. PICK a \in Addrs, sent \in challenges : PathResponse(a, sent[2])
        <3>1. /\ \A a : ~PeerAdvertises(a) /\ ~AdvertiseLocal(a)
              /\ \A f : ~PeerRemoves(f) /\ ~AddAddress(f) /\ ~RemoveAddress(f)
            BY <1>1 DEF PeerAdvertises, AdvertiseLocal, PeerRemoves, AddAddress, RemoveAddress
        <3>2. /\ \A r : ~PunchMeNow(r)
              /\ \A s : ~WithdrawLocal(s)
              /\ ~InitiateCoordination
            BY <1>1 DEF PunchMeNow, WithdrawLocal, InitiateCoordination
        <3>3. \A late, due : ~NatTimer(due, late) /\ \A late_round, fit : ~PollTransmit(late_round, late, due, fit)
            BY <1>1 DEF NatTimer, PollTransmit
        <3> QED
            BY <1>1, <3>1, <3>2, <3>3 DEF Next
    <2>2. /\ CompletesRound(nat.round, a) /\ path' = a /\ Expected(a, sent[2]) /\ nat # Disabled
          /\ echoed' = echoed \cup {<<a, sent[2]>>} /\ challenges' = challenges
        BY <1>1, <2>1 DEF PathResponse
    <2>3. RoundOk(nat.round, challenges) /\ ValidationsOk(nat, challenges) /\ sent[2] \in 1 .. MaxChallenges
        BY <1>1, <2>2 DEF NatInv, NatOk
    <2>4. <<a, sent[2]>> \in challenges
        BY <2>2, <2>3, NatConstants DEF Expected, ValidationsOk, NeverSent
    <2>5. Proven(path)'
        BY <2>2, <2>3, <2>4 DEF Proven
    <2>6. nat.round # NoRound /\ nat.round.phase = "Validating"
        BY <2>2 DEF CompletesRound
    <2> QED
        BY <2>3, <2>5, <2>6, RoundTyped
<1>2. NatInv /\ NatInv' /\ [Next]_vars => [A]_vars
    BY <1>1
<1> QED
    BY <1>2, NatInvariant, PTL DEF Spec, PathMovesAfterPunch
=============================================================================
