---------------------------- MODULE RelayLifecycle ----------------------------
(***************************************************************************)
(* The client side of MASQUE relays in nat_traversal_api.rs: acquisitions   *)
(* of a proactive relay, each a future that may be dropped at any await,    *)
(* the actor that owns the current allocation (RelayLifecycleHandle), the   *)
(* table relay_sessions that acquisitions and relayed dials share, the      *)
(* tunnel of each allocation (masque/relay_socket.rs), the health monitor   *)
(* of p2p_endpoint.rs and the shutdown of the endpoint.                     *)
(*                                                                         *)
(* An attempt names its session, carrier connection, tunnel and allocation. *)
(* A relay gives a returning client its old address, so an allocation's     *)
(* public address stands for its relay server.                              *)
(***************************************************************************)
EXTENDS Naturals, Sequences, FiniteSets

CONSTANTS Attempts,      \* 1 .. n, in the order in which they start
          RelayServers,
          LifecyclePlans \* sequences of [server, kind, drops]: kind "prepare" or "dial",
                         \* and may the future be dropped before it is done

\* Attempts are numbered from 1, so that 0 stands for none, and go to known relays.
ASSUME AttemptsAssumption ==
    /\ Attempts \subseteq Nat \ {0} /\ RelayServers # {}
    /\ LifecyclePlans \subseteq Seq([server : RelayServers, kind : {"prepare", "dial"}, drops : BOOLEAN])

VARIABLES
    task,        \* the future of each attempt
    table,       \* relay_sessions: server -> attempt whose session it holds, 0
    carrier,     \* the dedicated connection of each session
    tunnel,      \* TunnelCause of each allocation
    inner,       \* the relay endpoint of each allocation
    teardown,    \* ProactiveRelay::teardown of each allocation
    lifecycle,   \* RelayLifecycleState
    generation,
    watch        \* the health monitor: relay_event_sent and its verdict

lifecycleVars == <<task, table, carrier, tunnel, inner, teardown, lifecycle, generation, watch>>
resources == <<table, carrier, tunnel, inner, teardown>>

\* The futures of a plan, before they start.
AttemptsOf(plan) ==
    [a \in Attempts |->
       [pc |-> IF a > Len(plan) THEN "absent" ELSE "unsent",
        server |-> IF a > Len(plan) THEN CHOOSE s \in RelayServers : TRUE ELSE plan[a].server,
        kind |-> IF a > Len(plan) THEN "prepare" ELSE plan[a].kind,
        drops |-> a <= Len(plan) /\ plan[a].drops, gen |-> 0, prev |-> 0, gone |-> FALSE]]

LifecycleInit ==
    /\ task \in {AttemptsOf(plan) : plan \in LifecyclePlans}
    /\ table = [s \in RelayServers |-> 0]
    /\ carrier = [a \in Attempts |-> "none"]
    /\ tunnel = [a \in Attempts |-> "none"]
    /\ inner = [a \in Attempts |-> "none"]
    /\ teardown = [a \in Attempts |-> "no"]
    /\ lifecycle = [state |-> "None", relay |-> 0]
    /\ generation = 0
    /\ watch = [sent |-> FALSE, dead |-> 0]

Server(a) == task[a].server
At(a, pc) == task[a].pc = pc
Goes(a, pc) == task' = [task EXCEPT ![a].pc = pc]
Current(a) == lifecycle.relay = a

\* --- the owners of a session and of an allocation ---------------------------

\* RelaySessionOwner::remove_owned_session: only the exact session is removed
\* and its carrier closed.
RemovedFrom(t, a) == [s \in RelayServers |-> IF t[s] = a THEN 0 ELSE t[s]]
RemoveOwned(a) ==
    /\ table' = RemovedFrom(table, a)
    /\ carrier' = [carrier EXCEPT ![a] = IF table[Server(a)] = a THEN "closed" ELSE @]

Settled(a, cause) == IF tunnel[a] = "Live" THEN cause ELSE tunnel[a]

\* ProactiveRelay::teardown, its first await: the endpoint is closed and drains.
TeardownBegins(a) ==
    /\ inner' = [inner EXCEPT ![a] = "closed"]
    /\ teardown' = [teardown EXCEPT ![a] = "draining"]

\* Drained, or a second has passed: the tunnel is shut down.
TunnelShutdown(a) ==
    /\ teardown[a] = "draining"
    /\ tunnel' = [tunnel EXCEPT ![a] = Settled(a, "ShutdownRequested")]
    /\ teardown' = [teardown EXCEPT ![a] = "stopping"]
    /\ UNCHANGED <<task, table, carrier, inner, lifecycle, generation, watch>>

\* The tunnel's tasks have ended, and with them the last handle to the carrier
\* of a session that another one replaced in the table.
SessionClosed(a) ==
    /\ table' = RemovedFrom(table, a)
    /\ carrier' = [carrier EXCEPT ![a] = "closed"]
TeardownEnds(a) ==
    /\ teardown[a] = "stopping"
    /\ SessionClosed(a)
    /\ teardown' = [teardown EXCEPT ![a] = "done"]
    /\ UNCHANGED <<task, tunnel, inner, lifecycle, generation, watch>>

\* Mutant: the drop leaves the session in the table.
ForceCleanupKeepsSession(a) ==
    /\ inner' = [inner EXCEPT ![a] = "closed"]
    /\ tunnel' = [tunnel EXCEPT ![a] = Settled(a, "ShutdownRequested")]
    /\ teardown' = [teardown EXCEPT ![a] = "done"]
    /\ UNCHANGED <<table, carrier>>

\* The drop of a ProactiveRelay that was not torn down.
ForceCleanup(a) ==
    /\ inner' = [inner EXCEPT ![a] = "closed"]
    /\ tunnel' = [tunnel EXCEPT ![a] = Settled(a, "ShutdownRequested")]
    /\ teardown' = [teardown EXCEPT ![a] = "done"]
    /\ SessionClosed(a)

\* --- prepare_proactive_relay and try_relay_connection -----------------------

\* begin_prepare: the actor gives up the current allocation, and this future
\* tears it down.
BeginPrepare(a) ==
    /\ At(a, "unsent") /\ task[a].kind = "prepare"
    /\ \A b \in Attempts : b < a => ~At(b, "unsent")
    /\ \/ /\ lifecycle.state = "Shutdown"
          /\ Goes(a, "failed")
          /\ UNCHANGED <<resources, lifecycle, generation>>
       \/ /\ lifecycle.state # "Shutdown"
          /\ generation' = generation + 1
          /\ lifecycle' = [state |-> "None", relay |-> 0]
          /\ task' = [task EXCEPT ![a].pc = IF lifecycle.relay = 0 THEN "acquire" ELSE "supersede",
                                  ![a].gen = generation + 1, ![a].prev = lifecycle.relay]
          /\ IF lifecycle.relay = 0 THEN UNCHANGED <<inner, teardown>> ELSE TeardownBegins(lifecycle.relay)
          /\ UNCHANGED <<table, carrier, tunnel>>
    /\ UNCHANGED watch

Superseded(a) ==
    /\ At(a, "supersede") /\ teardown[task[a].prev] = "done"
    /\ Goes(a, "acquire")
    /\ UNCHANGED <<resources, lifecycle, generation, watch>>

BeginDial(a) ==
    /\ At(a, "unsent") /\ task[a].kind = "dial"
    /\ \A b \in Attempts : b < a => ~At(b, "unsent")
    /\ Goes(a, "acquire")
    /\ UNCHANGED <<resources, lifecycle, generation, watch>>

\* RelaySession::is_active, of the session to a relay.
HasActive(s) == IF table[s] = 0 THEN FALSE ELSE carrier[table[s]] = "open"

\* establish_owned_relay_session finds an active session to the relay: it has
\* no streams to give, so the attempt fails.  A dial has disarmed the owner it
\* was given, an acquisition drops it.
Reuse(a) ==
    /\ At(a, "acquire")
    /\ HasActive(Server(a))
    /\ IF task[a].kind = "dial" THEN UNCHANGED <<table, carrier>> ELSE RemoveOwned(table[Server(a)])
    /\ Goes(a, "failed")
    /\ UNCHANGED <<tunnel, inner, teardown, lifecycle, generation, watch>>

Dial(a) ==
    /\ At(a, "acquire")
    /\ ~HasActive(Server(a))
    /\ Goes(a, "dialing")
    /\ UNCHANGED <<resources, lifecycle, generation, watch>>

\* The CONNECT-UDP handshake fails or times out, or the session is inserted
\* over whatever the table holds.
Connected(a) ==
    /\ At(a, "dialing")
    /\ \/ /\ Goes(a, "failed")
          /\ UNCHANGED <<table, carrier, tunnel>>
       \/ /\ table' = [table EXCEPT ![Server(a)] = a]
          /\ carrier' = [carrier EXCEPT ![a] = "open"]
          /\ IF task[a].kind = "dial"
             THEN Goes(a, "dialled") /\ tunnel' = [tunnel EXCEPT ![a] = "Live"]
             ELSE Goes(a, "inserted") /\ UNCHANGED tunnel
    /\ UNCHANGED <<inner, teardown, lifecycle, generation, watch>>

\* The relay manager has been told: the tunnel and the endpoint are built and
\* the allocation is sent to the actor.  When the endpoint cannot be created
\* the owner is dropped.
Build(a) ==
    /\ At(a, "inserted")
    /\ \/ /\ Goes(a, "complete")
          /\ tunnel' = [tunnel EXCEPT ![a] = "Live"]
          /\ inner' = [inner EXCEPT ![a] = "open"]
          /\ UNCHANGED <<table, carrier>>
       \/ /\ Goes(a, "failed")
          /\ tunnel' = [tunnel EXCEPT ![a] = "ShutdownRequested"]
          /\ SessionClosed(a)
          /\ UNCHANGED inner
    /\ UNCHANGED <<teardown, lifecycle, generation, watch>>

\* Mutant: generations are not compared.
IsCurrentAlways(a) == lifecycle.state \in {"None", "Shutdown"}

IsCurrentAcquisition(a) == generation = task[a].gen /\ lifecycle.state = "None"

\* The actor takes the allocation or gives it back to be torn down; given back
\* to a future that was dropped, it is dropped.
CompletePrepare(a) ==
    /\ At(a, "complete")
    /\ IF IsCurrentAcquisition(a)
       THEN /\ lifecycle' = [state |-> "Provisional", relay |-> a]
            /\ Goes(a, IF task[a].gone THEN "dropped" ELSE "prepared")
            /\ UNCHANGED resources
       ELSE /\ Goes(a, "stale")
            /\ IF task[a].gone THEN ForceCleanup(a)
               ELSE TeardownBegins(a) /\ UNCHANGED <<table, carrier, tunnel>>
            /\ UNCHANGED lifecycle
    /\ UNCHANGED <<generation, watch>>

\* The future is dropped at an await: its owners clean up.  An allocation that
\* was sent already stays with the actor.
Dropped(a) ==
    /\ task[a].drops /\ ~task[a].gone
    /\ \/ /\ task[a].pc \in {"acquire", "dialing"}
          /\ task' = [task EXCEPT ![a].pc = "dropped", ![a].gone = TRUE]
          /\ UNCHANGED resources
       \/ /\ At(a, "inserted") /\ task[a].kind = "prepare"
          /\ task' = [task EXCEPT ![a].pc = "dropped", ![a].gone = TRUE]
          /\ SessionClosed(a)
          /\ UNCHANGED <<tunnel, inner, teardown>>
       \/ /\ At(a, "complete")
          /\ task' = [task EXCEPT ![a].gone = TRUE]
          /\ UNCHANGED resources
       \/ \E r \in {IF At(a, "stale") THEN a ELSE task[a].prev} :
          /\ task[a].pc \in {"supersede", "stale"} /\ teardown[r] \in {"draining", "stopping"}
          /\ task' = [task EXCEPT ![a].pc = "dropped", ![a].gone = TRUE]
          /\ ForceCleanup(r)
    /\ UNCHANGED <<lifecycle, generation, watch>>

\* --- verdicts on an allocation ----------------------------------------------

\* publish_proactive_relay, with the handle of the canary's allocation.
Publish(a) ==
    /\ At(a, "prepared")
    /\ IF Current(a) /\ (lifecycle.state = "Published" \/ tunnel[a] = "Live")
       THEN lifecycle' = [lifecycle EXCEPT !.state = "Published"] /\ Goes(a, "published")
       ELSE UNCHANGED lifecycle /\ Goes(a, "rejected")
    /\ UNCHANGED <<resources, generation, watch>>

\* take_matching, and the teardown of what it took.
Take(a) ==
    IF Current(a)
    THEN /\ generation' = generation + 1
         /\ lifecycle' = [state |-> "None", relay |-> 0]
         /\ TeardownBegins(a)
    ELSE UNCHANGED <<generation, lifecycle, inner, teardown>>

\* abort_proactive_relay: after a failed canary, after a rejected publication
\* (setup_proactive_relay), or because the relay is no longer wanted.
Abort(a) ==
    /\ task[a].pc \in {"prepared", "rejected", "published"}
    /\ Goes(a, "aborted")
    /\ Take(a)
    /\ UNCHANGED <<table, carrier, tunnel, watch>>

\* --- the tunnel and its carrier ---------------------------------------------

CarrierDies(a) ==
    /\ carrier[a] = "open"
    /\ carrier' = [carrier EXCEPT ![a] = "closed"]
    /\ UNCHANGED <<task, table, tunnel, inner, teardown, lifecycle, generation, watch>>

\* The reader of the tunnel ends, with its carrier or by a reset of its stream.
TunnelDies(a) ==
    /\ tunnel[a] = "Live"
    /\ tunnel' = [tunnel EXCEPT ![a] = "Failed"]
    /\ UNCHANGED <<task, table, carrier, inner, teardown, lifecycle, generation, watch>>

\* The tunnel-death watcher closes the endpoint of a tunnel that failed.
WatcherCloses(a) ==
    /\ tunnel[a] = "Failed" /\ inner[a] = "open"
    /\ inner' = [inner EXCEPT ![a] = "closed"]
    /\ UNCHANGED <<task, table, carrier, tunnel, teardown, lifecycle, generation, watch>>

\* --- the monitor and the shutdown -------------------------------------------

MonitorAnnounces ==
    /\ ~watch.sent /\ watch.dead = 0 /\ lifecycle.state = "Published"
    /\ watch' = [watch EXCEPT !.sent = TRUE]
    /\ UNCHANGED <<task, resources, lifecycle, generation>>

\* Mutant: only the session is looked at.
UnhealthySession(a) == ~HasActive(Server(a))

\* unhealthy_published_relay: the tunnel is closed, or the session with the
\* advertised address is gone or dead.
Unhealthy(a) == tunnel[a] # "Live" \/ ~HasActive(Server(a))

MonitorFinds ==
    /\ watch.sent /\ watch.dead = 0 /\ lifecycle.state = "Published"
    /\ Unhealthy(lifecycle.relay)
    /\ watch' = [watch EXCEPT !.dead = lifecycle.relay]
    /\ UNCHANGED <<task, resources, lifecycle, generation>>

\* abort_unhealthy_proactive_relay: the failure is filed before the teardown.
MonitorAborts ==
    LET a == watch.dead IN
    /\ a # 0
    /\ watch' = [sent |-> FALSE, dead |-> 0]
    /\ Take(a)
    /\ tunnel' = IF Current(a) THEN [tunnel EXCEPT ![a] = Settled(a, "Failed")] ELSE tunnel
    /\ UNCHANGED <<task, table, carrier>>

Shutdown ==
    /\ lifecycle.state # "Shutdown"
    /\ generation' = generation + 1
    /\ lifecycle' = [state |-> "Shutdown", relay |-> 0]
    /\ IF lifecycle.relay = 0 THEN UNCHANGED <<inner, teardown>> ELSE TeardownBegins(lifecycle.relay)
    /\ UNCHANGED <<task, table, carrier, tunnel, watch>>

AttemptStep(a) ==
    \/ Superseded(a) \/ Reuse(a) \/ Dial(a) \/ Connected(a) \/ Build(a) \/ CompletePrepare(a)
TeardownStep(a) == TunnelShutdown(a) \/ TeardownEnds(a)
Monitor == MonitorAnnounces \/ MonitorFinds \/ MonitorAborts

LifecycleNext ==
    \/ \E a \in Attempts :
          \/ BeginPrepare(a) \/ BeginDial(a) \/ AttemptStep(a) \/ Dropped(a) \/ Publish(a) \/ Abort(a)
          \/ TeardownStep(a) \/ CarrierDies(a) \/ TunnelDies(a) \/ WatcherCloses(a)
    \/ Monitor
    \/ Shutdown

\* Futures that can go on do (each await of an acquisition has a timeout), the
\* monitor runs on a timer, and a tunnel fails with its carrier.
LifecycleFairness ==
    /\ WF_lifecycleVars(Monitor)
    /\ \A a \in Attempts :
         /\ WF_lifecycleVars(AttemptStep(a)) /\ WF_lifecycleVars(TeardownStep(a))
         /\ WF_lifecycleVars(WatcherCloses(a)) /\ WF_lifecycleVars(carrier[a] = "closed" /\ TunnelDies(a))

LifecycleSpec == LifecycleInit /\ [][LifecycleNext]_lifecycleVars /\ LifecycleFairness

-----------------------------------------------------------------------------
(* Hazard: a future is dropped at any of its awaits, or its allocation is    *)
(* superseded, taken or given back at any moment between them.  Whatever an  *)
(* acquisition holds has an owner that will release it: an open endpoint, a  *)
(* live tunnel and an entry of relay_sessions belong to the current          *)
(* allocation, to a future before its completion or to a teardown under way. *)
RelayIsOwned ==
    \A a \in Attempts : task[a].kind = "prepare" =>
       /\ inner[a] = "open" => Current(a) \/ At(a, "complete")
       /\ tunnel[a] = "Live" => Current(a) \/ At(a, "complete") \/ teardown[a] = "draining"
       /\ table[Server(a)] = a => \/ Current(a) \/ task[a].pc \in {"inserted", "complete"}
                                  \/ teardown[a] \in {"draining", "stopping"}

(* Hazard: the monitor judges a relay, and by the time it acts the relay may *)
(* have been replaced; or the carrier dies while the tunnel looks alive, or  *)
(* another session to the same relay stands in for it in the table.  A       *)
(* published relay whose tunnel or carrier is dead does not stay published.  *)
DeadIsWithdrawn ==
    \A a \in Attempts :
       (lifecycle = [state |-> "Published", relay |-> a] /\ (tunnel[a] # "Live" \/ carrier[a] # "open"))
         ~> ~Current(a)

(* Hazard: the endpoint shuts down while acquisitions, verdicts and          *)
(* teardowns are under way.  In the end no relay is left behind.             *)
ShutdownLeavesNothing ==
    (lifecycle.state = "Shutdown") ~>
       \A a \in Attempts : task[a].kind = "prepare" =>
          tunnel[a] # "Live" /\ inner[a] # "open" /\ carrier[a] # "open" /\ table[Server(a)] # a

(* RelaySessionOwner is the "ownership of one exact entry in                 *)
(* `relay_sessions`": the session of a published relay leaves the table only *)
(* when the relay is taken down or its carrier is dead.                      *)
CurrentIsKept ==
    [][\A a \in Attempts :
         (/\ lifecycle = [state |-> "Published", relay |-> a] /\ lifecycle' = lifecycle
          /\ table[Server(a)] = a /\ carrier[a] = "open")
            => table'[Server(a)] = a]_lifecycleVars
=============================================================================
