----------------------------- MODULE MCDaemonLife -----------------------------
(***************************************************************************)
(* Small instances of the components the resident daemon and its clients   *)
(* are made of: starting and reaching the daemon (packages/daemon), the    *)
(* bridge of the command line (packages/cli), what the daemon does while   *)
(* it lives (packages/anina, packages/smriti), and what it knows of other  *)
(* nodes of the mesh (packages/sutra).                                     *)
(*                                                                         *)
(* As in MCCoordination one component moves in each behaviour and the      *)
(* others stand still; they share nothing.  What one takes for granted of  *)
(* another is among its actions: a daemon that crashes for the client,     *)
(* calls that end for the bridge.  Fairness is asked only of the component *)
(* that moves.  All clients may have crashed, every bounded event may have *)
(* happened: a state without a successor is no error.                      *)
(*                                                                         *)
(* The queue of refinements is extended and not instanced: its property    *)
(* here is the one its theorem states.                                     *)
(***************************************************************************)
EXTENDS RefinementQueue

BothWays == {<<"A", "B">>, <<"B", "A">>}
HomeOf == [a \in {"a"} |-> {"A"}]

VARIABLES
    part,           \* the one component that moves
    f_client, f_child, f_lock, f_pid, f_sock, f_daemon, f_calls, f_crashes,
    f_clientCrashes, f_timeouts, f_shutdowns, f_lateProbes,
    g_client, g_child, g_lock, g_pid, g_sock, g_daemon, g_calls, g_crashes,
    g_clientCrashes, g_timeouts, g_shutdowns, g_lateProbes,
    c_up, c_conn, c_socket, c_phase, c_step, c_tries, c_restart, c_sends,
    c_sentOn, c_ping, c_healing, c_health, c_disposed, c_crashes,
    c_spawnFailures, c_severs,
    b_up, b_mode, b_shared, b_initing, b_probing, b_elapsed, b_client, b_at,
    m_running, m_health, m_current, m_made, m_up, m_flow, m_handle,
    m_attempts, m_errors, m_stopping, m_leaving, m_starts, m_reported,
    m_failures, m_failedInRow, m_heard, m_old,
    n_running, n_state, n_pending, n_count, n_preserve, n_completing,
    n_handlers, n_row, n_calls, n_stops,
    r_running, r_nidra, r_consolidating, r_refreshing, r_waiting,
    r_dispatching, r_backfill, r_todo, r_stopping, r_queued, r_enqueued,
    r_duties, r_worked,
    h_up, h_host, h_counter, h_view, h_place, h_wire, h_beat, h_troubles,
    l_running, l_current, l_link, l_heard, l_attempts, l_timers, l_replaced,
    l_faults

(* Two clients start the daemon, which may crash and be told to stop.       *)
F == INSTANCE DaemonStartup WITH
    Clients <- {"c1", "c2"}, Daemons <- {"d1", "d2", "d3"},
    MaxDaemonCrashes <- 1, MaxClientCrashes <- 0, MaxTimeouts <- 0,
    MaxShutdowns <- 1, MaxLateProbes <- 0, client <- f_client,
    child <- f_child, lock <- f_lock, pid <- f_pid, sock <- f_sock,
    daemon <- f_daemon, calls <- f_calls, crashes <- f_crashes,
    clientCrashes <- f_clientCrashes, timeouts <- f_timeouts,
    shutdowns <- f_shutdowns, lateProbes <- f_lateProbes
f_vars == <<f_client, f_child, f_lock, f_pid, f_sock, f_daemon, f_calls,
        f_crashes, f_clientCrashes, f_timeouts, f_shutdowns, f_lateProbes>>

(* Three clients of which one may crash, a startup and a probe of a socket  *)
(* that take too long.                                                      *)
G == INSTANCE DaemonStartup WITH
    Clients <- {"c1", "c2", "c3"}, Daemons <- {"d1", "d2", "d3"},
    MaxDaemonCrashes <- 0, MaxClientCrashes <- 1, MaxTimeouts <- 1,
    MaxShutdowns <- 0, MaxLateProbes <- 1, client <- g_client,
    child <- g_child, lock <- g_lock, pid <- g_pid, sock <- g_sock,
    daemon <- g_daemon, calls <- g_calls, crashes <- g_crashes,
    clientCrashes <- g_clientCrashes, timeouts <- g_timeouts,
    shutdowns <- g_shutdowns, lateProbes <- g_lateProbes
g_vars == <<g_client, g_child, g_lock, g_pid, g_sock, g_daemon, g_calls,
        g_crashes, g_clientCrashes, g_timeouts, g_shutdowns, g_lateProbes>>

(* Two calls of one client, a daemon that may not start, and one loss: a    *)
(* crash of the daemon, a connection destroyed or refused, a disposal.      *)
C == INSTANCE DaemonClient WITH
    Calls <- {"c1", "c2"}, Sockets <- {"s1", "s2", "s3", "s4", "s5"},
    DegradeThreshold <- 1, HealThreshold <- 2, MaxRestartAttempts <- 2,
    MaxRetries <- 1, RestartTries <- 1, MaxSpawnFailures <- 2,
    MaxLosses <- 1, up <- c_up, conn <- c_conn, socket <- c_socket,
    phase <- c_phase, step <- c_step, tries <- c_tries, restart <- c_restart,
    sends <- c_sends, sentOn <- c_sentOn, ping <- c_ping,
    healing <- c_healing, health <- c_health, disposed <- c_disposed,
    crashes <- c_crashes, spawnFailures <- c_spawnFailures,
    severs <- c_severs
c_vars == <<c_up, c_conn, c_socket, c_phase, c_step, c_tries, c_restart,
        c_sends, c_sentOn, c_ping, c_healing, c_health, c_disposed,
        c_crashes, c_spawnFailures, c_severs>>

(* Two callers of the bridge.                                               *)
B == INSTANCE DaemonBridge WITH
    Calls <- {"c1", "c2"}, Clients <- {"k1", "k2", "k3", "k4"}, up <- b_up,
    mode <- b_mode, shared <- b_shared, initing <- b_initing,
    probing <- b_probing, elapsed <- b_elapsed, client <- b_client,
    at <- b_at
b_vars == <<b_up, b_mode, b_shared, b_initing, b_probing, b_elapsed,
        b_client, b_at>>

(* The manager: two starts, a budget of two errors, one restart before it   *)
(* pauses; somebody listens for its errors or nobody does.                  *)
M == INSTANCE DaemonManager WITH
    Flows <- {"f1", "f2", "f3"}, Budget <- 2, MaxRestarts <- 1,
    MaxStarts <- 2, MaxErrors <- 1, MaxFailures <- 2, running <- m_running,
    health <- m_health, current <- m_current, made <- m_made, up <- m_up,
    flow <- m_flow, handle <- m_handle, attempts <- m_attempts,
    errors <- m_errors, stopping <- m_stopping, leaving <- m_leaving,
    starts <- m_starts, reported <- m_reported, failures <- m_failures,
    failedInRow <- m_failedInRow, heard <- m_heard, old <- m_old
m_vars == <<m_running, m_health, m_current, m_made, m_up, m_flow, m_handle,
        m_attempts, m_errors, m_stopping, m_leaving, m_starts, m_reported,
        m_failures, m_failedInRow, m_heard, m_old>>

(* The sleep cycle: three sessions, a deep sleep after three.               *)
N == INSTANCE Nidra WITH
    Sessions <- {"s1", "s2", "s3"}, Threshold <- 3, MaxCalls <- 4,
    MaxStops <- 1, running <- n_running, state <- n_state,
    pending <- n_pending, count <- n_count, preserve <- n_preserve,
    completing <- n_completing, handlers <- n_handlers, row <- n_row,
    calls <- n_calls, stops <- n_stops
n_vars == <<n_running, n_state, n_pending, n_count, n_preserve, n_completing,
        n_handlers, n_row, n_calls, n_stops>>

(* The resident daemon: two missed days, two duties, a loop to dispatch.    *)
R == INSTANCE ResidentDaemon WITH
    Missed <- {"d1", "d2"}, Today <- "d3", MaxDuties <- 2, MaxQueue <- 1,
    running <- r_running, nidra <- r_nidra, consolidating <- r_consolidating,
    refreshing <- r_refreshing, waiting <- r_waiting,
    dispatching <- r_dispatching, backfill <- r_backfill, todo <- r_todo,
    stopping <- r_stopping, queued <- r_queued, enqueued <- r_enqueued,
    duties <- r_duties, worked <- r_worked
r_vars == <<r_running, r_nidra, r_consolidating, r_refreshing, r_waiting,
        r_dispatching, r_backfill, r_todo, r_stopping, r_queued, r_enqueued,
        r_duties, r_worked>>

(* Two nodes that gossip about an actor of the first, which may crash.      *)
H == INSTANCE GossipMesh WITH
    Nodes <- {"A", "B"}, NoNode <- "none", Actors <- {"a"},
    Links <- BothWays, Home <- HomeOf, Mortal <- {"A"}, SuspectAfter <- 1,
    DeadAfter <- 2, MaxTroubles <- 2, up <- h_up, host <- h_host,
    counter <- h_counter, view <- h_view, place <- h_place, wire <- h_wire,
    beat <- h_beat, troubles <- h_troubles
h_vars == <<h_up, h_host, h_counter, h_view, h_place, h_wire, h_beat,
        h_troubles>>

(* A peer that is dialed, and one failure.                                  *)
L == INSTANCE PeerLinks WITH
    Channels <- 1 .. 3, NoChannel <- 0, MaxReconnectAttempts <- 5,
    MaxTimers <- 2, MaxFaults <- 1, running <- l_running,
    current <- l_current, link <- l_link, heard <- l_heard,
    attempts <- l_attempts, timers <- l_timers, replaced <- l_replaced,
    faults <- l_faults
l_vars == <<l_running, l_current, l_link, l_heard, l_attempts, l_timers,
        l_replaced, l_faults>>

ASSUME PartsAssumption ==
    /\ F!StartupAssumption
    /\ G!StartupAssumption
    /\ C!ClientAssumption
    /\ B!BridgeAssumption
    /\ M!ManagerAssumption
    /\ N!NidraAssumption
    /\ R!ResidentAssumption
    /\ H!GossipAssumption
    /\ L!LinksAssumption

-----------------------------------------------------------------------------
Parts ==
    {"startup", "faults", "client", "bridge", "manager", "nidra", "resident",
     "queue", "gossip", "links"}

LifeInit ==
    /\ part \in Parts
    /\ F!Init
    /\ G!Init
    /\ C!Init /\ (part # "client" => c_up = TRUE)
    /\ B!Init /\ (part # "bridge" => b_up = TRUE)
    /\ M!Init /\ (part # "manager" => m_heard = TRUE)
    /\ N!Init
    /\ R!Init /\ (part # "resident" => r_nidra = "LISTENING")
    /\ Init
    /\ H!Init
    /\ L!Init

LifeNext ==
    /\ UNCHANGED part
    /\ IF part = "startup" THEN F!Next ELSE UNCHANGED f_vars
    /\ IF part = "faults" THEN G!Next ELSE UNCHANGED g_vars
    /\ IF part = "client" THEN C!Next ELSE UNCHANGED c_vars
    /\ IF part = "bridge" THEN B!Next ELSE UNCHANGED b_vars
    /\ IF part = "manager" THEN M!Next ELSE UNCHANGED m_vars
    /\ IF part = "nidra" THEN N!Next ELSE UNCHANGED n_vars
    /\ IF part = "resident" THEN R!Next ELSE UNCHANGED r_vars
    /\ IF part = "queue" THEN Next ELSE UNCHANGED vars
    /\ IF part = "gossip" THEN H!Next ELSE UNCHANGED h_vars
    /\ IF part = "links" THEN L!Next ELSE UNCHANGED l_vars

lifeVars == <<part, f_vars, g_vars, c_vars, b_vars, m_vars, n_vars, r_vars, vars, h_vars,
         l_vars>>

LifeFairness ==
    /\ \A c \in {"c1", "c2"} : WF_f_vars(part = "startup" /\ F!ClientStep(c))
    /\ \A d \in {"d1", "d2", "d3"} : WF_f_vars(part = "startup" /\ F!DaemonStep(d))
    /\ \A c \in {"c1", "c2", "c3"} : WF_g_vars(part = "faults" /\ G!ClientStep(c))
    /\ \A d \in {"d1", "d2", "d3"} : WF_g_vars(part = "faults" /\ G!DaemonStep(d))
    /\ \A c \in {"c1", "c2"} : WF_c_vars(part = "client" /\ C!CallStep(c))
    /\ WF_c_vars(part = "client" /\ C!SomeClose)
    /\ WF_c_vars(part = "client" /\ C!PingEnds)
    /\ \A c \in {"c1", "c2"} : WF_b_vars(part = "bridge" /\ B!CallStep(c))
    /\ WF_b_vars(part = "bridge" /\ (B!Connects \/ B!ConnectFails))
    /\ WF_b_vars(part = "bridge" /\ B!IntervalPasses)
    /\ WF_m_vars(part = "manager" /\ \E f \in {"f1", "f2", "f3"} : M!Restarting(f))
    /\ WF_m_vars(part = "manager" /\ M!StopEnds)
    /\ WF_m_vars(part = "manager" /\ M!Age)
    /\ WF_n_vars(part = "nidra" /\ N!IdleFires)
    /\ WF_n_vars(part = "nidra" /\ N!DreamFires)
    /\ WF_n_vars(part = "nidra" /\ N!ExitFires)
    /\ WF_n_vars(part = "nidra" /\ \E h \in n_handlers : ~h.late /\ N!Settle(h))
    /\ WF_r_vars(part = "resident" /\ R!ConsolidationEnds)
    /\ WF_r_vars(part = "resident" /\ R!RefreshEnds)
    /\ WF_r_vars(part = "resident" /\ R!Sleep)
    /\ WF_r_vars(part = "resident" /\ \E d \in r_todo : R!BackfillAsks(d))
    /\ WF_r_vars(part = "resident" /\ R!BackfillReports)
    /\ WF_r_vars(part = "resident" /\ R!BackfillEnds)
    /\ WF_r_vars(part = "resident" /\ R!DispatchBegins)
    /\ WF_r_vars(part = "resident" /\ R!DispatchEnds)
    /\ WF_vars(part = "queue" /\ PassStep)
    /\ \A k \in Scopes : WF_vars(part = "queue" /\ BecomesDue(k))
    /\ SF_vars(part = "queue" /\ NightlyPass)
    /\ SF_vars(part = "queue" /\ ReplaySucceeds /\ Entry.key = "k1")
    /\ WF_h_vars(part = "gossip" /\ H!Tick)
    /\ \A n \in {"A", "B"} : WF_h_vars(part = "gossip" /\ H!Heartbeat(n))
    /\ \A n \in {"A", "B"} : WF_h_vars(part = "gossip" /\ H!Sweep(n))
    /\ \A n \in {"A", "B"} : WF_h_vars(part = "gossip" /\ H!Exchange(n))
    /\ \A l \in BothWays : WF_h_vars(part = "gossip" /\ H!Receive(l))
    /\ \A c \in 1 .. 3 : WF_l_vars(part = "links" /\ (L!Connects(c) \/ L!DialFails(c)))
    /\ \A c \in 1 .. 3 : WF_l_vars(part = "links" /\ c \in l_replaced /\ L!Closes(c) /\ L!Bounded)
    /\ \A c \in 1 .. 3 : WF_l_vars(part = "links" /\ L!TimerFires(c) /\ L!Bounded)

LifeSpec == LifeInit /\ [][LifeNext]_lifeVars /\ LifeFairness

-----------------------------------------------------------------------------
(* One daemon serves at a time and can be reached, and one client at a     *)
(* time starts it (process.ts, server.ts).  When clients crash and starts  *)
(* or probes take too long, one client at a time starts it as long as none *)
(* has crashed, and however many daemons get started, a daemon that is     *)
(* told to listen is the only one that serves unless a probe of its socket *)
(* came too late.                                                          *)
StartupSound ==
    /\ part = "startup" => F!TypeOK /\ F!SingleWriter /\ F!ServerReachable /\ F!OneSpawner
    /\ part = "faults" => G!TypeOK /\ G!OneSpawnerUncrashed /\ G!SocketDecides

(* Starting the daemon ends, with a daemon or an error, and leaves no lock *)
(* behind, but for that of a client that crashed.  (One client stands for  *)
(* all, which are alike; so below with calls, sessions and scopes.)        *)
StartupEnds ==
    []<>(/\ f_client["c1"] \in {"idle", "crashed"} /\ F!LockReleased
         /\ g_client["c1"] \in {"idle", "crashed"} /\ G!LockReleased)

(* One call heals the client at a time, and no more calls are sent again   *)
(* than connections, daemons or clients were lost; a client that is being  *)
(* connected is not disposed of (client.ts, daemon-bridge-core.ts).  A     *)
(* peer of the mesh that is not connected has somebody to dial it          *)
(* (peer-connection.ts); news that go round among nodes do not keep an     *)
(* actor alive that is gone, and a node knows its own actors               *)
(* (gossip-protocol.ts, network-gossip.ts).                                *)
HealingSound ==
    /\ [](part = "client" => C!TypeOK /\ C!OneHealer /\ C!NoResendWithoutLoss)
    /\ [](part = "bridge" => B!TypeOK)
    /\ B!InitIsShared
    /\ [](part = "links" => L!TypeOK /\ L!NeverForgotten)
    /\ [](part = "gossip" => H!TypeOK /\ H!NoneFresherThanItIs /\ H!HostKnows)

(* Every call of the client and of the bridge ends, healing is over some   *)
(* time, and direct mode is left when the daemon is there again.  A lost   *)
(* peer is reached again, and nodes come to agree on which actors live and *)
(* where.                                                                  *)
CallsAnswered ==
    /\ []<>(/\ c_step["c1"] \in C!Ends \cup {"idle"} /\ ~c_healing
            /\ b_at["c1"].step \in B!Settled
            /\ part = "links" => L!Reached
            /\ H!Agreed)
    /\ B!DirectModeIsLeft

(* The row holds what the sleep cycle knows whenever it may crash, the     *)
(* count is that of the pending sessions, and only the answer of its own   *)
(* handler strikes a session off in a deep sleep (nidra-daemon.ts).        *)
SessionsKept ==
    /\ [](part = "nidra" => N!TypeOK /\ N!CrashLosesNothing /\ N!CountsPending)
    /\ N!UnansweredKept /\ N!OwnHandlerConfirms

(* Embeddings are not refreshed while a day is consolidated, no            *)
(* consolidation, refresh or dispatch begins after a stop (periodic        *)
(* reports do), and a crash always has a restart under way when somebody   *)
(* listens for errors (chitragupta-daemon.ts, daemon-manager.ts).          *)
DutiesApart ==
    /\ [](part = "resident" => R!TypeOK /\ R!RefreshApart)
    /\ R!StoppedStaysQuiet
    /\ [](part = "manager" => M!TypeOK /\ M!CrashIsRetried)

(* Duties end and free the flags others look at: sleeps, the backfill,     *)
(* stops, queued loops, restarts of a crashed daemon.  The row of a scope  *)
(* leaves the queue of refinements in the end, when research rests and the *)
(* repair of this scope succeeds if it is tried again and again - that of  *)
(* the other need not.  A row that cannot be read stays for ever.          *)
DutiesEnd ==
    /\ []<>(/\ N!InHand("s1")
            /\ R!StopOver /\ R!QueueServed
            /\ part = "resident" => r_backfill = "done"
            /\ M!NoCrash
            /\ ~row["k1"].queued \/ Unreadable(row["k1"]))
    /\ []<>N!Awake
=============================================================================
