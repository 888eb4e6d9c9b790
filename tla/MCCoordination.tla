---------------------------- MODULE MCCoordination ----------------------------
(***************************************************************************)
(* Small instances of the components that coordinate work inside one       *)
(* process: the hub and the actors of packages/sutra, the scheduler of     *)
(* packages/niyanta, the worker pool and the workflows of packages/prana,  *)
(* the approval gate, the servers and the circuit breaker of the MCP       *)
(* packages, the rate limiter, and the queues of jobs, requests and child  *)
(* processes.                                                              *)
(*                                                                         *)
(* The components share nothing, so one moves in each behaviour and the    *)
(* others stand still: what holds in all these behaviours holds of each    *)
(* component, and of all of them together.  Fairness is asked only of the  *)
(* one that moves.  Most of them may come to rest (everything is answered, *)
(* stopped or at its bound), so a state without a successor is no error.   *)
(*                                                                         *)
(* The worker pool is extended and not instanced: its property here is the *)
(* one its theorems state.                                                 *)
(***************************************************************************)
EXTENDS WorkerPool, TLC

BarrierAgent == ("a1" :> "a") @@ ("a2" :> "a") @@ ("b1" :> "b") @@ ("c1" :> "c") @@ ("d1" :> "d")
SubAgent == ("a1" :> "a") @@ ("a2" :> "a") @@ ("b1" :> "b")
Receiver == ("toA" :> "a") @@ ("toB" :> "b")

Diamond == <<{}, {1}, {1}, {2, 3}>>

Limits == <<[requests |-> 2, tokens |-> 3], [requests |-> 3, tokens |-> 2]>>

ActorId == ("a1" :> "a") @@ ("b1" :> "b")
MeshPlan ==
    {[from |-> "out", to |-> "all", kind |-> "tell", lane |-> 0],
     [from |-> "a", to |-> "b", kind |-> "ask", lane |-> 1],
     [from |-> "b", to |-> "a", kind |-> "ask", lane |-> 0]}

VARIABLES
    part,           \* the one component that moves
    l_lock, l_waiters, l_at, l_ousted, l_destroyed,
    d_lock, d_waiters, d_at, d_ousted, d_destroyed,
    g_edges, g_color, g_stack, g_reported,
    k_total, k_available, k_processes, k_max, k_allocation, k_need,
    s_currentPermits, s_waitQueue, s_call, s_strays, s_destroyed,
    b_arrived, b_resolvers, b_passed, b_destroyed,
    m_chan, m_chans, m_subscribers, m_handlers, m_sub, m_chanOf, m_pending,
    m_req, m_delivered, m_inTime, m_destroyed,
    r_data, r_version, r_readAt, r_watching, r_frames, r_told, r_reacted,
    c_results, c_errors, c_resolvers, c_wait, c_counted, c_cleared,
    x_at, x_mode, x_completed, x_waiting, x_got, x_acted, x_effect, x_errors,
    j_sched, j_handlers, j_timers, j_starts, j_quiet,
    i_sched, i_handlers, i_timers, i_starts, i_quiet,
    h_heap, h_index, h_now,
    a_requests, a_status, a_timers, a_waiters, a_waitsFor, a_answer, a_told,
    o_state, o_failureAges, o_left, o_call, o_healthy, o_given,
    v_srv, v_up, v_flow, v_starter, v_checking, v_disposed,
    e_status, e_call, e_ready, e_running, e_loop, e_raced, e_heldOn,
    e_cancelled, e_paused, e_pause, e_pauses, e_released, e_final,
    q_status, q_pendingQueue, q_runner, q_runningCount, q_destroyed,
    w_status, w_pendingQueue, w_runner, w_runningCount, w_destroyed,
    p_status, p_pending, p_active, p_call, p_aborted, p_answer, p_counts,
    p_concurrency, p_destroyed,
    u_proc, u_queue, u_activeProcesses, u_completed, u_failed,
    u_drainResolve, u_drainer,
    t_registry, t_spawned, t_alive, t_lanes, t_drain, t_handling, t_awaits,
    t_sent, t_replies, t_pending, t_promise, t_system,
    z_config, z_window, z_queue, z_drainTimer, z_destroyed, z_answer

(* Locks of the hub: two calls each of three agents on one lock.            *)
L == INSTANCE HubLocks WITH
    Agents <- {"a", "b", "c"}, NoAgent <- "nobody", Resources <- {"r1"},
    Slots <- {1, 2}, Sequential <- TRUE, lock <- l_lock,
    waiters <- l_waiters, at <- l_at, ousted <- l_ousted,
    destroyed <- l_destroyed
l_vars == <<l_lock, l_waiters, l_at, l_ousted, l_destroyed>>

(* Deadlocks: three agents that want two locks, and a detector at work.     *)
D == INSTANCE HubLocks WITH
    Agents <- {"a", "b", "c"}, NoAgent <- "nobody",
    Resources <- {"r1", "r2"}, Slots <- {1}, Sequential <- TRUE,
    lock <- d_lock, waiters <- d_waiters, at <- d_at, ousted <- d_ousted,
    destroyed <- d_destroyed
d_vars == <<d_lock, d_waiters, d_at, d_ousted, d_destroyed>>

(* The detector's search: all wait-for graphs of three agents.              *)
G == INSTANCE DeadlockSearch WITH
    Agents <- {"a", "b", "c"}, edges <- g_edges, color <- g_color,
    stack <- g_stack, reported <- g_reported
g_vars == <<g_edges, g_color, g_stack, g_reported>>

(* The banker: three processes, two resources.                              *)
K == INSTANCE Banker WITH
    Procs <- {"p", "q", "r"}, Resources <- {"cpu", "mem"}, Units <- {1},
    Again <- FALSE, total <- k_total, available <- k_available,
    processes <- k_processes, max <- k_max, allocation <- k_allocation,
    need <- k_need
k_vars == <<k_total, k_available, k_processes, k_max, k_allocation, k_need>>

(* A semaphore of two permits, four calls and two stray releases.           *)
S == INSTANCE HubSemaphore WITH
    Calls <- {"c1", "c2", "c3", "c4"}, Permits <- 2, MaxStrays <- 2,
    currentPermits <- s_currentPermits, waitQueue <- s_waitQueue,
    call <- s_call, strays <- s_strays, destroyed <- s_destroyed
s_vars == <<s_currentPermits, s_waitQueue, s_call, s_strays, s_destroyed>>

(* A barrier for three: four agents, one of which calls twice.              *)
B == INSTANCE HubBarrier WITH
    Agents <- {"a", "b", "c", "d"}, Calls <- {"a1", "a2", "b1", "c1", "d1"},
    AgentOf <- BarrierAgent, RequiredCount <- 3, MaxRounds <- 2,
    arrived <- b_arrived, resolvers <- b_resolvers, passed <- b_passed,
    destroyed <- b_destroyed
b_vars == <<b_arrived, b_resolvers, b_passed, b_destroyed>>

(* Topics and requests: one agent subscribes twice, each gets a request.    *)
M == INSTANCE HubMessages WITH
    Agents <- {"a", "b"}, Subs <- {"a1", "a2", "b1"}, AgentOf <- SubAgent,
    Requests <- {"toA", "toB"}, TargetOf <- Receiver, Careful <- TRUE,
    None <- None, chan <- m_chan, chans <- m_chans,
    subscribers <- m_subscribers, handlers <- m_handlers, sub <- m_sub,
    chanOf <- m_chanOf, pending <- m_pending, req <- m_req,
    delivered <- m_delivered, inTime <- m_inTime, destroyed <- m_destroyed
m_vars == <<m_chan, m_chans, m_subscribers, m_handlers, m_sub, m_chanOf,
        m_pending, m_req, m_delivered, m_inTime, m_destroyed>>

(* A memory region: two writers and an outsider, three watchers, one of     *)
(* which writes back.                                                       *)
R == INSTANCE HubRegion WITH
    Writers <- {"a", "b", "c"}, Allowed <- {"a", "b"},
    Watchers <- <<"w1", "w2", "w3">>, Reacting <- {"w2"}, MaxVersion <- 2,
    None <- None, data <- r_data, version <- r_version, readAt <- r_readAt,
    watching <- r_watching, frames <- r_frames, told <- r_told,
    reacted <- r_reacted
r_vars == <<r_data, r_version, r_readAt, r_watching, r_frames, r_told,
        r_reacted>>

(* A collector that expects three agents, and two waits for it.             *)
C == INSTANCE HubCollector WITH
    Agents <- {"a", "b", "c"}, Waits <- {"w1", "w2"}, Expected <- 3,
    MayRetry <- FALSE, results <- c_results, errors <- c_errors,
    resolvers <- c_resolvers, wait <- c_wait, counted <- c_counted,
    cleared <- c_cleared
c_vars == <<c_results, c_errors, c_resolvers, c_wait, c_counted, c_cleared>>

(* A saga of four steps.                                                    *)
X == INSTANCE HubSaga WITH
    N <- 4, at <- x_at, mode <- x_mode, completed <- x_completed,
    waiting <- x_waiting, got <- x_got, acted <- x_acted, effect <- x_effect,
    errors <- x_errors
x_vars == <<x_at, x_mode, x_completed, x_waiting, x_got, x_acted, x_effect,
        x_errors>>

(* The job scheduler: two jobs for one slot, and one nobody handles.        *)
J == INSTANCE JobScheduler WITH
    Jobs <- {"j1", "j2", "u"}, Unhandled <- {"u"}, MaxConcurrent <- 1,
    MaxRetries <- 1, Reentrant <- FALSE, sched <- j_sched,
    handlers <- j_handlers, timers <- j_timers, starts <- j_starts,
    quiet <- j_quiet
j_vars == <<j_sched, j_handlers, j_timers, j_starts, j_quiet>>

(* The same with listeners that cancel jobs from their callbacks.           *)
I == INSTANCE JobScheduler WITH
    Jobs <- {"j1", "j2"}, Unhandled <- {}, MaxConcurrent <- 1,
    MaxRetries <- 1, Reentrant <- TRUE, sched <- i_sched,
    handlers <- i_handlers, timers <- i_timers, starts <- i_starts,
    quiet <- i_quiet
i_vars == <<i_sched, i_handlers, i_timers, i_starts, i_quiet>>

(* Its queue: six jobs of three priorities, as many as it takes for a       *)
(* removed job to be replaced by one that must move up.                     *)
H == INSTANCE JobHeap WITH
    Ids <- 1 .. 6, Priority <- <<0, 0, 1, 1, 1, 2>>,
    CreatedAt <- <<0, 1, 1, 2, 2, 3>>, Times <- {0, 1}, MaxNow <- 0,
    heap <- h_heap, index <- h_index, now <- h_now
h_vars == <<h_heap, h_index, h_now>>

(* The approval gate: three requests, of which two may be pending, two      *)
(* waits.                                                                   *)
A == INSTANCE ApprovalGate WITH
    Ids <- {"r1", "r2", "r3"}, Waits <- {"w1", "w2"}, MaxPending <- 2,
    WaitsPerRequest <- 1, requests <- a_requests, status <- a_status,
    timers <- a_timers, waiters <- a_waiters, waitsFor <- a_waitsFor,
    answer <- a_answer, told <- a_told
a_vars == <<a_requests, a_status, a_timers, a_waiters, a_waitsFor, a_answer,
        a_told>>

(* The circuit breaker: three calls, two failures open it.                  *)
O == INSTANCE CircuitBreaker WITH
    Calls <- {"c1", "c2", "c3"}, Threshold <- 2, Window <- 2, Cooldown <- 2,
    state <- o_state, failureAges <- o_failureAges, left <- o_left,
    call <- o_call, healthy <- o_healthy, given <- o_given
o_vars == <<o_state, o_failureAges, o_left, o_call, o_healthy, o_given>>

(* A server of the registry: one restart, quarantine after a crash, two     *)
(* starts at a time.                                                        *)
V == INSTANCE ServerLifecycle WITH
    MaxRestarts <- 1, MaxFailures <- 1, MaxCrashes <- 1, AutoRestart <- TRUE,
    UserStops <- FALSE, MaxFlows <- 2, None <- None, srv <- v_srv,
    up <- v_up, flow <- v_flow, starter <- v_starter, checking <- v_checking,
    disposed <- v_disposed
v_vars == <<v_srv, v_up, v_flow, v_starter, v_checking, v_disposed>>

(* A workflow of four steps, two of them in parallel, whose actions end     *)
(* one at a time; one of them has no timeout.                               *)
E == INSTANCE WorkflowExecutor WITH
    Steps <- 1 .. 4, Deps <- Diamond,
    OnFailure <- <<"continue", "fail", "continue", "fail">>,
    Conditional <- {2}, Timed <- {1, 2, 4}, MaxConcurrency <- 2, MaxRetries <- 1, MaxPauses <- 1,
    PauseAgain <- FALSE, SameTurn <- FALSE, status <- e_status,
    call <- e_call, ready <- e_ready, running <- e_running, loop <- e_loop,
    raced <- e_raced, heldOn <- e_heldOn, cancelled <- e_cancelled,
    paused <- e_paused, pause <- e_pause, pauses <- e_pauses,
    released <- e_released, final <- e_final
e_vars == <<e_status, e_call, e_ready, e_running, e_loop, e_raced, e_heldOn,
        e_cancelled, e_paused, e_pause, e_pauses, e_released, e_final>>

(* The job queue of the HTTP server: three jobs, one at a time, which are   *)
(* cancelled only while they wait.                                          *)
Q == INSTANCE KaryaQueue WITH
    MaxJobs <- 3, MaxConcurrent <- 1, MaxQueueSize <- 2,
    CancelsRunning <- FALSE, status <- q_status,
    pendingQueue <- q_pendingQueue, runner <- q_runner,
    runningCount <- q_runningCount, destroyed <- q_destroyed
q_vars == <<q_status, q_pendingQueue, q_runner, q_runningCount, q_destroyed>>

(* The same with jobs that are cancelled while they run.                    *)
W == INSTANCE KaryaQueue WITH
    MaxJobs <- 3, MaxConcurrent <- 1, MaxQueueSize <- 2,
    CancelsRunning <- TRUE, status <- w_status,
    pendingQueue <- w_pendingQueue, runner <- w_runner,
    runningCount <- w_runningCount, destroyed <- w_destroyed
w_vars == <<w_status, w_pendingQueue, w_runner, w_runningCount, w_destroyed>>

(* Requests to providers: three of them, the last one more urgent.          *)
P == INSTANCE RequestQueue WITH
    PriorityOf <- <<1, 1, 0>>, MaxConcurrency <- 2, Deaf <- {},
    status <- p_status, pending <- p_pending, active <- p_active,
    call <- p_call, aborted <- p_aborted, answer <- p_answer,
    counts <- p_counts, concurrency <- p_concurrency,
    destroyed <- p_destroyed
p_vars == <<p_status, p_pending, p_active, p_call, p_aborted, p_answer,
        p_counts, p_concurrency, p_destroyed>>

(* Child processes: four of them, two at a time.                            *)
U == INSTANCE ProcessPool WITH
    MaxProcs <- 4, MaxConcurrency <- 2, Drainers <- {"d"},
    NoDrainer <- "nobody", proc <- u_proc, queue <- u_queue,
    activeProcesses <- u_activeProcesses, completed <- u_completed,
    failed <- u_failed, drainResolve <- u_drainResolve, drainer <- u_drainer
u_vars == <<u_proc, u_queue, u_activeProcesses, u_completed, u_failed,
        u_drainResolve, u_drainer>>

(* Two actors that get a broadcast and may ask each other.                  *)
T == INSTANCE ActorMesh WITH
    Actors <- {"a1", "b1"}, IdOf <- ActorId, Outside <- "out",
    Everyone <- "all", Messages <- MeshPlan, First <- {"a1", "b1"},
    MaxMailbox <- 2, MaxReplies <- 1, NoActor <- "nobody", NoMessage <- None,
    registry <- t_registry, spawned <- t_spawned, alive <- t_alive,
    lanes <- t_lanes, drain <- t_drain, handling <- t_handling,
    awaits <- t_awaits, sent <- t_sent, replies <- t_replies,
    pending <- t_pending, promise <- t_promise, system <- t_system
t_vars == <<t_registry, t_spawned, t_alive, t_lanes, t_drain, t_handling,
        t_awaits, t_sent, t_replies, t_pending, t_promise, t_system>>

(* The rate limiter: four calls, and limits that change once.               *)
Z == INSTANCE RateLimiter WITH
    Calls <- 1 .. 4, TokensOf <- <<2, 1, 1, 2>>,
    PriorityOf <- <<1, 0, 1, 2>>, Limits <- Limits, Window <- 1,
    config <- z_config, window <- z_window, queue <- z_queue,
    drainTimer <- z_drainTimer, destroyed <- z_destroyed, answer <- z_answer
z_vars == <<z_config, z_window, z_queue, z_drainTimer, z_destroyed, z_answer>>

ASSUME PartsAssumption ==
    /\ L!LocksAssumption
    /\ D!LocksAssumption
    /\ K!BankerAssumption
    /\ S!SemaphoreAssumption
    /\ B!BarrierAssumption
    /\ M!MessagesAssumption
    /\ R!RegionAssumption
    /\ C!CollectorAssumption
    /\ X!SagaAssumption
    /\ J!SchedulerAssumption
    /\ I!SchedulerAssumption
    /\ H!HeapAssumption
    /\ A!GateAssumption
    /\ O!BreakerAssumption
    /\ V!LifecycleAssumption
    /\ E!WorkflowAssumption
    /\ Q!KaryaAssumption
    /\ W!KaryaAssumption
    /\ P!RequestsAssumption
    /\ U!PoolAssumption
    /\ T!MeshAssumption
    /\ Z!RatesAssumption

-----------------------------------------------------------------------------
Parts ==
    {"locks", "deadlock", "search", "banker", "semaphore", "barrier",
     "messages", "region", "collector", "saga", "jobs", "listeners", "heap",
     "pool", "gate", "breaker", "server", "workflow", "karya", "cancels",
     "requests", "processes", "mesh", "rates"}

CoordInit ==
    /\ part \in Parts
    /\ L!Init
    /\ D!Init
    /\ G!Init /\ (part # "search" => g_edges = {})
    /\ K!Init
    /\ S!Init
    /\ B!Init
    /\ M!Init
    /\ R!Init
    /\ C!Init
    /\ X!Init
    /\ J!Init
    /\ I!Init
    /\ H!Init
    /\ Init
    /\ A!Init
    /\ O!Init
    /\ V!Init
    /\ E!Init
    /\ Q!Init
    /\ W!Init
    /\ P!Init
    /\ U!Init
    /\ T!Init
    /\ Z!Init

CoordNext ==
    /\ UNCHANGED part
    /\ IF part = "locks" THEN L!Next ELSE UNCHANGED l_vars
    /\ IF part = "deadlock" THEN D!DeadlockNext ELSE UNCHANGED d_vars
    /\ IF part = "search" THEN G!Next ELSE UNCHANGED g_vars
    /\ IF part = "banker" THEN K!Next ELSE UNCHANGED k_vars
    /\ IF part = "semaphore" THEN S!Next ELSE UNCHANGED s_vars
    /\ IF part = "barrier" THEN B!Next ELSE UNCHANGED b_vars
    /\ IF part = "messages" THEN M!Next ELSE UNCHANGED m_vars
    /\ IF part = "region" THEN R!Next ELSE UNCHANGED r_vars
    /\ IF part = "collector" THEN C!Next ELSE UNCHANGED c_vars
    /\ IF part = "saga" THEN X!Next ELSE UNCHANGED x_vars
    /\ IF part = "jobs" THEN J!Next ELSE UNCHANGED j_vars
    /\ IF part = "listeners" THEN I!Next ELSE UNCHANGED i_vars
    /\ IF part = "heap" THEN H!Next ELSE UNCHANGED h_vars
    /\ IF part = "pool" THEN Next ELSE UNCHANGED vars
    /\ IF part = "gate" THEN A!Next ELSE UNCHANGED a_vars
    /\ IF part = "breaker" THEN O!Next ELSE UNCHANGED o_vars
    /\ IF part = "server" THEN V!Next ELSE UNCHANGED v_vars
    /\ IF part = "workflow" THEN E!Next ELSE UNCHANGED e_vars
    /\ IF part = "karya" THEN Q!Next ELSE UNCHANGED q_vars
    /\ IF part = "cancels" THEN W!Next ELSE UNCHANGED w_vars
    /\ IF part = "requests" THEN P!Next ELSE UNCHANGED p_vars
    /\ IF part = "processes" THEN U!Next ELSE UNCHANGED u_vars
    /\ IF part = "mesh" THEN T!Next ELSE UNCHANGED t_vars
    /\ IF part = "rates" THEN Z!Next ELSE UNCHANGED z_vars

coordVars == <<part, l_vars, d_vars, g_vars, k_vars, s_vars, b_vars, m_vars, r_vars, c_vars,
         x_vars, j_vars, i_vars, h_vars, vars, a_vars, o_vars, v_vars,
         e_vars, q_vars, w_vars, p_vars, u_vars, t_vars, z_vars>>

CoordFairness ==
    /\ WF_l_vars(part = "locks" /\ \E r \in {"r1"} : L!Expires(r))
    /\ WF_l_vars(part = "locks" /\ L!Cleanup)
    /\ WF_d_vars(part = "deadlock" /\ D!Resolves)
    /\ WF_s_vars(part = "semaphore" /\ \E c \in {"c1", "c2", "c3", "c4"} : S!Release(c))
    /\ WF_b_vars(part = "barrier" /\ \E c \in {"a1", "a2", "b1", "c1", "d1"} : b_passed[c] = 0 /\ (B!Open(c) \/ B!Wait(c)))
    /\ WF_m_vars(part = "messages" /\ \E r \in {"toA", "toB"} : M!TimeOut(r))
    /\ WF_c_vars(part = "collector" /\ \E a \in {"a", "b", "c"} : C!SubmitResult(a) \/ C!SubmitError(a))
    /\ WF_x_vars(part = "saga" /\ X!SendStep)
    /\ WF_x_vars(part = "saga" /\ X!SendUndo)
    /\ WF_x_vars(part = "saga" /\ X!Failed)
    /\ WF_j_vars(part = "jobs" /\ J!Poll)
    /\ WF_j_vars(part = "jobs" /\ \E a \in J!Attempts : J!TimesOut(a))
    /\ WF_j_vars(part = "jobs" /\ \E j \in {"j1", "j2", "u"} : J!Ripen(j))
    /\ WF_vars(part = "pool" /\ \E i \in Places : TimeOut(i))
    /\ WF_vars(part = "pool" /\ \E t \in Tasks : OrphanTimesOut(t))
    /\ WF_vars(part = "pool" /\ \E i \in Places : ShutdownForced(i))
    /\ WF_vars(part = "pool" /\ ShutdownEnds)
    /\ WF_a_vars(part = "gate" /\ \E r \in {"r1", "r2", "r3"} : A!TimeOut(r))
    /\ WF_o_vars(part = "breaker" /\ O!Tick)
    /\ \A c \in V!Clients : WF_v_vars(part = "server" /\ (V!FlowConnects(c) \/ V!FlowFails(c) \/ V!FlowLists(c)))
    /\ WF_v_vars(part = "server" /\ (V!CheckOk \/ V!CheckFails))
    /\ WF_v_vars(part = "server" /\ V!HealthTick)
    /\ WF_v_vars(part = "server" /\ V!TimerFires)
    /\ WF_v_vars(part = "server" /\ V!Recover)
    /\ WF_e_vars(part = "workflow" /\ E!LoopStep)
    /\ WF_e_vars(part = "workflow" /\ E!Handles)
    /\ WF_e_vars(part = "workflow" /\ \E c \in E!Calls : c[1] \in {1, 2, 4} /\ E!Ends(c))
    /\ WF_e_vars(part = "workflow" /\ \E c \in E!Calls : E!DelayEnds(c))
    /\ WF_q_vars(part = "karya" /\ \E j \in Q!Jobs : Q!Finally(j))
    /\ WF_w_vars(part = "cancels" /\ \E j \in W!Jobs : W!Finally(j))
    /\ WF_p_vars(part = "requests" /\ \E r \in P!Requests : P!Abort(r))
    /\ WF_p_vars(part = "requests" /\ \E r \in p_aborted : P!Returns(r) \/ P!Throws(r))
    /\ WF_p_vars(part = "requests" /\ \E r \in P!Requests : P!Finally(r))
    /\ WF_u_vars(part = "processes" /\ \E p \in U!Procs : U!TimesOut(p))
    /\ WF_u_vars(part = "processes" /\ \E p \in U!Procs : U!GraceEnds(p))
    /\ WF_u_vars(part = "processes" /\ \E p \in U!Procs : u_proc[p] = "killed" /\ U!Close(p, FALSE))
    /\ WF_t_vars(part = "mesh" /\ \E m \in MeshPlan : T!AskTimesOut(m))
    /\ WF_t_vars(part = "mesh" /\ \E o \in {"a1", "b1"} : T!Behaves(o))
    /\ WF_z_vars(part = "rates" /\ Z!Drain)
    /\ WF_z_vars(part = "rates" /\ Z!Tick)

CoordSpec == CoordInit /\ [][CoordNext]_coordVars /\ CoordFairness

-----------------------------------------------------------------------------
(* Whoever holds a lock was told so, nobody else believes to hold it, the  *)
(* two lists of those in line agree and nobody waits for a free lock,      *)
(* through expiries, timeouts, forced and foreign releases (hub-sync.ts).  *)
LocksSound ==
    /\ part = "locks" => L!TypeOK /\ L!OneHolder /\ L!HolderWasTold
                         /\ L!QueueMatchesWaiters /\ L!NoneWaitsForFree
    /\ part = "deadlock" => D!TypeOK /\ D!OneHolder /\ D!HolderWasTold
                            /\ D!QueueMatchesWaiters /\ D!NoneWaitsForFree

(* The detector works on a true picture and reports only agents that wait  *)
(* for each other in one circle, one at least if there is one              *)
(* (deadlock.ts).  The banker keeps the system safe: there is always an    *)
(* order in which all processes can get what they still need, and          *)
(* instances are conserved (deadlock-prevention.ts).                       *)
DeadlocksForeseen ==
    /\ part = "deadlock" => D!DetectorSees
    /\ part = "search" => G!TypeOK /\ G!ReportsDeadlocks /\ G!FindsOne
    /\ part = "banker" => K!TypeOK /\ K!Conserved /\ K!WithinClaim
                          /\ K!SafeSequenceExists /\ K!SomebodyCanFinish

(* Those in line for a semaphore are served in order and never while a     *)
(* permit lies idle, and its permits are accounted for; nobody passes a    *)
(* barrier before enough different agents came (hub-sync.ts).              *)
LinesKept ==
    /\ [](part = "semaphore" => S!TypeOK /\ S!LineIsWaiters /\ S!NoIdlePermit /\ S!PermitsAccounted)
    /\ S!InOrder
    /\ [](part = "barrier" => B!TypeOK /\ B!NobodyEarly /\ B!OpenForGood)

(* Handlers, subscriptions and open requests match what agents were        *)
(* promised, replies in time reach the requester, watchers know the        *)
(* current version, collectors count agents (hub.ts, hub-memory.ts).       *)
MessagesSound ==
    /\ part = "messages" => M!TypeOK /\ M!SubscribedIsHeard /\ M!HeardIsSubscribed
                            /\ M!PendingIsOpen /\ M!ReplyReaches
    /\ part = "region" => R!TypeOK /\ R!WatchersCurrent
    /\ part = "collector" => C!TypeOK /\ C!AllCounted

(* A saga that is done has all its effects, and one that failed has undone *)
(* its completed steps, the last one first, or reports why not             *)
(* (patterns.ts).  The steps of a workflow run once, after all they depend *)
(* on, not too many at a time, and none is forgotten, through retries,     *)
(* pauses and cancellations (executor.ts).                                 *)
StepsInOrder ==
    /\ [](part = "saga" => X!TypeOK /\ X!DoneIsAll /\ X!CompletedUndone)
    /\ X!ReverseOrder
    /\ [](part = "workflow" => E!TypeOK /\ E!RunsOnce /\ E!AfterItsDeps
                               /\ E!Concurrency /\ E!NoneLeft)

(* Every wait at the hub ends: locks expire, permits come back, timers     *)
(* fire, agents arrive and hand in.  A saga ends, whatever its agents do.  *)
(* (Locks and permits can be asked for again, so no state need come in     *)
(* which nobody waits; one call stands for all, which are alike.)          *)
HubWaitsEnd ==
    []<>(/\ l_at[<<"a", "r1", 1>>] # "waiting"
         /\ s_call["c1"] # "waiting" \/ s_destroyed
         /\ B!NobodyLeft /\ M!NoneOpen /\ C!NobodyWaits
         /\ part = "saga" => X!Ended)

(* The detector's remedy breaks the circle it is used on, and no circle    *)
(* lasts (resolveDeadlock).                                                *)
DeadlocksBroken == D!ResolveBreaks /\ D!DeadlockEnds

(* Every job is in one place, counted once and called once for each of its *)
(* attempts, in spite of late answers and late timers, and what has ended  *)
(* stays so (scheduler.ts).  With listeners that cancel jobs from their    *)
(* callbacks counters, calls and slots still add up; that each job is in   *)
(* one place and stays ended is not claimed of them, for it is not so      *)
(* (CancelledNeverRuns).                                                   *)
JobsAccounted ==
    /\ [](part = "jobs" => J!TypeOK /\ J!OnePlace /\ J!CountersExact
                           /\ J!OneCallPerAttempt /\ J!SlotsAccounted)
    /\ J!EndedStays
    /\ [](part = "listeners" => I!CountersExact /\ I!OneCallPerAttempt /\ I!SlotsAccounted)

(* Jobs, requests and processes wait in the right order and only while no  *)
(* place is free, and slots and counters agree with what became of them    *)
(* (job-queue.ts of the HTTP server, request-queue.ts, process-pool.ts).   *)
(* When jobs of the HTTP server are cancelled while they run, they stay    *)
(* cancelled whatever their runners do, and no slot is lost; but slots are *)
(* given back too early then, and their number is not claimed.  Those a    *)
(* limiter of rates keeps waiting are looked at, and the limits hold       *)
(* (rate-limiter.ts).                                                      *)
QueuesServed ==
    /\ [](part = "karya" => Q!TypeOK /\ Q!QueueIsPending /\ Q!SlotsAccounted)
    /\ [](part = "cancels" => W!TypeOK /\ W!QueueIsPending /\ W!NoSlotLost)
    /\ Q!OutcomeStays /\ W!OutcomeStays
    /\ [](part = "requests" => P!TypeOK /\ P!InLine /\ P!StatsAddUp)
    /\ [](part = "processes" => U!TypeOK /\ U!PoolAccounted)
    /\ [](part = "rates" => Z!TypeOK /\ Z!LineServed /\ Z!WithinLimits)

(* No envelope lies unseen in the mailbox of a living actor, and the       *)
(* router waits for just the asks whose callers wait, through timeouts,    *)
(* late replies, stops and shutdown (mesh/actor.ts, mesh-router.ts).       *)
MeshSound ==
    part = "mesh" => T!TypeOK /\ T!NoneStranded /\ T!PendingIsOpen /\ T!OneSuccessor

(* The array of the queue is a heap, its index exact and what is taken the *)
(* best of what may be taken, after any insertions and removals            *)
(* (job-queue.ts).                                                         *)
BestJobFirst ==
    part = "heap" => H!TypeOK /\ H!HeapOrdered /\ H!IndexExact /\ H!TakesTheBest /\ H!DrainsInOrder

(* All waits for an approval get the one decision; the breaker is closed   *)
(* only below its threshold, and open for a whole cooldown                 *)
(* (approval-gate.ts, mcp-circuit-breaker.ts).                             *)
GatesSound ==
    /\ [](part = "gate" => A!TypeOK /\ A!OneDecision /\ A!WaiterReachable /\ A!EventsTellDecision)
    /\ [](part = "breaker" => O!TypeOK /\ O!ClosedMeansBelow)
    /\ O!CooldownKept

(* No server is left to itself in a state that needs somebody to act, its  *)
(* tools are offered while it is ready and not once it is stopped, and     *)
(* nothing is made after dispose (server-lifecycle.ts).                    *)
ServersSound ==
    /\ [](part = "server" => V!TypeOK /\ V!NoneForgotten /\ V!OfferedWhileReady /\ V!RecoveryHasStart)
    /\ V!DisposedStaysQuiet

(* Jobs, tasks, shutdowns, approvals, restarts of servers, requests,       *)
(* processes and asks all come to an end, although handlers of jobs,       *)
(* threads, users and servers may never answer, and actors may ask each    *)
(* other in a circle.  A run of a workflow ends unless it is left paused   *)
(* or an action without a timeout does not end; jobs of the HTTP server    *)
(* end unless a runner does not; a breaker closes if its callers go on.    *)
WorkEnds ==
    /\ []<>(/\ J!NoneAtWork /\ J!NoStopWaits
            /\ NoneUnsettled /\ ShutdownOver
            /\ A!NobodyWaits
            /\ V!SettledDown /\ V!NoRecovery
            /\ part = "workflow" => E!RunOver \/ E!OthersToAct
            /\ Q!NoneOpen \/ Q!RunnerOut
            /\ W!NoneOpen \/ W!RunnerOut
            /\ P!AllHaveAnswers
            /\ U!NoneRuns /\ U!NoneDrains /\ T!NobodyAsks
            /\ Z!NobodyWaits)
    /\ O!HealthyCloses
=============================================================================
