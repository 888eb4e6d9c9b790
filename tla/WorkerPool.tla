----------------------------- MODULE WorkerPool -----------------------------
(***************************************************************************)
(* A pool of worker threads with a queue in front of it.                   *)
(*                                                                         *)
(* The code is WorkerPool in packages/prana/src/worker-pool.ts.  Threads   *)
(* answer, throw, exit or hang; the pool replaces those that throw or take *)
(* too long.  The two "error" listeners of a busy worker run one after the *)
(* other for one event and are one action here.                            *)
(***************************************************************************)
EXTENDS Integers, Sequences, FiniteSets

CONSTANTS
    Tasks,
    Size,           \* poolSize
    MaxQueue,       \* maxQueueSize
    MaxFaults,      \* bound on threads that throw or exit
    MayExit,        \* TRUE: a thread may end without an error
    None

PoolAssumption ==
    /\ IsFiniteSet(Tasks)
    /\ Size \in Nat \ {0}
    /\ MaxQueue \in Nat
    /\ MaxFaults \in Nat
    /\ MayExit \in BOOLEAN
    /\ None \notin Tasks

VARIABLES
    workers,        \* per place: busy, the task it was given, is the thread alive
    queue,
    orphans,        \* running tasks whose worker the pool has let go
    result,         \* per task, what its submitter knows, "new" before
    completedTasks, failedTasks,
    shuttingDown, killed,
    closing,        \* places shutdown is waiting for
    gone,           \* the list of workers was emptied
    faults

stats == <<completedTasks, failedTasks>>
phase == <<shuttingDown, killed, closing, gone>>
vars == <<workers, queue, orphans, result, stats, phase, faults>>

Places == 1..Size

Fresh == [busy |-> FALSE, task |-> None, alive |-> TRUE]

Idle(ws) == IF gone THEN {} ELSE {i \in Places : ~ws[i].busy}

(* dispatch marks the worker and posts the task to its thread.             *)
Given(ws, i, t) == [ws EXCEPT ![i].busy = TRUE, ![i].task = t]

Settled == {"ok", "failed", "rejected"}

Running == {t \in Tasks : result[t] = "running"}

-----------------------------------------------------------------------------
Init ==
    /\ workers = [i \in Places |-> Fresh]
    /\ queue = <<>> /\ orphans = {}
    /\ result = [t \in Tasks |-> "new"]
    /\ completedTasks = 0 /\ failedTasks = 0
    /\ shuttingDown = FALSE /\ killed = FALSE
    /\ closing = {} /\ gone = FALSE
    /\ faults = 0

(* submit with an idle worker, with none, and to a pool that is closing.   *)
Submit(t) ==
    /\ result[t] = "new"
    /\ ~shuttingDown
    /\ Idle(workers) # {}
    /\ LET i == CHOOSE i \in Idle(workers) : \A j \in Idle(workers) : i <= j
       IN  workers' = Given(workers, i, t)
    /\ result' = [result EXCEPT ![t] = "running"]
    /\ UNCHANGED <<queue, orphans, stats, phase, faults>>

(* The slip that is off by one at the limit.                               *)
SubmitQueuedOver(t) ==
    /\ result[t] = "new"
    /\ ~shuttingDown
    /\ Idle(workers) = {}
    /\ IF Len(queue) > MaxQueue
       THEN /\ result' = [result EXCEPT ![t] = "rejected"]
            /\ UNCHANGED queue
       ELSE /\ queue' = Append(queue, t)
            /\ result' = [result EXCEPT ![t] = "queued"]
    /\ UNCHANGED <<workers, orphans, stats, phase, faults>>

SubmitQueued(t) ==
    /\ result[t] = "new"
    /\ ~shuttingDown
    /\ Idle(workers) = {}
    /\ IF Len(queue) >= MaxQueue
       THEN /\ result' = [result EXCEPT ![t] = "rejected"]
            /\ UNCHANGED queue
       ELSE /\ queue' = Append(queue, t)
            /\ result' = [result EXCEPT ![t] = "queued"]
    /\ UNCHANGED <<workers, orphans, stats, phase, faults>>

SubmitClosed(t) ==
    /\ result[t] = "new"
    /\ shuttingDown
    /\ result' = [result EXCEPT ![t] = "rejected"]
    /\ UNCHANGED <<workers, queue, orphans, stats, phase, faults>>

(* drainQueue, with the workers and results the handler has set so far:    *)
(* the first in the queue goes to the first idle worker, and so on.        *)
Drain(ws, res) ==
    LET Turn(i) == Cardinality({j \in Idle(ws) : j <= i})
        served  == {i \in Idle(ws) : Turn(i) <= Len(queue)}
    IN  /\ workers' = [i \in Places |-> IF i \in served THEN Given(ws, i, queue[Turn(i)])[i]
                                                         ELSE ws[i]]
        /\ queue' = SubSeq(queue, Cardinality(served) + 1, Len(queue))
        /\ result' = [t \in Tasks |-> IF \E i \in served : queue[Turn(i)] = t THEN "running"
                                                                               ELSE res[t]]

(* onMessage: the thread answers for the task it was given.                *)
Answer(i, good) ==
    LET t == workers[i].task
    IN  /\ ~gone /\ workers[i].busy /\ workers[i].alive
        /\ Drain([workers EXCEPT ![i].busy = FALSE, ![i].task = None],
                 [result EXCEPT ![t] = IF good THEN "ok" ELSE "failed"])
        /\ completedTasks' = IF good THEN completedTasks + 1 ELSE completedTasks
        /\ failedTasks' = IF good THEN failedTasks ELSE failedTasks + 1
        /\ UNCHANGED <<orphans, phase, faults>>

(* The timer of a task: its worker is terminated and replaced.             *)
TimeOut(i) ==
    LET t == workers[i].task
    IN  /\ ~gone /\ workers[i].busy
        /\ Drain([workers EXCEPT ![i] =
                     IF shuttingDown THEN [Fresh EXCEPT !.alive = FALSE] ELSE Fresh],
                 [result EXCEPT ![t] = "failed"])
        /\ failedTasks' = failedTasks + 1
        /\ UNCHANGED <<orphans, completedTasks, phase, faults>>

(* The timer of a task whose worker is no longer in the list.              *)
OrphanTimesOut(t) ==
    /\ t \in orphans
    /\ orphans' = orphans \ {t}
    /\ result' = [result EXCEPT ![t] = "failed"]
    /\ failedTasks' = failedTasks + 1
    /\ UNCHANGED <<workers, queue, completedTasks, phase, faults>>

(* The thread throws.  The first listener replaces the worker and drains   *)
(* the queue, the second one, if it is busy, ends its task as failed.      *)
Crash(i) ==
    LET t == workers[i].task
    IN  /\ ~gone /\ workers[i].alive /\ faults < MaxFaults
        /\ faults' = faults + 1
        /\ Drain([workers EXCEPT ![i] = IF shuttingDown THEN [Fresh EXCEPT !.alive = FALSE] ELSE Fresh],
                 IF workers[i].busy THEN [result EXCEPT ![t] = "failed"] ELSE result)
        /\ failedTasks' = IF workers[i].busy THEN failedTasks + 1 ELSE failedTasks
        /\ UNCHANGED <<orphans, completedTasks, phase>>

(* The thread ends without an error: nobody takes notice.                  *)
Exit(i) ==
    /\ MayExit
    /\ ~gone /\ workers[i].alive /\ faults < MaxFaults
    /\ faults' = faults + 1
    /\ workers' = [workers EXCEPT ![i].alive = FALSE]
    /\ UNCHANGED <<queue, orphans, result, stats, phase>>

RejectQueued ==
    /\ queue' = <<>>
    /\ result' = [t \in Tasks |-> IF result[t] = "queued" THEN "rejected" ELSE result[t]]

(* shutdown: queued tasks are rejected, idle workers terminated, the busy  *)
(* ones waited for.                                                        *)
Shutdown ==
    /\ ~shuttingDown
    /\ shuttingDown' = TRUE
    /\ RejectQueued
    /\ closing' = {i \in Places : workers[i].busy}
    /\ workers' = [i \in Places |->
          IF workers[i].busy THEN workers[i] ELSE [workers[i] EXCEPT !.alive = FALSE]]
    /\ UNCHANGED <<orphans, stats, killed, gone, faults>>

(* A worker shutdown waited for has become idle.                           *)
ShutdownWorker(i) ==
    /\ i \in closing /\ ~workers[i].busy
    /\ closing' = closing \ {i}
    /\ workers' = [workers EXCEPT ![i].alive = FALSE]
    /\ UNCHANGED <<queue, orphans, result, stats, shuttingDown, killed, gone, faults>>

(* The slip that terminates the worker and lets shutdown wait on.          *)
ShutdownForcedSilent(i) ==
    /\ i \in closing
    /\ workers' = [workers EXCEPT ![i].alive = FALSE]
    /\ UNCHANGED <<queue, orphans, result, stats, phase, faults>>

(* shutdown has waited long enough; the task is left to its own timer.     *)
ShutdownForced(i) ==
    /\ i \in closing
    /\ closing' = closing \ {i}
    /\ workers' = [workers EXCEPT ![i].alive = FALSE]
    /\ UNCHANGED <<queue, orphans, result, stats, shuttingDown, killed, gone, faults>>

LetGo ==
    /\ gone' = TRUE
    /\ orphans' = orphans \cup {workers[i].task : i \in {j \in Places : workers[j].busy}}
    /\ workers' = [i \in Places |-> [Fresh EXCEPT !.alive = FALSE]]

(* The end of shutdown.                                                    *)
ShutdownEnds ==
    /\ shuttingDown /\ ~killed /\ ~gone
    /\ closing = {}
    /\ LetGo
    /\ UNCHANGED <<queue, result, stats, shuttingDown, killed, closing, faults>>

Kill ==
    /\ ~killed /\ ~gone
    /\ killed' = TRUE
    /\ shuttingDown' = TRUE
    /\ RejectQueued
    /\ closing' = {}
    /\ LetGo
    /\ UNCHANGED <<stats, faults>>

Next ==
    \/ \E t \in Tasks :
          Submit(t) \/ SubmitQueued(t) \/ SubmitClosed(t) \/ OrphanTimesOut(t)
    \/ \E i \in Places :
          \/ \E good \in BOOLEAN : Answer(i, good)
          \/ TimeOut(i) \/ Crash(i) \/ Exit(i)
          \/ ShutdownWorker(i) \/ ShutdownForced(i)
    \/ Shutdown
    \/ ShutdownEnds
    \/ Kill

Spec == Init /\ [][Next]_vars

(* Timers fire: those of tasks, and those shutdown waits with.             *)
Fairness ==
    /\ WF_vars(\E i \in Places : TimeOut(i))
    /\ WF_vars(\E t \in Tasks : OrphanTimesOut(t))
    /\ WF_vars(\E i \in Places : ShutdownForced(i))
    /\ WF_vars(ShutdownEnds)

FairSpec == Spec /\ Fairness

-----------------------------------------------------------------------------
(* The variables stay in their types.                                      *)
TypeOK ==
    /\ workers \in [Places -> [busy : BOOLEAN, task : Tasks \cup {None}, alive : BOOLEAN]]
    /\ queue \in Seq(Tasks) /\ orphans \subseteq Tasks
    /\ result \in [Tasks -> {"new", "queued", "running"} \cup Settled]
    /\ completedTasks \in Nat /\ failedTasks \in Nat
    /\ shuttingDown \in BOOLEAN /\ killed \in BOOLEAN /\ gone \in BOOLEAN
    /\ closing \subseteq Places /\ faults \in 0..MaxFaults

(* A task that runs is with exactly one worker, or has only its timer      *)
(* left; no task is given to two workers and none falls between them.      *)
OnePlaceEach ==
    \A t \in Tasks :
        LET places == {i \in Places : workers[i].busy /\ workers[i].task = t}
        IN  /\ result[t] = "running" => (t \in orphans) \/ Cardinality(places) = 1
            /\ result[t] # "running" => places = {} /\ t \notin orphans

(* No place stays free while a task waits: each of the events that free a  *)
(* worker serves the queue.                                                *)
NoIdleWhileQueued ==
    queue # <<>> => ~shuttingDown /\ \A i \in Places : workers[i].busy

(* The statistics count every task that was started and ended, once.       *)
StatsAddUp ==
    /\ completedTasks = Cardinality({t \in Tasks : result[t] = "ok"})
    /\ failedTasks = Cardinality({t \in Tasks : result[t] = "failed"})

NoneUnsettled == \A t \in Tasks : result[t] \notin {"queued", "running"}

(* Every task that was accepted gets an answer, also if its thread is      *)
(* gone, the pool is shut down or killed.                                  *)
TaskSettles == []<>NoneUnsettled

ShutdownOver == shuttingDown => gone

(* A shutdown ends, whatever the threads do.                               *)
ShutdownReturns == []<>ShutdownOver

-----------------------------------------------------------------------------
(* What the submitters see is a TaskPool.                                  *)
Shown(t) ==
    CASE result[t] = "queued" -> "waiting"
      [] result[t] \in {"ok", "failed"} -> "done"
      [] result[t] = "rejected" -> "refused"
      [] OTHER -> result[t]

Promise == INSTANCE TaskPool WITH
    state <- [t \in Tasks |-> Shown(t)],
    open  <- ~shuttingDown

(* The pool implements its abstract specification.                         *)
Implements == Promise!Spec

(* What submitters see of the worker pool is the abstract TaskPool, and    *)
(* its books agree with it: tasks have one place each, none waits beside a *)
(* free worker, and all are counted (worker-pool.ts).                      *)
PoolImplements ==
    /\ [](TypeOK /\ OnePlaceEach /\ NoIdleWhileQueued /\ StatsAddUp)
    /\ Implements

-----------------------------------------------------------------------------
(* Expected to fail: what the repository says of the program.              *)

(* "No-op: handled by error listener or explicit terminate"                *)
(* (worker-pool.ts:245): a thread that has ended is not left in the pool   *)
(* as an idle worker.                                                      *)
ExitHandled ==
    ~shuttingDown => \A i \in Places : workers[i].alive \/ workers[i].busy
=============================================================================
