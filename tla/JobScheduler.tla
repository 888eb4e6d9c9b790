---------------------------- MODULE JobScheduler ----------------------------
(***************************************************************************)
(* The background job scheduler: jobs wait in a queue, are dispatched into *)
(* a limited number of slots, are retried when their handler fails or      *)
(* takes too long, and can be cancelled while they wait.                   *)
(*                                                                         *)
(* The code is packages/niyanta/src/scheduler.ts.  All of it runs on one   *)
(* thread and no method awaits, so each method, timer callback and promise *)
(* callback is one action, dispatch loop included.  What does interleave   *)
(* are the handlers: a handler is a promise that nobody can stop.  When a  *)
(* job times out its slot is freed and the job queued again, while the     *)
(* handler of the timed-out attempt runs on and may still answer.          *)
(*                                                                         *)
(* Which of the ready jobs is taken first is the heap's business           *)
(* (JobHeap); here any order is possible.                                  *)
(***************************************************************************)
EXTENDS Integers, FiniteSets

CONSTANTS
    Jobs,           \* every job that may be submitted
    Unhandled,      \* those of a type nobody registered a handler for
    MaxConcurrent,
    MaxRetries,
    Reentrant       \* TRUE: a listener may cancel a job from its callback

SchedulerAssumption ==
    /\ Unhandled \subseteq Jobs
    /\ IsFiniteSet(Jobs)
    /\ MaxConcurrent \in Nat \ {0}
    /\ MaxRetries \in Nat
    /\ Reentrant \in BOOLEAN

VARIABLES
    sched,      \* the fields of the JobScheduler object
    handlers,   \* attempts whose handler has not answered yet
    timers,     \* attempts whose timeout is armed
    starts,     \* history: how often each job's handler was called
    quiet       \* history: a graceful stop has resolved since the last start

vars == <<sched, handlers, timers, starts, quiet>>

Ended == {"completed", "failed", "cancelled"}
Statuses == {"none", "queued", "running"} \cup Ended

(* An attempt is a job with the number of failures it had when it started. *)
Attempts == Jobs \X (0..MaxRetries)

(* activeWorkers is `active`; `later` are the queued jobs whose scheduledAt *)
(* has not come; `waiting` says that shutdownResolvers is not empty.       *)
Scheduler ==
    [status : [Jobs -> Statuses], retries : [Jobs -> 0..(MaxRetries + 1)],
     queue : SUBSET Jobs, later : SUBSET Jobs, active : SUBSET Jobs,
     on : BOOLEAN, waiting : BOOLEAN, completed : Nat, failed : Nat]

Init ==
    /\ sched = [status |-> [j \in Jobs |-> "none"], retries |-> [j \in Jobs |-> 0],
                queue |-> {}, later |-> {}, active |-> {},
                on |-> FALSE, waiting |-> FALSE, completed |-> 0, failed |-> 0]
    /\ handlers = {}
    /\ timers = {}
    /\ starts = [j \in Jobs |-> 0]
    /\ quiet = FALSE

-----------------------------------------------------------------------------
(* The dispatch loop, from scheduler state s.                              *)

(* The sets of jobs one run of the loop may take: as many ready jobs as    *)
(* there are free slots.  A job without a handler fails and takes no slot. *)
Batches(s) ==
    LET ready == s.queue \ s.later
        free  == MaxConcurrent - Cardinality(s.active)
    IN  IF ~s.on \/ free = 0 THEN {{}}
        ELSE {B \in SUBSET ready :
                LET n == Cardinality(B \ Unhandled)
                IN  n = free \/ (n < free /\ B = ready)}

(* The jobs of B dequeued and started, or failed for want of a handler.    *)
Dispatched(s, B) ==
    [s EXCEPT !.queue  = @ \ B,
              !.active = @ \cup (B \ Unhandled),
              !.status = [j \in Jobs |-> IF j \notin B THEN @[j]
                                         ELSE IF j \in Unhandled THEN "failed"
                                         ELSE "running"],
              !.failed = @ + Cardinality(B \cap Unhandled)]

(* Run the loop from s, with the handlers in hs and the timers in ts.      *)
Dispatch(s, hs, ts) ==
    \E B \in Batches(s) :
        LET begun == {<<j, s.retries[j]>> : j \in B \ Unhandled}
        IN  /\ sched'    = Dispatched(s, B)
            /\ handlers' = hs \cup begun
            /\ timers'   = ts \cup begun
            /\ starts'   = [j \in Jobs |-> IF j \in B \ Unhandled THEN starts[j] + 1
                                                                  ELSE starts[j]]

(* resolveShutdownIfDone.                                                  *)
Resolved(s) == [s EXCEPT !.waiting = @ /\ s.active # {}]

-----------------------------------------------------------------------------
(* What an answer or a timeout makes of its job.                           *)

Succeeded(s, j) ==
    [s EXCEPT !.active = @ \ {j}, !.status[j] = "completed", !.completed = @ + 1]

(* The slip that does not count the failure on the job.                    *)
FailedUncounted(s, j, heard) ==
    LET n == s.retries[j] + 1
        t == [s EXCEPT !.active = @ \ {j}]
    IN  IF n <= MaxRetries
        THEN [t EXCEPT !.status[j] = heard, !.queue = @ \cup {j}, !.later = @ \cup {j}]
        ELSE [t EXCEPT !.status[j] = "failed", !.failed = @ + 1]

(* handleFailure and handleTimeout: queued again, to wait for its backoff, *)
(* or failed for good.  Listeners hear of the new status before the job is *)
(* put in the queue: one of them may cancel it there.                      *)
Failed(s, j, heard) ==
    LET n == s.retries[j] + 1
        t == [s EXCEPT !.active = @ \ {j}, !.retries[j] = n]
    IN  IF n <= MaxRetries
        THEN [t EXCEPT !.status[j] = heard, !.queue = @ \cup {j}, !.later = @ \cup {j}]
        ELSE [t EXCEPT !.status[j] = "failed", !.failed = @ + 1]

(* What a listener may leave of the status "queued" it is told.            *)
Heard == IF Reentrant THEN {"queued", "cancelled"} ELSE {"queued"}

(* The promise of a graceful stop resolves.                                *)
Quietens(s) == quiet' = (quiet \/ (s.waiting /\ s.active = {} /\ ~s.on))

-----------------------------------------------------------------------------
(* submit and defer.                                                       *)
Submit(j) ==
    /\ sched.status[j] = "none"
    /\ \E deferred \in BOOLEAN :
          Dispatch([sched EXCEPT !.status[j] = "queued", !.queue = @ \cup {j},
                                 !.later = IF deferred THEN @ \cup {j} ELSE @],
                   handlers, timers)
    /\ UNCHANGED quiet

(* The scheduledAt of a waiting job comes.                                 *)
Ripen(j) ==
    /\ j \in sched.later
    /\ sched' = [sched EXCEPT !.later = @ \ {j}]
    /\ UNCHANGED <<handlers, timers, starts, quiet>>

(* cancel: only a job that waits.                                          *)
CancelJob(j) ==
    /\ sched.status[j] = "queued"
    /\ sched' = [sched EXCEPT !.status[j] = "cancelled",
                              !.queue = @ \ {j}, !.later = @ \ {j}]
    /\ UNCHANGED <<handlers, timers, starts, quiet>>

(* A handler answers.  Its own timer is cleared; the answer counts if the  *)
(* job is active, whichever attempt of the job answers.                    *)
Succeeds(a) ==
    LET j == a[1] IN
    /\ a \in handlers
    /\ IF j \in sched.active
       THEN /\ Dispatch(Resolved(Succeeded(sched, j)), handlers \ {a}, timers \ {a})
            /\ Quietens(Succeeded(sched, j))
       ELSE /\ handlers' = handlers \ {a}
            /\ timers'   = timers \ {a}
            /\ UNCHANGED <<sched, starts, quiet>>

Fails(a) ==
    LET j == a[1] IN
    /\ a \in handlers
    /\ IF j \in sched.active
       THEN \E heard \in Heard :
              /\ Dispatch(Resolved(Failed(sched, j, heard)), handlers \ {a}, timers \ {a})
              /\ Quietens(Failed(sched, j, heard))
       ELSE /\ handlers' = handlers \ {a}
            /\ timers'   = timers \ {a}
            /\ UNCHANGED <<sched, starts, quiet>>

(* A timeout fires.  It too looks only at whether the job is active.       *)
TimesOut(a) ==
    LET j == a[1] IN
    /\ a \in timers
    /\ IF j \in sched.active
       THEN \E heard \in Heard :
              /\ Dispatch(Resolved(Failed(sched, j, heard)), handlers, timers \ {a})
              /\ Quietens(Failed(sched, j, heard))
       ELSE /\ timers' = timers \ {a}
            /\ UNCHANGED <<sched, handlers, starts, quiet>>

Start ==
    /\ ~sched.on
    /\ Dispatch([sched EXCEPT !.on = TRUE], handlers, timers)
    /\ quiet' = FALSE

(* A graceful stop waits for the active jobs, any other resolves at once.  *)
(* Stopping a stopped scheduler resolves at once, too.                     *)
Stop(graceful) ==
    /\ sched' = [sched EXCEPT !.on = FALSE,
                              !.waiting = @ \/ (graceful /\ sched.on /\ sched.active # {})]
    /\ quiet' = (quiet \/ (graceful /\ ~(sched.on /\ sched.active # {})))
    /\ UNCHANGED <<handlers, timers, starts>>

(* The poll timer, armed while the scheduler is on.                        *)
Poll ==
    /\ sched.on
    /\ Dispatch(sched, handlers, timers)
    /\ UNCHANGED quiet

Next ==
    \/ \E j \in Jobs : Submit(j) \/ Ripen(j) \/ CancelJob(j)
    \/ \E a \in Attempts : Succeeds(a) \/ Fails(a) \/ TimesOut(a)
    \/ Start
    \/ \E graceful \in BOOLEAN : Stop(graceful)
    \/ Poll

Spec == Init /\ [][Next]_vars

(* What the runtime drives: the interval of the poll, the timeouts, the    *)
(* clock.  Nothing is assumed of the handlers: one may never answer.       *)
Fairness ==
    /\ WF_vars(Poll)
    /\ WF_vars(\E a \in Attempts : TimesOut(a))
    /\ WF_vars(\E j \in Jobs : Ripen(j))

FairSpec == Spec /\ Fairness

-----------------------------------------------------------------------------
(* The variables stay in their types.                                      *)
TypeOK ==
    /\ sched \in Scheduler
    /\ handlers \subseteq Attempts
    /\ timers \subseteq handlers
    /\ starts \in [Jobs -> 0..(MaxRetries + 1)]
    /\ quiet \in BOOLEAN

(* A job is where its status says: the queued ones in the queue and the    *)
(* running ones in a slot, in spite of timed-out handlers that answer for  *)
(* a job that moved on and of timers that outlive their attempt            *)
(* (executeJob's callbacks, scheduler.ts:299-310).                         *)
OnePlace ==
    \A j \in Jobs : /\ j \in sched.queue  <=> sched.status[j] = "queued"
                    /\ j \in sched.active <=> sched.status[j] = "running"

(* The statistics count every job once: late answers, timeouts and jobs    *)
(* without a handler included (completedCount and failedCount against the  *)
(* statuses of the jobs).                                                  *)
CountersExact ==
    /\ sched.completed = Cardinality({j \in Jobs : sched.status[j] = "completed"})
    /\ sched.failed    = Cardinality({j \in Jobs : sched.status[j] = "failed"})

(* The handler of a job is called once for each failure the job has had,   *)
(* and once more: however answers and timers of several attempts cross, no *)
(* attempt is skipped and none is run twice.                               *)
OneCallPerAttempt ==
    \A j \in Jobs \ Unhandled :
        starts[j] = sched.retries[j] + (IF sched.status[j] \in {"running", "completed"}
                                        THEN 1 ELSE 0)

(* The slots are never oversubscribed, as far as the scheduler knows, and  *)
(* a graceful stop waits only while a slot is taken (dispatch,             *)
(* resolveShutdownIfDone).                                                 *)
SlotsAccounted ==
    /\ Cardinality(sched.active) <= MaxConcurrent
    /\ sched.waiting => sched.active # {}

(* A job that ended stays as it ended.                                     *)
EndedStays ==
    [][\A j \in Jobs : sched.status[j] \in Ended
                         => sched'.status[j] = sched.status[j]]_vars

NoneAtWork == ~sched.on \/ \A j \in Jobs : sched.status[j] \notin {"queued", "running"}

(* A submitted job ends, if the scheduler is left on, although handlers    *)
(* may never answer: timeouts free the slots, and the retries are picked   *)
(* up by the poll.                                                         *)
SubmittedEnds == []<>NoneAtWork

NoStopWaits == ~sched.waiting \/ sched.on

(* A graceful stop resolves, unless the scheduler is started again.        *)
StopResolves == []<>NoStopWaits

-----------------------------------------------------------------------------
(* Expected to fail: what the repository says of the program.              *)

(* "Maximum number of jobs executing concurrently" (scheduler-types.ts:75  *)
(* on maxConcurrent): no more handlers run than there are slots.           *)
LimitRespected == Cardinality(handlers) <= MaxConcurrent

(* "Timed out already" (scheduler.ts:302, 307): the answer of a timed-out  *)
(* attempt is ignored.  A running job whose own attempt has neither        *)
(* answered nor timed out goes on running.                                 *)
LateAnswerIgnored ==
    [][\A j \in Jobs :
         LET a == <<j, sched.retries[j]>>
         IN  j \in sched.active /\ a \in handlers' /\ a \in timers'
               => sched'.status[j] = "running"]_vars

(* "@returns True if the job was cancelled" (scheduler.ts:150): a job that *)
(* was cancelled does not run.                                             *)
CancelledNeverRuns == \A j \in Jobs : sched.status[j] = "cancelled" => j \notin sched.queue

(* "If true, waits for all running jobs to finish before resolving"        *)
(* (scheduler.ts:228).                                                     *)
GracefulStopWaits == quiet => sched.active = {}
=============================================================================
