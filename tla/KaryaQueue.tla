------------------------------ MODULE KaryaQueue ------------------------------
(***************************************************************************)
(* The job queue of the HTTP server (packages/cli/src/job-queue.ts): jobs  *)
(* are submitted and polled, some run at a time, any may be cancelled.     *)
(*                                                                         *)
(* A cancelled job is done at once, its runner ends when it likes.  The    *)
(* handlers of a runner's promise are two steps, as microtasks of others   *)
(* may come between them.  Responses, errors and events are left out.      *)
(***************************************************************************)
EXTENDS Naturals, Sequences, SequencesExt, FiniteSetsExt

CONSTANTS
    MaxJobs,            \* bound: submissions
    MaxConcurrent,
    MaxQueueSize,
    CancelsRunning      \* jobs are cancelled while they run, too

KaryaAssumption ==
    /\ {MaxJobs, MaxConcurrent, MaxQueueSize} \subseteq Nat \ {0}
    /\ CancelsRunning \in BOOLEAN

(* Jobs, numbered as they are submitted. *)
Jobs == 1 .. MaxJobs

VARIABLES
    status,         \* of each job: "none" before it is submitted, and "gone"
                    \* when it is swept
    pendingQueue,
    runner,         \* of each job: "none", "works", "aborted", "settled" or "over"
    runningCount,
    destroyed

vars == <<status, pendingQueue, runner, runningCount, destroyed>>

Terminal == {"completed", "failed", "cancelled"}
Working == {"works", "aborted", "settled"}

Less(n) == IF n = 0 THEN 0 ELSE n - 1

-----------------------------------------------------------------------------
(* What drain takes from the queue when it has room for as many.           *)
Taken(queue, count) ==
    LET room == IF count < MaxConcurrent THEN MaxConcurrent - count ELSE 0
    IN  SubSeq(queue, 1, IF room < Len(queue) THEN room ELSE Len(queue))

(* The ends of all that call drain, with the queue, the count, the status  *)
(* and the runners as they are by then.                                    *)
Drain(queue, count, st, run) ==
    LET taken == Taken(queue, count) IN
    /\ pendingQueue' = SubSeq(queue, Len(taken) + 1, Len(queue))
    /\ runningCount' = count + Len(taken)
    /\ status' = [j \in Jobs |-> IF j \in ToSet(taken) THEN "running" ELSE st[j]]
    /\ runner' = [j \in Jobs |-> IF j \in ToSet(taken) THEN "works" ELSE run[j]]

Submit(j) ==
    /\ ~destroyed /\ status[j] = "none"
    /\ \A k \in 1 .. j - 1 : status[k] # "none"
    /\ Len(pendingQueue) + runningCount < MaxQueueSize
    /\ Drain(Append(pendingQueue, j), runningCount, [status EXCEPT ![j] = "pending"], runner)
    /\ UNCHANGED destroyed

CancelPending(j) ==
    /\ status[j] = "pending"
    /\ pendingQueue' = SelectSeq(pendingQueue, LAMBDA k : k # j)
    /\ status' = [status EXCEPT ![j] = "cancelled"]
    /\ UNCHANGED <<runner, runningCount, destroyed>>

CancelRunning(j) ==
    /\ CancelsRunning /\ status[j] = "running"
    /\ Drain(pendingQueue, Less(runningCount), [status EXCEPT ![j] = "cancelled"],
             [runner EXCEPT ![j] = "aborted"])
    /\ UNCHANGED destroyed

(* The runner returned or threw; an aborted one may do either. *)
RunnerEnds(j) ==
    /\ runner[j] \in {"works", "aborted"}
    /\ runner' = [runner EXCEPT ![j] = "settled"]
    /\ \/ /\ status[j] = "running"
          /\ \E st \in {"completed", "failed"} : status' = [status EXCEPT ![j] = st]
       \/ status[j] # "running" /\ UNCHANGED status
    /\ UNCHANGED <<pendingQueue, runningCount, destroyed>>

FinallyFreeing(j) ==
    /\ runner[j] = "settled"
    /\ runner' = [runner EXCEPT ![j] = "over"]
    /\ runningCount' = Less(runningCount)
    /\ UNCHANGED <<status, pendingQueue, destroyed>>

Finally(j) ==
    /\ runner[j] = "settled"
    /\ Drain(pendingQueue, Less(runningCount), status, [runner EXCEPT ![j] = "over"])
    /\ UNCHANGED destroyed

CleanupExpired ==
    /\ ~destroyed
    /\ \E old \in SUBSET {j \in Jobs : status[j] \in Terminal} :
          /\ old # {}
          /\ status' = [j \in Jobs |-> IF j \in old THEN "gone" ELSE status[j]]
    /\ UNCHANGED <<pendingQueue, runner, runningCount, destroyed>>

Destroy ==
    /\ ~destroyed
    /\ CancelsRunning \/ runningCount = 0
    /\ destroyed' = TRUE
    /\ status' = [j \in Jobs |-> IF status[j] \in {"pending", "running"} THEN "cancelled" ELSE status[j]]
    /\ runner' = [j \in Jobs |-> IF runner[j] = "works" THEN "aborted" ELSE runner[j]]
    /\ pendingQueue' = <<>>
    /\ runningCount' = 0

Init ==
    /\ status = [j \in Jobs |-> "none"]
    /\ pendingQueue = <<>>
    /\ runner = [j \in Jobs |-> "none"]
    /\ runningCount = 0
    /\ destroyed = FALSE

Next ==
    \/ \E j \in Jobs : \/ Submit(j) \/ CancelPending(j) \/ CancelRunning(j)
                       \/ RunnerEnds(j) \/ Finally(j)
    \/ CleanupExpired
    \/ Destroy

Spec == Init /\ [][Next]_vars

(* The handlers of a settled promise are called.  Runners have no timeout  *)
(* and need not end, not even when they are aborted.                       *)
Fairness == WF_vars(\E j \in Jobs : Finally(j))

FairSpec == Spec /\ Fairness

-----------------------------------------------------------------------------
TypeOK ==
    /\ status \in [Jobs -> Terminal \cup {"none", "pending", "running", "gone"}]
    /\ runner \in [Jobs -> Working \cup {"none", "over"}]
    /\ pendingQueue \in Seq(Jobs)
    /\ runningCount \in 0 .. MaxConcurrent
    /\ destroyed \in BOOLEAN

(* The queue holds the pending jobs, in the order of their submission, and *)
(* only while no slot is free.                                             *)
QueueIsPending ==
    /\ pendingQueue = SetToSortSeq({j \in Jobs : status[j] = "pending"}, <)
    /\ pendingQueue # <<>> => runningCount = MaxConcurrent

(* packages/cli/src/job-queue.ts:54: "Maximum number of concurrently       *)
(* running jobs."  Fails when running jobs are cancelled.                  *)
LimitKept == Cardinality({j \in Jobs : status[j] = "running"}) <= MaxConcurrent

(* packages/cli/src/job-queue.ts:56: "Maximum number of jobs in the queue  *)
(* (pending + running)."  Fails when running jobs are cancelled.           *)
SizeKept == Cardinality({j \in Jobs : status[j] \in {"pending", "running"}}) <= MaxQueueSize

(* A slot is taken for exactly as long as a runner works, and neither the  *)
(* running jobs nor all that are open exceed their limits.  Fails when     *)
(* running jobs are cancelled: the slot is given back by the cancellation  *)
(* and again by the end of the runner.                                     *)
SlotsAccounted ==
    /\ runningCount = Cardinality({j \in Jobs : runner[j] \in Working})
    /\ LimitKept
    /\ SizeKept

(* No slot is lost: even so there are never more taken than runners work.  *)
NoSlotLost == runningCount <= Cardinality({j \in Jobs : runner[j] \in Working})

(* What a job came to stays so until it is swept, whatever its runner does *)
(* afterwards.                                                             *)
OutcomeStays ==
    [][\A j \in Jobs : status[j] \in Terminal => status'[j] \in {status[j], "gone"}]_vars

NoneOpen == \A j \in Jobs : status[j] \notin {"pending", "running"}
RunnerOut == \E j \in Jobs : runner[j] \in {"works", "aborted"}

(* Every job that was submitted ends, unless a runner never does.          *)
JobsEnd == []<>(NoneOpen \/ RunnerOut)
=============================================================================
