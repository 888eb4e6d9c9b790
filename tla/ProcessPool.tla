------------------------------ MODULE ProcessPool ------------------------------
(***************************************************************************)
(* The pool of child processes of the command-line providers               *)
(* (packages/swara/src/process-pool.ts): first come first served, some at  *)
(* a time, SIGTERM at the timeout of a process and SIGKILL after a grace.  *)
(*                                                                         *)
(* A process may exit at any time, fail to start, or ignore SIGTERM.       *)
(* Output and exit codes are left out.                                     *)
(***************************************************************************)
EXTENDS Naturals, Sequences, FiniteSets

CONSTANTS
    MaxProcs,           \* bound: calls of execute
    MaxConcurrency,
    Drainers,           \* calls of drain
    NoDrainer

PoolAssumption ==
    /\ {MaxProcs, MaxConcurrency} \subseteq Nat \ {0}
    /\ NoDrainer \notin Drainers

Procs == 1 .. MaxProcs

VARIABLES
    proc,           \* "none", "queued", "runs", "terminated", "killed",
                    \* "closed" or "errored"
    queue,
    activeProcesses,
    completed, failed,
    drainResolve,   \* the drainer whose promise it resolves
    drainer         \* of each: "none", "waits" or "done"

vars == <<proc, queue, activeProcesses, completed, failed, drainResolve, drainer>>

Over == {"closed", "errored"}
Least(m, n) == IF m < n THEN m ELSE n

-----------------------------------------------------------------------------
(* What dequeue starts when q is queued and act is active. *)
Dequeue(q, act, ps) ==
    LET n == IF Cardinality(act) < MaxConcurrency
               THEN Least(Len(q), MaxConcurrency - Cardinality(act)) ELSE 0
        started == {q[i] : i \in 1 .. n}
    IN  /\ queue' = SubSeq(q, n + 1, Len(q))
        /\ activeProcesses' = act \cup started
        /\ proc' = [p \in Procs |-> IF p \in started THEN "runs" ELSE ps[p]]

Execute(p) ==
    /\ proc[p] = "none" /\ \A o \in 1 .. p - 1 : proc[o] # "none"
    /\ Dequeue(Append(queue, p), activeProcesses, [proc EXCEPT ![p] = "queued"])
    /\ UNCHANGED <<completed, failed, drainResolve, drainer>>

(* The timeout, the end of the grace after it, and killAll. *)
TimesOut(p) ==
    /\ proc[p] = "runs"
    /\ proc' = [proc EXCEPT ![p] = "terminated"]
    /\ UNCHANGED <<queue, activeProcesses, completed, failed, drainResolve, drainer>>

GraceEnds(p) ==
    /\ proc[p] = "terminated"
    /\ proc' = [proc EXCEPT ![p] = "killed"]
    /\ UNCHANGED <<queue, activeProcesses, completed, failed, drainResolve, drainer>>

KillAll ==
    /\ proc' = [p \in Procs |-> IF p \in activeProcesses THEN "killed" ELSE proc[p]]
    /\ UNCHANGED <<queue, activeProcesses, completed, failed, drainResolve, drainer>>

(* What close and error have in common once the child is off the books. *)
Kick(p, how) ==
    /\ Dequeue(queue, activeProcesses \ {p}, [proc EXCEPT ![p] = how])
    /\ IF drainResolve # NoDrainer /\ queue' = <<>> /\ activeProcesses' = {}
         THEN /\ drainer' = [drainer EXCEPT ![drainResolve] = "done"]
              /\ drainResolve' = NoDrainer
         ELSE UNCHANGED <<drainer, drainResolve>>

Close(p, ok) ==
    /\ p \in activeProcesses
    /\ IF ok THEN completed' = completed + 1 /\ UNCHANGED failed
             ELSE failed' = failed + 1 /\ UNCHANGED completed
    /\ Kick(p, "closed")

Errs(p) ==
    /\ p \in activeProcesses
    /\ failed' = failed + 1 /\ UNCHANGED completed
    /\ Kick(p, "errored")

Drain(d) ==
    /\ drainer[d] = "none"
    /\ IF queue = <<>> /\ activeProcesses = {}
         THEN drainer' = [drainer EXCEPT ![d] = "done"] /\ UNCHANGED drainResolve
         ELSE drainer' = [drainer EXCEPT ![d] = "waits"] /\ drainResolve' = d
    /\ UNCHANGED <<proc, queue, activeProcesses, completed, failed>>

Init ==
    /\ proc = [p \in Procs |-> "none"]
    /\ queue = <<>> /\ activeProcesses = {}
    /\ completed = 0 /\ failed = 0
    /\ drainResolve = NoDrainer
    /\ drainer = [d \in Drainers |-> "none"]

Next ==
    \/ \E p \in Procs : \/ Execute(p) \/ TimesOut(p) \/ GraceEnds(p) \/ Errs(p)
                        \/ \E ok \in BOOLEAN : Close(p, ok)
    \/ KillAll
    \/ \E d \in Drainers : Drain(d)

Spec == Init /\ [][Next]_vars

(* Timers fire and SIGKILL ends a process. *)
Fairness ==
    /\ WF_vars(\E p \in Procs : TimesOut(p))
    /\ WF_vars(\E p \in Procs : GraceEnds(p))
    /\ WF_vars(\E p \in Procs : proc[p] = "killed" /\ Close(p, FALSE))

FairSpec == Spec /\ Fairness

-----------------------------------------------------------------------------
TypeOK ==
    /\ proc \in [Procs -> Over \cup {"none", "queued", "runs", "terminated", "killed"}]
    /\ queue \in Seq(Procs) /\ activeProcesses \subseteq Procs
    /\ {completed, failed} \subseteq 0 .. MaxProcs
    /\ drainResolve \in Drainers \cup {NoDrainer}
    /\ drainer \in [Drainers -> {"none", "waits", "done"}]

(* Nothing is queued while a place is free, every process is counted once  *)
(* it is over, and who waits for the pool to drain has something to wait   *)
(* for.                                                                    *)
PoolAccounted ==
    /\ Cardinality(activeProcesses) <= MaxConcurrency
    /\ queue # <<>> => Cardinality(activeProcesses) = MaxConcurrency
    /\ completed + failed = Cardinality({p \in Procs : proc[p] \in Over})
    /\ drainResolve # NoDrainer => activeProcesses # {}

NoneRuns == \A p \in Procs : proc[p] \in Over \cup {"none"}

(* Every process ends, whatever it does with SIGTERM, and so does the wait *)
(* for all of them.                                                        *)
ProcsEnd == []<>NoneRuns

NoneDrains == \A d \in Drainers : drainer[d] # "waits"

(* packages/swara/src/process-pool.ts:117: "Wait for all queued and active *)
(* processes to complete."  Fails for a second call while the first waits: *)
(* it takes the place of the first, which is never resolved.               *)
DrainEnds == []<>NoneDrains
=============================================================================
