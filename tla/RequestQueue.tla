----------------------------- MODULE RequestQueue -----------------------------
(***************************************************************************)
(* The queue of requests to model providers                                *)
(* (packages/swara/src/request-queue.ts): by priority, some at a time,     *)
(* each with a timeout and a signal that aborts it.                        *)
(*                                                                         *)
(* Whether a call that was aborted ends is up to it: those of Deaf do not  *)
(* look at the signal.  The handler of a call's promise and the one after  *)
(* it are two steps.  Times and results are left out.                      *)
(***************************************************************************)
EXTENDS Naturals, Sequences, SequencesExt, FiniteSetsExt

CONSTANTS
    PriorityOf,         \* of the requests, in the order they are enqueued
    MaxConcurrency,     \* concurrency to begin with, it may be set lower
    Deaf                \* requests that ignore the signal

Requests == DOMAIN PriorityOf

RequestsAssumption ==
    /\ PriorityOf \in Seq(0 .. 2)
    /\ MaxConcurrency \in Nat \ {0}
    /\ Deaf \subseteq Requests

VARIABLES
    status,         \* of each request, "none" before it is enqueued
    pending,
    active,
    call,           \* of each: "none", "works", "settled" or "over"
    aborted,
    answer,         \* what its promise came to
    counts,         \* completedCount, failedCount, cancelledCount
    concurrency,
    destroyed

line == <<pending, active>>
vars == <<status, line, call, aborted, answer, counts, concurrency, destroyed>>

Ends == {"completed", "failed", "cancelled"}

-----------------------------------------------------------------------------
(* processQueue, given all it looks at as it is by then. *)
ProcessQueue(queue, act, st, cl, limit) ==
    LET room == IF Cardinality(act) < limit /\ ~destroyed' THEN limit - Cardinality(act) ELSE 0
        taken == SubSeq(queue, 1, IF room < Len(queue) THEN room ELSE Len(queue))
    IN  /\ pending' = SubSeq(queue, Len(taken) + 1, Len(queue))
        /\ active' = act \cup ToSet(taken)
        /\ status' = [r \in Requests |-> IF r \in ToSet(taken) THEN "active" ELSE st[r]]
        /\ call' = [r \in Requests |-> IF r \in ToSet(taken) THEN "works" ELSE cl[r]]

InsertByPriority(r) ==
    LET before(q) == PriorityOf[q] <= PriorityOf[r]
    IN  SelectSeq(pending, before) \o <<r>> \o SelectSeq(pending, LAMBDA q : ~before(q))

Enqueue(r) ==
    /\ ~destroyed
    /\ status[r] = "none" /\ \A q \in 1 .. r - 1 : status[q] # "none"
    /\ UNCHANGED <<aborted, answer, counts, concurrency, destroyed>>
    /\ ProcessQueue(InsertByPriority(r), active, [status EXCEPT ![r] = "pending"], call, concurrency)

Answered(R, what) == answer' = [r \in Requests |-> IF r \in R /\ answer[r] = "none" THEN what ELSE answer[r]]

CancelPending(r) ==
    /\ status[r] = "pending"
    /\ pending' = SelectSeq(pending, LAMBDA q : q # r)
    /\ status' = [status EXCEPT ![r] = "cancelled"]
    /\ aborted' = aborted \cup {r}
    /\ Answered({r}, "error")
    /\ counts' = [counts EXCEPT !.cancelled = @ + 1]
    /\ UNCHANGED <<active, call, concurrency, destroyed>>

(* cancelRequest for an active one, and its timeout: no more than the      *)
(* signal.                                                                 *)
Abort(r) ==
    /\ call[r] = "works" /\ r \notin aborted
    /\ r \in active
    /\ aborted' = aborted \cup {r}
    /\ UNCHANGED <<status, line, call, answer, counts, concurrency, destroyed>>

CancelAll ==
    LET all == ToSet(pending) \cup active IN
    /\ pending' = <<>> /\ active' = {}
    /\ status' = [r \in Requests |-> IF r \in all THEN "cancelled" ELSE status[r]]
    /\ aborted' = aborted \cup all
    /\ Answered(all, "error")
    /\ counts' = [counts EXCEPT !.cancelled = @ + Cardinality(all)]
    /\ UNCHANGED <<call, concurrency>>

Destroy == ~destroyed /\ destroyed' = TRUE /\ CancelAll

SetConcurrency(n) ==
    /\ n # concurrency
    /\ concurrency' = n
    /\ UNCHANGED <<aborted, answer, counts, destroyed>>
    /\ ProcessQueue(pending, active, status, call, n)

-----------------------------------------------------------------------------
(* The call of execute returned, or threw. *)
Settles(r, st, what) ==
    /\ call[r] = "works"
    /\ call' = [call EXCEPT ![r] = "settled"]
    /\ active' = active \ {r}
    /\ IF status[r] = "cancelled" THEN UNCHANGED <<status, answer, counts>>
       ELSE /\ status' = [status EXCEPT ![r] = st]
            /\ Answered({r}, what)
            /\ counts' = [counts EXCEPT ![st] = @ + 1]
    /\ UNCHANGED <<pending, aborted, concurrency, destroyed>>

Returns(r) == Settles(r, "completed", "result")
Throws(r) == Settles(r, IF r \in aborted THEN "cancelled" ELSE "failed", "error")

Finally(r) ==
    /\ call[r] = "settled"
    /\ UNCHANGED <<aborted, answer, counts, concurrency, destroyed>>
    /\ ProcessQueue(pending, active, status, [call EXCEPT ![r] = "over"], concurrency)

Init ==
    /\ status = [r \in Requests |-> "none"]
    /\ pending = <<>> /\ active = {}
    /\ call = [r \in Requests |-> "none"]
    /\ aborted = {}
    /\ answer = [r \in Requests |-> "none"]
    /\ counts = [completed |-> 0, failed |-> 0, cancelled |-> 0]
    /\ concurrency = MaxConcurrency
    /\ destroyed = FALSE

Next ==
    \/ \E r \in Requests : \/ Enqueue(r) \/ CancelPending(r) \/ Abort(r)
                           \/ Returns(r) \/ Throws(r) \/ Finally(r)
    \/ CancelAll /\ UNCHANGED destroyed
    \/ Destroy
    \/ \E n \in 1 .. MaxConcurrency : SetConcurrency(n)

Spec == Init /\ [][Next]_vars

(* Timers fire, and a call that was aborted ends unless it is deaf; one    *)
(* that was not may take for ever.                                         *)
Fairness ==
    /\ WF_vars(\E r \in Requests : Abort(r))
    /\ WF_vars(\E r \in aborted \ Deaf : Returns(r) \/ Throws(r))
    /\ WF_vars(\E r \in Requests : Finally(r))

FairSpec == Spec /\ Fairness

-----------------------------------------------------------------------------
TypeOK ==
    /\ status \in [Requests -> Ends \cup {"none", "pending", "active"}]
    /\ pending \in Seq(Requests) /\ active \subseteq Requests
    /\ call \in [Requests -> {"none", "works", "settled", "over"}]
    /\ aborted \subseteq Requests
    /\ answer \in [Requests -> {"none", "result", "error"}]
    /\ \A st \in Ends : counts[st] \in 0 .. Len(PriorityOf)
    /\ concurrency \in 1 .. MaxConcurrency /\ destroyed \in BOOLEAN

(* Requests wait in the order of their priority, and those of one priority *)
(* in the order they came; none waits while there is room, unless somebody *)
(* is about to look.                                                       *)
InLine ==
    /\ pending = SetToSortSeq({r \in Requests : status[r] = "pending"},
                     LAMBDA q, r : \/ PriorityOf[q] < PriorityOf[r]
                                   \/ PriorityOf[q] = PriorityOf[r] /\ q < r)
    /\ pending # <<>> => \/ Cardinality(active) >= concurrency
                         \/ \E r \in Requests : call[r] = "settled"

(* The counters agree with what became of the requests, and each of those  *)
(* that is over was told what its status says.                             *)
StatsAddUp ==
    /\ \A st \in Ends : counts[st] = Cardinality({r \in Requests : status[r] = st})
    /\ active = {r \in Requests : status[r] = "active"}
    /\ \A r \in Requests :
          /\ (answer[r] = "result") <=> (status[r] = "completed")
          /\ (answer[r] = "error") <=> (status[r] \in {"failed", "cancelled"})

AllHaveAnswers == \A r \in Requests : status[r] # "none" => answer[r] # "none"

(* Every request is answered. *)
AllAnswered == []<>AllHaveAnswers

-----------------------------------------------------------------------------
(***************************************************************************)
(* Expected to fail.                                                       *)
(***************************************************************************)

(* packages/swara/src/request-queue.ts:14: "Maximum concurrent requests."  *)
(* cancelAll forgets the active ones, whose calls may go on (and           *)
(* setConcurrency may lower the limit below what is active).               *)
CallsWithin == Cardinality({r \in Requests : call[r] = "works"}) <= MaxConcurrency
=============================================================================
