------------------------ MODULE ResearchLoopSchedule ------------------------
(***************************************************************************)
(* The durable schedule table of the overnight research loops and the      *)
(* processes that move its rows: operators who enqueue and cancel, worker  *)
(* processes that claim, refresh and complete, and resident dispatchers    *)
(* that pick runnable rows up and put failed dispatches back.              *)
(*                                                                         *)
(* The code is packages/daemon/src/services-research-scheduler.ts over     *)
(* ResearchLoopRow.  Its helpers are asynchronous: each `await` between    *)
(* what a helper reads and what it writes is a point where any other step  *)
(* can happen, so a helper that reads, awaits and writes is two actions    *)
(* here (BeginClaim/QueueForClaim/FinishClaim, BeginRequeue/FinishRequeue) *)
(* and a helper that does both without awaiting is one.                    *)
(*                                                                         *)
(* An owner is the lease identity of one process; it drives one loop at a  *)
(* time (a worker derives its identity from the loop, the resident         *)
(* dispatcher runs one loop at a time).                                    *)
(***************************************************************************)
EXTENDS ResearchLoopRow

CONSTANTS
    Loops,      \* (project, loop key) pairs
    NoLoop

ASSUME ScheduleAssumption == NoLoop \notin Loops

VARIABLES
    row,        \* the durable table: Loops -> Row
    stage,      \* where each owner's process stands
    target,     \* the loop it is driving, or NoLoop
    grant,      \* history: time left of the lease each owner was last granted
                \* and still acts on (0: it does not act on one)
    displaced   \* history: owners whose live lease a queued rewrite wiped

vars == <<row, stage, target, grant, displaced>>

Stages == {"idle", "queueing", "claiming", "working", "requeueing", "closing"}

(* Retry windows a row may be queued with.                                 *)
Delays == 0..MaxDelay

-----------------------------------------------------------------------------
(* How a step changes the history of one loop.                             *)

(* Owner o was granted the lease of l.                                     *)
Granted(l, o) ==
    /\ grant'     = [grant EXCEPT ![l][o] = TTL]
    /\ displaced' = [displaced EXCEPT ![l] = @ \ {o}]

(* Owner o no longer acts on a lease of l.                                 *)
LetGo(l, o) ==
    /\ grant'     = [grant EXCEPT ![l][o] = 0]
    /\ displaced' = [displaced EXCEPT ![l] = @ \ {o}]

(* The row of l is rewritten as queued: a live lease on it is gone, and    *)
(* its holder is not told.                                                 *)
Wiped(l) ==
    IF LeaseActive(row[l]) /\ grant[l][row[l].leaseOwner] > 0
    THEN displaced' = [displaced EXCEPT ![l] = @ \cup {row[l].leaseOwner}]
    ELSE UNCHANGED displaced

Goto(o, s, l) ==
    /\ stage'  = [stage EXCEPT ![o] = s]
    /\ target' = [target EXCEPT ![o] = l]

-----------------------------------------------------------------------------
Init ==
    /\ row       = [l \in Loops |-> NoRow]
    /\ stage     = [o \in Owners |-> "idle"]
    /\ target    = [o \in Owners |-> NoLoop]
    /\ grant     = [l \in Loops |-> [o \in Owners |-> 0]]
    /\ displaced = [l \in Loops |-> {}]

(* research.loops.enqueue: an unconditional queued upsert, at a given time *)
(* or keeping the row's own.                                               *)
Enqueue(l) ==
    /\ \E d \in Delays \cup {row[l].availableIn} :
          row' = [row EXCEPT ![l] = UpsertQueued(row[l], d, "none")]
    /\ Wiped(l)
    /\ UNCHANGED <<stage, target, grant>>

(* cancelDurableResearchLoop.                                              *)
CancelLoop(l) ==
    /\ row' = [row EXCEPT ![l] = Cancel(row[l])]
    /\ UNCHANGED <<stage, target, grant, displaced>>

(* claimResearchLoopLease up to its inspection of the row: a missing row   *)
(* is queued first, after another await.                                   *)
BeginClaim(o, l) ==
    /\ stage[o] = "idle"
    /\ Goto(o, IF row[l].status = "missing" THEN "queueing" ELSE "claiming", l)
    /\ UNCHANGED <<row, grant, displaced>>

(* ... its upsert, which nobody asks again whether the row is missing ...  *)
QueueForClaim(o) ==
    LET l == target[o] IN
    /\ stage[o] = "queueing"
    /\ row' = [row EXCEPT ![l] = UpsertQueued(row[l], row[l].availableIn, "started")]
    /\ Wiped(l)
    /\ Goto(o, "claiming", l)
    /\ UNCHANGED grant

(* ... and its claim.                                                      *)
FinishClaim(o) ==
    LET l == target[o] IN
    /\ stage[o] = "claiming"
    /\ \/ /\ Claimable(row[l], o)
          /\ row' = [row EXCEPT ![l] = Claim(row[l], o, "started")]
          /\ Granted(l, o)
          /\ Goto(o, "working", l)
       \/ /\ ~Claimable(row[l], o)
          /\ Goto(o, "idle", NoLoop)
          /\ UNCHANGED <<row, grant, displaced>>

(* claimNextResearchLoopDispatch: list and claim without an await between  *)
(* them.  Every listed row is claimable (DispatchNeverSkips), so the first *)
(* one is taken; which one is first is left open.  A row that came back    *)
(* cancelling is only closed.                                              *)
DispatchNext(o) ==
    /\ stage[o] = "idle"
    /\ \E l \in Loops :
          /\ Runnable(row[l]) /\ Claimable(row[l], o)
          /\ row' = [row EXCEPT ![l] = Claim(row[l], o, "resident-dispatch")]
          /\ Granted(l, o)
          /\ Goto(o, IF ShowsCancellation(row[l]) THEN "closing" ELSE "working", l)

(* heartbeatResearchLoopLease, and the claim a dispatched loop repeats     *)
(* under its own lease when it starts.  A refused heartbeat aborts the     *)
(* worker, which still tries to report its failure.                        *)
Refresh(o) ==
    LET l == target[o] IN
    /\ stage[o] = "working"
    /\ \/ /\ Claimable(row[l], o)
          /\ \E ph \in {"none", "started"} : row' = [row EXCEPT ![l] = Claim(row[l], o, ph)]
          /\ Granted(l, o)
          /\ UNCHANGED <<stage, target>>
       \/ /\ ~Claimable(row[l], o)
          /\ LetGo(l, o)
          /\ Goto(o, "closing", l)
          /\ UNCHANGED row

(* completeDurableResearchLoop by the process that drove the loop: the     *)
(* outcome of a worker, or failDurableResearchLoopDispatch.  Accepted or   *)
(* refused, the process has stopped working on the loop.                   *)
CompleteLoop(o) ==
    LET l == target[o] IN
    /\ stage[o] \in {"working", "closing"}
    /\ \E reason \in StopReasons :
          row' = IF Completable(row[l], o)
                 THEN [row EXCEPT ![l] = Complete(row[l], reason)]
                 ELSE row
    /\ LetGo(l, o)
    /\ Goto(o, "idle", NoLoop)

(* The same call by a process that found a terminal checkpoint and never   *)
(* claimed the loop (reconcileTerminalResearchLoopInterrupt).              *)
ReconcileTerminal(o, l) ==
    /\ stage[o] = "idle"
    /\ Completable(row[l], o)
    /\ \E reason \in StopReasons : row' = [row EXCEPT ![l] = Complete(row[l], reason)]
    /\ UNCHANGED <<stage, target, grant, displaced>>

(* requeueDurableResearchLoopDispatch after the executor threw: classify   *)
(* the row; cancellation is closed, a lost or advanced row is left alone.  *)
BeginRequeue(o) ==
    LET l       == target[o]
        outcome == DispatchRetryOutcome(row[l], o)
    IN
    /\ stage[o] = "working"
    /\ LetGo(l, o)
    /\ \/ outcome = "requeued"                        /\ Goto(o, "requeueing", l)
       \/ outcome = "cancelled"                       /\ Goto(o, "closing", l)
       \/ outcome \in {"phase-advanced", "lease-lost"} /\ Goto(o, "idle", NoLoop)
    /\ UNCHANGED row

(* ... and, an await later, rewrite it as it was classified.               *)
FinishRequeue(o) ==
    LET l == target[o] IN
    /\ stage[o] = "requeueing"
    /\ \E d \in Delays : row' = [row EXCEPT ![l] = UpsertQueued(row[l], d, "dispatch-retry")]
    /\ Wiped(l)
    /\ Goto(o, "idle", NoLoop)
    /\ UNCHANGED grant

(* The process stops at any point; its lease stays on the row until it     *)
(* lapses.  An identity the caller chose may come back.                    *)
Crash(o) ==
    /\ stage[o] # "idle"
    /\ LetGo(target[o], o)
    /\ Goto(o, "idle", NoLoop)
    /\ UNCHANGED row

Tick ==
    /\ row'       = [l \in Loops |-> Aged(row[l])]
    /\ grant'     = [l \in Loops |-> [o \in Owners |-> Monus1(grant[l][o])]]
    /\ displaced' = [l \in Loops |-> {o \in displaced[l] : grant[l][o] > 1}]
    /\ UNCHANGED <<stage, target>>

(* Every step but the operator's enqueue.                                  *)
OtherSteps ==
    \/ \E l \in Loops : CancelLoop(l)
    \/ \E o \in Owners, l \in Loops : BeginClaim(o, l) \/ ReconcileTerminal(o, l)
    \/ \E o \in Owners :
          \/ QueueForClaim(o) \/ FinishClaim(o) \/ DispatchNext(o) \/ Refresh(o)
          \/ CompleteLoop(o) \/ BeginRequeue(o) \/ FinishRequeue(o) \/ Crash(o)
    \/ Tick

Next == (\E l \in Loops : Enqueue(l)) \/ OtherSteps

Spec == Init /\ [][Next]_vars

-----------------------------------------------------------------------------
TypeOK ==
    /\ row       \in [Loops -> Row]
    /\ stage     \in [Owners -> Stages]
    /\ target    \in [Owners -> Loops \cup {NoLoop}]
    /\ grant     \in [Loops -> [Owners -> 0..TTL]]
    /\ displaced \in [Loops -> SUBSET Owners]
    /\ \A o \in Owners : stage[o] = "idle" <=> target[o] = NoLoop

(* Whatever the interleaving, no row combines the fields of two different  *)
(* writes: a terminal or queued row carries no lease, a leased one no      *)
(* cancellation, an outcome goes with its stop reason, and a lease is only *)
(* on a row whose retry window opened.                                     *)
RowsWellFormed == \A l \in Loops : RowWellFormed(row[l])

(* What a process was last granted is what the row says, down to the time  *)
(* left, unless a queued rewrite wiped the row in between, and only while  *)
(* it drives that loop: nobody acts on a lease that the table gave to      *)
(* somebody else.                                                          *)
GrantBackedByLease ==
    \A l \in Loops, o \in Owners :
        grant[l][o] > 0 =>
            /\ stage[o] \in {"working", "closing"} /\ target[o] = l
            /\ o \notin displaced[l] =>
                   row[l].leaseOwner = o /\ row[l].leaseLeft = grant[l][o]

(* Two processes act on live leases of one loop only after a queued        *)
(* rewrite displaced one of them: claims, heartbeats, takeovers, retries   *)
(* and completions never do it.                                            *)
Exclusive ==
    \A l \in Loops : \A o1, o2 \in Owners :
        /\ o1 # o2
        /\ grant[l][o1] > 0 /\ o1 \notin displaced[l]
        /\ grant[l][o2] > 0
        => o2 \in displaced[l]

(* A process whose lease is live and was not wiped is never refused its    *)
(* next heartbeat: neither a cancellation nor a retry window can block it. *)
HolderNeverRefused ==
    \A l \in Loops, o \in Owners :
        grant[l][o] > 0 /\ o \notin displaced[l] => Claimable(row[l], o)

(* claimNextResearchLoopDispatch walks the list of runnable rows until a   *)
(* claim succeeds: the filter of the list never lets through a row that    *)
(* the claim then refuses, to any owner.                                   *)
DispatchNeverSkips ==
    \A l \in Loops : Runnable(row[l]) => \A o \in Owners : Claimable(row[l], o)

(* A cancellation that reached the row survives every later enqueue,       *)
(* claim, heartbeat, retry and completion, and such a row is never leased  *)
(* as if it had not been cancelled.                                        *)
CancelSticky ==
    [][\A l \in Loops : row[l].cancelRequested =>
            row'[l].cancelRequested /\ row'[l].status # "leased"]_vars

(* A live lease leaves the row only by lapsing, by a queued rewrite, or by *)
(* the completion its own holder asked for.                                *)
LiveLeaseKept ==
    [][\A l \in Loops :
          LET holder == row[l].leaseOwner IN
          LeaseActive(row[l]) /\ row'[l].leaseOwner # holder =>
              \/ row'[l].status = "queued"
              \/ /\ row'[l].finished
                 /\ stage[holder] = "idle" \/ target[holder] = l
                 /\ stage'[holder] = "idle"]_vars

-----------------------------------------------------------------------------
(* The table implements ResearchLease, loop by loop.                       *)

(* A row that was claimed keeps its owner while it is cancelling, so the   *)
(* owner, not the status, tells a held lease from waiting work.            *)
LeaseState(r) ==
    CASE r.status = "missing"                            -> "absent"
      [] r.status \in Terminal                           -> "ended"
      [] r.status \in Live /\ r.leaseOwner = NoOwner     -> "waiting"
      [] r.status \in Live /\ r.leaseOwner # NoOwner     -> "held"

Lease(l) == INSTANCE ResearchLease WITH
    state  <- LeaseState(row[l]),
    holder <- row[l].leaseOwner,
    left   <- row[l].leaseLeft,
    cancel <- row[l].cancelRequested

(* Every step of the table is, for each loop, a step of the lease protocol *)
(* or no step at all: an owner that is not the holder gets in only after   *)
(* the lease lapsed, and only a queued rewrite brings ended work back.     *)
ImplementsLease ==
    /\ \A l \in Loops : Lease(l)!Init
    /\ [][\A l \in Loops : [Lease(l)!Next]_(Lease(l)!vars)]_vars

-----------------------------------------------------------------------------
(* Expected to fail: what the repository says of the program.              *)

(* "I fail closed when another worker still holds a live lease because     *)
(* overlapping overnight workers are worse than a brief delay": two        *)
(* processes never act on live leases of one loop.                         *)
NoOverlap ==
    \A l \in Loops : \A o1, o2 \in Owners :
        grant[l][o1] > 0 /\ grant[l][o2] > 0 => o1 = o2

(* "terminal keys are not reopened": a finished row stays finished.        *)
TerminalNotReopened ==
    [][\A l \in Loops : row[l].finished => row'[l].finished]_vars

(* "if operator cancellation lands before that retry rewrite, cancellation *)
(* wins ... instead of silently requeueing the loop".                      *)
CancelBeatsRetry ==
    [][\A o \in Owners :
          LET l == target[o] IN
          stage[o] = "requeueing" /\ ShowsCancellation(row[l]) /\ row' # row =>
              stage'[o] = "requeueing" \/ row'[l].status # "queued"]_vars

(* Operators who keep to "a new run must use a new loopKey" only enqueue   *)
(* keys the table does not hold.                                           *)
FreshNext ==
    \/ \E l \in Loops : row[l].status = "missing" /\ Enqueue(l)
    \/ OtherSteps

FreshSpec == Init /\ [][FreshNext]_vars
=============================================================================
