--------------------------- MODULE WorkflowExecutor ---------------------------
(***************************************************************************)
(* The execution of one workflow: its steps run when those they depend on  *)
(* have ended, some at a time, again if they fail, until none is left or   *)
(* somebody cancels (packages/prana/src/executor.ts,                       *)
(* executor-lifecycle.ts).                                                 *)
(*                                                                         *)
(* The loop of runDAG, the calls of executeStep and the handlers of their  *)
(* promises are separate actions, as each await lets the others go on.     *)
(* What runs in microtasks comes before anything that a timer or a user    *)
(* starts (Quiet); actions of steps may end in one and the same turn if    *)
(* SameTurn, as those do that have nothing to wait for.                    *)
(*                                                                         *)
(* What steps do is left out, and so are events; a timeout or a denied     *)
(* approval of a step is a failure of its action.                          *)
(***************************************************************************)
EXTENDS Naturals, Sequences, SequencesExt, FiniteSetsExt

CONSTANTS
    Steps,              \* 1 .. n, in the order of the workflow
    Deps,               \* dependsOn of each step, two at most
    OnFailure,          \* "fail", "continue" or "retry"
    Conditional,        \* steps whose condition may be false
    Timed,              \* steps with a timeout
    MaxConcurrency,
    MaxRetries,
    MaxPauses,          \* bound: calls of pause
    PauseAgain,         \* pause may be called while paused
    SameTurn            \* actions may end in the same turn

WorkflowAssumption ==
    /\ Deps \in [Steps -> SUBSET Steps]
    /\ \A s \in Steps : \A d \in Deps[s] : d < s
    /\ \A s \in Steps : Cardinality(Deps[s]) <= 2
    /\ Conditional \cup Timed \subseteq Steps
    /\ OnFailure \in [Steps -> {"fail", "continue", "retry"}]
    /\ MaxConcurrency \in Nat \ {0} /\ {MaxRetries, MaxPauses} \subseteq Nat

(* A step may be launched twice, once by each of those it depends on. *)
Calls == Steps \X {1, 2}

VARIABLES
    status,         \* of each step
    call,           \* what each call of executeStep is at: where, its attempt,
                    \* and the promise it waits for when held
    ready,
    running,        \* for each step: the call whose promise is in the map
    loop,           \* what runDAG is at
    raced,          \* the promises it waits for
    heldOn,         \* the pause it waits for
    cancelled,
    paused, pause,  \* state.paused, and state.pausePromise (0: none)
    pauses,         \* promises made by pause
    released,       \* those that are resolved
    final           \* the status of the execution

flow == <<status, call, ready, running>>
main == <<loop, raced, heldOn, final>>
pausing == <<paused, pause, pauses, released>>
vars == <<flow, main, cancelled, pausing>>

Absent == <<0, 0>>
NoCall == [at |-> "none", try |-> 0, on |-> 0]

Dependents(s) == {d \in Steps : s \in Deps[d]}
Running == {s \in Steps : running[s] # Absent}

(* A turn ends when no handler and no resumed function is left to run. *)
Quiet ==
    /\ \A c \in Calls : /\ call[c].at \notin {"returned", "threw"}
                        /\ ~(call[c].at = "held" /\ call[c].on \in released)
    /\ \/ loop = "ended"
       \/ loop = "racing" /\ \A c \in raced : call[c].at # "gone"
       \/ loop = "held" /\ heldOn \notin released

Waiting == loop \notin {"top", "launching"}

-----------------------------------------------------------------------------
(***************************************************************************)
(* executeStep up to its first await, or after a delay or a pause.         *)
(***************************************************************************)
Acts(c, try) ==
    /\ call' = [call EXCEPT ![c] = [at |-> "acting", try |-> try, on |-> 0]]
    /\ status' = [status EXCEPT ![c[1]] = "running"]

Returns(c, st) ==
    /\ call' = [call EXCEPT ![c].at = "returned"]
    /\ status' = [status EXCEPT ![c[1]] = st]

Attempts(c, try) ==
    \/ cancelled /\ Returns(c, "cancelled")
    \/ /\ ~cancelled /\ pause # 0
       /\ call' = [call EXCEPT ![c] = [at |-> "held", try |-> try, on |-> pause]]
       /\ UNCHANGED status
    \/ ~cancelled /\ pause = 0 /\ Acts(c, try)

-----------------------------------------------------------------------------
(***************************************************************************)
(* runDAG.                                                                 *)
(***************************************************************************)
Outcome(st) ==
    IF cancelled THEN "cancelled"
    ELSE IF \E s \in Steps : st[s] = "failed" THEN "failed"
    ELSE "completed"

(* The rest of execute: whatever timers are left are cleared. *)
Finish(st) ==
    /\ loop' = "ended"
    /\ final' = Outcome(st)
    /\ status' = st
    /\ call' = [c \in Calls |-> IF call[c].at = "delay" THEN [call[c] EXCEPT !.at = "stuck"]
                                ELSE call[c]]

LoopEnds ==
    /\ loop = "top" /\ ready = <<>> /\ Running = {}
    /\ Finish(status)
    /\ UNCHANGED <<ready, running, raced, heldOn, cancelled, pausing>>

LoopBreaks ==
    /\ loop = "top" /\ cancelled
    /\ ready # <<>> \/ Running # {}
    /\ Finish([s \in Steps |-> IF s \in Running /\ status[s] = "running" THEN "cancelled"
                               ELSE status[s]])
    /\ UNCHANGED <<ready, running, raced, heldOn, cancelled, pausing>>

LoopGoesOn ==
    /\ loop = "top" /\ ~cancelled
    /\ ready # <<>> \/ Running # {}
    /\ loop' = IF pause # 0 THEN "held" ELSE "launching"
    /\ heldOn' = pause
    /\ UNCHANGED <<flow, raced, final, cancelled, pausing>>

LoopReleased ==
    /\ loop = "held" /\ heldOn \in released
    /\ loop' = "launching"
    /\ UNCHANGED <<flow, raced, heldOn, final, cancelled, pausing>>

MayLaunch == ready # <<>> /\ Cardinality(Running) < MaxConcurrency

Launch ==
    /\ loop = "launching" /\ MayLaunch
    /\ LET s == Head(ready)
           c == IF call[<<s, 1>>].at = "none" THEN <<s, 1>> ELSE <<s, 2>>
       IN  /\ running' = [running EXCEPT ![s] = c]
           /\ \/ Attempts(c, 0)
              \/ s \in Conditional /\ Returns(c, "skipped")
    /\ ready' = Tail(ready)
    /\ UNCHANGED <<main, cancelled, pausing>>

LaunchesEnd ==
    /\ loop = "launching" /\ ~MayLaunch
    /\ loop' = IF Running = {} THEN "top" ELSE "racing"
    /\ raced' = {running[s] : s \in Running}
    /\ UNCHANGED <<flow, heldOn, final, cancelled, pausing>>

LoopWakes ==
    /\ loop = "racing" /\ \E c \in raced : call[c].at = "gone"
    /\ loop' = "top"
    /\ UNCHANGED <<flow, raced, heldOn, final, cancelled, pausing>>

-----------------------------------------------------------------------------
(***************************************************************************)
(* The handlers of a call that has ended: those that only waited for it    *)
(* become ready, or are cancelled together with all that follow.           *)
(***************************************************************************)
Ended(st, d) == st[d] \in {"completed", "skipped", "failed"}
Blocks(st, d) == st[d] = "failed" /\ OnFailure[d] = "fail"

Complete(s) == {d \in Dependents(s) : status[d] = "pending" /\ \A e \in Deps[d] : Ended(status, e)}
Blocked(s) == {d \in Complete(s) : \E e \in Deps[d] : Blocks(status, e)}

HandlesReturn(c) ==
    LET s == c[1] IN
    /\ Waiting /\ call[c].at = "returned"
    /\ call' = [call EXCEPT ![c].at = "gone"]
    /\ running' = [running EXCEPT ![s] = Absent]
    /\ status' = [d \in Steps |-> IF d \in Blocked(s) THEN "cancelled" ELSE status[d]]
    /\ ready' = ready \o SetToSortSeq(Complete(s) \ Blocked(s), <)
    /\ UNCHANGED <<main, cancelled, pausing>>

(* cancelDownstream goes on only below what was pending. *)
PendingAfter(T) == {d \in Steps : status[d] = "pending" /\ Deps[d] \cap T # {}}

Downstream(s) ==
    LET upTo[n \in 0 .. Cardinality(Steps)] ==
            IF n = 0 THEN PendingAfter({s}) ELSE upTo[n - 1] \cup PendingAfter(upTo[n - 1])
    IN  upTo[Cardinality(Steps)]

HandlesThrow(c) ==
    LET s == c[1] IN
    /\ Waiting /\ call[c].at = "threw"
    /\ call' = [call EXCEPT ![c].at = "gone"]
    /\ running' = [running EXCEPT ![s] = Absent]
    /\ status' = [d \in Steps |-> IF d \in Downstream(s) THEN "cancelled" ELSE status[d]]
    /\ UNCHANGED <<ready, main, cancelled, pausing>>

-----------------------------------------------------------------------------
(***************************************************************************)
(* The rest of executeStep.  A pause is waited for once; nobody looks      *)
(* again whether the workflow was cancelled meanwhile.                     *)
(***************************************************************************)
StepReleased(c) ==
    /\ Waiting /\ call[c].at = "held" /\ call[c].on \in released
    /\ Acts(c, call[c].try)
    /\ UNCHANGED <<ready, running, main, cancelled, pausing>>

ActionSucceeds(c) ==
    /\ Waiting /\ (SameTurn \/ Quiet) /\ call[c].at = "acting"
    /\ Returns(c, "completed")
    /\ UNCHANGED <<ready, running, main, cancelled, pausing>>

ActionFails(c) ==
    /\ Waiting /\ (SameTurn \/ Quiet) /\ call[c].at = "acting"
    /\ IF call[c].try < MaxRetries
         THEN call' = [call EXCEPT ![c].at = "delay"] /\ UNCHANGED status
         ELSE /\ status' = [status EXCEPT ![c[1]] = "failed"]
              /\ call' = [call EXCEPT ![c].at = IF OnFailure[c[1]] = "fail" THEN "threw" ELSE "returned"]
    /\ UNCHANGED <<ready, running, main, cancelled, pausing>>

DelayEnds(c) ==
    /\ Quiet /\ call[c].at = "delay"
    /\ Attempts(c, call[c].try + 1)
    /\ UNCHANGED <<ready, running, main, cancelled, pausing>>

-----------------------------------------------------------------------------
(***************************************************************************)
(* What users do, and the timer of the workflow, which only sets the flag. *)
(***************************************************************************)
Cancel ==
    /\ Quiet /\ loop # "ended" /\ ~cancelled
    /\ cancelled' = TRUE
    /\ call' = [c \in Calls |-> IF call[c].at = "delay" THEN [call[c] EXCEPT !.at = "stuck"]
                                ELSE call[c]]
    /\ UNCHANGED <<status, ready, running, main, pausing>>

TimesOut ==
    /\ Quiet /\ loop # "ended" /\ ~cancelled
    /\ cancelled' = TRUE
    /\ UNCHANGED <<flow, main, pausing>>

Pause ==
    /\ Quiet /\ loop # "ended" /\ pauses < MaxPauses
    /\ ~paused \/ PauseAgain
    /\ paused' = TRUE
    /\ pauses' = pauses + 1
    /\ pause' = pauses'
    /\ UNCHANGED <<flow, main, cancelled, released>>

Resume ==
    /\ Quiet /\ loop # "ended" /\ paused
    /\ paused' = FALSE
    /\ released' = released \cup {pause}
    /\ pause' = 0
    /\ UNCHANGED <<flow, main, cancelled, pauses>>

Init ==
    /\ status = [s \in Steps |-> "pending"]
    /\ call = [c \in Calls |-> NoCall]
    /\ ready = SetToSortSeq({s \in Steps : Deps[s] = {}}, <)
    /\ running = [s \in Steps |-> Absent]
    /\ loop = "top"
    /\ raced = {} /\ heldOn = 0
    /\ final = "running"
    /\ cancelled = FALSE
    /\ paused = FALSE /\ pause = 0 /\ pauses = 0 /\ released = {}

LoopStep == LoopEnds \/ LoopBreaks \/ LoopGoesOn \/ LoopReleased \/ Launch \/ LaunchesEnd \/ LoopWakes
Handles == \E c \in Calls : HandlesReturn(c) \/ HandlesThrow(c) \/ StepReleased(c)
Ends(c) == ActionSucceeds(c) \/ ActionFails(c)

Next ==
    \/ LoopStep
    \/ Handles
    \/ \E c \in Calls : Ends(c)
    \/ \E c \in Calls : DelayEnds(c)
    \/ Cancel \/ TimesOut
    \/ Pause \/ Resume

Spec == Init /\ [][Next]_vars

(* Delays end, and actions that have a timeout.  Other actions need not,   *)
(* and nobody is obliged to resume what was paused.                        *)
Fairness ==
    /\ WF_vars(LoopStep)
    /\ WF_vars(Handles)
    /\ WF_vars(\E c \in Calls : c[1] \in Timed /\ Ends(c))
    /\ WF_vars(\E c \in Calls : DelayEnds(c))

FairSpec == Spec /\ Fairness

-----------------------------------------------------------------------------
(***************************************************************************)
(* Properties.                                                             *)
(***************************************************************************)
TypeOK ==
    /\ status \in [Steps -> {"pending", "running", "completed", "failed", "skipped", "cancelled"}]
    /\ \A c \in Calls :
          /\ call[c].at \in {"none", "held", "acting", "delay", "stuck", "returned", "threw", "gone"}
          /\ call[c].try \in 0 .. MaxRetries /\ call[c].on \in 0 .. MaxPauses
    /\ ready \in Seq(Steps)
    /\ running \in [Steps -> Calls \cup {Absent}]
    /\ loop \in {"top", "launching", "racing", "held", "ended"}
    /\ raced \subseteq Calls /\ heldOn \in 0 .. MaxPauses
    /\ {cancelled, paused} \subseteq BOOLEAN
    /\ {pause, pauses} \subseteq 0 .. MaxPauses /\ released \subseteq 1 .. MaxPauses
    /\ final \in {"running", "completed", "failed", "cancelled"}

(* No step is executed twice.  Fails with SameTurn: if all that a step     *)
(* depends on ends in one turn, each of the handlers finds it pending and  *)
(* makes it ready.                                                         *)
RunsOnce == \A s \in Steps : call[<<s, 2>>].at = "none"

(* A step is executed only when all it depends on have ended, and none of  *)
(* them in a failure that is to stop the workflow.                         *)
AfterItsDeps ==
    \A s \in Steps : call[<<s, 1>>].at # "none" =>
        \A d \in Deps[s] : Ended(status, d) /\ ~Blocks(status, d)

(* No more steps are at work than may be. *)
Concurrency ==
    Cardinality({c \in Calls : call[c].at \in {"held", "acting", "delay"}}) <= MaxConcurrency

(* A workflow that ends without being cancelled leaves no step pending,    *)
(* and says so if one of them failed or was cancelled.  Fails with         *)
(* SameTurn: the handler of a step that went well cancels the step that    *)
(* both lead to, and that of the failed one goes on only below what it     *)
(* finds pending.                                                          *)
NoneLeft ==
    loop = "ended" /\ ~cancelled =>
        /\ \A s \in Steps : status[s] \in {"completed", "failed", "skipped", "cancelled"}
        /\ (final = "completed") <=> \A s \in Steps : status[s] \in {"completed", "skipped"}

RunOver == loop = "ended" \/ cancelled

OthersToAct == paused \/ \E c \in Calls : call[c].at = "acting" /\ c[1] \notin Timed

(* A workflow that is not cancelled ends, through retries and pauses,      *)
(* unless it is left paused or an action without a timeout does not end.   *)
(* Fails with PauseAgain: the promise of the first pause is overwritten,   *)
(* and resume resolves the second one only.                                *)
RunEnds == []<>(RunOver \/ OthersToAct)

-----------------------------------------------------------------------------
(***************************************************************************)
(* Expected to fail.                                                       *)
(***************************************************************************)

(* packages/prana/src/executor.ts:284: "Cancel a running workflow          *)
(* execution. Clears all active timeouts."  Among them is the delay before *)
(* a retry, whose promise then never resolves.                             *)
CancelEnds == []<>(loop = "ended" \/ ~cancelled)
=============================================================================
