---------------------------- MODULE DaemonManager ----------------------------
(***************************************************************************)
(* The wrapper that keeps the resident daemon alive                        *)
(* (packages/anina/src/daemon-manager.ts): it starts the daemon, counts    *)
(* its errors, and after a start that failed tries again from a timer,     *)
(* after a longer pause once there were too many attempts in a row.        *)
(*                                                                         *)
(* A restart is a flow of its own: the timer, the stop of the old daemon,  *)
(* the diagnosis, the start.  Each is an await, between which start and    *)
(* stop of the manager can be called.  An action is the code between two   *)
(* awaits; of calls of stop that overlap one is modelled.                  *)
(***************************************************************************)
EXTENDS Naturals, FiniteSets

CONSTANTS
    Flows,          \* identities of flows, enough for all that can overlap
    Budget,         \* errorBudget
    MaxRestarts,    \* maxRestartAttempts
    MaxStarts,      \* bound: calls of start
    MaxErrors,      \* bound: errors that daemons report
    MaxFailures     \* bound: starts of the daemon that fail

ManagerAssumption ==
    /\ IsFiniteSet(Flows)
    /\ Budget \in Nat \ {0}
    /\ MaxRestarts \in Nat /\ MaxStarts \in Nat
    /\ MaxErrors \in Nat /\ MaxFailures \in Nat

NoFlow == "noflow"

VARIABLES
    running,        \* the manager was started and not stopped
    health,         \* healthy, degraded, crashed or stopped
    current,        \* number of the daemon the manager knows, 0 for none
    made,           \* number of daemons made so far
    up,             \* the daemons that run
    heard,          \* somebody listens to the manager's error events
    flow,           \* where each restart has got to
    old,            \* the daemon each restart stops
    handle,         \* restartTimer
    attempts,       \* consecutiveRestarts
    errors,         \* errors in the window
    stopping,       \* stop waits for a daemon to stop
    leaving,        \* the daemon it waits for
    starts, reported, failures, \* how often the bounded actions happened
    failedInRow     \* history: failed starts since the last that succeeded

vars == <<running, health, current, made, up, heard, flow, old, handle, attempts,
          errors, stopping, leaving, starts, reported, failures, failedInRow>>

(***************************************************************************)
(* scheduleRestart: nothing if the manager was stopped; otherwise the      *)
(* timer of a new flow, which overwrites the handle of another.            *)
(***************************************************************************)
ScheduleRestart(live, flows, n) ==
    IF ~live
      THEN flow' = flows /\ UNCHANGED handle
      ELSE LET f == CHOOSE g \in Flows : flows[g] = "idle"
           IN  /\ flow' = [flows EXCEPT ![f] = IF n >= MaxRestarts THEN "cooldown" ELSE "restart"]
               /\ handle' = f

(***************************************************************************)
(* recordError, for an error in the window as it is now.  Its last line,   *)
(* emit("error"), throws when nobody listens.                              *)
(***************************************************************************)
HealthAfterError(h, n) ==
    CASE n >= Budget /\ h = "healthy"  -> "degraded"
      [] n < Budget  /\ h = "degraded" -> "healthy"
      [] OTHER -> h

(***************************************************************************)
(* startDaemon, for a manager that is live, once its caller's flow has     *)
(* ended and left the flows as given, after n attempts.  A failed start    *)
(* is recorded, reported and tried again later; if recordError throws,     *)
(* only recorded.                                                          *)
(***************************************************************************)
StartDaemon(live, flows, n) ==
    /\ made' = made + 1
    /\ current' = made'
    /\ \/ /\ up' = up \cup {made'}
          /\ health' = "healthy"
          /\ attempts' = 0
          /\ failedInRow' = 0
          /\ flow' = flows
          /\ UNCHANGED <<handle, errors, failures>>
       \/ /\ failures < MaxFailures
          /\ failures' = failures + 1
          /\ failedInRow' = failedInRow + 1
          /\ errors' = errors + 1
          /\ attempts' = n
          /\ UNCHANGED up
          /\ \/ heard /\ health' = "crashed" /\ ScheduleRestart(live, flows, n)
             \/ /\ ~heard
                /\ health' = HealthAfterError(health, errors')
                /\ flow' = flows
                /\ UNCHANGED handle

Start ==
    /\ ~running /\ starts < MaxStarts
    /\ running' = TRUE
    /\ starts' = starts + 1
    /\ StartDaemon(TRUE, flow, 0)
    /\ UNCHANGED <<heard, old, stopping, leaving, reported>>

(***************************************************************************)
(* stop clears the timer it knows of and waits for its daemon to stop;     *)
(* what it forgets and what it reports then is what it finds then.         *)
(***************************************************************************)
StopBegins ==
    /\ running /\ ~stopping
    /\ running' = FALSE
    /\ flow' = IF handle = NoFlow THEN flow ELSE [flow EXCEPT ![handle] = "idle"]
    /\ handle' = NoFlow
    /\ IF current = 0
         THEN health' = "stopped" /\ UNCHANGED <<stopping, leaving>>
         ELSE /\ stopping' = TRUE
              /\ leaving' = current
              /\ UNCHANGED health
    /\ UNCHANGED <<current, made, up, heard, old, attempts, errors, starts, reported, failures,
                   failedInRow>>

StopEnds ==
    /\ stopping
    /\ stopping' = FALSE
    /\ up' = up \ {leaving}
    /\ current' = 0
    /\ health' = "stopped"
    /\ UNCHANGED <<running, made, heard, flow, old, handle, attempts, errors, leaving, starts,
                   reported, failures, failedInRow>>

(***************************************************************************)
(* The flow of a restart.  Only when its timer fires does it look whether  *)
(* the manager still runs, and which daemon there is to stop.              *)
(***************************************************************************)
TimerFires(f) ==
    /\ flow[f] \in {"restart", "cooldown"}
    /\ handle' = NoFlow
    /\ flow' = [flow EXCEPT ![f] =
                  CASE ~running               -> "idle"
                    [] flow[f] = "cooldown"   -> "cooled"
                    [] current # 0            -> "stopping"
                    [] OTHER                  -> "healing"]
    /\ old' = IF flow'[f] = "stopping" THEN [old EXCEPT ![f] = current] ELSE old
    /\ attempts' = IF running /\ flow[f] = "restart" THEN attempts + 1 ELSE attempts
    /\ UNCHANGED <<running, health, current, made, up, heard, errors, stopping, leaving, starts,
                   reported, failures, failedInRow>>

(* By now there may be a newer daemon; it is forgotten, not stopped.       *)
OldStopped(f) ==
    /\ flow[f] = "stopping"
    /\ flow' = [flow EXCEPT ![f] = "healing"]
    /\ old' = [old EXCEPT ![f] = 0]
    /\ current' = 0
    /\ up' = up \ {old[f]}
    /\ UNCHANGED <<running, health, made, heard, handle, attempts, errors, stopping, leaving,
                   starts, reported, failures, failedInRow>>

Healed(f) ==
    /\ flow[f] \in {"healing", "cooled"}
    /\ StartDaemon(running, [flow EXCEPT ![f] = "idle"],
                   IF flow[f] = "cooled" THEN 0 ELSE attempts)
    /\ UNCHANGED <<running, heard, old, stopping, leaving, starts, reported>>

(***************************************************************************)
(* recordError for an error that a daemon reports; whoever stops a daemon  *)
(* removes its listeners first.  Old errors leave the window.              *)
(***************************************************************************)
Leaving == (IF stopping THEN {leaving} ELSE {}) \cup {old[f] : f \in Flows}

Error ==
    /\ reported < MaxErrors
    /\ up \ Leaving # {}
    /\ reported' = reported + 1
    /\ errors' = errors + 1
    /\ health' = HealthAfterError(health, errors')
    /\ UNCHANGED <<running, current, made, up, heard, flow, old, handle, attempts, stopping,
                   leaving, starts, failures, failedInRow>>

Age ==
    /\ errors > 0
    /\ errors' = errors - 1
    /\ UNCHANGED <<running, health, current, made, up, heard, flow, old, handle, attempts,
                   stopping, leaving, starts, reported, failures, failedInRow>>

Init ==
    /\ running = FALSE
    /\ health = "stopped"
    /\ current = 0
    /\ made = 0
    /\ up = {}
    /\ heard \in BOOLEAN
    /\ flow = [f \in Flows |-> "idle"]
    /\ old = [f \in Flows |-> 0]
    /\ handle = NoFlow
    /\ attempts = 0
    /\ errors = 0
    /\ stopping = FALSE
    /\ leaving = 0
    /\ starts = 0
    /\ reported = 0
    /\ failures = 0
    /\ failedInRow = 0

Restarting(f) == TimerFires(f) \/ OldStopped(f) \/ Healed(f)

Next ==
    \/ Start
    \/ StopBegins
    \/ StopEnds
    \/ \E f \in Flows : Restarting(f)
    \/ Error
    \/ Age

Spec == Init /\ [][Next]_vars

(***************************************************************************)
(* Timers fire, daemons that are told to stop do, the diagnosis ends, time *)
(* passes.  Nobody is obliged to start or stop the manager.                *)
(***************************************************************************)
Fairness ==
    /\ WF_vars(\E f \in Flows : Restarting(f))
    /\ WF_vars(StopEnds)
    /\ WF_vars(Age)

FairSpec == Spec /\ Fairness

-----------------------------------------------------------------------------
(***************************************************************************)
(* Properties.                                                             *)
(***************************************************************************)

MaxMade == MaxStarts * (1 + MaxFailures) + MaxFailures

(* Every variable has its type, attempts grow only by one for each start   *)
(* beyond their limit, and the handle is that of a timer that is set.      *)
TypeOK ==
    /\ running \in BOOLEAN /\ stopping \in BOOLEAN /\ heard \in BOOLEAN
    /\ old \in [Flows -> 0 .. made]
    /\ health \in {"healthy", "degraded", "crashed", "stopped"}
    /\ current \in 0 .. made /\ leaving \in 0 .. made /\ made \in 0 .. MaxMade
    /\ up \subseteq 1 .. made
    /\ flow \in [Flows -> {"idle", "restart", "cooldown", "cooled", "stopping", "healing"}]
    /\ handle \in Flows \cup {NoFlow}
    /\ handle # NoFlow => flow[handle] \in {"restart", "cooldown"}
    /\ attempts \in 0 .. MaxRestarts + MaxStarts
    /\ errors \in 0 .. MaxErrors + MaxFailures
    /\ starts \in 0 .. MaxStarts /\ reported \in 0 .. MaxErrors
    /\ failures \in 0 .. MaxFailures /\ failedInRow \in 0 .. MaxFailures

(* A start that failed is never left to itself while the manager runs: a   *)
(* restart is under way, whoever called start and stop in between          *)
(* (scheduleRestart) - provided that somebody listens to "error" events,   *)
(* as packages/cli/src/modes/mcp-daemon-wiring.ts:88 does.                 *)
CrashIsRetried == heard /\ running /\ failedInRow > 0 => \E f \in Flows : flow[f] # "idle"

NoCrash == health # "crashed" \/ ~running

(* The manager comes back from a crash, unless it is stopped.              *)
CrashEnds == []<>NoCrash

-----------------------------------------------------------------------------
(***************************************************************************)
(* Expected to fail: what the repository says of the program.              *)
(***************************************************************************)

(* packages/anina/src/daemon-manager.ts:6: "Adds auto-restart, health      *)
(* monitoring, error aggregation".  Without a listener the error event of  *)
(* the failed start is thrown before the restart is scheduled.             *)
AlwaysRetried == running /\ failedInRow > 0 => \E f \in Flows : flow[f] # "idle"

(* packages/anina/src/daemon-manager.ts:111, of stop: "Stop the daemon     *)
(* manager and underlying daemon."  A restart that had begun starts        *)
(* another daemon afterwards.                                              *)
StopIsFinal == ~running /\ ~stopping => up = {}

(* packages/anina/src/daemon-manager-types.ts:27: "Max consecutive restart *)
(* attempts before giving up."  After a pause the count begins again.      *)
GivesUp == failedInRow <= 1 + MaxRestarts

(* packages/anina/src/daemon-manager.ts:12: "Error budget: N errors in M   *)
(* seconds -> mark as degraded".  A start that succeeds reports healthy    *)
(* whatever the window holds.                                              *)
BudgetMarks == errors >= Budget => health # "healthy"
=============================================================================
