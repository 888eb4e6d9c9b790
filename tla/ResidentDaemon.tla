---------------------------- MODULE ResidentDaemon ----------------------------
(***************************************************************************)
(* The duties of the resident daemon and how they give way to each other   *)
(* (packages/anina/src/chitragupta-daemon.ts): the consolidation of a day, *)
(* asked for by dreams, by the nightly timer, by the backfill at startup   *)
(* and by stop; the refresh of the semantic epoch; and the dispatch of     *)
(* queued research loops.  All run in one process as asynchronous          *)
(* functions that look at each other's flags before they begin.            *)
(*                                                                         *)
(* An action is the code between two awaits.  What a duty does is          *)
(* abstracted to when it begins and ends; the lock of the date against     *)
(* other processes is left out, and of the sleep cycle (module Nidra) only *)
(* the state is seen.                                                      *)
(***************************************************************************)
EXTENDS Naturals

CONSTANTS
    Missed,         \* the days the backfill finds without a day file
    Today,          \* the day dreams, the nightly timer and stop ask for
    MaxDuties,      \* bound: dreams, forced sleeps, nightly timers, refreshes
    MaxQueue        \* bound: research loops that are queued

ResidentAssumption ==
    /\ Today \notin Missed
    /\ MaxDuties \in Nat
    /\ MaxQueue \in Nat

None == "none"
Call(who, day) == [who |-> who, day |-> day]
NoCall == Call("nobody", Today)
Calls == {Call("backfill", d) : d \in Missed}
            \cup {Call(w, Today) : w \in {"dream", "nightly", "stop"}}

VARIABLES
    running,        \* start was called, stop was not
    nidra,          \* state of the sleep cycle, None without an instance
    consolidating,  \* the call consolidateDate is at work for
    refreshing,     \* semanticRefreshing and semanticRefreshPromise
    waiting,        \* calls of consolidateDate that await the refresh
    dispatching,    \* researchDispatchPromise
    backfill,       \* the backfill: looks, a call is out, reports, or done
    todo,           \* days the backfill has still to ask for
    stopping,       \* where stop has got to
    queued,         \* research loops in the queue
    enqueued,       \* how many were queued ever
    duties,         \* how many of what MaxDuties bounds began
    worked          \* history: calls whose consolidation was carried out

vars == <<running, nidra, consolidating, refreshing, waiting, dispatching,
          backfill, todo, stopping, queued, enqueued, duties, worked>>

(***************************************************************************)
(* consolidateDate.  A call waits for a refresh that is under way, and     *)
(* returns at once when a consolidation is.  Whoever called goes on when   *)
(* it returns: the backfill to its next day, stop to stopping the cycle.   *)
(***************************************************************************)
ReturnsTo(calls) ==
    /\ backfill' = IF \E c \in calls : c.who = "backfill" THEN "looks" ELSE backfill
    /\ IF \E c \in calls : c.who = "stop"
         THEN stopping' = "stopped" /\ nidra' = None
         ELSE UNCHANGED <<stopping, nidra>>

AskImpatient(c) ==
    IF consolidating # NoCall
      THEN UNCHANGED <<waiting, consolidating>>
      ELSE consolidating' = c /\ UNCHANGED waiting

Ask(c) ==
    IF refreshing
      THEN waiting' = waiting \cup {c} /\ UNCHANGED consolidating
      ELSE /\ consolidating' = IF consolidating = NoCall THEN c ELSE consolidating
           /\ UNCHANGED waiting

(* the call neither waits nor is at work *)
Skipped(c) == ~refreshing /\ consolidating # NoCall

(* with or without an error *)
ConsolidationEnds ==
    /\ consolidating # NoCall
    /\ consolidating' = NoCall
    /\ worked' = worked \cup {consolidating}
    /\ ReturnsTo({consolidating})
    /\ UNCHANGED <<running, refreshing, waiting, dispatching, todo, queued, enqueued, duties>>

(***************************************************************************)
(* runSemanticEpochRefresh.  When it ends, all calls that wait go on, one  *)
(* after the other: the first begins, the others find it at work.          *)
(***************************************************************************)
RefreshBegins ==
    /\ running /\ duties < MaxDuties
    /\ duties' = duties + 1
    /\ refreshing' = (refreshing \/ consolidating = NoCall)
    /\ UNCHANGED <<running, nidra, consolidating, waiting, dispatching, backfill, todo,
                   stopping, queued, enqueued, worked>>

RefreshEndsLosing ==
    /\ refreshing
    /\ refreshing' = FALSE
    /\ waiting' = {}
    /\ UNCHANGED <<running, nidra, consolidating, dispatching, backfill, todo,
                   stopping, queued, enqueued, duties, worked>>

RefreshEnds ==
    /\ refreshing
    /\ refreshing' = FALSE
    /\ waiting' = {}
    /\ IF waiting = {}
         THEN UNCHANGED <<consolidating, backfill, stopping, nidra>>
         ELSE \E first \in waiting :
                 /\ consolidating' = first
                 /\ ReturnsTo(waiting \ {first})
    /\ UNCHANGED <<running, dispatching, todo, queued, enqueued, duties, worked>>

(***************************************************************************)
(* Those who ask for consolidations on their own: a dream that begins, the *)
(* nightly timer.                                                          *)
(***************************************************************************)
Dream ==
    /\ nidra = "LISTENING" /\ duties < MaxDuties
    /\ nidra' = "DREAMING"
    /\ duties' = duties + 1
    /\ Ask(Call("dream", Today))
    /\ UNCHANGED <<running, refreshing, dispatching, backfill, todo, stopping,
                   queued, enqueued, worked>>

Nightly ==
    /\ running /\ duties < MaxDuties
    /\ duties' = duties + 1
    /\ Ask(Call("nightly", Today))
    /\ UNCHANGED <<running, nidra, refreshing, dispatching, backfill, todo, stopping,
                   queued, enqueued, worked>>

(* Enough sessions were noted: the sleep cycle goes to a deep sleep.       *)
ForcedSleep ==
    /\ nidra \in {"LISTENING", "DREAMING"} /\ duties < MaxDuties
    /\ nidra' = "DEEP_SLEEP"
    /\ duties' = duties + 1
    /\ UNCHANGED <<running, consolidating, refreshing, waiting, dispatching, backfill,
                   todo, stopping, queued, enqueued, worked>>

(* the other steps of the sleep cycle *)
Sleep ==
    /\ \/ nidra = "DREAMING" /\ nidra' = "DEEP_SLEEP"
       \/ nidra \in {"DREAMING", "DEEP_SLEEP"} /\ nidra' = "LISTENING"
    /\ UNCHANGED <<running, consolidating, refreshing, waiting, dispatching, backfill,
                   todo, stopping, queued, enqueued, duties, worked>>

(***************************************************************************)
(* backfillMissedDays asks for one day after the other, as long as the     *)
(* daemon runs; backfillPeriodicReports follows whether it runs or not.    *)
(***************************************************************************)
BackfillAsks(d) ==
    /\ backfill = "looks" /\ running
    /\ todo' = todo \ {d}
    /\ Ask(Call("backfill", d))
    /\ backfill' = IF Skipped(Call("backfill", d)) THEN "looks" ELSE "called"
    /\ UNCHANGED <<running, nidra, refreshing, dispatching, stopping, queued, enqueued,
                   duties, worked>>

BackfillReports ==
    /\ backfill = "looks" /\ (todo = {} \/ ~running)
    /\ backfill' = "reports"
    /\ UNCHANGED <<running, nidra, consolidating, refreshing, waiting, dispatching, todo,
                   stopping, queued, enqueued, duties, worked>>

BackfillEnds ==
    /\ backfill = "reports"
    /\ backfill' = "done"
    /\ UNCHANGED <<running, nidra, consolidating, refreshing, waiting, dispatching, todo,
                   stopping, queued, enqueued, duties, worked>>

(***************************************************************************)
(* runResearchDispatchTick: gives way to everything else, takes one loop.  *)
(* A tick that gives way or finds the queue empty changes nothing.         *)
(***************************************************************************)
Backfilling == backfill # "done"

Enqueue ==
    /\ enqueued < MaxQueue
    /\ queued' = queued + 1
    /\ enqueued' = enqueued + 1
    /\ UNCHANGED <<running, nidra, consolidating, refreshing, waiting, dispatching,
                   backfill, todo, stopping, duties, worked>>

DispatchBegins ==
    /\ running
    /\ ~dispatching /\ consolidating = NoCall /\ ~refreshing /\ ~Backfilling
    /\ nidra # "DEEP_SLEEP"
    /\ queued > 0
    /\ dispatching' = TRUE
    /\ queued' = queued - 1
    /\ UNCHANGED <<running, nidra, consolidating, refreshing, waiting, backfill, todo,
                   stopping, enqueued, duties, worked>>

DispatchEnds ==
    /\ dispatching
    /\ dispatching' = FALSE
    /\ IF stopping = "dispatch"
         THEN /\ Ask(Call("stop", Today))
              /\ IF Skipped(Call("stop", Today))
                   THEN stopping' = "stopped" /\ nidra' = None
                   ELSE stopping' = "consolidate" /\ UNCHANGED nidra
         ELSE UNCHANGED <<waiting, consolidating, stopping, nidra>>
    /\ UNCHANGED <<running, refreshing, backfill, todo, queued, enqueued, duties, worked>>

(***************************************************************************)
(* start, of the process: the sleep cycle resumes where it was, a dream    *)
(* with its consolidation; otherwise a refresh begins; so does the         *)
(* backfill.  stop waits for the dispatch, asks for a last consolidation,  *)
(* and then stops the sleep cycle.                                         *)
(***************************************************************************)
Init ==
    /\ running = TRUE
    /\ nidra \in {"LISTENING", "DREAMING", "DEEP_SLEEP"}
    /\ consolidating = IF nidra = "DREAMING" THEN Call("dream", Today) ELSE NoCall
    /\ refreshing = (consolidating = NoCall)
    /\ waiting = {}
    /\ dispatching = FALSE
    /\ backfill = "looks"
    /\ todo = Missed
    /\ stopping = "no"
    /\ queued = 0
    /\ enqueued = 0
    /\ duties = 0
    /\ worked = {}

Stop ==
    /\ running
    /\ running' = FALSE
    /\ IF dispatching
         THEN stopping' = "dispatch" /\ UNCHANGED <<waiting, consolidating, nidra>>
         ELSE /\ Ask(Call("stop", Today))
              /\ IF Skipped(Call("stop", Today))
                   THEN stopping' = "stopped" /\ nidra' = None
                   ELSE stopping' = "consolidate" /\ UNCHANGED nidra
    /\ UNCHANGED <<refreshing, dispatching, backfill, todo, queued, enqueued, duties, worked>>

Next ==
    \/ ConsolidationEnds
    \/ RefreshBegins
    \/ RefreshEnds
    \/ Dream
    \/ Nightly
    \/ ForcedSleep
    \/ Sleep
    \/ \E d \in todo : BackfillAsks(d)
    \/ BackfillReports
    \/ BackfillEnds
    \/ Enqueue
    \/ DispatchBegins
    \/ DispatchEnds
    \/ Stop

Spec == Init /\ [][Next]_vars

(***************************************************************************)
(* Duties end, the tick of the dispatch and the timers of the sleep cycle  *)
(* fire.  What starts duties is not obliged to.                            *)
(***************************************************************************)
Fairness ==
    /\ WF_vars(ConsolidationEnds)
    /\ WF_vars(RefreshEnds)
    /\ WF_vars(Sleep)
    /\ WF_vars(\E d \in todo : BackfillAsks(d))
    /\ WF_vars(BackfillReports)
    /\ WF_vars(BackfillEnds)
    /\ WF_vars(DispatchBegins)
    /\ WF_vars(DispatchEnds)

FairSpec == Spec /\ Fairness

-----------------------------------------------------------------------------
(***************************************************************************)
(* Properties.                                                             *)
(***************************************************************************)

(* Every variable has its type, and somebody waits only while there is     *)
(* something to wait for: the promise of the refresh, or of the call.      *)
TypeOK ==
    /\ running \in BOOLEAN /\ refreshing \in BOOLEAN /\ dispatching \in BOOLEAN
    /\ nidra \in {"LISTENING", "DREAMING", "DEEP_SLEEP", None}
    /\ consolidating \in Calls \cup {NoCall}
    /\ waiting \subseteq Calls
    /\ backfill \in {"looks", "called", "reports", "done"}
    /\ todo \subseteq Missed
    /\ stopping \in {"no", "dispatch", "consolidate", "stopped"}
    /\ queued \in 0 .. MaxQueue /\ enqueued \in 0 .. MaxQueue /\ duties \in 0 .. MaxDuties
    /\ worked \subseteq Calls
    /\ waiting # {} => refreshing
    /\ stopping = "dispatch" => dispatching

(* The embeddings are never refreshed while a day is consolidated,         *)
(* whichever of the two came first and whoever asked (consolidateDate      *)
(* awaits, runSemanticEpochRefresh does not begin).                        *)
RefreshApart == ~(refreshing /\ consolidating # NoCall)

(* After stop has returned no consolidation begins, not of a day of the    *)
(* backfill either, no refresh and no dispatch: whoever might begin one    *)
(* looks at the running flag or has lost its timer, and whoever waited     *)
(* went on no later than stop did.  The periodic reports do begin.         *)
StoppedStaysQuiet ==
    [][ stopping = "stopped" =>
          /\ consolidating' \in {consolidating, NoCall}
          /\ refreshing' => refreshing
          /\ dispatching' => dispatching ]_vars

StopOver == running \/ stopping = "stopped"

(* A call of stop returns, whatever was under way (stop awaits the         *)
(* dispatch and its consolidation, which may await a refresh).             *)
StopReturns == []<>StopOver

(* The backfill comes to its end, also when its calls are skipped or have  *)
(* to wait: the dispatch depends on it.                                    *)
BackfillFinishes == []<>(backfill = "done")

QueueServed == queued = 0 \/ ~running

(* What is queued is dispatched once the other duties are over, unless the *)
(* daemon is stopped: every flag the tick looks at is released             *)
(* (runResearchDispatchTick).                                              *)
QueuedIsDispatched == []<>QueueServed

-----------------------------------------------------------------------------
(***************************************************************************)
(* Expected to fail: what the repository says of the program.              *)
(***************************************************************************)

(* packages/anina/src/chitragupta-daemon.ts:337, of the dispatch: "so the  *)
(* daemon does not overlap queued overnight execution with another         *)
(* daemon-owned healing cycle."  Only the dispatch looks; the others begin *)
(* while a loop runs.                                                      *)
DispatchApart ==
    ~(dispatching /\ (consolidating # NoCall \/ refreshing \/ nidra = "DEEP_SLEEP"))

(* packages/anina/src/chitragupta-daemon.ts:266: "Backfill any days that   *)
(* have sessions but no day file."  A day whose turn comes while another   *)
(* day is consolidated is passed over.                                     *)
BackfillCoversMissed ==
    running /\ backfill \in {"reports", "done"} => \A d \in Missed : Call("backfill", d) \in worked

(* packages/anina/src/chitragupta-daemon.ts:110: "Stop the daemon          *)
(* gracefully."  Between the days of the backfill and its reports nobody   *)
(* looks whether the daemon still runs.                                    *)
StoppedIsSilent ==
    [][ stopping = "stopped" =>
          /\ consolidating' \in {consolidating, NoCall}
          /\ refreshing' => refreshing
          /\ dispatching' => dispatching
          /\ backfill' = "reports" => backfill = "reports" ]_vars

(* packages/anina/src/chitragupta-daemon.ts:110, of stop: "Runs a quick    *)
(* consolidation before shutdown."  With a consolidation at work it        *)
(* returns without.                                                        *)
StopConsolidates == stopping = "stopped" => Call("stop", Today) \in worked
=============================================================================
