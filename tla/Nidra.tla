-------------------------------- MODULE Nidra --------------------------------
(***************************************************************************)
(* The sleep cycle of the resident daemon                                  *)
(* (packages/anina/src/nidra-daemon.ts): LISTENING, DREAMING, DEEP_SLEEP   *)
(* and back.  Sessions that are noted collect in pendingSessionIds; a deep *)
(* sleep hands them to the consolidation handler, which answers with those *)
(* it has dealt with.  Whatever can wake the daemon does so at any time,   *)
(* so that handlers of earlier deep sleeps are still at work in later      *)
(* ones.  The state is one row of the database, from which a new instance  *)
(* resumes after a stop or a crash.                                        *)
(*                                                                         *)
(* Each action is one synchronous piece of the code: a call, a timer, or   *)
(* the settlement of the promise of a handler.  Dream handlers only report *)
(* progress and are left out, as is a row that cannot be written.          *)
(***************************************************************************)
EXTENDS Naturals, FiniteSets

CONSTANTS
    Sessions,       \* the sessions that can be noted
    Threshold,      \* sessionCountThreshold
    MaxCalls,       \* bound: calls of touch, wake and notifySession
    MaxStops        \* bound: stops and crashes

NidraAssumption ==
    /\ Threshold \in Nat \ {0}
    /\ MaxCalls \in Nat
    /\ MaxStops \in Nat

VARIABLES
    running,        \* the instance was started and not stopped
    state,          \* LISTENING, DREAMING or DEEP_SLEEP
    pending,        \* pendingSessionIds
    count,          \* sessionsProcessedSinceDeepSleep
    preserve,       \* preservePendingSessionsOnListening
    completing,     \* deepSleepCompletionPending
    handlers,       \* handlers at work: what they were handed, and whether
                    \* deepSleepRunGeneration has moved on since (late)
    row,            \* the row of nidra_state
    calls, stops    \* how often the bounded actions have happened

memory == <<state, pending, count, preserve>>
vars == <<running, memory, completing, handlers, row, calls, stops>>

(***************************************************************************)
(* The row is written at the end of every change.                          *)
(***************************************************************************)
Row(st, p, c, k) == [state |-> st, pending |-> p, count |-> c, preserve |-> k]

Persist == row' = Row(state', pending', count', preserve')

Superseded == {[h EXCEPT !.late = TRUE] : h \in handlers}

(***************************************************************************)
(* runDeepSleepPhase: the handler gets the sessions pending now.           *)
(***************************************************************************)
RunDeepSleep(p) ==
    /\ completing' = TRUE
    /\ handlers' = Superseded \cup {[ids |-> p, late |-> FALSE]}

(***************************************************************************)
(* transitionTo("LISTENING"): the pending sessions are forgotten unless    *)
(* they are to be preserved.                                               *)
(***************************************************************************)
EnterListening(keep) ==
    /\ state' = "LISTENING"
    /\ pending' = IF keep THEN pending ELSE {}
    /\ count' = Cardinality(pending')
    /\ preserve' = FALSE
    /\ completing' = FALSE
    /\ handlers' = IF state = "DEEP_SLEEP" THEN Superseded ELSE handlers
    /\ Persist

(***************************************************************************)
(* touch and wake: in LISTENING only the idle timer is set again, in the   *)
(* other states the daemon wakes up.                                       *)
(***************************************************************************)
Wake ==
    /\ running /\ calls < MaxCalls
    /\ calls' = calls + 1
    /\ state # "LISTENING"
    /\ EnterListening(preserve \/ (state = "DEEP_SLEEP" /\ pending # {}))
    /\ UNCHANGED <<running, stops>>

(***************************************************************************)
(* notifySession: wakes a deep sleep, keeping what is pending, notes the   *)
(* session, and forces a deep sleep once there are enough of them.         *)
(***************************************************************************)
Notify(s) ==
    LET noted  == pending \cup {s}
        before == IF state = "DEEP_SLEEP" THEN Cardinality(pending) ELSE count
    IN  /\ running /\ calls < MaxCalls
        /\ calls' = calls + 1
        /\ pending' = noted
        /\ count' = IF s \in pending THEN before ELSE before + 1
        /\ preserve' = IF state = "DEEP_SLEEP" THEN FALSE ELSE preserve
        /\ IF count' >= Threshold
             THEN state' = "DEEP_SLEEP" /\ RunDeepSleep(noted)
             ELSE /\ state' = IF state = "DEEP_SLEEP" THEN "LISTENING" ELSE state
                  /\ completing' = FALSE
                  /\ handlers' = IF state = "DEEP_SLEEP" THEN Superseded ELSE handlers
        /\ Persist
        /\ UNCHANGED <<running, stops>>

(***************************************************************************)
(* The idle timer, the dream timer, and the timer of the deep sleep, which *)
(* looks again later while the handler is at work.                         *)
(***************************************************************************)
IdleFires ==
    /\ running /\ state = "LISTENING"
    /\ state' = "DREAMING"
    /\ UNCHANGED <<running, pending, count, preserve, completing, handlers, calls, stops>>
    /\ Persist

DreamFires ==
    /\ running /\ state = "DREAMING"
    /\ state' = "DEEP_SLEEP"
    /\ RunDeepSleep(pending)
    /\ UNCHANGED <<running, pending, count, preserve, calls, stops>>
    /\ Persist

ExitFires ==
    /\ running /\ state = "DEEP_SLEEP" /\ ~completing
    /\ EnterListening(preserve)
    /\ UNCHANGED <<running, calls, stops>>

(***************************************************************************)
(* A handler settles.  What it confirms is no longer pending, unless the   *)
(* deep sleep it was started in has ended.  A handler that fails only      *)
(* allows the deep sleep to end.                                           *)
(***************************************************************************)
AnswerAnyRun(h, confirmed) ==
    /\ handlers' = handlers \ {h}
    /\ IF state # "DEEP_SLEEP"
         THEN UNCHANGED <<memory, completing, row>>
         ELSE /\ pending' = pending \ confirmed
              /\ preserve' = (pending' # {})
              /\ completing' = FALSE
              /\ UNCHANGED <<state, count>>
              /\ Persist
    /\ UNCHANGED <<running, calls, stops>>

Answer(h, confirmed) ==
    /\ handlers' = handlers \ {h}
    /\ IF h.late
         THEN UNCHANGED <<memory, completing, row>>
         ELSE /\ pending' = pending \ confirmed
              /\ preserve' = (pending' # {})
              /\ completing' = FALSE
              /\ UNCHANGED <<state, count>>
              /\ Persist
    /\ UNCHANGED <<running, calls, stops>>

Fail(h) ==
    /\ handlers' = handlers \ {h}
    /\ completing' = (completing /\ h.late)
    /\ UNCHANGED <<running, memory, row, calls, stops>>

(***************************************************************************)
(* stop writes the row and drops the timers; a crash drops everything.     *)
(* start, of a new instance, resumes from the row: in a deep sleep the     *)
(* handler is started once more.                                           *)
(***************************************************************************)
Stop ==
    /\ running /\ stops < MaxStops
    /\ running' = FALSE
    /\ stops' = stops + 1
    /\ completing' = FALSE
    /\ handlers' = {}
    /\ row' = Row(state, pending, count, preserve)
    /\ UNCHANGED <<memory, calls>>

Crash ==
    /\ running /\ stops < MaxStops
    /\ running' = FALSE
    /\ stops' = stops + 1
    /\ completing' = FALSE
    /\ handlers' = {}
    /\ UNCHANGED <<memory, row, calls>>

Start ==
    /\ ~running
    /\ running' = TRUE
    /\ state' = row.state
    /\ pending' = row.pending
    /\ count' = row.count
    /\ preserve' = row.preserve
    /\ IF row.state = "DEEP_SLEEP"
         THEN RunDeepSleep(row.pending)
         ELSE UNCHANGED <<completing, handlers>>
    /\ UNCHANGED <<row, calls, stops>>

Init ==
    /\ running = FALSE
    /\ state = "LISTENING"
    /\ pending = {}
    /\ count = 0
    /\ preserve = FALSE
    /\ completing = FALSE
    /\ handlers = {}
    /\ row = Row("LISTENING", {}, 0, FALSE)
    /\ calls = 0
    /\ stops = 0

Settle(h) == Fail(h) \/ \E confirmed \in SUBSET h.ids : Answer(h, confirmed)

Next ==
    \/ Wake
    \/ \E s \in Sessions : Notify(s)
    \/ IdleFires
    \/ DreamFires
    \/ ExitFires
    \/ \E h \in handlers : Settle(h)
    \/ Stop
    \/ Crash
    \/ Start

Spec == Init /\ [][Next]_vars

(***************************************************************************)
(* Timers fire and handlers settle.  Nobody is obliged to call or to start *)
(* the daemon again.                                                       *)
(***************************************************************************)
Fairness ==
    /\ WF_vars(IdleFires)
    /\ WF_vars(DreamFires)
    /\ WF_vars(ExitFires)
    /\ WF_vars(\E h \in handlers : ~h.late /\ Settle(h))

FairSpec == Spec /\ Fairness

-----------------------------------------------------------------------------
(***************************************************************************)
(* Properties.                                                             *)
(***************************************************************************)

States == {"LISTENING", "DREAMING", "DEEP_SLEEP"}

(* Every variable has its type: the values TypeScript gives the fields,    *)
(* and at most one handler whose answer still counts, which is what        *)
(* deepSleepCompletionPending stands for.                                  *)
TypeOK ==
    /\ running \in BOOLEAN /\ preserve \in BOOLEAN /\ completing \in BOOLEAN
    /\ state \in States
    /\ pending \subseteq Sessions
    /\ count \in 0 .. Cardinality(Sessions)
    /\ handlers \subseteq [ids : SUBSET Sessions, late : BOOLEAN]
    /\ row \in [state : States, pending : SUBSET Sessions,
                count : 0 .. Cardinality(Sessions), preserve : BOOLEAN]
    /\ completing <=> \E h \in handlers : ~h.late
    /\ calls \in 0 .. MaxCalls /\ stops \in 0 .. MaxStops

(* A crash loses nothing: between two synchronous pieces of code the row   *)
(* holds what the running instance has in memory (persist at the end of    *)
(* notifySession, transitionTo and the answer of a handler).               *)
CrashLosesNothing == running => row = Row(state, pending, count, preserve)

(* The count that forces a deep sleep is the number of different sessions  *)
(* pending, whatever was woken, preserved or restored in between           *)
(* (notifySession and transitionTo keep the two apart).                    *)
CountsPending == running /\ state # "DEEP_SLEEP" => count = Cardinality(pending)

(* A deep sleep that is left while its handler has not answered keeps what *)
(* the handler was given, whoever ends it (wake, notifySession,            *)
(* attemptExitDeepSleep).                                                  *)
UnansweredKept ==
    [][ state = "DEEP_SLEEP" /\ state' = "LISTENING" /\ (\E h \in handlers : ~h.late)
          => pending \subseteq pending' ]_vars

(* Within a deep sleep a session is struck off only by the answer of the   *)
(* handler started in it, never by one of an earlier deep sleep            *)
(* (deepSleepRunGeneration).                                               *)
OwnHandlerConfirms ==
    [][ state = "DEEP_SLEEP" /\ state' = "DEEP_SLEEP" =>
          \A s \in pending \ pending' :
              \E h \in handlers \ handlers' : ~h.late /\ s \in h.ids ]_vars

Awake == ~running \/ state # "DEEP_SLEEP"

(* A deep sleep ends once its handler has settled, also when the handler   *)
(* failed (attemptExitDeepSleep looks every 250 ms).                       *)
DeepSleepEnds == []<>Awake

InHand(s) == ~running \/ s \notin pending \/ \E h \in handlers : ~h.late /\ s \in h.ids

(* A session that is pending is handed to a handler or no longer pending,  *)
(* once nobody wakes the daemon any more.                                  *)
PendingIsHanded == \A s \in Sessions : []<>InHand(s)

-----------------------------------------------------------------------------
(***************************************************************************)
(* Expected to fail: what the repository says of the program.              *)
(***************************************************************************)

(* packages/anina/src/nidra-daemon-persistence.ts:28, of the handler:      *)
(* "Receives the array of session IDs accumulated since the last           *)
(* DEEP_SLEEP."  So nothing leaves the list outside a deep sleep; but a    *)
(* wake from DREAMING forgets it.                                          *)
AccumulatesUntilSleep == [][ state # "DEEP_SLEEP" => pending \subseteq pending' ]_vars

(* packages/anina/src/nidra-daemon.ts:317: "Sessions consumed - clear only *)
(* what the handler confirmed."  So the end of a deep sleep clears nothing *)
(* more; but after a handler that failed it clears all it was given.       *)
ClearsConfirmedOnly ==
    [][ state = "DEEP_SLEEP" /\ state' = "LISTENING" => pending \subseteq pending' ]_vars
=============================================================================
