------------------------------ MODULE HubSaga ------------------------------
(***************************************************************************)
(* A saga over the communication hub: steps are requested one after the    *)
(* other, and when one fails the completed ones are compensated in reverse *)
(* order.                                                                  *)
(*                                                                         *)
(* The code is saga in packages/sutra/src/patterns.ts, over CommHub        *)
(* .request.  An agent that got a message may carry it out at any time,    *)
(* or never, and may reply before or after the request timed out: a        *)
(* request that timed out is not withdrawn.                                *)
(***************************************************************************)
EXTENDS Integers, FiniteSets

CONSTANTS N             \* number of steps

SagaAssumption == N \in Nat \ {0}

Steps == 1..N

VARIABLES
    at,             \* the step that is requested or compensated
    mode,           \* "forward", "back", "done" or "failed"
    completed,      \* steps whose request was answered
    waiting,        \* the request that is open: "none", "do" or "undo"
    got,            \* messages delivered: <<"do" or "undo", step>>
    acted,          \* those the agent has carried out, in any order
    effect,         \* per step, whether its effect is in place
    errors          \* steps whose compensation failed

vars == <<at, mode, completed, waiting, got, acted, effect, errors>>

-----------------------------------------------------------------------------
Init ==
    /\ at = 1 /\ mode = "forward"
    /\ completed = {} /\ errors = {}
    /\ waiting = "none"
    /\ got = {} /\ acted = {}
    /\ effect = [i \in Steps |-> FALSE]

Send(kind) ==
    /\ waiting = "none"
    /\ waiting' = kind
    /\ \E heard \in BOOLEAN : got' = IF heard THEN got \cup {<<kind, at>>} ELSE got
    /\ UNCHANGED <<at, mode, completed, acted, effect, errors>>

(* The next step is requested; its receiver may not be there.              *)
SendStep == mode = "forward" /\ Send("do")

(* A compensation is requested.                                            *)
SendUndo == mode = "back" /\ at \in completed /\ Send("undo")

(* An agent carries out what it was asked for.                             *)
AgentActs(m) ==
    /\ m \in got \ acted
    /\ acted' = acted \cup {m}
    /\ effect' = [effect EXCEPT ![m[2]] = m[1] = "do"]
    /\ UNCHANGED <<at, mode, completed, waiting, got, errors>>

(* The step is completed; the next one follows.                            *)
Forward ==
    /\ completed' = completed \cup {at}
    /\ IF at = N
       THEN /\ mode' = "done"
            /\ UNCHANGED at
       ELSE /\ at' = at + 1
            /\ UNCHANGED mode

(* The slip that compensates from the first step on.                       *)
BackUp ==
    IF at = Cardinality(completed)
    THEN /\ mode' = "failed"
         /\ UNCHANGED at
    ELSE /\ at' = at + 1
         /\ UNCHANGED mode

(* The compensation has ended; the one before follows.                     *)
Back ==
    IF at = 1
    THEN /\ mode' = "failed"
         /\ UNCHANGED at
    ELSE /\ at' = at - 1
         /\ UNCHANGED mode

(* The agent has done what it was asked and replies while the request is   *)
(* open.                                                                   *)
Replied ==
    /\ waiting # "none"
    /\ <<waiting, at>> \in acted
    /\ waiting' = "none"
    /\ IF waiting = "do"
       THEN Forward /\ UNCHANGED errors
       ELSE Back /\ UNCHANGED <<completed, errors>>
    /\ UNCHANGED <<got, acted, effect>>

(* The slip that compensates in the order of the steps.                    *)
FailedUpwards ==
    /\ waiting # "none"
    /\ waiting' = "none"
    /\ IF waiting = "do"
       THEN /\ IF at = 1
               THEN mode' = "failed" /\ UNCHANGED at
               ELSE mode' = "back" /\ at' = 1
            /\ UNCHANGED errors
       ELSE errors' = errors \cup {at} /\ BackUp
    /\ UNCHANGED <<completed, got, acted, effect>>

(* The request is rejected, be it by its timer while the agent is still at *)
(* work.  A step that fails turns the saga around; a compensation that     *)
(* fails is noted, and the next one follows.                               *)
Failed ==
    /\ waiting # "none"
    /\ waiting' = "none"
    /\ IF waiting = "do"
       THEN /\ IF at = 1
               THEN mode' = "failed" /\ UNCHANGED at
               ELSE mode' = "back" /\ at' = at - 1
            /\ UNCHANGED errors
       ELSE errors' = errors \cup {at} /\ Back
    /\ UNCHANGED <<completed, got, acted, effect>>

Next ==
    \/ SendStep
    \/ SendUndo
    \/ \E m \in got : AgentActs(m)
    \/ Replied
    \/ Failed

Spec == Init /\ [][Next]_vars

(* The saga goes on and the timers of its requests fire; agents may do     *)
(* nothing.                                                                *)
Fairness == WF_vars(SendStep) /\ WF_vars(SendUndo) /\ WF_vars(Failed)

FairSpec == Spec /\ Fairness

-----------------------------------------------------------------------------
(* The variables stay in their types.                                      *)
TypeOK ==
    /\ at \in Steps
    /\ mode \in {"forward", "back", "done", "failed"}
    /\ completed \subseteq Steps /\ errors \subseteq Steps
    /\ waiting \in {"none", "do", "undo"}
    /\ got \subseteq {"do", "undo"} \X Steps /\ acted \subseteq got
    /\ effect \in [Steps -> BOOLEAN]

(* A saga that ends well has all its effects in place.                     *)
DoneIsAll == mode = "done" => \A i \in Steps : effect[i]

(* When a saga has failed, every completed step is undone or its           *)
(* compensation is among the failures it reports.                          *)
CompletedUndone ==
    mode = "failed" => \A i \in completed : ~effect[i] \/ i \in errors

(* "Executed in reverse order": the compensation of a step is not asked    *)
(* for before those of all later completed steps have ended.               *)
ReverseOrder ==
    [][\A i \in Steps :
          (<<"undo", i>> \in got' \ got) =>
             /\ i \in completed
             /\ \A j \in completed : j > i => (~effect[j] \/ j \in errors)]_vars

Ended == mode \in {"done", "failed"}

(* The saga ends, whatever the agents do.                                  *)
SagaEnds == []<>Ended

-----------------------------------------------------------------------------
(* Expected to fail: what the repository says of the program.              *)

(* "Saga - distributed transaction with compensating actions on failure"   *)
(* (patterns.ts:147): after a failure whose compensations all went well,   *)
(* no effect is left.                                                      *)
AllOrNothing ==
    (mode = "failed" /\ errors = {}) => \A i \in Steps : ~effect[i]
=============================================================================
