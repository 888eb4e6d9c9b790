------------------------------ MODULE TaskPool ------------------------------
(***************************************************************************)
(* What a fixed-size pool promises to those who submit tasks: a task is    *)
(* started at once if there is room, waits if there is not, is refused     *)
(* only if the line is full or the pool is closed, and a place that        *)
(* becomes free goes to a task that waits.                                 *)
(*                                                                         *)
(* The abstract specification of WorkerPool (packages/prana/src/worker-    *)
(* pool.ts).                                                               *)
(***************************************************************************)
EXTENDS Integers, FiniteSets

CONSTANTS Tasks, Size, MaxQueue

VARIABLES
    state,          \* "new", "waiting", "running", "done" or "refused"
    open            \* the pool takes tasks

poolVars == <<state, open>>

In(s) == {t \in Tasks : state[t] = s}

Init ==
    /\ state = [t \in Tasks |-> "new"]
    /\ open = TRUE

Start(t) ==
    /\ open /\ state[t] = "new"
    /\ Cardinality(In("running")) < Size
    /\ state' = [state EXCEPT ![t] = "running"]
    /\ UNCHANGED open

LineUp(t) ==
    /\ open /\ state[t] = "new"
    /\ Cardinality(In("running")) = Size
    /\ Cardinality(In("waiting")) < MaxQueue
    /\ state' = [state EXCEPT ![t] = "waiting"]
    /\ UNCHANGED open

Refuse(t) ==
    /\ state[t] = "new"
    /\ open => /\ Cardinality(In("running")) = Size
               /\ Cardinality(In("waiting")) = MaxQueue
    /\ state' = [state EXCEPT ![t] = "refused"]
    /\ UNCHANGED open

(* A task ends, well or not, and another one takes its place.              *)
Finish(t) ==
    /\ state[t] = "running"
    /\ IF In("waiting") = {}
       THEN state' = [state EXCEPT ![t] = "done"]
       ELSE \E u \in In("waiting") :
                state' = [state EXCEPT ![t] = "done", ![u] = "running"]
    /\ UNCHANGED open

Close ==
    /\ open' = FALSE
    /\ state' = [t \in Tasks |-> IF state[t] = "waiting" THEN "refused" ELSE state[t]]

Next ==
    \/ \E t \in Tasks : Start(t) \/ LineUp(t) \/ Refuse(t) \/ Finish(t)
    \/ Close

Spec == Init /\ [][Next]_poolVars
=============================================================================
