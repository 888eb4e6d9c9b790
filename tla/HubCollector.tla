---------------------------- MODULE HubCollector ----------------------------
(***************************************************************************)
(* One result collector of the communication hub: agents hand in results   *)
(* or errors, and calls of waitForAll wait until enough have come.         *)
(*                                                                         *)
(* The code is SharedMemoryManager in packages/sutra/src/hub-memory.ts     *)
(* (createCollector, submitResult, submitError, waitForAll); fanOut and    *)
(* mapReduce in patterns.ts are its users.                                 *)
(***************************************************************************)
EXTENDS Integers, FiniteSets

CONSTANTS
    Agents,
    Expected,       \* how many agents the collector is made for
    Waits,          \* calls of waitForAll
    MayRetry        \* TRUE: an agent may hand in again after an error

CollectorAssumption ==
    /\ IsFiniteSet(Agents)
    /\ Expected \in Nat
    /\ MayRetry \in BOOLEAN

VARIABLES
    results, errors,    \* the agents with a result, and with an error
    resolvers,          \* waits that are pending
    wait,               \* per wait, "new", "pending", "resolved" or "rejected"
    counted,            \* per wait, the agents counted when it was resolved
    cleared             \* the hub was destroyed

vars == <<results, errors, resolvers, wait, counted, cleared>>

Total(R, E) == Cardinality(R) + Cardinality(E)

-----------------------------------------------------------------------------
Init ==
    /\ results = {} /\ errors = {}
    /\ resolvers = {}
    /\ wait = [w \in Waits |-> "new"]
    /\ counted = [w \in Waits |-> {}]
    /\ cleared = FALSE

Resolve(S) ==
    /\ wait' = [w \in Waits |-> IF w \in S THEN "resolved" ELSE wait[w]]
    /\ counted' = [w \in Waits |-> IF w \in S THEN results' \cup errors' ELSE counted[w]]

(* checkCollectorComplete; a promise that its timer has rejected stays so. *)
CheckComplete ==
    IF Total(results', errors') >= Expected
    THEN /\ Resolve({w \in resolvers : wait[w] = "pending"})
         /\ resolvers' = {}
    ELSE UNCHANGED <<resolvers, wait, counted>>

May(a) ==
    /\ ~cleared
    /\ a \notin results
    /\ MayRetry \/ a \notin errors

SubmitResult(a) ==
    /\ May(a)
    /\ results' = results \cup {a}
    /\ UNCHANGED <<errors, cleared>>
    /\ CheckComplete

SubmitError(a) ==
    /\ May(a)
    /\ errors' = errors \cup {a}
    /\ UNCHANGED <<results, cleared>>
    /\ CheckComplete

(* waitForAll when enough have come, and when more have to.                *)
WaitNow(w) ==
    /\ ~cleared /\ wait[w] = "new"
    /\ Total(results, errors) >= Expected
    /\ wait' = [wait EXCEPT ![w] = "resolved"]
    /\ counted' = [counted EXCEPT ![w] = results \cup errors]
    /\ UNCHANGED <<results, errors, resolvers, cleared>>

WaitLater(w) ==
    /\ ~cleared /\ wait[w] = "new"
    /\ Total(results, errors) < Expected
    /\ resolvers' = resolvers \cup {w}
    /\ wait' = [wait EXCEPT ![w] = "pending"]
    /\ UNCHANGED <<results, errors, counted, cleared>>

(* The timer of a wait; its resolver stays in the list.                    *)
WaitTimesOut(w) ==
    /\ wait[w] = "pending"
    /\ wait' = [wait EXCEPT ![w] = "rejected"]
    /\ UNCHANGED <<results, errors, resolvers, counted, cleared>>

(* CommHub.destroy forgets the collector; timers go on.                    *)
Destroy ==
    /\ ~cleared
    /\ cleared' = TRUE
    /\ UNCHANGED <<results, errors, resolvers, wait, counted>>

Next ==
    \/ \E a \in Agents : SubmitResult(a) \/ SubmitError(a)
    \/ \E w \in Waits : WaitNow(w) \/ WaitLater(w) \/ WaitTimesOut(w)
    \/ Destroy

Spec == Init /\ [][Next]_vars

(* Every agent hands in sooner or later, as those of fanOut and mapReduce  *)
(* do because their requests end.  No timer is needed.                     *)
Fairness == WF_vars(\E a \in Agents : SubmitResult(a) \/ SubmitError(a))

FairSpec == Spec /\ Fairness

-----------------------------------------------------------------------------
(* The variables stay in their types.                                      *)
TypeOK ==
    /\ results \subseteq Agents /\ errors \subseteq Agents
    /\ resolvers \subseteq Waits
    /\ wait \in [Waits -> {"new", "pending", "resolved", "rejected"}]
    /\ counted \in [Waits -> SUBSET Agents]
    /\ cleared \in BOOLEAN

(* A wait that is resolved has seen as many different agents as the        *)
(* collector was made for.                                                 *)
AllCounted ==
    \A w \in Waits : wait[w] = "resolved" => Cardinality(counted[w]) >= Expected

NobodyWaits == cleared \/ \A w \in Waits : wait[w] # "pending"

(* If the agents hand in, be it errors, every wait ends, without its timer. *)
WaitEnds == []<>NobodyWaits

-----------------------------------------------------------------------------
(* Expected to fail: what the repository says of the program.              *)

(* "Create a result collector that expects results from `expected` agents" *)
(* (hub-memory.ts:172): also when an agent hands in a result after an      *)
(* error, a wait is not resolved before as many agents have.               *)
ExpectsAgents == AllCounted
=============================================================================
