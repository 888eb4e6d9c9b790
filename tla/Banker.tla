------------------------------- MODULE Banker -------------------------------
(***************************************************************************)
(* Deadlock prevention by the banker's algorithm: processes declare what   *)
(* they may need at most, and a request is granted only if afterwards      *)
(* there is still an order in which all of them can finish.                *)
(*                                                                         *)
(* The code is BankersAlgorithm in packages/sutra/src/deadlock-prevention  *)
(* .ts.  It is synchronous: each method is one action.  A resource that a  *)
(* map does not mention counts as zero, so vectors are total functions.    *)
(***************************************************************************)
EXTENDS Integers, Sequences, FiniteSets, Functions, SequencesExt

CONSTANTS
    Procs, Resources,
    Units,          \* numbers of instances a resource may be registered with
    Again           \* TRUE: declareMaximum and addResource may be repeated

BankerAssumption ==
    /\ IsFiniteSet(Procs)
    /\ IsFiniteSet(Resources)
    /\ Units \subseteq Nat
    /\ Again \in BOOLEAN

VARIABLES
    total, available,       \* per resource
    processes,              \* those that declared a maximum
    max, allocation, need   \* per process and resource

vars == <<total, available, processes, max, allocation, need>>

MaxUnit == CHOOSE u \in Units : \A v \in Units : v <= u

Vectors == [Resources -> 0..MaxUnit]

Zero == [r \in Resources |-> 0]

Lte(v, w) == \A r \in Resources : v[r] <= w[r]

Plus(v, w)  == [r \in Resources |-> v[r] + w[r]]

(* vectorSub stops at zero.                                                *)
Minus(v, w) == [r \in Resources |-> IF w[r] > v[r] THEN 0 ELSE v[r] - w[r]]

Lower(v, w) == [r \in Resources |-> IF v[r] < w[r] THEN v[r] ELSE w[r]]

(* What the processes of S hold of all resources.                          *)
Held(alloc, S) ==
    [r \in Resources |-> FoldFunctionOnSet(LAMBDA v, n : v[r] + n, 0, alloc, S)]

(* isSafeState: let those finish that can, with what is available and what *)
(* those who finished gave back, until nothing changes.                    *)
IsSafeState(avail, alloc, rest) ==
    LET Stuck[left \in SUBSET processes] ==
          LET work == Plus(avail, Held(alloc, processes \ left))
              can  == {p \in left : Lte(rest[p], work)}
          IN  IF can = {} THEN left ELSE Stuck[left \ can]
    IN  Stuck[processes] = {}

-----------------------------------------------------------------------------
Init ==
    /\ total      = Zero
    /\ available  = Zero
    /\ processes  = {}
    /\ max        = [p \in Procs |-> Zero]
    /\ allocation = [p \in Procs |-> Zero]
    /\ need       = [p \in Procs |-> Zero]

AddResource(r, n) ==
    /\ Again \/ total[r] = 0
    /\ total'     = [total EXCEPT ![r] = n]
    /\ available' = [available EXCEPT ![r] = n]
    /\ UNCHANGED <<processes, max, allocation, need>>

(* declareMaximum: a claim beyond what exists is refused.                  *)
DeclareMaximum(p, claim) ==
    /\ Again \/ p \notin processes
    /\ Lte(claim, total)
    /\ processes'  = processes \cup {p}
    /\ max'        = [max EXCEPT ![p] = claim]
    /\ allocation' = [allocation EXCEPT ![p] = Zero]
    /\ need'       = [need EXCEPT ![p] = claim]
    /\ UNCHANGED <<total, available>>

(* The slip that checks the state before the allocation.                   *)
GrantableBefore(p, req) ==
    /\ p \in processes
    /\ Lte(req, need[p])
    /\ Lte(req, available)
    /\ IsSafeState(available, allocation, need)

(* A request is granted if it is within the need, within what is available *)
(* and the allocation it leads to is safe.                                 *)
Grantable(p, req) ==
    /\ p \in processes
    /\ Lte(req, need[p])
    /\ Lte(req, available)
    /\ IsSafeState(Minus(available, req),
                   [allocation EXCEPT ![p] = Plus(@, req)],
                   [need EXCEPT ![p] = Minus(@, req)])

(* requestResource; a denied request leaves everything as it was.          *)
RequestResource(p, req) ==
    /\ Grantable(p, req)
    /\ available'  = Minus(available, req)
    /\ allocation' = [allocation EXCEPT ![p] = Plus(@, req)]
    /\ need'       = [need EXCEPT ![p] = Minus(@, req)]
    /\ UNCHANGED <<total, processes, max>>

(* releaseResource: at most what is held.  The need is left as it is.      *)
ReleaseResource(p, rel) ==
    LET given == Lower(rel, allocation[p])
    IN  /\ p \in processes
        /\ allocation' = [allocation EXCEPT ![p] = Minus(@, given)]
        /\ available'  = Plus(available, given)
        /\ UNCHANGED <<total, processes, max, need>>

RemoveProcess(p) ==
    /\ p \in processes
    /\ available'  = Plus(available, allocation[p])
    /\ processes'  = processes \ {p}
    /\ max'        = [max EXCEPT ![p] = Zero]
    /\ allocation' = [allocation EXCEPT ![p] = Zero]
    /\ need'       = [need EXCEPT ![p] = Zero]
    /\ UNCHANGED total

Next ==
    \/ \E r \in Resources, n \in Units : AddResource(r, n)
    \/ \E p \in Procs, v \in Vectors :
          DeclareMaximum(p, v) \/ RequestResource(p, v) \/ ReleaseResource(p, v)
    \/ \E p \in Procs : RemoveProcess(p)

Spec == Init /\ [][Next]_vars

-----------------------------------------------------------------------------
(* The variables stay in their types.                                      *)
TypeOK ==
    /\ total \in Vectors /\ available \in Vectors
    /\ processes \subseteq Procs
    /\ max \in [Procs -> Vectors]
    /\ allocation \in [Procs -> Vectors]
    /\ need \in [Procs -> Vectors]

(* Every instance is available or allocated: no sequence of requests,      *)
(* over-generous releases, removals and denials loses or creates one.      *)
Conserved == Plus(available, Held(allocation, processes)) = total

(* Nobody comes to hold, or to be owed, more than it declared.             *)
WithinClaim == \A p \in processes : Lte(Plus(allocation[p], need[p]), max[p])

(* "The key invariant maintained at all times" (deadlock-prevention.ts:116 *)
(* -121): there is an order of the processes in which each can get what it *)
(* still needs from what is available and what the ones before it held.    *)
(* This is the definition the greedy check of the code is measured by.     *)
SafeSequenceExists ==
    \E order \in SetToSeqs(processes) :
        \A i \in DOMAIN order :
            Lte(need[order[i]],
                Plus(available, Held(allocation, {order[j] : j \in 1..(i - 1)})))

(* No deadlock: there is always a process that may have all it needs, and  *)
(* the check does not deny it.                                             *)
SomebodyCanFinish ==
    processes # {} => \E p \in processes : Grantable(p, need[p])

-----------------------------------------------------------------------------
(* Expected to fail: what the repository says of the program.              *)

(* "Remaining need: processId -> resource -> amount (= max - allocation)"  *)
(* (deadlock-prevention.ts:153).                                           *)
NeedIsTheRest == \A p \in processes : Plus(need[p], allocation[p]) = max[p]
=============================================================================
