---------------------------- MODULE ApprovalGate ----------------------------
(***************************************************************************)
(* Requests for a human approval, and the agents that wait for them.       *)
(*                                                                         *)
(* The code is ApprovalGate in packages/dharma/src/approval-gate.ts.  A    *)
(* request is decided by a person, by its timer or by the end of the gate. *)
(* A wait is a call of waitForApproval; its promise keeps the answer.      *)
(***************************************************************************)
EXTENDS Integers, FiniteSets, Sequences

CONSTANTS
    Ids,            \* requests that may be made
    Waits,          \* calls of waitForApproval
    MaxPending,
    WaitsPerRequest \* bound on calls of waitForApproval for one request

GateAssumption ==
    /\ IsFiniteSet(Ids) /\ IsFiniteSet(Waits)
    /\ MaxPending \in Nat \ {0} /\ WaitsPerRequest \in Nat \ {0}

VARIABLES
    requests,       \* keys of the map of requests
    status,         \* status of each request object, "none" before it is made
    timers,         \* requests with a timer
    waiters,        \* per request, the waits its entry will resolve (at most one)
    waitsFor,       \* per wait, the request it was made for (none or one)
    answer,         \* per wait: "idle", "waiting" or the status it resolved to
    told            \* per request, the events the handlers were given

vars == <<requests, status, timers, waiters, waitsFor, answer, told>>

Final == {"approved", "denied", "timeout"}

Pending == {r \in requests : status[r] = "pending"}

-----------------------------------------------------------------------------
Init ==
    /\ requests = {} /\ timers = {}
    /\ status = [r \in Ids |-> "none"]
    /\ waiters = [r \in Ids |-> {}]
    /\ waitsFor = [w \in Waits |-> {}]
    /\ answer = [w \in Waits |-> "idle"]
    /\ told = [r \in Ids |-> <<>>]

RequestApproval(r) ==
    /\ status[r] = "none"
    /\ Cardinality(Pending) < MaxPending
    /\ requests' = requests \cup {r}
    /\ status' = [status EXCEPT ![r] = "pending"]
    /\ timers' = timers \cup {r}
    /\ told' = [told EXCEPT ![r] = Append(@, "requested")]
    /\ UNCHANGED <<waiters, waitsFor, answer>>

(* The entry of a request holds one waiter: a later one takes its place.   *)
WaitForApproval(w, r) ==
    /\ answer[w] = "idle" /\ r \in requests
    /\ Cardinality({v \in Waits : r \in waitsFor[v]}) < WaitsPerRequest
    /\ waitsFor' = [waitsFor EXCEPT ![w] = {r}]
    /\ IF status[r] = "pending"
       THEN /\ waiters' = [waiters EXCEPT ![r] = {w}]
            /\ answer' = [answer EXCEPT ![w] = "waiting"]
       ELSE /\ answer' = [answer EXCEPT ![w] = status[r]]
            /\ UNCHANGED waiters
    /\ UNCHANGED <<requests, status, timers, told>>

(* The slip that resolves what was resolved before.                        *)
ResolveRequestAgain(r, s) ==
    /\ r \in requests
    /\ status' = [status EXCEPT ![r] = s]
    /\ timers' = timers \ {r}
    /\ answer' = [w \in Waits |-> IF w \in waiters[r] THEN s ELSE answer[w]]
    /\ waiters' = [waiters EXCEPT ![r] = {}]
    /\ told' = [told EXCEPT ![r] = Append(@, s)]
    /\ UNCHANGED <<requests, waitsFor>>

(* resolveRequest, shared by approve, deny and the timer: the status, the  *)
(* timer, the waiter and the event, in one turn.                           *)
ResolveRequest(r, s) ==
    /\ r \in Pending
    /\ status' = [status EXCEPT ![r] = s]
    /\ timers' = timers \ {r}
    /\ answer' = [w \in Waits |-> IF w \in waiters[r] THEN s ELSE answer[w]]
    /\ waiters' = [waiters EXCEPT ![r] = {}]
    /\ told' = [told EXCEPT ![r] = Append(@, s)]
    /\ UNCHANGED <<requests, waitsFor>>

Approve(r) == ResolveRequest(r, "approved")

Deny(r) == ResolveRequest(r, "denied")

TimeOut(r) == r \in timers /\ ResolveRequest(r, "timeout")

Cleanup ==
    /\ requests # Pending
    /\ requests' = Pending
    /\ waiters' = [r \in Ids |-> IF r \in requests \ Pending THEN {} ELSE waiters[r]]
    /\ UNCHANGED <<status, timers, waitsFor, answer, told>>

(* destroy: what is pending is denied and waiters are told, without events.*)
Destroy ==
    /\ requests # {}
    /\ timers' = {} /\ requests' = {}
    /\ status' = [r \in Ids |-> IF r \in Pending THEN "denied" ELSE status[r]]
    /\ answer' = [w \in Waits |->
          IF \E r \in Ids : w \in waiters[r] THEN "denied" ELSE answer[w]]
    /\ waiters' = [r \in Ids |-> {}]
    /\ UNCHANGED <<waitsFor, told>>

Next ==
    \/ \E r \in Ids :
          \/ RequestApproval(r) \/ Approve(r) \/ Deny(r) \/ TimeOut(r)
          \/ \E w \in Waits : WaitForApproval(w, r)
    \/ Cleanup
    \/ Destroy

Spec == Init /\ [][Next]_vars

(* Timers that were set and not cleared fire.                              *)
Fairness == WF_vars(\E r \in Ids : TimeOut(r))

FairSpec == Spec /\ Fairness

-----------------------------------------------------------------------------
(* The variables stay in their types.                                      *)
TypeOK ==
    /\ requests \subseteq Ids /\ timers \subseteq Ids
    /\ status \in [Ids -> {"none", "pending"} \cup Final]
    /\ waiters \in [Ids -> SUBSET Waits]
    /\ waitsFor \in [Waits -> SUBSET Ids]
    /\ answer \in [Waits -> {"idle", "waiting"} \cup Final]
    /\ told \in [Ids -> Seq({"requested"} \cup Final)]

(* All waits for a request get the same answer, the decision of the        *)
(* request, whenever they ask and whatever was cleaned up or destroyed.    *)
OneDecision ==
    \A w \in Waits : answer[w] \in Final =>
        \A r \in waitsFor[w] : status[r] = answer[w]

(* A wait that has no answer is the one its request will resolve, and the  *)
(* request still has the timer that decides it if nobody does.             *)
WaiterReachable ==
    \A w \in Waits : answer[w] = "waiting" =>
        \A r \in waitsFor[w] : w \in waiters[r] /\ r \in Pending \cap timers

(* Handlers hear of a request once, then of the decision it got, once;     *)
(* of the denials of destroy they hear nothing.                            *)
EventsTellDecision ==
    \A r \in Ids :
        \/ told[r] = <<>> /\ status[r] = "none"
        \/ told[r] = <<"requested">> /\ status[r] \in {"pending", "denied"}
        \/ told[r] = <<"requested", status[r]>> /\ status[r] \in Final

NobodyWaits == \A w \in Waits : answer[w] # "waiting"

(* Every wait ends: the timer decides if nobody else does.                 *)
WaitEnds == []<>NobodyWaits

-----------------------------------------------------------------------------
(* Expected to fail: what the repository says of the program.              *)

(* "Resolves immediately if the request is already in a terminal state;    *)
(* otherwise suspends until approved, denied, or timed out"                *)
(* (approval-gate.ts:135-137): a wait for a decided request has ended.     *)
WaitUntilDecided ==
    \A w \in Waits : answer[w] = "waiting" =>
        \A r \in waitsFor[w] : status[r] = "pending"
=============================================================================
