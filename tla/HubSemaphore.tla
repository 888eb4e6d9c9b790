---------------------------- MODULE HubSemaphore ----------------------------
(***************************************************************************)
(* One counting semaphore of the communication hub and the calls that      *)
(* acquire and release its permits.                                        *)
(*                                                                         *)
(* The code is SemaphoreManager in packages/sutra/src/hub-sync.ts.  It is  *)
(* synchronous; a call that finds no permit waits on a promise, without a  *)
(* timeout.  A release names an agent and nothing checks that this agent   *)
(* holds a permit.                                                         *)
(***************************************************************************)
EXTENDS Integers, Sequences, FiniteSets, SequencesExt

CONSTANTS
    Calls,          \* calls to acquireSemaphore; each may be made repeatedly
    Permits,        \* permits the semaphore was created with
    MaxStrays       \* releases by somebody who holds no permit

SemaphoreAssumption ==
    /\ IsFiniteSet(Calls)
    /\ Permits \in Nat
    /\ MaxStrays \in Nat

VARIABLES
    currentPermits,
    waitQueue,
    call,           \* "idle", "waiting" or "holding"
    strays,         \* releases made so far by somebody without a permit
    destroyed       \* the hub is gone

vars == <<currentPermits, waitQueue, call, strays, destroyed>>

Holders == {c \in Calls : call[c] = "holding"}

-----------------------------------------------------------------------------
Init ==
    /\ currentPermits = Permits
    /\ waitQueue = <<>>
    /\ call = [c \in Calls |-> "idle"]
    /\ strays = 0
    /\ destroyed = FALSE

(* acquireSemaphore with a permit left.                                    *)
AcquireNow(c) ==
    /\ ~destroyed /\ call[c] = "idle"
    /\ currentPermits > 0
    /\ currentPermits' = currentPermits - 1
    /\ call' = [call EXCEPT ![c] = "holding"]
    /\ UNCHANGED <<waitQueue, strays, destroyed>>

AcquireWait(c) ==
    /\ ~destroyed /\ call[c] = "idle"
    /\ currentPermits <= 0
    /\ waitQueue' = Append(waitQueue, c)
    /\ call' = [call EXCEPT ![c] = "waiting"]
    /\ UNCHANGED <<currentPermits, strays, destroyed>>

(* The slip that wakes the waiter and gives the permit back as well.       *)
HandOverTwice(left) ==
    /\ waitQueue' = IF waitQueue = <<>> THEN <<>> ELSE Tail(waitQueue)
    /\ call' = IF waitQueue = <<>> THEN left ELSE [left EXCEPT ![Head(waitQueue)] = "holding"]
    /\ currentPermits' = IF currentPermits + 1 > Permits THEN Permits ELSE currentPermits + 1

(* releaseSemaphore: the permit goes to the first in line, or back to the  *)
(* pool up to the number the semaphore was created with.                   *)
HandOver(left) ==
    IF waitQueue # <<>>
    THEN /\ waitQueue' = Tail(waitQueue)
         /\ call' = [left EXCEPT ![Head(waitQueue)] = "holding"]
         /\ UNCHANGED currentPermits
    ELSE /\ currentPermits' =
              IF currentPermits + 1 > Permits THEN Permits ELSE currentPermits + 1
         /\ call' = left
         /\ UNCHANGED waitQueue

Release(c) ==
    /\ ~destroyed /\ call[c] = "holding"
    /\ HandOver([call EXCEPT ![c] = "idle"])
    /\ UNCHANGED <<strays, destroyed>>

(* A release by somebody who holds no permit.                              *)
StrayRelease ==
    /\ ~destroyed /\ strays < MaxStrays
    /\ strays' = strays + 1
    /\ HandOver(call)
    /\ UNCHANGED destroyed

(* CommHub.destroy forgets the semaphores.  The promises of the calls that *)
(* wait are not rejected: these calls stay as they are.                    *)
Destroy ==
    /\ ~destroyed
    /\ destroyed' = TRUE
    /\ waitQueue' = <<>>
    /\ UNCHANGED <<currentPermits, call, strays>>

Next ==
    \/ \E c \in Calls : AcquireNow(c) \/ AcquireWait(c) \/ Release(c)
    \/ StrayRelease
    \/ Destroy

Spec == Init /\ [][Next]_vars

(* Holders return their permits; nothing else is assumed.                  *)
Fairness == WF_vars(\E c \in Calls : Release(c))

FairSpec == Spec /\ Fairness

-----------------------------------------------------------------------------
(* The variables stay in their types; in particular the pool stays within  *)
(* its limits whoever releases.                                            *)
TypeOK ==
    /\ currentPermits \in 0..Permits
    /\ waitQueue \in Seq(Calls)
    /\ call \in [Calls -> {"idle", "waiting", "holding"}]
    /\ strays \in 0..MaxStrays
    /\ destroyed \in BOOLEAN

(* The line is exactly the calls that wait, each once: no promise is       *)
(* forgotten and none is resolved twice.                                   *)
LineIsWaiters ==
    /\ IsInjective(waitQueue)
    /\ ~destroyed => ToSet(waitQueue) = {c \in Calls : call[c] = "waiting"}

(* Nobody waits while there is a permit to be had.                         *)
NoIdlePermit == waitQueue # <<>> => currentPermits = 0

(* Every permit is in the pool or with one holder.  A stray release adds   *)
(* at most one holder too many, and never makes a permit disappear.        *)
PermitsAccounted ==
    /\ currentPermits + Cardinality(Holders) >= Permits
    /\ currentPermits + Cardinality(Holders) <= Permits + strays

Ahead(c, line) == {line[i] : i \in {j \in DOMAIN line : \E k \in DOMAIN line : j < k /\ line[k] = c}}

(* First come, first served: nobody gets in front of a call that waits,    *)
(* and while calls wait only the first of them may come to hold a permit.  *)
InOrder ==
    [][\A c \in Calls :
          /\ (c \in ToSet(waitQueue) /\ c \in ToSet(waitQueue'))
             => Ahead(c, waitQueue') \subseteq Ahead(c, waitQueue)
          /\ (call[c] # "holding" /\ call'[c] = "holding" /\ waitQueue # <<>>)
             => c = Head(waitQueue)]_vars

(* Every wait ends if holders release and the hub is not destroyed.        *)
WaitEnds == \A c \in Calls : []<>(call[c] # "waiting" \/ destroyed)

-----------------------------------------------------------------------------
(* Expected to fail: what the repository says of the program.              *)

(* "Semaphore - limits concurrent access to a resource" (sutra/src/types.ts *)
(* :68): never more holders than permits.                                  *)
Limits == Cardinality(Holders) <= Permits
=============================================================================
