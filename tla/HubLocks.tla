------------------------------ MODULE HubLocks ------------------------------
(***************************************************************************)
(* The named locks agents share through the communication hub: a lock has  *)
(* a holder, a first-in-first-out list of waiting calls, and an expiry     *)
(* after which the hub's cleanup takes it away.                            *)
(*                                                                         *)
(* The code is LockManager in packages/sutra/src/hub-sync.ts with the      *)
(* CommHub methods around it.  Each method and timer callback runs to its  *)
(* end, so each is one action.  A waiting call is known twice: in the list *)
(* of waiters, with the promise to settle, and by its agent's name in the  *)
(* lock's waitQueue, which is all that the deadlock detector sees.  Spec   *)
(* is the hub by itself, DeadlockSpec the hub with the detector at work.   *)
(*                                                                         *)
(* A call is one invocation of acquireLock until its agent is done with    *)
(* the lock or was refused; its name is then used for a later invocation.  *)
(***************************************************************************)
EXTENDS Integers, Sequences, FiniteSets, SequencesExt

CONSTANTS
    Agents, NoAgent, Resources,
    Slots,          \* names for concurrent calls of one agent on one lock
    Sequential      \* TRUE: an agent makes no call while it waits for one

LocksAssumption == NoAgent \notin Agents /\ Sequential \in BOOLEAN

Calls == Agents \X Resources \X Slots

AgentOf(c) == c[1]

On(r) == {c \in Calls : c[2] = r}

VARIABLES
    lock,       \* locks: the holder, its waitQueue, whether it has expired
    waiters,    \* lockWaiters: per resource, the calls in line
    at,         \* where each call stands: idle, waiting, holding
    ousted,     \* history: holding calls whose lock has moved on
    destroyed

vars == <<lock, waiters, at, ousted, destroyed>>

NoLock == [holder |-> NoAgent, queue |-> <<>>, expired |-> FALSE]

Locked(r) == lock[r].holder # NoAgent

(* createLock.                                                             *)
NewLock(a, q) == [holder |-> a, queue |-> q, expired |-> FALSE]

(* filter: the entries of others, in their order.                         *)
Without(q, a) ==
    LET kept == {i \in 1 .. Len(q) : q[i] # a}
    IN  [n \in 1 .. Cardinality(kept) |->
           q[CHOOSE i \in kept : Cardinality({j \in kept : j <= i}) = n]]

Waiting(r) == {c \in On(r) : at[c] = "waiting"}
Holding(r) == {c \in On(r) : at[c] = "holding"}

Init ==
    /\ lock      = [r \in Resources |-> NoLock]
    /\ waiters   = [r \in Resources |-> <<>>]
    /\ at        = [c \in Calls |-> "idle"]
    /\ ousted    = {}
    /\ destroyed = FALSE

-----------------------------------------------------------------------------
(* A call that can be made.                                                *)
Ready(r, c) ==
    /\ ~destroyed
    /\ at[c] = "idle"
    /\ c \notin ToSet(waiters[r])
    /\ Sequential => \A d \in Calls : AgentOf(d) = AgentOf(c) => at[d] # "waiting"

(* acquireLock: free, or held by the agent itself ...                      *)
AcquireNow(r, c) ==
    /\ Ready(r, c)
    /\ lock[r].holder \in {NoAgent, AgentOf(c)}
    /\ lock' = IF Locked(r) THEN lock ELSE [lock EXCEPT ![r] = NewLock(AgentOf(c), <<>>)]
    /\ at'   = [at EXCEPT ![c] = "holding"]
    /\ UNCHANGED <<waiters, ousted, destroyed>>

(* ... or held by another one: the call waits, with a timer.               *)
AcquireWait(r, c) ==
    /\ Ready(r, c)
    /\ lock[r].holder \notin {NoAgent, AgentOf(c)}
    /\ waiters' = [waiters EXCEPT ![r] = Append(@, c)]
    /\ lock'    = [lock EXCEPT ![r].queue = Append(@, AgentOf(c))]
    /\ at'      = [at EXCEPT ![c] = "waiting"]
    /\ UNCHANGED <<ousted, destroyed>>

(* The slip that leaves the waiter in line.                                *)
WaitTimesOutInLine(r, c) ==
    /\ c \in Waiting(r)
    /\ lock' = [lock EXCEPT ![r].queue = Without(@, AgentOf(c))]
    /\ at'   = [at EXCEPT ![c] = "idle"]
    /\ UNCHANGED <<waiters, ousted, destroyed>>

(* The timer of a wait fires.  It removes the first waiter of its agent,   *)
(* all the agent's entries in waitQueue, and rejects its own promise.      *)
WaitTimesOut(r, c) ==
    LET mine == {i \in DOMAIN waiters[r] : AgentOf(waiters[r][i]) = AgentOf(c)}
    IN  /\ c \in Waiting(r)
        /\ waiters' = IF mine = {} THEN waiters
                      ELSE [waiters EXCEPT ![r] =
                              RemoveAt(@, CHOOSE i \in mine : \A j \in mine : i <= j)]
        /\ lock'    = [lock EXCEPT ![r].queue = Without(@, AgentOf(c))]
        /\ at'      = [at EXCEPT ![c] = "idle"]
        /\ UNCHANGED <<ousted, destroyed>>

-----------------------------------------------------------------------------
(* The locks of rs leave their holders; the calls in `done` end, those in  *)
(* `lost` are not told.  The next in line gets each lock, if there is one; *)
(* its promise resolves, unless it was rejected before.  releaseLock,      *)
(* forceReleaseLock and the cleanup pass locks on like this.               *)
PassOn(rs, done, lost) ==
    LET passed == {r \in rs : waiters[r] # <<>>}
        heirs  == {Head(waiters[r]) : r \in passed}
        Heir(r) == AgentOf(Head(waiters[r]))
    IN  /\ lock'    = [r \in Resources |->
                         IF r \in passed THEN NewLock(Heir(r), Without(lock[r].queue, Heir(r)))
                         ELSE IF r \in rs THEN NoLock
                         ELSE lock[r]]
        /\ waiters' = [r \in Resources |-> IF r \in passed THEN Tail(waiters[r])
                                                           ELSE waiters[r]]
        /\ at'      = [c \in Calls |-> IF c \in done THEN "idle"
                                       ELSE IF c \in heirs /\ at[c] = "waiting" THEN "holding"
                                       ELSE at[c]]
        /\ ousted'  = (ousted \cup lost) \ done

OwnCalls(r, c) == {d \in Holding(r) : AgentOf(d) = AgentOf(c)}

(* releaseLock, called by the agent of a call that got the lock.  It       *)
(* throws unless the agent is the holder; through which of its calls it    *)
(* does not ask.                                                           *)
Release(r, c) ==
    /\ c \in Holding(r)
    /\ IF lock[r].holder = AgentOf(c)
       THEN PassOn({r}, {c}, OwnCalls(r, c))
       ELSE /\ at'     = [at EXCEPT ![c] = "idle"]
            /\ ousted' = ousted \ {c}
            /\ UNCHANGED <<lock, waiters>>
    /\ UNCHANGED destroyed

(* forceReleaseLock.                                                       *)
ForceRelease(r) ==
    /\ Locked(r)
    /\ PassOn({r}, {}, Holding(r))
    /\ UNCHANGED destroyed

(* The expiresAt of a lock passes ...                                      *)
Expires(r) ==
    /\ Locked(r)
    /\ ~lock[r].expired
    /\ lock' = [lock EXCEPT ![r].expired = TRUE]
    /\ UNCHANGED <<waiters, at, ousted, destroyed>>

(* ... and the cleanup timer releases every expired one.                   *)
Cleanup ==
    LET rs == {r \in Resources : lock[r].expired}
    IN  /\ rs # {}
        /\ PassOn(rs, {}, UNION {Holding(r) : r \in rs})
        /\ UNCHANGED destroyed

(* destroy: rejectAll and clear.                                           *)
Destroy ==
    /\ ~destroyed
    /\ destroyed' = TRUE
    /\ lock'    = [r \in Resources |-> NoLock]
    /\ waiters' = [r \in Resources |-> <<>>]
    /\ at'      = [c \in Calls |-> IF at[c] = "waiting" /\ \E r \in Resources : c \in ToSet(waiters[r])
                                   THEN "idle" ELSE at[c]]
    /\ ousted'  = ousted \cup UNION {Holding(r) : r \in Resources}

LockStep ==
    \/ \E r \in Resources : \E c \in On(r) :
          AcquireNow(r, c) \/ AcquireWait(r, c) \/ WaitTimesOut(r, c) \/ Release(r, c)
    \/ \E r \in Resources : Expires(r)
    \/ Cleanup
    \/ Destroy

Next == LockStep \/ \E r \in Resources : ForceRelease(r)

Spec == Init /\ [][Next]_vars

(* The clock and the cleanup timer; agents may keep a lock for ever.       *)
Fairness ==
    /\ WF_vars(\E r \in Resources : Expires(r))
    /\ WF_vars(Cleanup)

FairSpec == Spec /\ Fairness

-----------------------------------------------------------------------------
(***************************************************************************)
(* The deadlock detector, packages/sutra/src/deadlock.ts: it reads the     *)
(* holders and the waitQueues, looks for a cycle of agents that wait for   *)
(* each other, and breaks it by a forced release.  Detecting and resolving *)
(* are synchronous and used one right after the other.  How the detector   *)
(* searches is DeadlockSearch's matter; here it may report any simple      *)
(* cycle, since the search can start and branch in any order.              *)
(***************************************************************************)

(* The slip that takes the first in line only.                             *)
SeenEdgesFirst ==
    UNION {{<<a, lock[r].holder>> : a \in {Head(lock[r].queue)}} :
              r \in {s \in Resources : lock[s].queue # <<>>}}

(* buildWaitForGraph: who waits for whom, as the waitQueues have it.       *)
SeenEdges ==
    UNION {{<<a, lock[r].holder>> : a \in ToSet(lock[r].queue)} : r \in Resources}

(* Who does wait for another one.                                          *)
TrueEdges ==
    UNION {{<<AgentOf(c), lock[r].holder>> :
               c \in {d \in Waiting(r) : AgentOf(d) # lock[r].holder}} : r \in Resources}

Nodes(C) == {e[1] : e \in C}

(* Sets of edges in which every node has one successor and one predecessor.*)
Rings(E) ==
    {C \in (SUBSET E) \ {{}} :
        /\ Nodes(C) = {e[2] : e \in C}
        /\ Cardinality(Nodes(C)) = Cardinality(C)}

(* The simple cycles of a graph.                                           *)
Cycles(E) == {C \in Rings(E) : \A D \in Rings(E) : D \subseteq C => D = C}

(* findResourcesForCycle.                                                  *)
ResourcesFor(C) ==
    {r \in Resources : /\ lock[r].holder \in Nodes(C)
                       /\ ToSet(lock[r].queue) \cap Nodes(C) # {}}

(* resolveDeadlock: the victim, by whatever strategy, is one of them.      *)
Resolve(C) ==
    /\ C \in Cycles(SeenEdges)
    /\ \E r \in ResourcesFor(C) : ForceRelease(r)

Resolves == \E C \in SUBSET (Agents \X Agents) : Resolve(C)

DeadlockNext == LockStep \/ Resolves

DeadlockSpec == Init /\ [][DeadlockNext]_vars

(* Somebody looks for deadlocks again and again; nothing else has to move. *)
Resolving == WF_vars(Resolves)

ResolvingSpec == DeadlockSpec /\ Resolving

-----------------------------------------------------------------------------
(* The variables stay in their types.                                      *)
TypeOK ==
    /\ lock \in [Resources -> [holder : Agents \cup {NoAgent}, queue : Seq(Agents),
                               expired : BOOLEAN]]
    /\ waiters \in [Resources -> Seq(Calls)]
    /\ at \in [Calls -> {"idle", "waiting", "holding"}]
    /\ \A c \in ousted : at[c] = "holding"
    /\ destroyed \in BOOLEAN

(* Agents that believe they hold one lock are one agent, apart from those  *)
(* whose lock was taken from them by an expiry, a forced release or a      *)
(* release by another of their own calls (createLock is reached only       *)
(* through acquireLock and the hand-overs).                                *)
OneHolder ==
    \A r \in Resources : \A c \in Holding(r) \ ousted : lock[r].holder = AgentOf(c)

(* Every lock was given to somebody who knows it: a hand-over never makes  *)
(* an agent holder whose promise has been rejected, for nobody would       *)
(* release such a lock (releaseLock against the timeout callback).         *)
HolderWasTold ==
    \A r \in Resources : Locked(r) => Holding(r) \ ousted # {}

(* What the deadlock detector sees of a lock, its waitQueue, is the line   *)
(* of its waiters (two lists changed by different rules).                  *)
QueueMatchesWaiters ==
    \A r \in Resources :
        lock[r].queue = [i \in DOMAIN waiters[r] |-> AgentOf(waiters[r][i])]

(* Nobody waits for a free lock: a release, an expiry or a forced release  *)
(* hands it on.                                                            *)
NoneWaitsForFree == \A r \in Resources : Waiting(r) # {} => Locked(r)

(* A wait ends although holders never release and no wait times out: locks *)
(* expire, are cleaned up, and go to the first in line.                    *)
WaitEnds == \A c \in Calls : []<>(at[c] # "waiting")

(* The detector sees a deadlock exactly when agents wait for each other in *)
(* a circle: the names in the waitQueues say what the waiting promises do. *)
DetectorSees == Cycles(SeenEdges) = Cycles(TrueEdges)

(* Breaking a cycle breaks it: whichever resource is picked, and whoever   *)
(* is next in its line, the agents of the cycle no longer wait for each    *)
(* other in that circle.                                                   *)
ResolveBreaks ==
    [][\A C \in Cycles(SeenEdges) : Resolve(C) => C \notin Cycles(TrueEdges)']_vars

NoCircle == Cycles(TrueEdges) = {}

(* No circle of waiting agents lasts: one is found and broken, and the     *)
(* forced hand-over does not close another.                                *)
DeadlockEnds == []<>NoCircle
-----------------------------------------------------------------------------
(* Expected to fail: what the repository says of the program.              *)

(* "Lock waiters are queued in FIFO order and automatically promoted when  *)
(* the holder releases" (hub-sync.ts:18): every waiting call is in line.   *)
WaitersInLine ==
    \A r \in Resources : Waiting(r) \subseteq ToSet(waiters[r])
=============================================================================
