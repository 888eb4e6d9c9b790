----------------------------- MODULE HubBarrier -----------------------------
(***************************************************************************)
(* One barrier of the communication hub: calls of several agents arrive,   *)
(* and wait until enough different agents have.                            *)
(*                                                                         *)
(* The code is BarrierManager in packages/sutra/src/hub-sync.ts.  It is    *)
(* synchronous.  An agent may arrive with several calls; the barrier keeps *)
(* the agents that arrived, and is never emptied.                          *)
(***************************************************************************)
EXTENDS Integers, FiniteSets

CONSTANTS
    Calls,          \* calls to arriveAtBarrier
    Agents,
    AgentOf,        \* which agent makes a call
    RequiredCount,
    MaxRounds       \* how often a call may be made again after it passed

BarrierAssumption ==
    /\ IsFiniteSet(Calls)
    /\ AgentOf \in [Calls -> Agents]
    /\ RequiredCount \in Nat
    /\ MaxRounds \in Nat

VARIABLES
    arrived,        \* the agents that arrived so far
    resolvers,      \* the calls whose promise is pending
    passed,         \* how often each call was let through
    destroyed       \* the hub is gone

vars == <<arrived, resolvers, passed, destroyed>>

-----------------------------------------------------------------------------
Init ==
    /\ arrived = {}
    /\ resolvers = {}
    /\ passed = [c \in Calls |-> 0]
    /\ destroyed = FALSE

May(c) ==
    /\ ~destroyed
    /\ c \notin resolvers
    /\ passed[c] < MaxRounds

Full(S) == Cardinality(S) >= RequiredCount

(* arriveAtBarrier when enough agents have arrived: those who wait and the *)
(* caller pass.                                                            *)
Open(c) ==
    /\ May(c)
    /\ arrived' = arrived \cup {AgentOf[c]}
    /\ Full(arrived')
    /\ resolvers' = {}
    /\ passed' = [d \in Calls |-> IF d \in resolvers \cup {c} THEN passed[d] + 1 ELSE passed[d]]
    /\ UNCHANGED destroyed

(* arriveAtBarrier when more have to come.                                 *)
Wait(c) ==
    /\ May(c)
    /\ arrived' = arrived \cup {AgentOf[c]}
    /\ ~Full(arrived')
    /\ resolvers' = resolvers \cup {c}
    /\ UNCHANGED <<passed, destroyed>>

(* CommHub.destroy forgets the barriers; pending promises stay pending.    *)
Destroy ==
    /\ ~destroyed
    /\ destroyed' = TRUE
    /\ UNCHANGED <<arrived, resolvers, passed>>

Next ==
    \/ \E c \in Calls : Open(c) \/ Wait(c)
    \/ Destroy

Spec == Init /\ [][Next]_vars

(* Every agent comes to the barrier once.                                  *)
Fairness == WF_vars(\E c \in Calls : passed[c] = 0 /\ (Open(c) \/ Wait(c)))

FairSpec == Spec /\ Fairness

-----------------------------------------------------------------------------
(* The variables stay in their types.                                      *)
TypeOK ==
    /\ arrived \subseteq Agents
    /\ resolvers \subseteq Calls
    /\ passed \in [Calls -> 0..MaxRounds]
    /\ destroyed \in BOOLEAN

(* Nobody passes before enough different agents have come, however often   *)
(* one of them calls: counted by those who are waiting or were let         *)
(* through, not by the barrier's own book.                                 *)
NobodyEarly ==
    (\E c \in Calls : passed[c] > 0)
    => Cardinality({AgentOf[c] : c \in {d \in Calls : d \in resolvers \/ passed[d] > 0}})
          >= RequiredCount

(* The barrier opens once and for good: when somebody has passed, nobody   *)
(* is left waiting and nobody waits again, so a second round of arrivals   *)
(* is not held together.                                                   *)
OpenForGood == (\E c \in Calls : passed[c] > 0) => resolvers = {}

NobodyLeft == resolvers = {} \/ destroyed

(* If every call is made, every one of them is let through, unless the hub *)
(* is destroyed before: none waits for ever.                               *)
AllPass == []<>NobodyLeft
=============================================================================
