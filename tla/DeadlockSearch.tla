--------------------------- MODULE DeadlockSearch ---------------------------
(***************************************************************************)
(* The search of the deadlock detector: a depth first search with three    *)
(* colours and an explicit stack over the wait-for graph, which reports a  *)
(* cycle whenever it meets a node that is on the stack.                    *)
(*                                                                         *)
(* The code is detectDeadlocks in packages/sutra/src/deadlock.ts.  One     *)
(* iteration of its loop is one action.  The order in which it starts from *)
(* nodes and follows neighbours comes from the insertion order of maps and *)
(* sets; here it is any order.                                             *)
(***************************************************************************)
EXTENDS Integers, Sequences, FiniteSets, SequencesExt

CONSTANT Agents

VARIABLES
    edges,      \* the wait-for graph
    color,
    stack,      \* frames: a node and its neighbours not yet looked at
    reported    \* the cycles found: where the search met itself, and the nodes

vars == <<edges, color, stack, reported>>

Neighbors(n) == {m \in Agents : <<n, m>> \in edges}

Frame == [node : Agents, rest : SUBSET Agents]

Init ==
    /\ edges \in SUBSET {e \in Agents \X Agents : e[1] # e[2]}
    /\ color = [n \in Agents |-> "white"]
    /\ stack = <<>>
    /\ reported = {}

Push(n) ==
    /\ color' = [color EXCEPT ![n] = "gray"]
    /\ stack' = Append(IF stack = <<>> THEN stack
                       ELSE Front(stack) \o <<[Last(stack) EXCEPT !.rest = @ \ {n}]>>,
                       [node |-> n, rest |-> Neighbors(n)])

(* The outer loop: start from a node that was not visited.                 *)
Start(n) ==
    /\ stack = <<>>
    /\ color[n] = "white"
    /\ Push(n)
    /\ UNCHANGED <<edges, reported>>

(* All neighbours of the top frame are done.                               *)
Finish ==
    /\ stack # <<>>
    /\ Last(stack).rest = {}
    /\ color' = [color EXCEPT ![Last(stack).node] = "black"]
    /\ stack' = Front(stack)
    /\ UNCHANGED <<edges, reported>>

(* The nodes on the stack from n to the top.                               *)
PathFrom(n) ==
    {stack[i].node : i \in {k \in DOMAIN stack :
                              \E j \in 1..k : stack[j].node = n}}

(* A neighbour on the stack closes a cycle ...                             *)
FollowGray(n) ==
    /\ stack # <<>>
    /\ n \in Last(stack).rest
    /\ color[n] = "gray"
    /\ reported' = reported \cup {[closes |-> n, nodes |-> PathFrom(n)]}
    /\ stack' = [stack EXCEPT ![Len(stack)].rest = @ \ {n}]
    /\ UNCHANGED <<edges, color>>

(* ... one that was not visited is visited next ...                        *)
FollowWhite(n) ==
    /\ stack # <<>>
    /\ n \in Last(stack).rest
    /\ color[n] = "white"
    /\ Push(n)
    /\ UNCHANGED <<edges, reported>>

(* ... and one that is done is passed over.                                *)
FollowBlack(n) ==
    /\ stack # <<>>
    /\ n \in Last(stack).rest
    /\ color[n] = "black"
    /\ stack' = [stack EXCEPT ![Len(stack)].rest = @ \ {n}]
    /\ UNCHANGED <<edges, color, reported>>

Next ==
    \/ Finish
    \/ \E n \in Agents : Start(n) \/ FollowGray(n) \/ FollowWhite(n) \/ FollowBlack(n)

Spec == Init /\ [][Next]_vars

Done == stack = <<>> /\ \A n \in Agents : color[n] # "white"

-----------------------------------------------------------------------------
(* The variables stay in their types.                                      *)
TypeOK ==
    /\ edges \subseteq Agents \X Agents
    /\ color \in [Agents -> {"white", "gray", "black"}]
    /\ stack \in Seq(Frame)
    /\ reported \subseteq [closes : Agents, nodes : SUBSET Agents]

(* The agents of S wait for each other in one circle.                      *)
Circle(S) ==
    \E f \in [S -> S] :
       /\ \A m \in S : f[m] \in Neighbors(m)
       /\ \A T \in (SUBSET S) \ {{}} : (\A m \in T : f[m] \in T) => T = S

(* The nodes of every report wait for each other in one circle: there is   *)
(* no bystander among them that merely led the search there.               *)
ReportsDeadlocks == \A d \in reported : Circle(d.nodes)

(* If some agents wait for each other the finished search has reported a   *)
(* deadlock, and only then.                                                *)
FindsOne ==
    Done => (reported # {} <=> \E S \in (SUBSET Agents) \ {{}} :
                                  \A n \in S : Neighbors(n) \cap S # {})

-----------------------------------------------------------------------------
(* Expected to fail: what the repository says of the program.              *)

(* "Detect all deadlock cycles in the current lock state"                  *)
(* (deadlock.ts:41): every agent that is part of a circle is in a report.  *)
InCycle(n) == \E S \in SUBSET Agents : n \in S /\ Circle(S)

DetectsAll == Done => \A n \in Agents : InCycle(n) => \E d \in reported : n \in d.nodes
=============================================================================
