------------------------------ MODULE GossipMesh ------------------------------
(***************************************************************************)
(* What nodes know of each other's actors (packages/sutra/src/mesh:        *)
(* gossip-protocol.ts, network-gossip.ts, and of actor-system.ts the parts *)
(* that keep an actor registered and alive).                               *)
(*                                                                         *)
(* Each node has an entry for every actor it heard of, with a generation   *)
(* that decides which of two entries is news, and the time of the last     *)
(* heartbeat.  The node that runs an actor renews its entry; all nodes     *)
(* look for entries that grew old, and send what they know to each other.  *)
(*                                                                         *)
(* Entries carry the age of the heartbeat instead of its time, up to one   *)
(* past DeadAfter; clocks of nodes agree.  An actor runs on one node at a  *)
(* time.  A node sends to all its peers, as it does with up to three, and  *)
(* one view at a time is under way on a link.  Left out: capabilities and  *)
(* expertise, views cut at 500 entries, and locations that are forgotten   *)
(* because nothing was heard for two minutes.                              *)
(***************************************************************************)
EXTENDS Naturals, FiniteSets

CONSTANTS
    Nodes, NoNode, Actors,
    Links,          \* pairs of nodes with a connection, in both directions
    Home,           \* the nodes an actor may be spawned on
    Mortal,         \* the nodes that may crash
    SuspectAfter, DeadAfter,
    MaxTroubles     \* bound: spawns, crashes, broken connections and delays

GossipAssumption ==
    /\ NoNode \notin Nodes
    /\ Links \subseteq Nodes \X Nodes /\ \A l \in Links : <<l[2], l[1]>> \in Links
    /\ Home \in [Actors -> SUBSET Nodes] /\ Mortal \subseteq Nodes
    /\ {SuspectAfter, DeadAfter, MaxTroubles} \subseteq Nat
    /\ SuspectAfter < DeadAfter

VARIABLES
    up,
    host,           \* where an actor runs
    counter,        \* of the generations a node gave out
    view,           \* GossipProtocol.peers of each node
    place,          \* NetworkGossip.actorLocations of each node
    wire,           \* the view under way on each link
    beat,           \* how long ago an actor had its last heartbeat
    troubles

vars == <<up, host, counter, view, place, wire, beat, troubles>>

Oldest == DeadAfter + 1
Statuses == {"alive", "suspect", "dead"}
Unknown == [status |-> "unknown", gen |-> 0, age |-> Oldest, origin |-> NoNode]
NoView == [a \in Actors |-> Unknown]
Knows(v, a) == v[a].status # "unknown"

Alive(g) == [status |-> "alive", gen |-> g, age |-> 0, origin |-> NoNode]
Troubles(k) == troubles + k <= MaxTroubles /\ troubles' = troubles + k

Nowhere == [a \in Actors |-> NoNode]

-----------------------------------------------------------------------------
(* ActorSystem.spawn, with GossipProtocol.register. *)
Spawn(a, n) ==
    /\ Troubles(1)
    /\ n \in up /\ host[a] = NoNode
    /\ host' = [host EXCEPT ![a] = n]
    /\ counter' = [counter EXCEPT ![n] = @ + 1]
    /\ view' = [view EXCEPT ![n][a] = Alive(counter[n] + 1)]
    /\ beat' = [beat EXCEPT ![a] = 0]
    /\ UNCHANGED <<up, place, wire>>

(* ActorSystem.stop, with GossipProtocol.unregister: nobody is told. *)
Stop(a) ==
    /\ host[a] # NoNode
    /\ view' = [view EXCEPT ![host[a]][a] = Unknown]
    /\ host' = [host EXCEPT ![a] = NoNode]
    /\ UNCHANGED <<up, counter, place, wire, beat, troubles>>

(* The heartbeats of a node, with GossipProtocol.touch. *)
Touched(e) ==
    IF e.status = "alive" THEN [e EXCEPT !.age = 0]
    ELSE [e EXCEPT !.age = 0, !.status = "alive", !.gen = @ + 1]

Heartbeat(n) ==
    /\ n \in up
    /\ view' = [view EXCEPT ![n] = [a \in Actors |-> IF host[a] = n THEN Touched(@[a]) ELSE @[a]]]
    /\ beat' = [a \in Actors |-> IF host[a] = n THEN 0 ELSE beat[a]]
    /\ UNCHANGED <<up, host, counter, place, wire, troubles>>

Swept(e) ==
    IF e.status = "alive" /\ e.age > SuspectAfter
      THEN [e EXCEPT !.status = "suspect", !.gen = @ + 1]
    ELSE IF e.status = "suspect" /\ e.age > DeadAfter
      THEN [e EXCEPT !.status = "dead", !.gen = @ + 1]
    ELSE e

Sweep(n) ==
    /\ n \in up
    /\ view' = [view EXCEPT ![n] = [a \in Actors |-> Swept(@[a])]]
    /\ UNCHANGED <<up, host, counter, place, wire, beat, troubles>>

-----------------------------------------------------------------------------
(* What exchangeRound sends, and what is sent when a peer connects. *)
Stamped(n) ==
    [a \in Actors |-> IF Knows(view[n], a) /\ view[n][a].origin = NoNode
                        THEN [view[n][a] EXCEPT !.origin = n] ELSE view[n][a]]

Exchange(n) ==
    LET Free == {l \in Links : l[1] = n /\ l[2] \in up /\ wire[l] = NoView} IN
    /\ n \in up /\ Free # {} /\ view[n] # NoView
    /\ wire' = [l \in Links |-> IF l \in Free THEN Stamped(n) ELSE wire[l]]
    /\ UNCHANGED <<up, host, counter, view, place, beat, troubles>>

(* GossipProtocol.merge for one entry.  Ages past DeadAfter are not told   *)
(* apart, so of two such entries either may be the later one.              *)
Fresher(remote, local, tie) ==
    \/ remote.age < local.age
    \/ remote.age = local.age /\ (remote.age = Oldest => tie)

Merged(local, remote, tie) ==
    IF remote.status # "unknown" /\ (local.status = "unknown" \/ remote.gen > local.gen) THEN remote
    ELSE IF remote.gen = local.gen /\ remote.status = "alive" /\ Fresher(remote, local, tie)
      THEN [local EXCEPT !.age = remote.age, !.status = "alive", !.origin = remote.origin]
    ELSE local

Receive(l) ==
    LET n == l[2] IN
    /\ n \in up /\ wire[l] # NoView
    /\ \E tie \in BOOLEAN :
         view' = [view EXCEPT ![n] = [a \in Actors |-> Merged(@[a], wire[l][a], tie)]]
    /\ place' = [place EXCEPT ![n] = [a \in Actors |-> IF Knows(wire[l], a) THEN wire[l][a].origin ELSE @[a]]]
    /\ wire' = [wire EXCEPT ![l] = NoView]
    /\ UNCHANGED <<up, host, counter, beat, troubles>>

(* A connection breaks and is made again.  Actors of the peer are lost to  *)
(* the side that accepted it, where a peer goes by the id of its node.     *)
Lose(n, m) ==
    place' = [place EXCEPT ![n] = [a \in Actors |-> IF @[a] = m THEN NoNode ELSE @[a]]]

Drop(l) ==
    /\ Troubles(1)
    /\ l[1] \in up /\ l[2] \in up
    /\ wire' = [wire EXCEPT ![l] = NoView, ![<<l[2], l[1]>>] = NoView]
    /\ Lose(l[2], l[1])
    /\ UNCHANGED <<up, host, counter, view, beat>>

-----------------------------------------------------------------------------
(* What is under way from the node may still arrive. *)
Crash(n) ==
    /\ n \in up \cap Mortal
    /\ Troubles(1)
    /\ up' = up \ {n}
    /\ host' = [a \in Actors |-> IF host[a] = n THEN NoNode ELSE host[a]]
    /\ counter' = [counter EXCEPT ![n] = 0]
    /\ view' = [view EXCEPT ![n] = NoView]
    /\ place' = [place EXCEPT ![n] = Nowhere]
    /\ wire' = [l \in Links |-> IF l[2] = n THEN NoView ELSE wire[l]]
    /\ UNCHANGED <<beat>>

Restart(n) ==
    /\ n \notin up
    /\ up' = up \cup {n}
    /\ UNCHANGED <<host, counter, view, place, wire, beat, troubles>>

(* Time passes.  At times the heartbeats of an actor that runs take longer *)
(* to get around than SuspectAfter; after that the nodes and their         *)
(* connections are fast enough.                                            *)
Older(k) == IF k < Oldest THEN k + 1 ELSE k
Aged(v) == [a \in Actors |-> [v[a] EXCEPT !.age = Older(@)]]
Outdated(v) ==
    \E a \in Actors : host[a] # NoNode /\ v[a].status = "alive" /\ v[a].age >= SuspectAfter
Late == (\E n \in up : Outdated(view[n])) \/ (\E l \in Links : Outdated(wire[l]))

Tick ==
    /\ Troubles(IF Late THEN 1 ELSE 0)
    /\ view' = [n \in Nodes |-> Aged(view[n])]
    /\ wire' = [l \in Links |-> Aged(wire[l])]
    /\ beat' = [a \in Actors |-> Older(beat[a])]
    /\ UNCHANGED <<up, host, counter, place>>

Init ==
    /\ up = Nodes /\ host = Nowhere /\ counter = [n \in Nodes |-> 0]
    /\ view = [n \in Nodes |-> NoView] /\ place = [n \in Nodes |-> Nowhere]
    /\ wire = [l \in Links |-> NoView]
    /\ beat = [a \in Actors |-> Oldest]
    /\ troubles = 0

Next ==
    \/ Tick
    \/ \E n \in Nodes : \/ Heartbeat(n) \/ Sweep(n) \/ Exchange(n) \/ Crash(n) \/ Restart(n)
                        \/ \E a \in Actors : n \in Home[a] /\ Spawn(a, n)
    \/ \E a \in Actors : Stop(a)
    \/ \E l \in Links : Receive(l) \/ Drop(l)

Spec == Init /\ [][Next]_vars

(* Timers fire, messages arrive, time passes. *)
Fairness ==
    /\ WF_vars(Tick)
    /\ \A n \in Nodes : WF_vars(Heartbeat(n)) /\ WF_vars(Sweep(n)) /\ WF_vars(Exchange(n))
    /\ \A l \in Links : WF_vars(Receive(l))

FairSpec == Spec /\ Fairness

-----------------------------------------------------------------------------
Entries ==
    [status : Statuses, gen : Nat, age : 0 .. Oldest, origin : Nodes \cup {NoNode}] \cup {Unknown}

TypeOK ==
    /\ up \subseteq Nodes /\ host \in [Actors -> Nodes \cup {NoNode}]
    /\ counter \in [Nodes -> 0 .. MaxTroubles]
    /\ \A n \in Nodes, a \in Actors : view[n][a] \in Entries
    /\ \A l \in Links, a \in Actors : wire[l][a] \in Entries
    /\ place \in [Nodes -> [Actors -> Nodes \cup {NoNode}]]
    /\ beat \in [Actors -> 0 .. Oldest]
    /\ troubles \in 0 .. MaxTroubles

(* No node believes that an actor had a heartbeat later than it had: news  *)
(* that go round in circles do not keep an actor alive that is gone.       *)
NoneFresherThanItIs ==
    \A a \in Actors : /\ \A n \in Nodes : Knows(view[n], a) => view[n][a].age >= beat[a]
                      /\ \A l \in Links : Knows(wire[l], a) => wire[l][a].age >= beat[a]

(* A running actor is in the view of its own node, whatever others say.    *)
HostKnows == \A a \in Actors : host[a] # NoNode => Knows(view[host[a]], a)

(* Actors that run are alive to all nodes, the others to none, and nodes   *)
(* know where they are.                                                    *)
Agreed ==
    \A a \in Actors, n \in up :
        IF host[a] = NoNode THEN view[n][a].status # "alive"
        ELSE view[n][a].status = "alive" /\ (n # host[a] => place[n][a] = host[a])

Converges == []<>Agreed
===============================================================================
