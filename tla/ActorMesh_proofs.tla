-------------------------- MODULE ActorMesh_proofs --------------------------
(***************************************************************************)
(* ActorMesh for any actors, ids that are used again and again, messages   *)
(* and sizes of mailboxes: what the run "coordination" checks of two       *)
(* actors, each with an id of its own.                                     *)
(*                                                                         *)
(* The invariant speaks of each actor and of each ask by itself.  An actor *)
(* that lives is the one its id is registered for, its mail is going to be *)
(* looked at, and one that was not spawned yet has none.  An ask is open   *)
(* if and only if the router waits for it, and only once it was sent.      *)
(***************************************************************************)
EXTENDS ActorMesh, SequenceTheorems, TLAPS

Drains == {"idle", "scheduled", "busy"}
Promises == {"none", "open", "replied", "timed out", "rejected"}
Lanes == [{0, 1} -> Seq(Envelopes)]

Mail(l) == Len(l[0]) + Len(l[1])

(* The mailbox of one actor.                                               *)
Boxed(o) ==
    /\ lanes[o] \in Lanes
    /\ o \in alive /\ Mail(lanes[o]) > 0 => drain[o] # "idle"
    /\ o \notin spawned => Mail(lanes[o]) = 0
    /\ drain[o] = "busy" => handling[o] \in Envelopes

Boxes ==
    /\ lanes = [o \in Actors |-> lanes[o]]
    /\ drain \in [Actors -> Drains]
    /\ handling \in [Actors -> Envelopes \cup {NoEnvelope}]
    /\ awaits \in [Actors -> Asks \cup {NoMessage}]
    /\ \A o \in Actors : Boxed(o)

Asked ==
    /\ sent \subseteq Messages /\ replies \in [Messages -> 0 .. MaxReplies]
    /\ promise \in [Asks -> Promises]
    /\ pending \subseteq Asks
    /\ \A m \in Asks : m \in pending <=> promise[m] = "open"
    /\ \A m \in Asks : promise[m] # "none" => m \in sent

Living ==
    /\ registry \in [Ids -> Actors \cup {NoActor}]
    /\ spawned \subseteq Actors /\ alive \subseteq spawned
    /\ \A o \in alive : registry[IdOf[o]] = o
    /\ system \in {"up", "stopping", "down"}
    /\ system # "up" => alive = {}

IInv == Boxes /\ Asked /\ Living

-----------------------------------------------------------------------------
LEMMA IdsOfActors == \A o \in Actors : IdOf[o] \in Ids
BY DEF Ids

LEMMA MessageParts ==
  ASSUME MeshAssumption
  PROVE  \A m \in Messages : m.lane \in {0, 1} /\ (m.kind = "ask" <=> m \in Asks)
BY DEF MeshAssumption, Asks

LEMMA Envelope == \A m \in Messages, b \in BOOLEAN : [m |-> m, reply |-> b] \in Envelopes
BY DEF Envelopes

LEMMA MailCounts ==
  ASSUME NEW l \in Lanes
  PROVE  /\ Mail(l) \in Nat /\ Len(l[0]) \in Nat /\ Len(l[1]) \in Nat
         /\ l[0] \in Seq(Envelopes) /\ l[1] \in Seq(Envelopes)
<1>1. l[0] \in Seq(Envelopes) /\ l[1] \in Seq(Envelopes)
  BY DEF Lanes
<1>2. Len(l[0]) \in Nat /\ Len(l[1]) \in Nat
  BY <1>1, LenProperties
<1>3. \A a, b \in Nat : a + b \in Nat
  OBVIOUS
<1>4. Mail(l) \in Nat
  BY <1>2, <1>3, Zenon DEF Mail
<1> QED BY <1>1, <1>2, <1>4

(* An envelope that is taken in goes into a lane and wakes the drain.      *)
LEMMA Received ==
  ASSUME MeshAssumption, Boxes, Living, NEW R, NEW e \in Envelopes, Receive(R, e),
         UNCHANGED <<handling, spawned, alive>>, awaits' \in [Actors -> Asks \cup {NoMessage}]
  PROVE  Boxes'
<1> DEFINE in == {o \in R : Accepts(o, lanes)}
<1>1. /\ lanes' = [o \in Actors |->
                     IF o \in in THEN [lanes[o] EXCEPT ![e.m.lane] = Append(@, e)] ELSE lanes[o]]
      /\ drain' = [o \in Actors |->
                     IF o \in in /\ drain[o] = "idle" THEN "scheduled" ELSE drain[o]]
  BY DEF Receive
<1>2. \A o \in in : o \in alive
  BY DEF Accepts
<1>3. e.m.lane \in {0, 1}
  BY MessageParts DEF Envelopes
<1> HIDE DEF in
<1>4. ASSUME NEW o \in Actors PROVE Boxed(o)'
  <2>1. lanes[o] \in Lanes
    BY DEF Boxes, Boxed
  <2>2. CASE o \in in
    <3>1. lanes'[o] = [lanes[o] EXCEPT ![e.m.lane] = Append(lanes[o][e.m.lane], e)]
      BY <1>1, <2>2
    <3>2. Append(lanes[o][e.m.lane], e) \in Seq(Envelopes)
      BY <1>3, <2>1 DEF Lanes
    <3>3. lanes'[o] \in Lanes
      BY <2>1, <3>1, <3>2 DEF Lanes
    <3>4. drain'[o] # "idle" /\ o \in spawned /\ (drain'[o] = "busy" => drain[o] = "busy")
      BY <1>1, <1>2, <2>2 DEF Living
    <3> QED BY <3>3, <3>4 DEF Boxes, Boxed
  <2>3. CASE o \notin in
    <3>1. lanes'[o] = lanes[o] /\ drain'[o] = drain[o]
      BY <1>1, <2>3
    <3> QED BY <3>1 DEF Boxes, Boxed
  <2> QED BY <2>2, <2>3
<1>5. drain' \in [Actors -> Drains]
  BY <1>1 DEF Boxes, Drains
<1>6. lanes' = [o \in Actors |-> lanes'[o]]
  BY <1>1
<1> QED BY <1>4, <1>5, <1>6 DEF Boxes

LEMMA DeliverReceives ==
  ASSUME NEW e, NEW i, Deliver(e, i) PROVE \E R : Receive(R, e)
BY DEF Deliver

(* An actor that goes on with its mail, or finds none and rests.           *)
LEMMA Taken ==
  ASSUME Boxes, Living, NEW o \in Actors, TakeNext(o) PROVE Boxes'
<1>1. lanes[o] \in Lanes /\ UNCHANGED <<spawned, alive, awaits>>
  BY DEF Boxes, Boxed, TakeNext, life
<1>2. CASE o \in alive /\ MailboxSize(o) > 0
  <2> DEFINE l == IF lanes[o][1] # <<>> THEN 1 ELSE 0
             q == lanes[o][l]
  <2>1. /\ handling' = [handling EXCEPT ![o] = Head(q)]
        /\ lanes' = [lanes EXCEPT ![o][l] = Tail(q)]
        /\ drain' = [drain EXCEPT ![o] = "busy"]
    BY <1>2 DEF TakeNext
  <2>2. l \in {0, 1} /\ q \in Seq(Envelopes) /\ q # <<>>
    <3>1. lanes[o][0] \in Seq(Envelopes) /\ lanes[o][1] \in Seq(Envelopes)
      BY <1>1, MailCounts
    <3>2. lanes[o][1] = <<>> => lanes[o][0] # <<>>
      BY <1>2, <3>1 DEF MailboxSize
    <3> QED BY <3>1, <3>2
  <2> HIDE DEF l, q
  <2>3. Head(q) \in Envelopes /\ Tail(q) \in Seq(Envelopes)
    BY <2>2, HeadTailProperties
  <2>4. lanes'[o] = [lanes[o] EXCEPT ![l] = Tail(q)] /\ \A p \in Actors \ {o} : lanes'[p] = lanes[p]
    BY <2>1 DEF Boxes
  <2>5. lanes'[o] \in Lanes
    BY <1>1, <2>2, <2>3, <2>4 DEF Lanes
  <2>6. /\ drain'[o] = "busy" /\ handling'[o] \in Envelopes
        /\ \A p \in Actors \ {o} : drain'[p] = drain[p] /\ handling'[p] = handling[p]
    BY <2>1, <2>3 DEF Boxes
  <2>7. \A p \in Actors : Boxed(p)'
    BY <1>1, <1>2, <2>4, <2>5, <2>6 DEF Boxes, Boxed, Living
  <2>8. /\ lanes' = [p \in Actors |-> lanes'[p]]
        /\ drain' \in [Actors -> Drains] /\ handling' \in [Actors -> Envelopes \cup {NoEnvelope}]
    BY <2>1, <2>3 DEF Boxes, Drains
  <2> QED BY <1>1, <2>7, <2>8 DEF Boxes
<1>3. CASE ~(o \in alive /\ MailboxSize(o) > 0)
  <2>1. /\ handling' = [handling EXCEPT ![o] = NoEnvelope]
        /\ drain' = [drain EXCEPT ![o] = "idle"] /\ UNCHANGED lanes
    BY <1>3 DEF TakeNext
  <2>2. /\ drain'[o] = "idle"
        /\ \A p \in Actors \ {o} : drain'[p] = drain[p] /\ handling'[p] = handling[p]
    BY <2>1 DEF Boxes
  <2>3. \A p \in Actors : Boxed(p)'
    BY <1>1, <1>3, <2>1, <2>2 DEF Boxes, Boxed, Mail, MailboxSize
  <2>4. drain' \in [Actors -> Drains] /\ handling' \in [Actors -> Envelopes \cup {NoEnvelope}]
    BY <2>1 DEF Boxes, Drains
  <2> QED BY <1>1, <2>1, <2>3, <2>4 DEF Boxes
<1> QED BY <1>2, <1>3

-----------------------------------------------------------------------------
(* Sending a message, whoever does it.                                     *)
LEMMA Routed ==
  ASSUME MeshAssumption, Asked, NEW m \in Messages \ sent, RouteMessage(m), UNCHANGED replies
  PROVE  Asked' /\ \E R : Receive(R, [m |-> m, reply |-> FALSE])
<1>1. \E R : Receive(R, [m |-> m, reply |-> FALSE])
  BY DeliverReceives DEF RouteMessage
<1>2. sent' = sent \cup {m} /\ sent' \subseteq Messages
  BY DEF RouteMessage, Asked
<1>3. CASE m.kind = "ask"
  <2>1. m \in Asks /\ pending' = pending \cup {m} /\ promise' = [promise EXCEPT ![m] = "open"]
    BY <1>3, MessageParts DEF RouteMessage
  <2>2. promise' \in [Asks -> Promises]
    BY <2>1 DEF Asked, Promises
  <2>3. promise'[m] = "open" /\ \A a \in Asks \ {m} : promise'[a] = promise[a]
    BY <2>1 DEF Asked
  <2> QED BY <1>1, <1>2, <2>1, <2>2, <2>3 DEF Asked
<1>4. CASE m.kind # "ask"
  <2>1. UNCHANGED <<pending, promise>>
    BY <1>4 DEF RouteMessage, asks
  <2> QED BY <1>1, <1>2, <2>1 DEF Asked
<1> QED BY <1>3, <1>4

(* An ask that is settled.                                                 *)
LEMMA Settled ==
  ASSUME Asked, NEW m \in pending, NEW s \in Promises \ {"open", "none"},
         pending' = pending \ {m}, promise' = [promise EXCEPT ![m] = s], UNCHANGED sent,
         replies' \in [Messages -> 0 .. MaxReplies]
  PROVE  Asked'
<1>1. m \in Asks /\ promise[m] = "open"
  BY DEF Asked
<1>2. promise'[m] = s /\ \A a \in Asks \ {m} : promise'[a] = promise[a]
  BY <1>1 DEF Asked
<1>3. promise' \in [Asks -> Promises]
  BY <1>1 DEF Asked
<1> QED BY <1>1, <1>2, <1>3 DEF Asked, Promises

LEMMA CountsOn == ASSUME NEW m \in Nat, NEW n \in 0 .. m, n < m PROVE n + 1 \in 0 .. m
OBVIOUS

LEMMA RepliesCounted ==
  ASSUME MeshAssumption, Asked, NEW m \in Messages, replies[m] < MaxReplies,
         replies' = [replies EXCEPT ![m] = @ + 1]
  PROVE  replies' \in [Messages -> 0 .. MaxReplies]
<1>1. replies[m] \in 0 .. MaxReplies /\ MaxReplies \in Nat
  BY DEF Asked, MeshAssumption
<1>2. replies[m] + 1 \in 0 .. MaxReplies
  BY <1>1, CountsOn
<1> QED BY <1>2 DEF Asked

LEMMA RepliedTo ==
  ASSUME MeshAssumption, IInv, NEW m \in Messages, NEW i, replies[m] < MaxReplies,
         RouteReply(m, i), UNCHANGED <<life, handling, awaits, sent>>
  PROVE  Boxes' /\ Asked'
<1>1. replies' = [replies EXCEPT ![m] = @ + 1]
  BY DEF RouteReply
<1>2. replies' \in [Messages -> 0 .. MaxReplies]
  BY <1>1, RepliesCounted DEF IInv
<1>3. UNCHANGED <<spawned, alive>>
  BY DEF life
<1>4. CASE m \in pending
  <2>1. /\ pending' = pending \ {m} /\ promise' = [promise EXCEPT ![m] = "replied"]
        /\ UNCHANGED <<lanes, drain>>
    BY <1>4 DEF RouteReply
  <2>2. Asked'
    BY <1>2, <1>4, <2>1, Settled DEF IInv, Promises
  <2> QED BY <1>3, <2>1, <2>2 DEF IInv, Boxes, Boxed
<1>5. CASE m \notin pending
  <2>1. UNCHANGED <<pending, promise>> /\ Deliver([m |-> m, reply |-> TRUE], i)
    BY <1>5 DEF RouteReply, asks
  <2>2. awaits' \in [Actors -> Asks \cup {NoMessage}]
    BY <1>3 DEF IInv, Boxes
  <2>3. Boxes'
    BY <1>3, <2>1, <2>2, DeliverReceives, Envelope, Received DEF IInv
  <2>4. Asked'
    BY <1>2, <2>1 DEF IInv, Asked
  <2> QED BY <2>3, <2>4
<1> QED BY <1>4, <1>5

-----------------------------------------------------------------------------
LEMMA InitOK == ASSUME MeshAssumption, Init PROVE IInv
<1>1. /\ lanes = [o \in Actors |-> [l \in {0, 1} |-> <<>>]]
      /\ \A o \in Actors : drain[o] = "idle"
  BY DEF Init
<1>2. \A o \in Actors : lanes[o] \in Lanes /\ Mail(lanes[o]) = 0
  <2>1. \A o \in Actors : lanes[o] = [l \in {0, 1} |-> <<>>]
    BY <1>1
  <2> QED BY <2>1 DEF Lanes, Mail
<1>3. Boxes
  BY <1>1, <1>2 DEF Init, Boxes, Boxed, Drains
<1>4. Asked
  BY DEF Init, Asked, MeshAssumption, Promises
<1>5. Living
  <2>1. \A i \in Ids : registry[i] = IF \E o \in First : IdOf[o] = i
                                       THEN CHOOSE o \in First : IdOf[o] = i ELSE NoActor
    BY DEF Init
  <2>2. \A o \in First : registry[IdOf[o]] = o
    BY <2>1, IdsOfActors DEF MeshAssumption
  <2>3. registry \in [Ids -> Actors \cup {NoActor}]
    BY DEF Init, MeshAssumption
  <2> QED BY <2>2, <2>3 DEF Init, Living, MeshAssumption
<1> QED BY <1>3, <1>4, <1>5 DEF IInv

LEMMA SameAsks == ASSUME Asked, UNCHANGED <<asks, sent, replies>> PROVE Asked'
BY DEF Asked, asks

LEMMA SameLife == ASSUME Living, UNCHANGED life PROVE Living'
BY DEF Living, life

(* Mailboxes when nobody but those that lived before goes on living.       *)
LEMMA SameBoxes ==
  ASSUME Boxes, UNCHANGED boxes, UNCHANGED spawned, alive' \subseteq alive PROVE Boxes'
BY DEF Boxes, Boxed, boxes

LEMMA StepOK == ASSUME MeshAssumption, IInv, [Next]_vars PROVE IInv'
<1> USE DEF IInv
<1>1. ASSUME NEW m \in Messages, Sends(m) PROVE IInv'
  <2>1. m \in Messages \ sent /\ RouteMessage(m) /\ UNCHANGED <<life, handling, awaits, replies>>
    BY <1>1 DEF Sends
  <2>2. Asked' /\ \E R : Receive(R, [m |-> m, reply |-> FALSE])
    BY <2>1, Routed
  <2>3. awaits' \in [Actors -> Asks \cup {NoMessage}]
    BY <2>1 DEF Boxes
  <2>4. Boxes'
    BY <2>1, <2>2, <2>3, Envelope, Received DEF life
  <2> QED BY <2>1, <2>2, <2>4, SameLife
<1>2. ASSUME NEW m \in Messages, AskTimesOut(m) PROVE IInv'
  <2>1. /\ m \in pending /\ pending' = pending \ {m}
        /\ promise' = [promise EXCEPT ![m] = "timed out"]
        /\ UNCHANGED <<life, boxes, sent, replies>>
    BY <1>2 DEF AskTimesOut
  <2>2. Asked'
    BY <2>1, Settled DEF Asked, Promises
  <2> QED BY <2>1, <2>2, SameLife, SameBoxes DEF life
<1>3. ASSUME NEW o \in Actors, DrainStarts(o) \/ BehaviorEnds(o) PROVE IInv'
  <2>1. TakeNext(o)
    BY <1>3 DEF DrainStarts, BehaviorEnds
  <2>2. UNCHANGED <<life, asks, sent, replies>>
    BY <2>1 DEF TakeNext
  <2> QED BY <2>1, <2>2, Taken, SameAsks, SameLife
<1>4. ASSUME NEW o \in Actors, BehaviorResumes(o) PROVE IInv'
  <2>1. /\ awaits' = [awaits EXCEPT ![o] = NoMessage]
        /\ UNCHANGED <<life, asks, lanes, drain, handling, sent, replies>>
    BY <1>4 DEF BehaviorResumes
  <2>2. Boxes'
    BY <2>1 DEF Boxes, Boxed, life
  <2> QED BY <2>1, <2>2, SameAsks, SameLife
<1>5. ASSUME NEW o \in Actors, BehaviorReplies(o) PROVE IInv'
  <2>1. drain[o] = "busy" /\ handling[o] \in Envelopes
    BY <1>5 DEF BehaviorReplies, Active, Boxes, Boxed
  <2>2. handling[o].m \in Messages
    BY <2>1 DEF Envelopes
  <2>3. /\ replies[handling[o].m] < MaxReplies /\ RouteReply(handling[o].m, IdOf[o])
        /\ UNCHANGED <<life, handling, awaits, sent>>
    BY <1>5 DEF BehaviorReplies
  <2> QED BY <2>2, <2>3, RepliedTo, SameLife
<1>6. ASSUME NEW o \in Actors, NEW m \in Messages, NEW waits \in BOOLEAN, BehaviorSends(o, m, waits)
      PROVE  IInv'
  <2>1. /\ m \in Messages \ sent /\ RouteMessage(m) /\ UNCHANGED <<life, handling, replies>>
        /\ waits => m.kind = "ask"
        /\ awaits' = [awaits EXCEPT ![o] = IF waits THEN m ELSE NoMessage]
    BY <1>6 DEF BehaviorSends
  <2>2. awaits' \in [Actors -> Asks \cup {NoMessage}]
    BY <2>1, MessageParts DEF Boxes
  <2>3. Asked' /\ \E R : Receive(R, [m |-> m, reply |-> FALSE])
    BY <2>1, Routed
  <2>4. Boxes'
    BY <2>1, <2>2, <2>3, Envelope, Received DEF IInv, life
  <2> QED BY <2>1, <2>3, <2>4, SameLife
<1>7. ASSUME NEW o \in Actors, BehaviorStops(o) PROVE IInv'
  <2>1. alive' = alive \ {o} /\ UNCHANGED <<registry, spawned, system, boxes, asks, sent, replies>>
    BY <1>7 DEF BehaviorStops
  <2>2. Living'
    BY <2>1 DEF Living
  <2> QED BY <2>1, <2>2, SameBoxes, SameAsks
<1>8. ASSUME NEW i \in Ids, Stop(i) PROVE IInv'
  <2>1. /\ alive' = alive \ {registry[i]} /\ registry' = [registry EXCEPT ![i] = NoActor]
        /\ UNCHANGED <<spawned, system, boxes, asks, sent, replies>>
    BY <1>8 DEF Stop
  <2>2. \A o \in alive' : registry'[IdOf[o]] = o
    BY <2>1, IdsOfActors DEF Living
  <2>3. registry' \in [Ids -> Actors \cup {NoActor}]
    BY <2>1 DEF Living
  <2> QED BY <2>1, <2>2, <2>3, SameBoxes, SameAsks DEF Living
<1>9. ASSUME NEW o \in Actors, Spawn(o) PROVE IInv'
  <2>1. /\ system = "up" /\ o \notin spawned /\ registry[IdOf[o]] = NoActor
        /\ spawned' = spawned \cup {o} /\ alive' = alive \cup {o}
        /\ registry' = [registry EXCEPT ![IdOf[o]] = o]
        /\ UNCHANGED <<system, boxes, asks, sent, replies>>
    BY <1>9 DEF Spawn
  <2>2. \A p \in alive : IdOf[p] # IdOf[o]
    BY <2>1 DEF Living, MeshAssumption
  <2>3. registry' \in [Ids -> Actors \cup {NoActor}] /\ registry'[IdOf[o]] = o
        /\ \A p \in alive : registry'[IdOf[p]] = p
    BY <2>1, <2>2, IdsOfActors DEF Living
  <2>4. Living'
    BY <2>1, <2>3 DEF Living
  <2>5. Boxes'
    <3>1. Mail(lanes[o]) = 0
      BY <2>1 DEF Boxes, Boxed
    <3>2. \A p \in Actors : Boxed(p)'
      BY <2>1, <3>1 DEF Boxes, Boxed, boxes
    <3> QED BY <2>1, <3>2 DEF Boxes, boxes
  <2> QED BY <2>1, <2>4, <2>5, SameAsks
<1>10. ASSUME ShutdownStarts PROVE IInv'
  <2>1. /\ system' = "stopping" /\ alive' = alive \ {registry[i] : i \in Ids}
        /\ UNCHANGED <<registry, spawned, boxes, asks, sent, replies>>
    BY <1>10 DEF ShutdownStarts
  <2>2. \A o \in alive : IdOf[o] \in Ids /\ registry[IdOf[o]] = o
    BY IdsOfActors DEF Living
  <2>3. alive' = {}
    BY <2>1, <2>2
  <2>4. Living'
    BY <2>1, <2>3 DEF Living
  <2> QED BY <2>1, <2>4, SameBoxes, SameAsks
<1>11. ASSUME RouterDestroyed PROVE IInv'
  <2>1. /\ alive = {} /\ system' = "down" /\ registry' = [i \in Ids |-> NoActor]
        /\ pending' = {}
        /\ promise' = [m \in Asks |-> IF m \in pending THEN "rejected" ELSE promise[m]]
        /\ UNCHANGED <<spawned, alive, boxes, sent, replies>>
    BY <1>11 DEF RouterDestroyed, Living
  <2>2. Living'
    BY <2>1 DEF Living
  <2>3. Asked'
    BY <2>1 DEF Asked, Promises
  <2> QED BY <2>1, <2>2, <2>3, SameBoxes
<1>12. ASSUME UNCHANGED vars PROVE IInv'
  BY <1>12, SameLife, SameBoxes, SameAsks DEF vars, life
<1> QED
  BY <1>1, <1>2, <1>3, <1>4, <1>5, <1>6, <1>7, <1>8, <1>9, <1>10, <1>11, <1>12
     DEF Next, Behaves

-----------------------------------------------------------------------------
(* Whatever is sent, stopped, spawned again and replied to twice or late:  *)
(* no mail of a living actor is forgotten, the router waits for just the   *)
(* asks that are open, and one actor at most answers to an id (actor.ts,   *)
(* mesh-router.ts).                                                        *)
THEOREM MeshKeepsItsPromises ==
  ASSUME MeshAssumption
  PROVE  Spec => [](TypeOK /\ NoneStranded /\ PendingIsOpen /\ OneSuccessor)
<1>1. IInv => TypeOK
  BY MailCounts DEF IInv, Boxes, Boxed, Asked, Living, TypeOK, Lanes, Drains, Promises
<1>2. IInv => NoneStranded
  BY DEF IInv, Boxes, Boxed, Living, NoneStranded, Mail, MailboxSize
<1>3. IInv => PendingIsOpen
  BY DEF IInv, Asked, PendingIsOpen
<1>4. IInv => OneSuccessor
  BY DEF IInv, Living, OneSuccessor
<1> QED BY <1>1, <1>2, <1>3, <1>4, InitOK, StepOK, PTL DEF Spec

(* What an ask came to stands: late replies, second replies, timers and    *)
(* the end of the router find it settled (the pending map of mesh-router). *)
AnswerStands ==
    [][\A m \in Asks : promise[m] \notin {"none", "open"} => promise'[m] = promise[m]]_vars

THEOREM AsksSettleOnce == ASSUME MeshAssumption PROVE Spec => AnswerStands
<1> DEFINE Stands == \A m \in Asks : promise[m] \notin {"none", "open"} => promise'[m] = promise[m]
<1>1. ASSUME IInv, [Next]_vars PROVE Stands
  <2>1. ASSUME NEW m \in Messages \ sent, RouteMessage(m) PROVE Stands
    BY <1>1, <2>1, MessageParts DEF RouteMessage, IInv, Asked, asks
  <2>2. ASSUME NEW m, NEW i, RouteReply(m, i) PROVE Stands
    BY <1>1, <2>2 DEF RouteReply, IInv, Asked, asks
  <2>3. ASSUME NEW m \in Messages, AskTimesOut(m) PROVE Stands
    BY <1>1, <2>3 DEF AskTimesOut, IInv, Asked
  <2>4. CASE RouterDestroyed
    BY <1>1, <2>4 DEF RouterDestroyed, IInv, Asked
  <2>5. CASE UNCHANGED promise
    BY <2>5
  <2>6. ASSUME NEW o \in Actors PROVE DrainStarts(o) \/ BehaviorEnds(o) \/ BehaviorResumes(o)
                                     \/ BehaviorStops(o) \/ Spawn(o) => UNCHANGED promise
    BY DEF DrainStarts, BehaviorEnds, TakeNext, BehaviorResumes, BehaviorStops, Spawn, asks
  <2>7. ASSUME NEW i \in Ids PROVE Stop(i) => UNCHANGED promise
    BY DEF Stop, asks
  <2>8. ShutdownStarts \/ UNCHANGED vars => UNCHANGED promise
    BY DEF ShutdownStarts, vars, asks
  <2> QED BY <1>1, <2>1, <2>2, <2>3, <2>4, <2>5, <2>6, <2>7, <2>8
          DEF Next, Behaves, Sends, BehaviorReplies, BehaviorSends
<1>2. Spec => []IInv
  BY InitOK, StepOK, PTL DEF Spec
<1> QED BY <1>1, <1>2, PTL DEF Spec, AnswerStands
=============================================================================
