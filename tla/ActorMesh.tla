------------------------------- MODULE ActorMesh -------------------------------
(***************************************************************************)
(* Actors of one node that tell and ask each other things                  *)
(* (packages/sutra/src/mesh: actor.ts, actor-mailbox.ts, mesh-router.ts,   *)
(* actor-system.ts).                                                       *)
(*                                                                         *)
(* An actor handles one envelope at a time; while its behaviour awaits the *)
(* answer to an ask of its own, the others go on.  An id may be stopped    *)
(* and spawned again: the actor objects of an id follow each other, but    *)
(* the old one finishes what it has begun.                                 *)
(*                                                                         *)
(* What is sent is planned: each message has its sender, its receiver and  *)
(* its lane, and is sent once at most.  Two lanes stand for the four.      *)
(* Left out: time to live, which only counts between nodes, topics,        *)
(* capabilities, peers, what learners record, and actors that are spawned  *)
(* or stopped once the system shuts down.                                  *)
(***************************************************************************)
EXTENDS Naturals, Sequences, FiniteSets

CONSTANTS
    Actors, IdOf,       \* actor objects, and the id of each
    Outside,            \* a sender that is no actor
    Everyone,           \* the receiver of a broadcast
    Messages,           \* each with from, to, kind and lane
    First,              \* the actors that are there at first
    MaxMailbox,
    MaxReplies,         \* bound: replies to a message
    NoActor, NoMessage

Ids == {IdOf[o] : o \in Actors}

MeshAssumption ==
    /\ \A m \in Messages : /\ m.from \in Ids \cup {Outside} /\ m.to \in Ids \cup {Everyone}
                           /\ m.kind \in {"tell", "ask"} /\ m.lane \in {0, 1}
    /\ First \subseteq Actors /\ NoActor \notin Actors
    /\ \A o, p \in First : IdOf[o] = IdOf[p] => o = p
    /\ {MaxMailbox, MaxReplies} \subseteq Nat

VARIABLES
    registry,       \* the actor of each id
    spawned, alive,
    lanes,          \* the mailbox of each actor
    drain,          \* "idle", "scheduled" or "busy"; processing unless idle
    handling,       \* what its behaviour works on
    awaits,         \* and the ask it waits for
    sent,
    replies,        \* how many there were to each message
    pending,        \* asks the router waits for
    promise,        \* what an ask came to
    system          \* "up", "stopping" or "down"

boxes == <<lanes, drain, handling, awaits>>
asks == <<pending, promise>>
life == <<registry, spawned, alive, system>>
vars == <<life, boxes, asks, sent, replies>>

Asks == {m \in Messages : m.kind = "ask"}
Envelopes == [m : Messages, reply : BOOLEAN]
NoEnvelope == [m |-> NoMessage, reply |-> FALSE]

To(e) == IF e.reply THEN e.m.from ELSE e.m.to

MailboxSize(o) == Len(lanes[o][0]) + Len(lanes[o][1])

-----------------------------------------------------------------------------
(***************************************************************************)
(* Actor.receive, for all that get an envelope, with the lanes and drains  *)
(* as they are by then.                                                    *)
(***************************************************************************)
Accepts(o, lns) == o \in alive /\ Len(lns[o][0]) + Len(lns[o][1]) < MaxMailbox

Receive(R, e) ==
    LET in == {o \in R : Accepts(o, lanes)} IN
    /\ lanes' = [o \in Actors |->
                    IF o \in in THEN [lanes[o] EXCEPT ![e.m.lane] = Append(@, e)] ELSE lanes[o]]
    /\ drain' = [o \in Actors |->
                    IF o \in in /\ drain[o] = "idle" THEN "scheduled" ELSE drain[o]]

(* What the router does with an envelope that is no awaited reply. *)
Deliver(e, sender) ==
    Receive(IF To(e) = Everyone THEN {registry[i] : i \in Ids \ {sender}} \ {NoActor}
            ELSE IF To(e) \in Ids \ {sender} THEN {registry[To(e)]} \ {NoActor}
            ELSE {},
            e)

(* An ask is registered before it is delivered. *)
RouteMessage(m) ==
    /\ sent' = sent \cup {m}
    /\ IF m.kind = "ask"
         THEN /\ pending' = pending \cup {m}
              /\ promise' = [promise EXCEPT ![m] = "open"]
         ELSE UNCHANGED asks
    /\ Deliver([m |-> m, reply |-> FALSE], m.from)

RouteReply(m, sender) ==
    /\ replies' = [replies EXCEPT ![m] = @ + 1]
    /\ IF m \in pending
         THEN /\ pending' = pending \ {m}
              /\ promise' = [promise EXCEPT ![m] = "replied"]
              /\ UNCHANGED <<lanes, drain>>
         ELSE /\ UNCHANGED asks
              /\ Deliver([m |-> m, reply |-> TRUE], sender)

-----------------------------------------------------------------------------
(* tell, ask and broadcast from outside. *)
Sends(m) ==
    /\ m \notin sent /\ m.from = Outside
    /\ RouteMessage(m)
    /\ UNCHANGED <<life, handling, awaits, replies>>

AskTimesOutOnly(m) ==
    /\ m \in pending
    /\ promise' = [promise EXCEPT ![m] = "timed out"]
    /\ UNCHANGED <<life, boxes, pending, sent, replies>>

AskTimesOut(m) ==
    /\ m \in pending
    /\ pending' = pending \ {m}
    /\ promise' = [promise EXCEPT ![m] = "timed out"]
    /\ UNCHANGED <<life, boxes, sent, replies>>

(* The loop of drain, up to the next behaviour or its end. *)
TakeNext(o) ==
    /\ UNCHANGED <<life, asks, awaits, sent, replies>>
    /\ IF o \in alive /\ MailboxSize(o) > 0
         THEN LET l == IF lanes[o][1] # <<>> THEN 1 ELSE 0 IN
              /\ handling' = [handling EXCEPT ![o] = Head(lanes[o][l])]
              /\ lanes' = [lanes EXCEPT ![o][l] = Tail(@)]
              /\ drain' = [drain EXCEPT ![o] = "busy"]
         ELSE /\ handling' = [handling EXCEPT ![o] = NoEnvelope]
              /\ drain' = [drain EXCEPT ![o] = "idle"]
              /\ UNCHANGED lanes

DrainStarts(o) == drain[o] = "scheduled" /\ TakeNext(o)

Active(o) == drain[o] = "busy" /\ awaits[o] = NoMessage

BehaviorEnds(o) == Active(o) /\ TakeNext(o)

BehaviorReplies(o) ==
    LET e == handling[o] IN
    /\ Active(o) /\ ~e.reply
    /\ replies[e.m] < MaxReplies
    /\ RouteReply(e.m, IdOf[o])
    /\ UNCHANGED <<life, handling, awaits, sent>>

BehaviorSends(o, m, waits) ==
    /\ Active(o) /\ m \notin sent /\ m.from = IdOf[o]
    /\ waits => m.kind = "ask"
    /\ RouteMessage(m)
    /\ awaits' = [awaits EXCEPT ![o] = IF waits THEN m ELSE NoMessage]
    /\ UNCHANGED <<life, handling, replies>>

(* The answer came, or the timeout. *)
BehaviorResumes(o) ==
    /\ awaits[o] # NoMessage /\ awaits[o] \notin pending
    /\ awaits' = [awaits EXCEPT ![o] = NoMessage]
    /\ UNCHANGED <<life, asks, lanes, drain, handling, sent, replies>>

(* ctx.stop: the router is not told. *)
BehaviorStops(o) ==
    /\ Active(o) /\ o \in alive
    /\ alive' = alive \ {o}
    /\ UNCHANGED <<registry, spawned, system, boxes, asks, sent, replies>>

-----------------------------------------------------------------------------
(***************************************************************************)
(* The life of actors and of the system.                                   *)
(***************************************************************************)
Stop(i) ==
    /\ system = "up" /\ registry[i] # NoActor
    /\ alive' = alive \ {registry[i]}
    /\ registry' = [registry EXCEPT ![i] = NoActor]
    /\ UNCHANGED <<spawned, system, boxes, asks, sent, replies>>

Spawn(o) ==
    /\ system = "up" /\ o \notin spawned /\ registry[IdOf[o]] = NoActor
    /\ spawned' = spawned \cup {o} /\ alive' = alive \cup {o}
    /\ registry' = [registry EXCEPT ![IdOf[o]] = o]
    /\ UNCHANGED <<system, boxes, asks, sent, replies>>

(* shutdown waits for other things between the two. *)
ShutdownStarts ==
    /\ system = "up" /\ system' = "stopping"
    /\ alive' = alive \ {registry[i] : i \in Ids}
    /\ UNCHANGED <<registry, spawned, boxes, asks, sent, replies>>

RouterDestroyed ==
    /\ system = "stopping" /\ system' = "down"
    /\ registry' = [i \in Ids |-> NoActor]
    /\ pending' = {}
    /\ promise' = [m \in Asks |-> IF m \in pending THEN "rejected" ELSE promise[m]]
    /\ UNCHANGED <<spawned, alive, boxes, sent, replies>>

Init ==
    /\ registry = [i \in Ids |-> IF \E o \in First : IdOf[o] = i
                                   THEN CHOOSE o \in First : IdOf[o] = i ELSE NoActor]
    /\ spawned = First /\ alive = First
    /\ lanes = [o \in Actors |-> [l \in {0, 1} |-> <<>>]]
    /\ drain = [o \in Actors |-> "idle"]
    /\ handling = [o \in Actors |-> NoEnvelope]
    /\ awaits = [o \in Actors |-> NoMessage]
    /\ sent = {} /\ replies = [m \in Messages |-> 0]
    /\ pending = {} /\ promise = [m \in Asks |-> "none"]
    /\ system = "up"

Behaves(o) == BehaviorEnds(o) \/ BehaviorResumes(o) \/ DrainStarts(o)

Next ==
    \/ \E m \in Messages : Sends(m) \/ AskTimesOut(m)
    \/ \E o \in Actors : \/ Behaves(o) \/ BehaviorReplies(o) \/ BehaviorStops(o) \/ Spawn(o)
                         \/ \E m \in Messages, waits \in BOOLEAN : BehaviorSends(o, m, waits)
    \/ \E i \in Ids : Stop(i)
    \/ ShutdownStarts \/ RouterDestroyed

Spec == Init /\ [][Next]_vars

(* Timers fire, microtasks run, and behaviours end once they have nothing  *)
(* to wait for.                                                            *)
Fairness ==
    /\ WF_vars(\E m \in Messages : AskTimesOut(m))
    /\ WF_vars(\E o \in Actors : Behaves(o))

FairSpec == Spec /\ Fairness

-----------------------------------------------------------------------------
TypeOK ==
    /\ registry \in [Ids -> Actors \cup {NoActor}]
    /\ spawned \subseteq Actors /\ alive \subseteq spawned
    /\ \A o \in Actors : \A l \in {0, 1} : lanes[o][l] \in Seq(Envelopes)
    /\ drain \in [Actors -> {"idle", "scheduled", "busy"}]
    /\ handling \in [Actors -> Envelopes \cup {NoEnvelope}]
    /\ awaits \in [Actors -> Asks \cup {NoMessage}]
    /\ sent \subseteq Messages /\ replies \in [Messages -> 0 .. MaxReplies]
    /\ pending \subseteq sent
    /\ promise \in [Asks -> {"none", "open", "replied", "timed out", "rejected"}]
    /\ system \in {"up", "stopping", "down"}

(* No envelope lies in the mailbox of a living actor that is not going to  *)
(* look, however sends, stops and ends of behaviours come together.        *)
NoneStranded == \A o \in alive : MailboxSize(o) > 0 => drain[o] # "idle"

(* The router waits for just the asks whose callers still wait, whatever   *)
(* was replied twice, late, or to an ask that had timed out.               *)
PendingIsOpen == pending = {m \in Asks : promise[m] = "open"}

(* Of the actors of an id one at most can take anything in. *)
OneSuccessor == \A o, p \in alive : IdOf[o] = IdOf[p] => o = p

NobodyAsks == pending = {} /\ \A o \in alive : MailboxSize(o) = 0 /\ awaits[o] = NoMessage

(* No ask stays open and no mailbox of a living actor full, although       *)
(* actors may wait for each other in a circle: the timeouts break it.      *)
AsksEnd == []<>NobodyAsks

-----------------------------------------------------------------------------
(***************************************************************************)
(* Expected to fail.                                                       *)
(***************************************************************************)

(* packages/sutra/src/mesh/actor.ts:11: "maintaining the guarantee that an *)
(* actor processes at most one message at a time".  A stopped actor goes   *)
(* on with its message while one spawned under its id begins.              *)
OneAtATime ==
    \A o, p \in Actors : drain[o] = "busy" /\ drain[p] = "busy" /\ IdOf[o] = IdOf[p] => o = p
=============================================================================
