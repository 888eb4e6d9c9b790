---------------------------- MODULE HubMessages ----------------------------
(***************************************************************************)
(* Messages through the communication hub: subscriptions of agents to one  *)
(* topic, and requests that wait for a reply.                              *)
(*                                                                         *)
(* The code is CommHub in packages/sutra/src/hub.ts (send, request, reply, *)
(* subscribe, destroy).  Delivery is synchronous: the handler of the       *)
(* receiver runs inside send and may reply from there.  What a message     *)
(* says, the history of a channel and the other topics are left out.       *)
(***************************************************************************)
EXTENDS Integers, FiniteSets

CONSTANTS
    Agents,
    Subs,           \* calls of subscribe
    AgentOf,        \* which agent makes a subscription
    Requests,       \* calls of request; the receiver is TargetOf
    TargetOf,
    Careful,        \* TRUE: an agent ends its subscription, once, before the next
    None

MessagesAssumption ==
    /\ AgentOf \in [Subs -> Agents]
    /\ TargetOf \in [Requests -> Agents]
    /\ Careful \in BOOLEAN
    /\ None \notin Subs

VARIABLES
    chan,           \* number of the topic's channel object, 0 if there is none
    chans,          \* channel objects made so far
    subscribers,    \* per channel object, the agents subscribed
    handlers,       \* per agent, the subscription whose handler is called
    sub,            \* per subscription, "new", "on" or "off"
    chanOf,         \* the channel object its unsubscribe function refers to
    pending,        \* pendingReplies
    req,            \* per request, "new", "open", "answered" or "rejected"
    delivered,      \* requests whose receiver got the message
    inTime,         \* requests somebody replied to while they were open
    destroyed

subVars == <<chan, chans, subscribers, handlers, sub, chanOf>>
reqVars == <<pending, req, delivered, inTime>>
vars == <<subVars, reqVars, destroyed>>

ChanIds == 0..Cardinality(Subs)

-----------------------------------------------------------------------------
Init ==
    /\ chan = 0 /\ chans = 0
    /\ subscribers = [g \in ChanIds |-> {}]
    /\ handlers = [a \in Agents |-> None]
    /\ sub = [s \in Subs |-> "new"]
    /\ chanOf = [s \in Subs |-> 0]
    /\ pending = {} /\ delivered = {} /\ inTime = {}
    /\ req = [r \in Requests |-> "new"]
    /\ destroyed = FALSE

(* subscribe: the channel is made if there is none; the handler of the     *)
(* same agent's earlier subscription is replaced.                          *)
Subscribe(s) ==
    /\ ~destroyed
    /\ sub[s] = "new"
    /\ Careful => \A t \in Subs : AgentOf[t] = AgentOf[s] => sub[t] # "on"
    /\ chans' = IF chan = 0 THEN chans + 1 ELSE chans
    /\ chan' = IF chan = 0 THEN chans' ELSE chan
    /\ subscribers' = [subscribers EXCEPT ![chan'] = @ \cup {AgentOf[s]}]
    /\ handlers' = [handlers EXCEPT ![AgentOf[s]] = s]
    /\ sub' = [sub EXCEPT ![s] = "on"]
    /\ chanOf' = [chanOf EXCEPT ![s] = chan']
    /\ UNCHANGED <<reqVars, destroyed>>

(* The function subscribe returned.  It keeps the channel object it was    *)
(* made with, and finds the handlers by the topic.                         *)
Unsubscribe(s) ==
    /\ sub[s] = "on" \/ (~Careful /\ sub[s] = "off")
    /\ sub' = [sub EXCEPT ![s] = "off"]
    /\ subscribers' = [subscribers EXCEPT ![chanOf[s]] = @ \ {AgentOf[s]}]
    /\ IF subscribers'[chanOf[s]] = {}
       THEN /\ chan' = 0
            /\ handlers' = [a \in Agents |-> None]
       ELSE /\ handlers' = [handlers EXCEPT ![AgentOf[s]] = None]
            /\ UNCHANGED chan
    /\ UNCHANGED <<chans, chanOf, reqVars, destroyed>>

(* The slip that registers the request after it was sent: a reply from the *)
(* handler comes too early.                                                *)
RequestThenRegister(r, now) ==
    LET heard == handlers[TargetOf[r]] # None
    IN  /\ ~destroyed
        /\ req[r] = "new"
        /\ now => heard
        /\ delivered' = IF heard THEN delivered \cup {r} ELSE delivered
        /\ inTime' = IF now THEN inTime \cup {r} ELSE inTime
        /\ req' = [req EXCEPT ![r] = "open"]
        /\ pending' = pending \cup {r}
        /\ UNCHANGED <<subVars, destroyed>>

(* request: registered, then delivered to the receiver's handler if there  *)
(* is one, which may reply at once.                                        *)
Request(r, now) ==
    LET heard == handlers[TargetOf[r]] # None
    IN  /\ ~destroyed
        /\ req[r] = "new"
        /\ now => heard
        /\ delivered' = IF heard THEN delivered \cup {r} ELSE delivered
        /\ inTime' = IF now THEN inTime \cup {r} ELSE inTime
        /\ req' = [req EXCEPT ![r] = IF now THEN "answered" ELSE "open"]
        /\ pending' = IF now THEN pending ELSE pending \cup {r}
        /\ UNCHANGED <<subVars, destroyed>>

(* reply, for the first or a further time: if the request is no longer     *)
(* registered, the reply goes to the subscribers of a topic of its own.    *)
Reply(r) ==
    /\ ~destroyed
    /\ r \in delivered
    /\ inTime' = IF req[r] = "open" THEN inTime \cup {r} ELSE inTime
    /\ req' = [req EXCEPT ![r] = IF r \in pending THEN "answered" ELSE @]
    /\ pending' = pending \ {r}
    /\ UNCHANGED <<subVars, delivered, destroyed>>

(* The timer of the request.                                               *)
TimeOut(r) ==
    /\ r \in pending
    /\ pending' = pending \ {r}
    /\ req' = [req EXCEPT ![r] = "rejected"]
    /\ UNCHANGED <<subVars, delivered, inTime, destroyed>>

(* The slip that clears the timers and rejects nobody.                     *)
DestroyQuietly ==
    /\ ~destroyed
    /\ destroyed' = TRUE
    /\ pending' = {}
    /\ chan' = 0
    /\ handlers' = [a \in Agents |-> None]
    /\ UNCHANGED <<chans, subscribers, sub, chanOf, req, delivered, inTime>>

Destroy ==
    /\ ~destroyed
    /\ destroyed' = TRUE
    /\ pending' = {}
    /\ req' = [r \in Requests |-> IF r \in pending THEN "rejected" ELSE req[r]]
    /\ chan' = 0
    /\ handlers' = [a \in Agents |-> None]
    /\ UNCHANGED <<chans, subscribers, sub, chanOf, delivered, inTime>>

Next ==
    \/ \E s \in Subs : Subscribe(s) \/ Unsubscribe(s)
    \/ \E r \in Requests :
          (\E now \in BOOLEAN : Request(r, now)) \/ Reply(r) \/ TimeOut(r)
    \/ Destroy

Spec == Init /\ [][Next]_vars

(* Timers fire; nobody has to reply.                                       *)
Fairness == WF_vars(\E r \in Requests : TimeOut(r))

FairSpec == Spec /\ Fairness

-----------------------------------------------------------------------------
(* The variables stay in their types.                                      *)
TypeOK ==
    /\ chan \in ChanIds /\ chans \in ChanIds
    /\ subscribers \in [ChanIds -> SUBSET Agents]
    /\ handlers \in [Agents -> Subs \cup {None}]
    /\ sub \in [Subs -> {"new", "on", "off"}]
    /\ chanOf \in [Subs -> ChanIds]
    /\ pending \subseteq Requests
    /\ req \in [Requests -> {"new", "open", "answered", "rejected"}]
    /\ delivered \subseteq Requests /\ inTime \subseteq Requests
    /\ destroyed \in BOOLEAN

(* A subscription that was not ended is the one whose handler is called:   *)
(* neither the end of another one nor a new channel object takes it away.  *)
SubscribedIsHeard ==
    ~destroyed => \A s \in Subs : sub[s] = "on" => handlers[AgentOf[s]] = s

(* A handler that is called belongs to a subscription that was not ended.  *)
HeardIsSubscribed ==
    \A a \in Agents : handlers[a] # None => sub[handlers[a]] = "on"

(* The book of open requests is exactly the promises that are pending.     *)
PendingIsOpen == pending = {r \in Requests : req[r] = "open"}

(* A reply that was given while the request was open, be it from inside    *)
(* the delivery, reaches the requester: it is not lost and not overtaken   *)
(* by the timeout.                                                         *)
ReplyReaches == \A r \in inTime : req[r] = "answered"

NoneOpen == \A r \in Requests : req[r] # "open"

(* Every request is answered or rejected, also if the receiver does not    *)
(* exist, unsubscribes, or the hub is destroyed.                           *)
RequestSettles == []<>NoneOpen

-----------------------------------------------------------------------------
(* Expected to fail: what the repository says of the program.              *)

(* "Subscribe an agent to a topic. Returns an unsubscribe function."       *)
(* (hub.ts:168): it unsubscribes that agent.  An agent that subscribed and *)
(* ended no subscription is called, whatever others end.                   *)
OthersUndisturbed ==
    ~destroyed =>
        \A a \in Agents :
            LET mine == {s \in Subs : AgentOf[s] = a}
            IN  ((\E s \in mine : sub[s] = "on") /\ (\A s \in mine : sub[s] # "off"))
                => handlers[a] \in mine
=============================================================================
