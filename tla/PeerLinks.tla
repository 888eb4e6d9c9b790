------------------------------ MODULE PeerLinks ------------------------------
(***************************************************************************)
(* The connection of a node to a peer it dials (packages/sutra/src/mesh:   *)
(* peer-connection.ts, ws-peer-channel.ts).                                *)
(*                                                                         *)
(* Each attempt makes a channel and a ManagedPeer of its own, which        *)
(* replaces the one before in the map; here the two are one.  Timers to    *)
(* reconnect belong to the ManagedPeer they were set for, several at a     *)
(* time if it comes to that, and events of any channel that still has its  *)
(* listener are taken for events of the one in the map.  The peer closes   *)
(* what it had from this node when the node connects once more.            *)
(*                                                                         *)
(* A channel that can neither be reached nor do anything is used again.    *)
(* Left out: authentication by secret and its nonces, discovery, the       *)
(* guard, connections that peers make, and the growth of the delays.       *)
(***************************************************************************)
EXTENDS Naturals, FiniteSets

CONSTANTS
    Channels, NoChannel,    \* bound: as many at a time
    MaxReconnectAttempts,
    MaxTimers,              \* bound: timers of a channel
    MaxFaults               \* bound: failed dials, lost connections, missed pings

LinksAssumption ==
    /\ Channels # {} /\ NoChannel \notin Channels
    /\ {MaxReconnectAttempts, MaxTimers, MaxFaults} \subseteq Nat

VARIABLES
    running,
    current,        \* the channel in the map of peers
    link,           \* "idle", "dialing", "cut" (while dialing) or "open"
    heard,          \* channels whose events the manager gets
    attempts,       \* reconnectAttempts of each channel's ManagedPeer
    timers,         \* how many it has running
    replaced,       \* open channels the peer has closed
    faults

vars == <<running, current, link, heard, attempts, timers, replaced, faults>>

(* What the steps below change, as one record. *)
Here == [current |-> current, link |-> link, heard |-> heard,
         attempts |-> attempts, timers |-> timers]

Becomes(s) ==
    /\ current' = s.current /\ link' = s.link /\ heard' = s.heard
    /\ attempts' = s.attempts /\ timers' = s.timers
    /\ replaced' = {c \in replaced : s.link[c] = "open"}

Fault == faults < MaxFaults /\ faults' = faults + 1

-----------------------------------------------------------------------------
Severed(l) == IF l \in {"dialing", "cut"} THEN "cut" ELSE "idle"

(* WsPeerChannel.destroy, but for what the listener does. *)
Destroyed(s, c) ==
    [s EXCEPT !.link[c] = Severed(@), !.heard = @ \ {c}]

(* scheduleReconnect, for the ManagedPeer in the map.  Giving up destroys  *)
(* the channel, whose event leads back here until the stack is used up,    *)
(* which the emitter of the event catches.                                 *)
Scheduled(s) ==
    LET p == s.current IN
    IF p = NoChannel \/ ~running THEN s
    ELSE IF s.attempts[p] + 1 > MaxReconnectAttempts
      THEN [Destroyed(s, p) EXCEPT !.current = NoChannel]
    ELSE [s EXCEPT !.attempts[p] = @ + 1, !.timers[p] = @ + 1]

(* handlePeerEvent, when a channel tells that it is disconnected. *)
Tells(s, c) == IF c \in s.heard THEN Scheduled(s) ELSE s

(* destroy, with the event it tells before its listeners are gone. *)
Destroy(s, c) == Destroyed(Tells([s EXCEPT !.link[c] = Severed(@)], c), c)

Usable(c) == current # c /\ link[c] = "idle" /\ timers[c] = 0

(* createChannel, and the dial that follows. *)
Dialed(s, c) ==
    [s EXCEPT !.current = c, !.heard = @ \cup {c}, !.attempts[c] = 0, !.link[c] = "dialing"]

-----------------------------------------------------------------------------
(* start, with connectToPeer for an endpoint of the configuration. *)
Init ==
    LET c == CHOOSE c \in Channels : TRUE IN
    /\ running = TRUE /\ current = c /\ heard = {c}
    /\ link = [d \in Channels |-> IF d = c THEN "dialing" ELSE "idle"]
    /\ attempts = [d \in Channels |-> 0] /\ timers = [d \in Channels |-> 0]
    /\ replaced = {} /\ faults = 0

(* The peer accepts, and closes what it had from this node before. *)
Connects(c) ==
    /\ link[c] = "dialing"
    /\ link' = [link EXCEPT ![c] = "open"]
    /\ replaced' = {d \in Channels : link[d] = "open"}
    /\ UNCHANGED <<running, current, heard, attempts, timers, faults>>

(* connect throws; connectToPeer or the timer that dialed goes on. *)
DialFails(c) ==
    /\ \/ link[c] = "dialing" /\ Fault
       \/ link[c] = "cut" /\ UNCHANGED faults
    /\ Becomes(Scheduled([Here EXCEPT !.link[c] = "idle"]))
    /\ UNCHANGED running

(* The close event of the socket. *)
Closes(c) ==
    /\ link[c] = "open"
    /\ IF c \in replaced THEN UNCHANGED faults ELSE Fault
    /\ Becomes(Tells([Here EXCEPT !.link[c] = "idle"], c))
    /\ UNCHANGED running

(* Too many pings without an answer.  The manager destroys the channel in  *)
(* the map; then the channel itself, if it has still a listener, tells     *)
(* that it is disconnected.                                                *)
PingsMissed(c) ==
    /\ link[c] = "open" /\ Fault
    /\ LET told == IF c \in heard /\ current # NoChannel THEN Destroy(Here, current) ELSE Here IN
       Becomes(Tells([told EXCEPT !.link[c] = "idle"], c))
    /\ UNCHANGED running

(* The body of the timer. *)
TimerFires(p) ==
    /\ timers[p] > 0
    /\ LET s == [Here EXCEPT !.timers[p] = @ - 1] IN
       IF ~running THEN Becomes(s)
       ELSE LET rest == {c \in Channels \ {p} : Usable(c)} IN
            /\ rest # {}
            /\ Becomes(Dialed(Destroy(s, p), CHOOSE c \in rest : TRUE))
    /\ UNCHANGED <<running, faults>>

Stop ==
    /\ running /\ running' = FALSE
    /\ Becomes(IF current = NoChannel THEN Here
               ELSE [Destroyed(Here, current) EXCEPT !.current = NoChannel])
    /\ UNCHANGED faults

(* The bound. *)
Bounded == \A c \in Channels : timers'[c] <= MaxTimers

Next ==
    /\ \/ \E c \in Channels :
            Connects(c) \/ DialFails(c) \/ Closes(c) \/ PingsMissed(c) \/ TimerFires(c)
       \/ Stop
    /\ Bounded

Spec == Init /\ [][Next]_vars

Fairness ==
    \A c \in Channels :
        /\ WF_vars(Connects(c) \/ DialFails(c))
        /\ WF_vars(c \in replaced /\ Closes(c) /\ Bounded)
        /\ WF_vars(TimerFires(c) /\ Bounded)

FairSpec == Spec /\ Fairness
-----------------------------------------------------------------------------
TypeOK ==
    /\ running \in BOOLEAN /\ current \in Channels \cup {NoChannel}
    /\ link \in [Channels -> {"idle", "dialing", "cut", "open"}]
    /\ heard \subseteq Channels /\ replaced \subseteq Channels
    /\ attempts \in [Channels -> 0 .. MaxReconnectAttempts]
    /\ timers \in [Channels -> 0 .. MaxTimers] /\ faults \in 0 .. MaxFaults

Opens == {c \in Channels : link[c] = "open"}
Dials == {c \in Channels : link[c] = "dialing"}

(* A peer that was not given up is connected, or there is a dial or a      *)
(* timer to bring it back.                                                 *)
NeverForgotten ==
    running /\ current # NoChannel =>
        \/ link[current] \in {"open", "dialing"}
        \/ \E c \in Channels : timers[c] > 0

(* Whoever has not stopped, nor given up, is connected again and again.    *)
Reached == running /\ current # NoChannel => Opens # {}
ReachedAgain == []<>Reached

(* Strict: one connection at a time, none after stop, and one that lasts   *)
(* once nothing fails any more.                                            *)
OneConnection == Cardinality(Opens) <= 1
StoppedIsClosed == ~running => Opens \cup Dials = {}
Settles == <>[](running /\ current # NoChannel => link[current] = "open")
===============================================================================
