---------------------------- MODULE DaemonClient ----------------------------
(***************************************************************************)
(* The client of the daemon (packages/daemon/src/client.ts) and its health *)
(* machine (resilience.ts).  A call connects when there is no connection,  *)
(* sends its request and waits for the answer that carries its id.  When   *)
(* the connection is gone it heals: reconnects, with a daemon it starts,   *)
(* and sends again; when failures have added up it restarts the daemon and *)
(* sends once more.                                                        *)
(*                                                                         *)
(* The client is one thread: an action is one event with all that follows  *)
(* before the next.  Many calls and the heartbeat share its socket, its    *)
(* health and the flag that it is healing.  A call is in one of three      *)
(* phases (its own try, the try of selfHeal, the try after a restart), and *)
(* in each it goes through the same steps.  The daemon is a process that   *)
(* can crash, or destroy a connection and live on; the client can be       *)
(* disposed of by its owner while calls are out.  A request is answered on *)
(* the socket it was sent on, if at all; whether a request that is not     *)
(* answered was executed nobody knows, so what counts is how often one is  *)
(* sent.  The handshake is part of connecting.                             *)
(***************************************************************************)
EXTENDS Naturals, FiniteSets

CONSTANTS
    Calls,              \* calls of the client, each made once
    Sockets,            \* bound: sockets there can be at a time
    DegradeThreshold,   \* failures in a row that degrade
    HealThreshold,      \* failures in a row that ask for a restart
    MaxRestartAttempts, \* failed restarts that open the circuit
    MaxRetries,         \* tries to connect to a daemon that was started
    RestartTries,       \* tries to connect to a daemon that was restarted
    MaxSpawnFailures,   \* bound: daemons that do not start
    MaxLosses           \* bound: crashes of the daemon, connections destroyed
                        \* or refused while it lives, disposals of the client

ClientAssumption ==
    /\ IsFiniteSet(Calls) /\ IsFiniteSet(Sockets)
    /\ {DegradeThreshold, HealThreshold, MaxRestartAttempts, MaxRetries, RestartTries}
         \subseteq Nat \ {0}
    /\ DegradeThreshold <= HealThreshold
    /\ {MaxSpawnFailures, MaxLosses} \subseteq Nat

NoSocket == "none"

VARIABLES
    up,             \* the daemon runs
    conn,           \* the state of each socket
    socket,         \* the socket of the client; it is connected when it has one
    phase,          \* the phase of each call
    step,           \* the step of each call within its phase
    tries,          \* tries to connect since the daemon was started
    restart,        \* the call was told to restart the daemon when it heals
    sends,          \* requests sent for each call
    sentOn,         \* the socket the last of them went to, while it exists
    ping,           \* the socket of the ping that is waited for
    healing,        \* the client is healing
    health,         \* the health machine
    disposed,       \* dispose was called: the heartbeat is over
    crashes,        \* crashes of the daemon
    spawnFailures,  \* daemons that did not start
    severs          \* connections lost otherwise

calling == <<phase, step, tries, restart>>
traffic == <<sends, sentOn>>
bounds == <<crashes, spawnFailures, severs>>
MayLose == crashes + severs < MaxLosses
vars == <<up, conn, socket, calling, traffic, ping, healing, health, disposed, bounds>>

Phases == {"call", "heal", "restart"}
Ends == {"ok", "failed", "dropped", "no socket", "circuit open"}
Connected == socket # NoSocket

-----------------------------------------------------------------------------
(***************************************************************************)
(* HealthMonitor.  Failures are counted up to the threshold, beyond which  *)
(* nothing tells them apart.                                               *)
(***************************************************************************)
Healthy == [state |-> "HEALTHY", failures |-> 0, restarts |-> 0]

Failures(h, n) ==
    LET f == IF h.failures + n > HealThreshold THEN HealThreshold ELSE h.failures + n
    IN  [h EXCEPT !.failures = f,
                  !.state = CASE n = 0 \/ h.state = "DEAD" -> h.state
                              [] f >= HealThreshold        -> "HEALING"
                              [] f >= DegradeThreshold     -> "DEGRADED"
                              [] OTHER                     -> h.state]

Succeeded(h) == IF h.failures > 0 \/ h.state # "HEALTHY" THEN Healthy ELSE h

(* what recordFailure returns *)
ShouldHeal(h) == h.state # "DEAD" /\ h.failures >= HealThreshold

RestartFailed(h) ==
    [h EXCEPT !.restarts = @ + 1,
              !.state = IF h.restarts + 1 >= MaxRestartAttempts THEN "DEAD" ELSE @]

-----------------------------------------------------------------------------
(***************************************************************************)
(* Pieces of a call.                                                       *)
(***************************************************************************)
Goes(c, where) == step' = [step EXCEPT ![c] = where]

(* sendRequest: a socket that nobody reads from takes it as well *)
Send(c, on) ==
    /\ sends' = [sends EXCEPT ![c] = @ + 1]
    /\ sentOn' = [sentOn EXCEPT ![c] = on]

Gone(k) == sentOn' = [c \in Calls |-> IF sentOn[c] = k THEN NoSocket ELSE sentOn[c]]

(***************************************************************************)
(* disconnect rejects every request that waits, but for that of the call   *)
(* given, and drops the socket.  The calls go on before anything else      *)
(* happens, whichever of them first.                                       *)
(***************************************************************************)
Waiting == {c \in Calls : step[c] = "waiting"}
Rejected == {c \in Calls : step[c] = "rejected"}

Disconnect ==
    /\ conn' = [k \in Sockets |-> IF k = socket THEN "free" ELSE conn[k]]
    /\ Gone(socket)
    /\ socket' = NoSocket

(***************************************************************************)
(* selfHeal begins, by call c that has just failed: it is dropped when the *)
(* client is healing; otherwise it disconnects, and the calls that waited  *)
(* fail, try to heal themselves and are dropped.  So does the heartbeat.   *)
(***************************************************************************)
SelfHealAnyway(c) ==
    LET mine == Failures(health, 1)
    IN  /\ health' = Failures(mine, IF ping # NoSocket THEN 1 ELSE 0)
        /\ healing' = TRUE
        /\ ping' = NoSocket
        /\ restart' = [restart EXCEPT ![c] = ShouldHeal(mine)]
        /\ phase' = [phase EXCEPT ![c] = "heal"]
        /\ step' = [d \in Calls |-> IF d = c THEN "connecting"
                                    ELSE IF d \in Waiting THEN "rejected" ELSE step[d]]
        /\ Disconnect
        /\ UNCHANGED <<tries, sends>>

SelfHeal(c) ==
    IF healing
      THEN /\ health' = Failures(health, 1)
           /\ Goes(c, "dropped")
           /\ UNCHANGED <<conn, socket, phase, tries, restart, traffic, ping, healing>>
      ELSE SelfHealAnyway(c)

HealingEnds(c, how) ==
    /\ Goes(c, how)
    /\ healing' = FALSE
    /\ UNCHANGED <<conn, socket, phase, tries, restart, traffic, ping>>

(***************************************************************************)
(* What follows an error of a phase.  The try of selfHeal swallows it,     *)
(* whether the connection failed or the answer was an error.               *)
(***************************************************************************)
HealFailsKeepingFlag(c) ==
    IF restart[c]
      THEN /\ phase' = [phase EXCEPT ![c] = "restart"]
           /\ Goes(c, "spawning")
           /\ UNCHANGED <<conn, socket, tries, restart, traffic, ping, healing, health>>
      ELSE /\ Goes(c, "failed")
           /\ UNCHANGED <<conn, socket, phase, tries, restart, traffic, ping, healing, health>>

HealFails(c) ==
    IF restart[c]
      THEN /\ phase' = [phase EXCEPT ![c] = "restart"]
           /\ Goes(c, "spawning")
           /\ UNCHANGED <<conn, socket, tries, restart, traffic, ping, healing, health>>
      ELSE HealingEnds(c, "failed") /\ UNCHANGED health

RequestFails(c) ==
    \/ /\ phase[c] = "call" /\ ~Connected
       /\ SelfHeal(c)
    \/ /\ phase[c] = "call" /\ Connected
       /\ health' = Failures(health, 1)
       /\ Goes(c, "failed")
       /\ UNCHANGED <<conn, socket, phase, tries, restart, traffic, ping, healing>>
    \/ phase[c] = "heal" /\ HealFails(c)
    \/ phase[c] = "restart" /\ HealingEnds(c, "failed") /\ UNCHANGED health

(***************************************************************************)
(* attemptRestart without success: as long as attempts remain it answers   *)
(* yes, and the request is written to whatever socket there is.            *)
(***************************************************************************)
RestartFails(c) ==
    /\ health' = RestartFailed(health)
    /\ \/ /\ health'.state = "DEAD"
          /\ HealingEnds(c, "failed")
       \/ /\ health'.state # "DEAD" /\ ~Connected
          /\ HealingEnds(c, "no socket")
       \/ /\ health'.state # "DEAD" /\ Connected
          /\ UNCHANGED conn
          /\ Send(c, socket)
          /\ Goes(c, "waiting")
          /\ UNCHANGED <<socket, phase, tries, restart, ping, healing>>

ConnectFails(c) ==
    \/ phase[c] = "call" /\ SelfHeal(c)
    \/ phase[c] = "heal" /\ HealFails(c)
    \/ phase[c] = "restart" /\ RestartFails(c)

-----------------------------------------------------------------------------
(***************************************************************************)
(* Events of a call.                                                       *)
(***************************************************************************)
Call(c) ==
    /\ step[c] = "idle"
    /\ IF health.state = "DEAD" THEN Goes(c, "circuit open") /\ UNCHANGED traffic
       ELSE IF Connected THEN UNCHANGED conn /\ Send(c, socket) /\ Goes(c, "waiting")
       ELSE Goes(c, "connecting") /\ UNCHANGED traffic
    /\ UNCHANGED <<up, conn, socket, phase, tries, restart, ping, healing, health, disposed,
                   bounds>>

NewSocket == CHOOSE k \in Sockets : conn[k] = "free"

(* a socket connects; the request follows, after a restart the good news *)
Connects(c) ==
    /\ step[c] \in {"connecting", "retrying"} /\ up
    /\ conn' = [conn EXCEPT ![NewSocket] = "open"]
    /\ socket' = NewSocket
    /\ Send(c, NewSocket)
    /\ health' = IF phase[c] = "restart" THEN Healthy ELSE health
    /\ Goes(c, "waiting")
    /\ UNCHANGED <<up, phase, tries, restart, ping, healing, disposed, bounds>>

(* nobody listens: the daemon is started *)
ConnectRefused(c) ==
    /\ step[c] = "connecting" /\ ~up
    /\ Goes(c, "spawning")
    /\ UNCHANGED <<up, conn, socket, phase, tries, restart, traffic, ping, healing, health,
                   disposed, bounds>>

Spawned(c) ==
    /\ step[c] = "spawning"
    /\ up' = TRUE
    /\ tries' = [tries EXCEPT ![c] = 0]
    /\ Goes(c, "retrying")
    /\ UNCHANGED <<conn, socket, phase, restart, traffic, ping, healing, health, disposed,
                   bounds>>

SpawnFails(c) ==
    /\ step[c] = "spawning" /\ ~up /\ spawnFailures < MaxSpawnFailures
    /\ spawnFailures' = spawnFailures + 1
    /\ ConnectFails(c)
    /\ UNCHANGED <<up, disposed, crashes, severs>>

TriesOf(c) == IF phase[c] = "restart" THEN RestartTries ELSE MaxRetries

TryFails(c) ==
    IF step[c] = "retrying" /\ tries[c] + 1 < TriesOf(c)
      THEN /\ tries' = [tries EXCEPT ![c] = @ + 1]
           /\ UNCHANGED <<conn, socket, phase, step, restart, traffic, ping, healing, health>>
      ELSE ConnectFails(c)

RetryRefused(c) ==
    /\ step[c] = "retrying" /\ ~up
    /\ TryFails(c)
    /\ UNCHANGED <<up, disposed, bounds>>

(* too many connections, or a token that the daemon does not take *)
HandshakeFails(c) ==
    /\ step[c] \in {"connecting", "retrying"} /\ up /\ MayLose
    /\ severs' = severs + 1
    /\ TryFails(c)
    /\ UNCHANGED <<up, disposed, crashes, spawnFailures>>

(* a result, or an error of the method *)
AnswerArrives(c) ==
    /\ step[c] = "waiting" /\ sentOn[c] # NoSocket
    /\ \/ /\ health' = Succeeded(health)
          /\ Goes(c, "ok")
          /\ healing' = IF phase[c] = "call" THEN healing ELSE FALSE
          /\ UNCHANGED <<conn, socket, phase, tries, restart, traffic, ping>>
       \/ RequestFails(c)
    /\ UNCHANGED <<up, disposed, bounds>>

RequestTimesOut(c) ==
    /\ step[c] = "waiting"
    /\ RequestFails(c)
    /\ UNCHANGED <<up, disposed, bounds>>

RequestRejected(c) ==
    /\ step[c] = "rejected"
    /\ RequestFails(c)
    /\ UNCHANGED <<up, disposed, bounds>>

-----------------------------------------------------------------------------
(***************************************************************************)
(* The heartbeat rests while the state is HEALING.  Without a connection   *)
(* it fails at once.                                                       *)
(***************************************************************************)
Heartbeat ==
    /\ ~disposed /\ health.state # "HEALING" /\ ping = NoSocket
    /\ IF Connected
         THEN ping' = socket /\ UNCHANGED health
         ELSE health' = Failures(health, 1) /\ UNCHANGED ping
    /\ UNCHANGED <<up, conn, socket, calling, traffic, healing, disposed, bounds>>

PingAnswered ==
    /\ ping # NoSocket /\ ping \in Sockets /\ conn[ping] = "open"
    /\ health' = IF health.state # "HEALTHY" THEN Succeeded(health) ELSE health
    /\ ping' = NoSocket
    /\ UNCHANGED <<up, conn, socket, calling, traffic, healing, disposed, bounds>>

PingTimesOut ==
    /\ ping # NoSocket
    /\ health' = Failures(health, 1)
    /\ ping' = NoSocket
    /\ UNCHANGED <<up, conn, socket, calling, traffic, healing, disposed, bounds>>

(* resetCircuit, by hand *)
ResetCircuit ==
    /\ health.state = "DEAD" /\ ~disposed
    /\ health' = Healthy
    /\ UNCHANGED <<up, conn, socket, calling, traffic, ping, healing, disposed, bounds>>

-----------------------------------------------------------------------------
(***************************************************************************)
(* The daemon and the sockets.  The close event of any socket, the one in  *)
(* use or another, disconnects the client; what waits goes on waiting.     *)
(***************************************************************************)
DaemonCrashes ==
    /\ up /\ MayLose
    /\ crashes' = crashes + 1
    /\ up' = FALSE
    /\ conn' = [k \in Sockets |-> IF conn[k] = "open" THEN "severed" ELSE conn[k]]
    /\ UNCHANGED <<socket, calling, traffic, ping, healing, health, disposed, spawnFailures,
                   severs>>

(* A daemon that lives on destroys a connection: its buffer is full, a     *)
(* message too large, a notification not allowed, the socket broken.       *)
Severed(k) ==
    /\ conn[k] = "open" /\ MayLose
    /\ severs' = severs + 1
    /\ conn' = [conn EXCEPT ![k] = "severed"]
    /\ UNCHANGED <<up, socket, calling, traffic, ping, healing, health, disposed, crashes,
                   spawnFailures>>

(* dispose, by the bridge: calls that are out lose their requests and heal *)
Dispose ==
    /\ ~disposed /\ MayLose
    /\ severs' = severs + 1
    /\ disposed' = TRUE
    /\ step' = [c \in Calls |-> IF c \in Waiting THEN "rejected" ELSE step[c]]
    /\ ping' = IF ping # NoSocket THEN "closed" ELSE ping
    /\ Disconnect
    /\ UNCHANGED <<up, phase, tries, restart, sends, healing, health, crashes, spawnFailures>>

CloseEvent(k) ==
    /\ conn[k] = "severed"
    /\ conn' = [conn EXCEPT ![k] = "free"]
    /\ socket' = NoSocket
    /\ Gone(k)
    /\ ping' = IF ping = k THEN "closed" ELSE ping
    /\ UNCHANGED <<up, calling, sends, healing, health, disposed, bounds>>

Init ==
    /\ up \in BOOLEAN
    /\ conn = [k \in Sockets |-> "free"]
    /\ socket = NoSocket
    /\ phase = [c \in Calls |-> "call"]
    /\ step = [c \in Calls |-> "idle"]
    /\ tries = [c \in Calls |-> 0]
    /\ restart = [c \in Calls |-> FALSE]
    /\ sends = [c \in Calls |-> 0]
    /\ sentOn = [c \in Calls |-> NoSocket]
    /\ ping = NoSocket
    /\ healing = FALSE
    /\ health = Healthy
    /\ disposed = FALSE
    /\ crashes = 0 /\ spawnFailures = 0 /\ severs = 0

(* what the timers and the sockets bring about, once rejections are dealt with *)
CallStep(c) ==
    IF Rejected # {}
      THEN RequestRejected(c)
      ELSE \/ Connects(c)
           \/ ConnectRefused(c)
           \/ Spawned(c)
           \/ SpawnFails(c)
           \/ RetryRefused(c)
           \/ AnswerArrives(c)
           \/ RequestTimesOut(c)

PingEnds == Rejected = {} /\ (PingAnswered \/ PingTimesOut)
SomeClose == Rejected = {} /\ \E k \in Sockets : CloseEvent(k)

Next ==
    \/ \E c \in Calls : CallStep(c)
    \/ PingEnds
    \/ SomeClose
    \/ /\ Rejected = {}
       /\ \/ \E c \in Calls : Call(c)
          \/ \E c \in Calls : HandshakeFails(c)
          \/ Heartbeat
          \/ ResetCircuit
          \/ DaemonCrashes
          \/ \E k \in Sockets : Severed(k)
          \/ Dispose

Spec == Init /\ [][Next]_vars

(***************************************************************************)
(* Requests have a timer, sockets connect or are refused, a daemon starts  *)
(* or fails to, sockets that are severed are closed, pings time out.       *)
(***************************************************************************)
Fairness ==
    /\ \A c \in Calls : WF_vars(CallStep(c))
    /\ WF_vars(SomeClose)
    /\ WF_vars(PingEnds)

FairSpec == Spec /\ Fairness

-----------------------------------------------------------------------------
(***************************************************************************)
(* Properties.                                                             *)
(***************************************************************************)

(* Every variable has its type, the socket of the client is one that was   *)
(* opened, and no socket is missing where one is needed.                   *)
TypeOK ==
    /\ up \in BOOLEAN /\ healing \in BOOLEAN /\ disposed \in BOOLEAN
    /\ conn \in [Sockets -> {"free", "open", "severed"}]
    /\ Connected => socket \in Sockets /\ conn[socket] # "free"
    /\ phase \in [Calls -> Phases]
    /\ step \in [Calls -> {"idle", "connecting", "spawning", "retrying", "waiting",
                              "rejected"} \cup Ends]
    /\ tries \in [Calls -> 0 .. MaxRetries + RestartTries]
    /\ restart \in [Calls -> BOOLEAN]
    /\ sends \in [Calls -> 0 .. 3]
    /\ \A c \in Calls : sentOn[c] # NoSocket => sentOn[c] \in Sockets /\ conn[sentOn[c]] # "free"
    /\ ping \in Sockets \cup {NoSocket, "closed"}
    /\ health \in [state : {"HEALTHY", "DEGRADED", "HEALING", "DEAD"},
                   failures : 0 .. HealThreshold, restarts : 0 .. MaxRestartAttempts]
    /\ spawnFailures \in 0 .. MaxSpawnFailures
    /\ crashes \in 0 .. MaxLosses /\ severs \in 0 .. MaxLosses - crashes
    /\ \E k \in Sockets : conn[k] = "free"

Healer(c) == phase[c] # "call" /\ step[c] \notin Ends

(* One call heals at a time, and the flag is up exactly as long: a call    *)
(* that fails on any path of selfHeal takes it down again.                 *)
OneHealer ==
    /\ \A c, d \in Calls : Healer(c) /\ Healer(d) => c = d
    /\ healing <=> \E c \in Calls : Healer(c)

(* A request is sent again only after something was lost - the daemon      *)
(* crashed or did not start, a connection was destroyed or refused, the    *)
(* client disposed of - and for each such loss of one call only, however   *)
(* the calls interleave: the others that waited are dropped.  A call that  *)
(* timed out or got an error on a good connection is not repeated.         *)
Resent == {c \in Calls : sends[c] > 1}
NoResendWithoutLoss == Cardinality(Resent) <= crashes + spawnFailures + severs

(* Every call ends, whatever happens to the daemon.                        *)
CallsEnd == \A c \in Calls : []<>(step[c] \in Ends \cup {"idle"})

(* Healing ends, so that later calls are not dropped for ever.             *)
HealingIsOver == []<>(~healing)

-----------------------------------------------------------------------------
(***************************************************************************)
(* Expected to fail: what the repository says of the program.              *)
(***************************************************************************)

(* packages/daemon/src/client.ts:109: "On socket failure: disconnects,     *)
(* reconnects (auto-spawns), retries once".  It retries after the          *)
(* reconnect and again after the restart.                                  *)
RetriesOnce == \A c \in Calls : sends[c] <= 2

(* packages/daemon/src/client.ts:157: "daemon may still be alive on a new  *)
(* connection" - and may then have executed the request already.           *)
OnceWhileAlive == crashes = 0 /\ spawnFailures = 0 => Resent = {}

(* packages/daemon/src/client.ts:205: "Returns true if daemon was          *)
(* restarted and we reconnected."  It returns true as well when attempts   *)
(* remain, and the request is written to no socket.                        *)
RestartedMeansConnected == \A c \in Calls : step[c] # "no socket"

(* packages/daemon/src/resilience.ts:62: "When state reaches HEALING, the  *)
(* client triggers daemon restart."  When it is the heartbeat that got it  *)
(* there nobody does, and the heartbeat rests from then on.                *)
HealingTriggersRestart ==
    health.state = "HEALING" ~> healing \/ health.state # "HEALING"
=============================================================================
