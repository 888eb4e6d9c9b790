--------------------------- MODULE ServerLifecycle ---------------------------
(***************************************************************************)
(* One MCP server under the lifecycle manager, the registry and the        *)
(* autonomous manager that quarantines it.                                 *)
(*                                                                         *)
(* The code is packages/tantra/src/server-lifecycle.ts, its listeners in   *)
(* server-registry.ts and mcp-autonomous-internals.ts.  Listeners run      *)
(* inside a transition, so a crash that quarantines the server stops it    *)
(* before the handler that reported the crash goes on.  Disconnecting has  *)
(* no wait of its own: "stopping" and "restarting" are passed within one   *)
(* turn and are not states between steps.                                  *)
(***************************************************************************)
EXTENDS Integers, FiniteSets

CONSTANTS
    MaxRestarts,    \* maxRestarts
    MaxFailures,    \* health checks that fail before the server is unhealthy
    MaxCrashes,     \* quarantineMaxCrashes
    AutoRestart,    \* autoRestart
    UserStops,      \* TRUE: stop is also called while a start is under way
    MaxFlows,       \* bound on starts under way when a call adds another
    None

LifecycleAssumption ==
    /\ MaxRestarts \in Nat /\ MaxFailures \in Nat \ {0} /\ MaxCrashes \in Nat \ {0}
    /\ AutoRestart \in BOOLEAN /\ UserStops \in BOOLEAN
    /\ MaxFlows \in Nat \ {0} /\ None \notin Nat

VARIABLES
    srv,            \* the record of the server and its entries in the maps
    up,             \* clients that were created and not disconnected
    flow,           \* per client, how far the start that made it has come
    starter,        \* per client, who waits for that start
    checking,       \* client with a health check under way (a check is
                    \* over before the next tick)
    disposed

vars == <<srv, up, flow, starter, checking, disposed>>

Clients == 1..(MaxFlows + MaxRestarts + 2)

Fresh == [state |-> "none", client |-> None, timer |-> FALSE, health |-> FALSE,
          restartCount |-> 0, failures |-> 0, offered |-> FALSE,
          crashes |-> 0, quarantined |-> FALSE, restartPending |-> FALSE]

Starting == {c \in Clients : flow[c] # "over"}

(* A client nothing refers to any more, for the next start.                *)
Spare ==
    CHOOSE c \in Clients : c \notin Starting \cup {checking, srv.client}

MayStart == Cardinality(Starting) < MaxFlows

-----------------------------------------------------------------------------
(* What the handlers do to the record, in the order they do it.            *)

Released(s) == [s EXCEPT !.quarantined = FALSE, !.restartPending = FALSE, !.crashes = 0]

(* _doStop, to its end.                                                    *)
Stopped(s) == [s EXCEPT !.state = "stopped", !.client = None, !.health = FALSE,
                        !.offered = FALSE]

(* quarantineServer stops the server through stop, which clears the timer. *)
Quarantined(s) ==
    [Stopped(s) EXCEPT !.quarantined = TRUE, !.restartPending = FALSE, !.timer = FALSE]

(* The transition to "error": recordCrash counts it unless quarantined.    *)
Crashed(s) ==
    LET e == [s EXCEPT !.state = "error"]
        n == [e EXCEPT !.crashes = @ + 1]
    IN  IF s.quarantined THEN e
        ELSE IF n.crashes >= MaxCrashes THEN Quarantined(n) ELSE n

(* _scheduleRestart.                                                       *)
Scheduled(s) ==
    IF ~AutoRestart THEN s
    ELSE IF s.restartCount < MaxRestarts THEN [s EXCEPT !.timer = TRUE]
    ELSE IF s.state = "error" THEN [s EXCEPT !.state = "stopped", !.offered = FALSE]
    ELSE s

(* The slip that answers only when the recovery has worked.                *)
SettledSilently(s, c, good) ==
    IF starter[c] = "recovery" /\ good THEN Released(s) ELSE s

(* What recoverQuarantinedServer does when the start it waits for ends.    *)
Settled(s, c, good) ==
    IF starter[c] # "recovery" THEN s
    ELSE IF good THEN Released(s) ELSE [s EXCEPT !.restartPending = FALSE]

(* The clients that are up after s replaced srv: the one it let go is not. *)
UpAfter(s, replaced) ==
    IF s.client # srv.client /\ ~replaced THEN up \ {srv.client} ELSE up

(* _doStartFromStarting up to the connection, in a new client.  Clients    *)
(* that were up and that nothing refers to are forgotten here.             *)
Begin(s, who, remaining) ==
    /\ srv' = [s EXCEPT !.client = Spare]
    /\ up' = (remaining \cap (Starting \cup {checking, srv.client})) \cup {Spare}
    /\ flow' = [flow EXCEPT ![Spare] = "connecting"]
    /\ starter' = [starter EXCEPT ![Spare] = who]
    /\ UNCHANGED <<checking, disposed>>

-----------------------------------------------------------------------------
Init ==
    /\ srv = Fresh
    /\ up = {} /\ checking = None
    /\ flow = [c \in Clients |-> "over"]
    /\ starter = [c \in Clients |-> "caller"]
    /\ disposed = FALSE

(* start of a server that is new or stopped; from other states it throws.  *)
Start(who, s) ==
    /\ ~disposed /\ MayStart
    /\ s.state \in {"none", "stopped"}
    /\ Begin([s EXCEPT !.state = "starting"], who, up)

(* stop.                                                                   *)
Stop ==
    /\ ~disposed
    /\ srv.state \in {"ready", "error"} \/ (UserStops /\ srv.state \in {"starting", "stopped"})
    /\ LET quiet == [srv EXCEPT !.timer = FALSE]
       IN  srv' = CASE srv.state = "stopped" -> quiet
                    [] srv.state = "starting" -> Stopped(Crashed(quiet))
                    [] OTHER -> Stopped(quiet)
    /\ up' = UpAfter(srv', FALSE)
    /\ UNCHANGED <<flow, starter, checking, disposed>>

(* restart: of an errored server in place, of a ready one after _doStop.   *)
Restart(who, s) ==
    /\ ~disposed /\ MayStart
    /\ \/ /\ s.state = "error"
          /\ Begin([s EXCEPT !.state = "starting"], who, up)
       \/ /\ s.state = "ready"
          /\ Begin([Stopped(s) EXCEPT !.state = "starting"], who, up \ {s.client})

(* The connection is made; the lists of tools are asked for.               *)
FlowConnects(c) ==
    /\ flow[c] = "connecting" /\ c \in up
    /\ flow' = [flow EXCEPT ![c] = "listing"]
    /\ UNCHANGED <<srv, up, starter, checking, disposed>>

(* The connection fails, times out or was taken down.                      *)
FlowFails(c) ==
    /\ flow[c] = "connecting"
    /\ flow' = [flow EXCEPT ![c] = "over"] /\ starter' = [starter EXCEPT ![c] = "caller"]
    /\ srv' = Settled(Scheduled(IF srv.state = "starting" THEN Crashed(srv) ELSE srv), c, FALSE)
    /\ up' = UpAfter(srv', FALSE)
    /\ UNCHANGED <<checking, disposed>>

(* The lists are in; from any state but "starting" the transition throws.  *)
FlowLists(c) ==
    /\ flow[c] = "listing"
    /\ flow' = [flow EXCEPT ![c] = "over"] /\ starter' = [starter EXCEPT ![c] = "caller"]
    /\ LET ready == [srv EXCEPT !.state = "ready", !.offered = TRUE, !.failures = 0,
                                !.health = TRUE]
       IN  srv' = IF srv.state = "starting"
                  THEN Settled(IF srv.quarantined THEN Released(ready) ELSE ready, c, TRUE)
                  ELSE Settled(Scheduled([srv EXCEPT !.failures = 0]), c, FALSE)
    /\ UNCHANGED <<up, checking, disposed>>

(* The restart timer: whatever the state is now, the client is taken down  *)
(* and a new one made.                                                     *)
TimerFires ==
    /\ srv.timer /\ ~disposed
    /\ Begin([srv EXCEPT !.timer = FALSE, !.restartCount = @ + 1,
                         !.state = IF @ = "error" THEN "starting" ELSE @],
             "timer", up \ {srv.client})

(* The health interval.                                                    *)
HealthTick ==
    /\ srv.health
    /\ IF srv.state # "ready" \/ srv.client = None
       THEN srv' = [srv EXCEPT !.health = FALSE] /\ UNCHANGED checking
       ELSE checking = None /\ checking' = srv.client /\ UNCHANGED srv
    /\ UNCHANGED <<up, flow, starter, disposed>>

CheckOk ==
    /\ checking \in up
    /\ checking' = None
    /\ srv' = [srv EXCEPT !.failures = 0]
    /\ UNCHANGED <<up, flow, starter, disposed>>

(* A check fails, times out or its client was taken down.  (The count is   *)
(* cut at the limit it is compared with.)                                  *)
CheckFails ==
    /\ checking # None
    /\ checking' = None
    /\ LET n == [srv EXCEPT !.failures = IF @ < MaxFailures THEN @ + 1 ELSE @]
       IN  srv' = IF n.failures >= MaxFailures /\ srv.state = "ready"
                  THEN Scheduled([Crashed(n) EXCEPT !.health = FALSE])
                  ELSE n
    /\ up' = UpAfter(srv', FALSE)
    /\ UNCHANGED <<flow, starter, disposed>>

(* A crash has left the window in which crashes are counted.               *)
CrashAges ==
    /\ srv.crashes > 0 /\ ~srv.quarantined
    /\ srv' = [srv EXCEPT !.crashes = @ - 1]
    /\ UNCHANGED <<up, flow, starter, checking, disposed>>

(* recoverQuarantinedServer, for a quarantine that has expired.            *)
Recover ==
    /\ ~disposed /\ srv.quarantined /\ ~srv.restartPending
    /\ LET pending == [srv EXCEPT !.restartPending = TRUE]
       IN  \/ /\ srv.state \in {"ready", "starting"}
              /\ srv' = Released(srv)
              /\ UNCHANGED <<up, flow, starter, checking, disposed>>
           \/ srv.state = "error" /\ Restart("recovery", pending)
           \/ srv.state = "stopped" /\ Start("recovery", pending)

(* releaseFromQuarantine.                                                  *)
ReleaseFromQuarantine ==
    /\ ~disposed /\ srv.quarantined
    /\ \/ /\ srv.state \in {"ready", "starting"}
          /\ srv' = Released(srv)
          /\ UNCHANGED <<up, flow, starter, checking, disposed>>
       \/ srv.state = "error" /\ Restart("caller", Released(srv))
       \/ srv.state = "stopped" /\ Start("caller", Released(srv))

(* dispose: timers, the client, no events.  A start goes on by itself.     *)
Dispose ==
    /\ ~disposed
    /\ disposed' = TRUE
    /\ srv' = [srv EXCEPT !.health = FALSE, !.timer = FALSE, !.client = None,
                          !.state = IF @ = "none" THEN "none" ELSE "stopped"]
    /\ up' = IF srv.state = "stopped" THEN up ELSE up \ {srv.client}
    /\ UNCHANGED <<flow, starter, checking>>

Next ==
    \/ Start("caller", srv) \/ Stop \/ Restart("caller", srv)
    \/ \E c \in Clients :
          FlowConnects(c) \/ FlowFails(c) \/ FlowLists(c)
    \/ CheckOk \/ CheckFails \/ TimerFires \/ HealthTick \/ CrashAges
    \/ Recover \/ ReleaseFromQuarantine
    \/ Dispose

Spec == Init /\ [][Next]_vars

(* Connections and checks have timeouts, timers fire, the sweep of the     *)
(* quarantines runs.                                                       *)
Fairness ==
    /\ \A c \in Clients : WF_vars(FlowConnects(c) \/ FlowFails(c) \/ FlowLists(c))
    /\ WF_vars(CheckOk \/ CheckFails) /\ WF_vars(HealthTick)
    /\ WF_vars(TimerFires) /\ WF_vars(Recover)

FairSpec == Spec /\ Fairness

-----------------------------------------------------------------------------
(* The variables stay in their types, and automatic restarts in their      *)
(* limit.                                                                  *)
TypeOK ==
    /\ srv \in [state : {"none", "starting", "ready", "error", "stopped"},
                client : Clients \cup {None}, timer : BOOLEAN, health : BOOLEAN,
                restartCount : 0..MaxRestarts, failures : 0..MaxFailures,
                offered : BOOLEAN, crashes : 0..MaxCrashes,
                quarantined : BOOLEAN, restartPending : BOOLEAN]
    /\ up \subseteq Clients /\ checking \in Clients \cup {None}
    /\ flow \in [Clients -> {"over", "connecting", "listing"}]
    /\ starter \in [Clients -> {"caller", "timer", "recovery"}]
    /\ disposed \in BOOLEAN

(* No state is left to itself: a ready server is watched, one in error has *)
(* its restart timer, one that starts has a start under way.               *)
NoneForgotten ==
    /\ srv.state = "ready" => srv.health
    /\ srv.state = "error" => srv.timer
    /\ srv.state = "starting" => Starting # {}

(* The tools of a server are offered as long as it is ready, and not after *)
(* it stopped, along whichever path it did.                                *)
OfferedWhileReady ==
    ~disposed =>
        /\ srv.state = "ready" => srv.offered
        /\ srv.state = "stopped" => ~srv.offered

(* A recovery under way has a start that will end it.                      *)
RecoveryHasStart ==
    srv.restartPending => \E c \in Starting : starter[c] = "recovery"

(* After dispose no client is made.                                        *)
DisposedStaysQuiet == [][disposed => up' \subseteq up]_vars

SettledDown == srv.state \notin {"starting", "error"}

NoRecovery == ~srv.restartPending

(* A server that fails or starts is ready again or is given up.            *)
Settles == []<>SettledDown

(* A recovery from quarantine ends, with a release or with another try     *)
(* allowed.                                                                *)
RecoverySettles == []<>NoRecovery

-----------------------------------------------------------------------------
(* Expected to fail: what the repository says of the program.              *)

(* "Stop a managed server: disconnect client, clear health checks, and     *)
(* transition to "stopped"" (server-lifecycle.ts:110-111): a server that   *)
(* is stopped is not connected again unless it is started.                 *)
StoppedStaysDown ==
    [][srv.state = "stopped" /\ srv'.state = "stopped" => srv'.client \in {srv.client, None}]_vars

(* "Restart a managed server: stop then start." (server-lifecycle.ts:128): *)
(* a client that is replaced has been disconnected.                        *)
ReplacedIsDown ==
    [][srv.client # None /\ srv'.client # srv.client => srv.client \notin up']_vars

(* "Whether to auto-restart on crash or health failure."                   *)
(* (registry-types.ts:76): the timer restarts servers that are in error.   *)
RestartsFailed == [][srv'.restartCount > srv.restartCount => srv.state = "error"]_vars

(* "Get all tools from all "ready" servers" (server-registry.ts:117).      *)
OffersReadyOnly == ~disposed => (srv.offered => srv.state = "ready")

(* "failed recovery remains quarantined for later retries"                 *)
(* (docs/runtime-integrity.md:157): the sweep lets a server out of its     *)
(* quarantine only when it is ready.                                       *)
SweepFreesRecovered ==
    [][Recover /\ ~srv'.quarantined => srv.state = "ready"]_vars
=============================================================================
