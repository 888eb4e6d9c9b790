---------------------------- MODULE DaemonBridge ----------------------------
(***************************************************************************)
(* How the handlers of a process share one daemon client, and what they do *)
(* without a daemon (packages/cli/src/modes/daemon-bridge-core.ts).  The   *)
(* client is made and connected by the first call that needs it, and made  *)
(* anew when it has lost its connection.  When there is no daemon to       *)
(* connect to, or the health machine of the client declares it dead, the   *)
(* bridge goes into direct mode: calls are served without the daemon, and  *)
(* one of them every ten seconds looks for it again.                       *)
(*                                                                         *)
(* Module DaemonClient describes the client; here it has a connection or   *)
(* none, is healthy, ailing or dead, and heals in a call.  Local fallback  *)
(* is allowed.  disconnectDaemon is left out: it is called when the        *)
(* process ends (mcp-server.ts:310).                                       *)
(***************************************************************************)
EXTENDS Naturals, FiniteSets

CONSTANTS
    Calls,      \* callers of daemonCall, each with one call at a time
    Clients     \* bound: clients there can be at a time

BridgeAssumption == IsFiniteSet(Calls) /\ IsFiniteSet(Clients)

NoClient == "none"

VARIABLES
    up,         \* the daemon runs and lets clients connect
    mode,       \* currentMode
    shared,     \* sharedClient
    initing,    \* clientInitPromise: it is being connected
    probing,    \* directProbePromise
    elapsed,    \* ten seconds have passed since the last probe
    client,     \* each client
    at          \* where each call has got to, and its client

vars == <<up, mode, shared, initing, probing, elapsed, client, at>>

Unborn == [open |-> FALSE, health |-> "healthy", disposed |-> FALSE]

Goes(c, step) == at' = [at EXCEPT ![c] = [step |-> step, client |-> NoClient]]
CallsOn(c, k) == at' = [at EXCEPT ![c] = [step |-> "calling", client |-> k]]
At(c, step) == at[c].step = step
Settled == {"idle", "answered", "refused", "direct", "rejected"}

HasClient == shared # NoClient /\ client[shared].open

(* a client nobody holds any more *)
Unused == {k \in Clients : /\ k # shared /\ ~client[k].open
                           /\ \A c \in Calls : at[c].client # k}
NewClient == CHOOSE k \in Unused : TRUE

(***************************************************************************)
(* getDaemonClient without a connected client: waits for the one that is   *)
(* being made, or disposes of the old one and makes another.               *)
(***************************************************************************)
Dispose(clients, k) ==
    [clients EXCEPT ![k] = [open |-> FALSE, health |-> client[k].health, disposed |-> TRUE]]

MakeClient ==
    IF initing THEN UNCHANGED <<shared, initing, client>>
    ELSE /\ Unused # {}
         /\ shared' = NewClient
         /\ initing' = TRUE
         /\ LET old == IF shared = NoClient THEN client ELSE Dispose(client, shared)
            IN  client' = [old EXCEPT ![NewClient] = Unborn]

-----------------------------------------------------------------------------
(***************************************************************************)
(* daemonCall, in daemon mode.                                             *)
(***************************************************************************)
Call(c) ==
    /\ at[c].step \in Settled /\ mode = "daemon"
    /\ IF HasClient
         THEN CallsOn(c, shared) /\ UNCHANGED <<shared, initing, client>>
         ELSE MakeClient /\ Goes(c, "waiting")
    /\ UNCHANGED <<up, mode, probing, elapsed>>

(***************************************************************************)
(* daemonCall, in direct mode: maybeReprobeDaemon.                         *)
(***************************************************************************)
CallDirect(c) ==
    /\ at[c].step \in Settled /\ mode = "direct"
    /\ \/ /\ ~elapsed
          /\ Goes(c, "direct")
          /\ UNCHANGED <<mode, shared, initing, probing, elapsed, client>>
       \/ /\ elapsed /\ probing
          /\ Goes(c, "awaiting")
          /\ UNCHANGED <<mode, shared, initing, probing, elapsed, client>>
       \/ /\ elapsed /\ ~probing /\ HasClient
          /\ elapsed' = FALSE
          /\ mode' = "daemon"
          /\ CallsOn(c, shared)
          /\ UNCHANGED <<shared, initing, probing, client>>
       \/ /\ elapsed /\ ~probing /\ ~HasClient
          /\ elapsed' = FALSE
          /\ probing' = TRUE
          /\ MakeClient
          /\ Goes(c, "probing")
          /\ UNCHANGED mode
    /\ UNCHANGED up

(* after the probe: the mode decides, and whoever is to call the daemon    *)
(* asks for the client once more                                           *)
AfterProbe(c) ==
    /\ At(c, "probed")
    /\ \/ /\ mode = "direct"
          /\ Goes(c, "direct")
          /\ UNCHANGED <<shared, initing, client>>
       \/ /\ mode = "daemon" /\ HasClient
          /\ CallsOn(c, shared)
          /\ UNCHANGED <<shared, initing, client>>
       \/ /\ mode = "daemon" /\ ~HasClient
          /\ MakeClient
          /\ Goes(c, "getting")
    /\ UNCHANGED <<up, mode, probing, elapsed>>

-----------------------------------------------------------------------------
(***************************************************************************)
(* The client connects, with a daemon it finds or starts, or does not.     *)
(* Everyone who waited for it goes on.                                     *)
(***************************************************************************)
ProbeEnds(c) == [step |-> "probed", client |-> NoClient]

Connects ==
    /\ initing
    /\ up' = TRUE
    /\ initing' = FALSE
    /\ client' = [client EXCEPT ![shared].open = TRUE]
    /\ mode' = "daemon"
    /\ probing' = FALSE
    /\ at' = [c \in Calls |->
                IF at[c].step \in {"waiting", "getting"} THEN [step |-> "calling", client |-> shared]
                ELSE IF at[c].step \in {"probing", "awaiting"} /\ probing THEN ProbeEnds(c)
                ELSE at[c]]
    /\ UNCHANGED <<shared, elapsed>>

ConnectFails ==
    /\ initing /\ ~up
    /\ initing' = FALSE
    /\ client' = Dispose(client, shared)
    /\ shared' = NoClient
    /\ mode' = IF \E c \in Calls : At(c, "waiting") THEN "direct" ELSE mode
    /\ probing' = FALSE
    /\ at' = [c \in Calls |->
                IF At(c, "waiting") THEN [step |-> "direct", client |-> NoClient]
                ELSE IF At(c, "getting") THEN [step |-> "rejected", client |-> NoClient]
                ELSE IF at[c].step \in {"probing", "awaiting"} THEN ProbeEnds(c)
                ELSE at[c]]
    /\ UNCHANGED <<up, elapsed>>

-----------------------------------------------------------------------------
(***************************************************************************)
(* DaemonClient.call.  An answer makes it healthy and shows there is a     *)
(* connection; the listeners of a client that was disposed of are gone.    *)
(***************************************************************************)
Answered(c) ==
    LET k == at[c].client
    IN  /\ At(c, "calling") /\ up /\ client[k].health # "dead"
        /\ client' = [client EXCEPT ![k].open = TRUE, ![k].health = "healthy"]
        /\ mode' = IF client[k].health # "healthy" /\ ~client[k].disposed THEN "daemon" ELSE mode
        /\ Goes(c, "answered")
        /\ UNCHANGED <<up, shared, initing, probing, elapsed>>

(* the daemon answers with an error or too late, or the call is dropped    *)
(* because the client is healing                                           *)
Refused(c) ==
    LET k == at[c].client
    IN  /\ At(c, "calling") /\ up /\ client[k].health # "dead"
        /\ \E open \in {client[k].open, TRUE}, health \in {client[k].health, "ailing"} :
              client' = [client EXCEPT ![k].open = open, ![k].health = health]
        /\ Goes(c, "refused")
        /\ UNCHANGED <<up, mode, shared, initing, probing, elapsed>>

(* the client heals in vain; it may be dead then                           *)
HealsInVain(c) ==
    LET k == at[c].client
    IN  /\ At(c, "calling") /\ ~up /\ client[k].health # "dead"
        /\ \E health \in {"ailing", "dead"} :
              /\ client' = [client EXCEPT ![k].open = FALSE, ![k].health = health]
              /\ mode' = IF health = "dead" /\ ~client[k].disposed THEN "direct" ELSE mode
        /\ Goes(c, "rejected")
        /\ UNCHANGED <<up, shared, initing, probing, elapsed>>

CircuitOpen(c) ==
    /\ At(c, "calling") /\ client[at[c].client].health = "dead"
    /\ Goes(c, "rejected")
    /\ UNCHANGED <<up, mode, shared, initing, probing, elapsed, client>>

-----------------------------------------------------------------------------
DaemonStarts ==
    /\ ~up /\ up' = TRUE
    /\ UNCHANGED <<mode, shared, initing, probing, elapsed, client, at>>

DaemonCrashes ==
    /\ up /\ up' = FALSE
    /\ client' = [k \in Clients |-> [client[k] EXCEPT !.open = FALSE]]
    /\ UNCHANGED <<mode, shared, initing, probing, elapsed, at>>

IntervalPasses ==
    /\ ~elapsed /\ elapsed' = TRUE
    /\ UNCHANGED <<up, mode, shared, initing, probing, client, at>>

Init ==
    /\ up \in BOOLEAN
    /\ mode = "daemon" /\ shared = NoClient
    /\ initing = FALSE /\ probing = FALSE /\ elapsed = TRUE
    /\ client = [k \in Clients |-> Unborn]
    /\ at = [c \in Calls |-> [step |-> "idle", client |-> NoClient]]

Begins == \E c \in Calls : Call(c) \/ CallDirect(c)
CallStep(c) ==
    \/ AfterProbe(c)
    \/ Answered(c)
    \/ Refused(c)
    \/ HealsInVain(c)
    \/ CircuitOpen(c)

Next ==
    \/ \E c \in Calls : Call(c)
    \/ \E c \in Calls : CallDirect(c)
    \/ \E c \in Calls : CallStep(c)
    \/ Connects
    \/ ConnectFails
    \/ DaemonStarts
    \/ DaemonCrashes
    \/ IntervalPasses

Spec == Init /\ [][Next]_vars

(* Calls of a client end (module DaemonClient), connecting ends with a     *)
(* connection or an error, time passes.                                    *)
Fairness ==
    /\ \A c \in Calls : WF_vars(CallStep(c))
    /\ WF_vars(Connects \/ ConnectFails)
    /\ WF_vars(IntervalPasses)

FairSpec == Spec /\ Fairness

-----------------------------------------------------------------------------
(***************************************************************************)
(* Properties.                                                             *)
(***************************************************************************)

(* Every variable has its type; a client that is being connected is the    *)
(* shared one, and nobody waits for a client or a probe that is not there. *)
TypeOK ==
    /\ {up, initing, probing, elapsed} \subseteq BOOLEAN
    /\ mode \in {"daemon", "direct"}
    /\ shared \in Clients \cup {NoClient}
    /\ initing => shared # NoClient
    /\ client \in [Clients -> [open : BOOLEAN, health : {"healthy", "ailing", "dead"},
                               disposed : BOOLEAN]]
    /\ at \in [Calls -> [step : Settled \cup {"waiting", "probing", "awaiting", "probed",
                                              "getting", "calling"},
                         client : Clients \cup {NoClient}]]
    /\ \A c \in Calls : at[c].step \in {"waiting", "probing", "getting"} => initing
    /\ \A c \in Calls : At(c, "awaiting") => probing

(* A client is not disposed of while it is being connected: concurrent     *)
(* calls share the one that is made.                                       *)
InitIsShared == [][ initing /\ initing' => shared' = shared ]_vars

(* Every call comes to an end: with an answer or an error of the daemon,   *)
(* without the daemon, or rejected.                                        *)
CallsEnd == \A c \in Calls : []<>(at[c].step \in Settled)

(* Direct mode is not for ever.  When the daemon is up for good and there  *)
(* are calls, they get to it in the end - and are answered, or refused by  *)
(* it -, also when the client had been declared dead.                      *)
DirectModeIsLeft ==
    (<>[]up /\ []<><<Begins>>_vars) =>
        (<>[](mode = "daemon") /\ []<>(\E c \in Calls : at[c].step \in {"answered", "refused"}))

-----------------------------------------------------------------------------
(***************************************************************************)
(* Expected to fail: what the repository says of the program.              *)
(***************************************************************************)

(* packages/daemon/README.md:39: "Circuit breaker - Automatic fallback to  *)
(* direct-read mode when daemon is unreachable".  The promise of the call  *)
(* is returned, not awaited: when it is rejected the catch that falls back *)
(* is not reached.                                                         *)
FallsBack == \A c \in Calls : ~At(c, "rejected")

(* packages/cli/src/modes/daemon-bridge-core.ts:4: "Provides a             *)
(* lazy-connected daemon client that all MCP and CLI handlers share."  A   *)
(* client that is disposed of while a call waits on it heals in that call  *)
(* and is connected again, beside its successor.                           *)
AllShareOne == \A k, l \in Clients : client[k].open /\ client[l].open => k = l
=============================================================================
