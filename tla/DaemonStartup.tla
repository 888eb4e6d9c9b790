---------------------------- MODULE DaemonStartup ----------------------------
(***************************************************************************)
(* How there comes to be one daemon for all clients of a user              *)
(* (packages/daemon/src/process.ts, server-bind.ts, entry.ts).  A client   *)
(* that finds no daemon takes the lock file of the spawn, forks a daemon   *)
(* and waits until it is ready.  The daemon binds the socket, which it     *)
(* may have to clear of the file a crashed daemon left, starts its         *)
(* services, and writes its pid.                                           *)
(*                                                                         *)
(* Clients and daemons are processes and any of them can be interrupted    *)
(* between two calls of the operating system: an action is one such call.  *)
(* Files are seen by what they say and whose they are.  As on Unix, a file *)
(* can be unlinked while the socket it stood for is still being listened   *)
(* on, and closing a server unlinks its path.                              *)
(***************************************************************************)
EXTENDS Naturals, FiniteSets

CONSTANTS
    Clients,            \* processes that call spawnDaemon
    Daemons,            \* processes that can be forked, one for each call
    MaxDaemonCrashes,   \* bound: daemons that crash
    MaxClientCrashes,   \* bound: clients that crash
    MaxTimeouts,        \* bound: startups longer than 10 s
    MaxLateProbes,      \* bound: probes answered after more than 250 ms
    MaxShutdowns        \* bound: daemons that are told to stop

NoFile == "nofile"

StartupAssumption ==
    /\ IsFiniteSet(Clients) /\ IsFiniteSet(Daemons)
    /\ NoFile \notin Clients \cup Daemons
    /\ {MaxDaemonCrashes, MaxClientCrashes, MaxTimeouts, MaxLateProbes, MaxShutdowns} \subseteq Nat

NoLock == [holder |-> NoFile, old |-> FALSE]

VARIABLES
    client,         \* where spawnDaemon has got to
    child,          \* the daemon a client has forked
    lock,           \* the lock file: its holder, and whether it is old
    pid,            \* the daemon the pid file names
    sock,           \* the daemon whose socket file this is
    daemon,         \* where each daemon has got to
    calls,          \* calls of spawnDaemon that found no daemon
    crashes,        \* crashes of daemons
    clientCrashes,  \* crashes of clients
    timeouts,       \* startups that timed out
    lateProbes,     \* probes that timed out
    shutdowns       \* daemons that were told to stop

files == <<lock, pid, sock>>
bounds == <<crashes, clientCrashes, timeouts, lateProbes, shutdowns>>
vars == <<client, child, files, daemon, calls, bounds>>

Alive(d) == daemon[d] \notin {"unborn", "dead"}
Serves(d) == daemon[d] \in {"serving", "ready"}
StalePid == pid # NoFile /\ ~Alive(pid)

Goes(c, step) == client' = [client EXCEPT ![c] = step]
Becomes(d, step) == daemon' = [daemon EXCEPT ![d] = step]

-----------------------------------------------------------------------------
(***************************************************************************)
(* spawnDaemon.  checkStatus reads the pid file and then removes it when   *)
(* it names no living process.  A daemon that lives ends the call.         *)
(***************************************************************************)
CheckStatus(c) ==
    /\ client[c] = "idle" /\ calls < Cardinality(Daemons)
    /\ pid = NoFile \/ StalePid
    /\ calls' = calls + 1
    /\ Goes(c, IF StalePid THEN "cleaning" ELSE "locking")
    /\ UNCHANGED <<child, files, daemon, bounds>>

RemoveStalePid(c) ==
    /\ client[c] = "cleaning"
    /\ pid' = NoFile
    /\ Goes(c, "locking")
    /\ UNCHANGED <<child, lock, sock, daemon, calls, bounds>>

(***************************************************************************)
(* acquireLock: creates the file, or looks whether the one there is old    *)
(* and its holder gone, unlinks it then and tries again.  A file that is   *)
(* gone by then was somebody else's to unlink: it waits.                   *)
(***************************************************************************)
AcquireLock(c) ==
    /\ client[c] = "locking"
    /\ IF lock = NoLock
         THEN lock' = [holder |-> c, old |-> FALSE] /\ Goes(c, "holding")
         ELSE /\ Goes(c, IF lock.old /\ client[lock.holder] = "crashed"
                           THEN "breaking" ELSE "waiting")
              /\ UNCHANGED lock
    /\ UNCHANGED <<child, pid, sock, daemon, calls, bounds>>

BreakLock(c) ==
    /\ client[c] = "breaking"
    /\ lock' = NoLock
    /\ Goes(c, IF lock = NoLock THEN "waiting" ELSE "locking")
    /\ UNCHANGED <<child, pid, sock, daemon, calls, bounds>>

(***************************************************************************)
(* Without the lock it looks for a pid every now and then, and gives up    *)
(* with an error in the end.                                               *)
(***************************************************************************)
Recheck(c) ==
    /\ client[c] = "waiting" /\ StalePid
    /\ pid' = NoFile
    /\ UNCHANGED <<client, child, lock, sock, daemon, calls, bounds>>

StopWaiting(c) ==
    /\ client[c] = "waiting"
    /\ Goes(c, "idle")
    /\ UNCHANGED <<child, files, daemon, calls, bounds>>

(***************************************************************************)
(* doSpawn: forks, and waits for the message, the exit or the timeout.     *)
(* The lock is released whatever came.                                     *)
(***************************************************************************)
(* Which process it is makes no difference. *)
NextProcess == CHOOSE d \in Daemons : daemon[d] = "unborn"

Fork(c) ==
    /\ client[c] = "holding"
    /\ \E d \in Daemons :
          /\ daemon[d] = "unborn" /\ d = NextProcess
          /\ Becomes(d, "starting")
          /\ child' = [child EXCEPT ![c] = d]
    /\ Goes(c, "awaiting")
    /\ UNCHANGED <<files, calls, bounds>>

Settled(c) == daemon[child[c]] \in {"ready", "closed", "dead"}

SpawnEndsOnReady(c) ==
    /\ client[c] = "awaiting" /\ Settled(c)
    /\ lock' = IF daemon[child[c]] = "dead" THEN lock ELSE NoLock
    /\ Goes(c, "idle")
    /\ UNCHANGED <<child, pid, sock, daemon, calls, bounds>>

SpawnEnds(c) ==
    /\ client[c] = "awaiting" /\ Settled(c)
    /\ lock' = NoLock
    /\ Goes(c, "idle")
    /\ UNCHANGED <<child, pid, sock, daemon, calls, bounds>>

SpawnTimesOut(c) ==
    /\ client[c] = "awaiting" /\ ~Settled(c) /\ timeouts < MaxTimeouts
    /\ timeouts' = timeouts + 1
    /\ lock' = NoLock
    /\ Goes(c, "idle")
    /\ UNCHANGED <<child, pid, sock, daemon, calls, crashes, clientCrashes, lateProbes, shutdowns>>

-----------------------------------------------------------------------------
(***************************************************************************)
(* bindServerSocket: listens, or probes who is there; a file nobody        *)
(* answers behind is unlinked, once.                                       *)
(***************************************************************************)
ListenOver(d) ==
    /\ daemon[d] \in {"starting", "retrying"}
    /\ sock' = d
    /\ Becomes(d, "serving")
    /\ UNCHANGED <<client, child, lock, pid, calls, bounds>>

Listen(d) ==
    /\ daemon[d] \in {"starting", "retrying"}
    /\ IF sock = NoFile
         THEN sock' = d /\ Becomes(d, "serving")
         ELSE /\ Becomes(d, IF daemon[d] = "starting" THEN "inuse" ELSE "inuse again")
              /\ UNCHANGED sock
    /\ UNCHANGED <<client, child, lock, pid, calls, bounds>>

Answers == sock # NoFile /\ Serves(sock)

Probe(d) ==
    /\ daemon[d] \in {"inuse", "inuse again"}
    /\ Becomes(d, IF Answers \/ daemon[d] = "inuse again" THEN "dead" ELSE "unlinking")
    /\ UNCHANGED <<client, child, files, calls, bounds>>

(* a daemon too busy to answer in time is taken for gone *)
ProbeTimesOut(d) ==
    /\ daemon[d] = "inuse" /\ Answers /\ lateProbes < MaxLateProbes
    /\ lateProbes' = lateProbes + 1
    /\ Becomes(d, "unlinking")
    /\ UNCHANGED <<client, child, files, calls, crashes, clientCrashes, timeouts, shutdowns>>

UnlinkStale(d) ==
    /\ daemon[d] = "unlinking"
    /\ sock' = NoFile
    /\ Becomes(d, "retrying")
    /\ UNCHANGED <<client, child, lock, pid, calls, bounds>>

(* main, once the services run: the pid file, and the message to the parent *)
BecomesReady(d) ==
    /\ daemon[d] = "serving"
    /\ pid' = d
    /\ Becomes(d, "ready")
    /\ UNCHANGED <<client, child, lock, sock, calls, bounds>>

(***************************************************************************)
(* Shutdown closes the server, which unlinks the path of its socket, and   *)
(* then removes the pid file.                                              *)
(***************************************************************************)
CloseServer(d) ==
    /\ daemon[d] = "ready" /\ shutdowns < MaxShutdowns
    /\ shutdowns' = shutdowns + 1
    /\ sock' = NoFile
    /\ Becomes(d, "closed")
    /\ UNCHANGED <<client, child, lock, pid, calls, crashes, clientCrashes, timeouts, lateProbes>>

RemovePid(d) ==
    /\ daemon[d] = "closed"
    /\ pid' = NoFile
    /\ Becomes(d, "dead")
    /\ UNCHANGED <<client, child, lock, sock, calls, bounds>>

-----------------------------------------------------------------------------
(***************************************************************************)
(* Crashes leave the files; time makes the lock old.                       *)
(***************************************************************************)
DaemonCrashes(d) ==
    /\ Alive(d) /\ crashes < MaxDaemonCrashes
    /\ crashes' = crashes + 1
    /\ Becomes(d, "dead")
    /\ UNCHANGED <<client, child, files, calls, clientCrashes, timeouts, lateProbes, shutdowns>>

ClientCrashes(c) ==
    /\ client[c] \notin {"idle", "crashed"} /\ clientCrashes < MaxClientCrashes
    /\ clientCrashes' = clientCrashes + 1
    /\ Goes(c, "crashed")
    /\ UNCHANGED <<child, files, daemon, calls, crashes, timeouts, lateProbes, shutdowns>>

LockAges ==
    /\ lock # NoLock /\ ~lock.old
    /\ lock' = [lock EXCEPT !.old = TRUE]
    /\ UNCHANGED <<client, child, pid, sock, daemon, calls, bounds>>

Init ==
    /\ client = [c \in Clients |-> "idle"]
    /\ child = [c \in Clients |-> NoFile]
    /\ lock = NoLock /\ pid = NoFile /\ sock = NoFile
    /\ daemon = [d \in Daemons |-> "unborn"]
    /\ calls = 0
    /\ crashes = 0 /\ clientCrashes = 0 /\ timeouts = 0 /\ lateProbes = 0 /\ shutdowns = 0

(* the steps a client takes by itself *)
ClientStep(c) ==
    \/ RemoveStalePid(c)
    \/ AcquireLock(c)
    \/ BreakLock(c)
    \/ StopWaiting(c)
    \/ Fork(c)
    \/ SpawnEnds(c)

(* the steps a daemon takes by itself *)
DaemonStep(d) ==
    \/ Listen(d)
    \/ Probe(d)
    \/ UnlinkStale(d)
    \/ BecomesReady(d)
    \/ RemovePid(d)

Next ==
    \/ \E c \in Clients : CheckStatus(c)
    \/ \E c \in Clients : ClientStep(c)
    \/ \E c \in Clients : Recheck(c)
    \/ \E c \in Clients : SpawnTimesOut(c)
    \/ \E c \in Clients : ClientCrashes(c)
    \/ \E d \in Daemons : DaemonStep(d)
    \/ \E d \in Daemons : ProbeTimesOut(d)
    \/ \E d \in Daemons : CloseServer(d)
    \/ \E d \in Daemons : DaemonCrashes(d)
    \/ LockAges

Spec == Init /\ [][Next]_vars

(* Processes go on until they wait for something. *)
Fairness ==
    /\ \A c \in Clients : WF_vars(ClientStep(c))
    /\ \A d \in Daemons : WF_vars(DaemonStep(d))

FairSpec == Spec /\ Fairness

-----------------------------------------------------------------------------
(***************************************************************************)
(* Properties.                                                             *)
(***************************************************************************)

(* Every variable has its type, and a client that waits for a daemon has   *)
(* forked one.                                                             *)
TypeOK ==
    /\ client \in [Clients -> {"idle", "cleaning", "locking", "breaking", "waiting",
                               "holding", "awaiting", "crashed"}]
    /\ child \in [Clients -> Daemons \cup {NoFile}]
    /\ \A c \in Clients : client[c] = "awaiting" => child[c] # NoFile /\ daemon[child[c]] # "unborn"
    /\ lock = NoLock \/ lock \in [holder : Clients, old : BOOLEAN]
    /\ pid \in Daemons \cup {NoFile} /\ sock \in Daemons \cup {NoFile}
    /\ daemon \in [Daemons -> {"unborn", "starting", "inuse", "unlinking", "retrying",
                               "inuse again", "serving", "ready", "closed", "dead"}]
    /\ calls \in 0 .. Cardinality(Daemons)
    /\ crashes \in 0 .. MaxDaemonCrashes /\ clientCrashes \in 0 .. MaxClientCrashes
    /\ timeouts \in 0 .. MaxTimeouts /\ lateProbes \in 0 .. MaxLateProbes
    /\ shutdowns \in 0 .. MaxShutdowns

(* At most one daemon serves: the single writer of the databases.  It      *)
(* takes the lock, the probe and the file of the socket together.          *)
SingleWriter == \A d, e \in Daemons : Serves(d) /\ Serves(e) => d = e

(* Whoever serves can be reached: nobody unlinks the socket of a daemon    *)
(* that listens on it.                                                     *)
ServerReachable == \A d \in Daemons : Serves(d) => sock = d

(* The socket keeps daemons apart by itself where the lock does not, when  *)
(* two clients broke the lock of a crashed one or gave up a slow start:    *)
(* a second daemon finds the first and goes, so long as no probe is        *)
(* answered too late and no daemon leaves its file behind.                 *)
SocketDecides ==
    lateProbes = 0 /\ crashes = 0 /\ shutdowns = 0 => SingleWriter /\ ServerReachable

(* At most one client is between the fork and its end; the others wait     *)
(* (the lock file of spawnDaemon).                                         *)
OneSpawner == \A c, e \in Clients : {client[c], client[e]} \subseteq {"holding", "awaiting"} => c = e

(* So it is with slow starts, too, while no client has crashed.            *)
OneSpawnerUncrashed == clientCrashes = 0 => OneSpawner

(* Every call of spawnDaemon comes to an end, with a daemon or an error.   *)
CallsEnd == \A c \in Clients : []<>(client[c] \in {"idle", "crashed"})

LockReleased == lock = NoLock \/ client[lock.holder] = "crashed"

(* The lock does not stay behind: once its holder is done or gone and      *)
(* nobody asks any more it is free, or waits only to become old.           *)
LockFreed == []<>LockReleased

-----------------------------------------------------------------------------
(***************************************************************************)
(* Expected to fail: what the repository says of the program.              *)
(***************************************************************************)

(* packages/daemon/README.md:41: "Socket safety - Liveness probe before    *)
(* bind; never clobbers a running daemon".  Between the probe and the      *)
(* unlink the other daemon may have bound, or it answered too late.        *)
NeverClobbers ==
    [][ \A d \in Daemons : Serves(d) /\ sock = d => sock' = d \/ daemon'[d] = "dead" \/ daemon'[d] = "closed" ]_vars

(* packages/daemon/src/process.ts:112: "Acquire lock to prevent concurrent *)
(* spawn races (multiple MCP sessions starting daemon)".  Of three clients *)
(* two find the lock of the third, which crashed, and both break it, the   *)
(* second that of the first.                                               *)
NoSpawnRace == OneSpawner
=============================================================================
