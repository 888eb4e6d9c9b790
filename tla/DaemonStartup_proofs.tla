------------------------ MODULE DaemonStartup_proofs ------------------------
(***************************************************************************)
(* DaemonStartup for any number of clients and daemons: what the run       *)
(* "daemon_life" checks of two or three clients and three daemons.         *)
(*                                                                         *)
(* Two things keep the daemons apart.  One is the lock file: until a       *)
(* client crashes it is never broken, so it names the one client that      *)
(* forks or waits, however many daemons crash or are slow.  (Of two        *)
(* clients only one is left to fork once the other has crashed.)  If       *)
(* nothing times out, either, a daemon that has not settled yet is the     *)
(* child of that client, so there is one of them, and what it found out    *)
(* when it probed the socket is still true when it unlinks it.             *)
(*                                                                         *)
(* The other is the socket: whatever becomes of the lock, a daemon that    *)
(* finds the file finds somebody who answers, and goes, until a probe is   *)
(* answered too late or a daemon ends and its file stays or is unlinked.   *)
(***************************************************************************)
EXTENDS DaemonStartup, FiniteSetTheorems, TLAPS

ClientStates == {"idle", "cleaning", "locking", "breaking", "waiting",
                 "holding", "awaiting", "crashed"}
DaemonStates == {"unborn", "starting", "inuse", "unlinking", "retrying",
                 "inuse again", "serving", "ready", "closed", "dead"}

(* A daemon its client still waits for.                                    *)
Unsettled(d) == daemon[d] \in {"starting", "inuse", "unlinking", "retrying",
                               "inuse again", "serving"}

(* The lock names the client that forks or waits for its daemon.           *)
LockNamesSpawner ==
    \A c \in Clients :
        /\ client[c] \notin {"crashed", "breaking"}
        /\ client[c] \in {"holding", "awaiting"} <=> lock.holder = c

UnsettledIsAwaited ==
    \A d \in Daemons : Unsettled(d) => \E c \in Clients : client[c] = "awaiting" /\ child[c] = d

(* What the probe found.                                                   *)
ProbeStillTrue == \A d \in Daemons : daemon[d] = "unlinking" => ~Answers

LockInv == TypeOK /\ LockNamesSpawner

SocketInv == UnsettledIsAwaited /\ ServerReachable /\ ProbeStillTrue

-----------------------------------------------------------------------------
LEMMA CountsOn == ASSUME NEW m \in Nat, NEW n \in 0 .. m, n < m PROVE n + 1 \in 0 .. m
OBVIOUS

LEMMA InitTyped == ASSUME StartupAssumption, Init PROVE TypeOK
<1>1. Cardinality(Daemons) \in Nat
  BY FS_CardinalityType DEF StartupAssumption
<1> QED BY <1>1 DEF Init, TypeOK, StartupAssumption, NoLock

LEMMA StepTyped == ASSUME StartupAssumption, TypeOK, [Next]_vars PROVE TypeOK'
<1>1. /\ Cardinality(Daemons) \in Nat
      /\ MaxDaemonCrashes \in Nat /\ MaxClientCrashes \in Nat
      /\ MaxTimeouts \in Nat /\ MaxLateProbes \in Nat /\ MaxShutdowns \in Nat
  BY FS_CardinalityType DEF StartupAssumption
<1>2. /\ calls \in 0 .. Cardinality(Daemons)
      /\ crashes \in 0 .. MaxDaemonCrashes /\ clientCrashes \in 0 .. MaxClientCrashes
      /\ timeouts \in 0 .. MaxTimeouts /\ lateProbes \in 0 .. MaxLateProbes
      /\ shutdowns \in 0 .. MaxShutdowns
  BY DEF TypeOK
<1>3. ASSUME NEW c \in Clients, CheckStatus(c) PROVE TypeOK'
  <2>1. calls' \in 0 .. Cardinality(Daemons)
    BY <1>2, <1>1, <1>3, CountsOn DEF CheckStatus
  <2>2. client[c] = "idle" /\ UNCHANGED <<child, lock, pid, sock, daemon, bounds>>
        /\ client' \in {[client EXCEPT ![c] = "cleaning"], [client EXCEPT ![c] = "locking"]}
    BY <1>3 DEF CheckStatus, Goes, files
  <2> QED BY <2>1, <2>2 DEF TypeOK, bounds
<1>4. ASSUME NEW c \in Clients, RemoveStalePid(c) PROVE TypeOK'
  BY <1>4 DEF RemoveStalePid, Goes, TypeOK, bounds
<1>5. ASSUME NEW c \in Clients, AcquireLock(c) PROVE TypeOK'
  <2>1. client[c] = "locking" /\ UNCHANGED <<child, pid, sock, daemon, calls, bounds>>
        /\ client' \in {[client EXCEPT ![c] = "holding"], [client EXCEPT ![c] = "breaking"],
                        [client EXCEPT ![c] = "waiting"]}
    BY <1>5 DEF AcquireLock, Goes
  <2>2. lock' = lock \/ lock' \in [holder : Clients, old : BOOLEAN]
    <3>1. [holder |-> c, old |-> FALSE] \in [holder : Clients, old : BOOLEAN]
      OBVIOUS
    <3> QED BY <1>5, <3>1 DEF AcquireLock
  <2> QED BY <2>1, <2>2 DEF TypeOK, bounds
<1>6. ASSUME NEW c \in Clients, BreakLock(c) PROVE TypeOK'
  BY <1>6 DEF BreakLock, Goes, TypeOK, bounds
<1>7. ASSUME NEW c \in Clients, StopWaiting(c) PROVE TypeOK'
  BY <1>7 DEF StopWaiting, Goes, TypeOK, bounds, files
<1>8. ASSUME NEW c \in Clients, Fork(c) PROVE TypeOK'
  <2>1. PICK d \in Daemons : daemon[d] = "unborn" /\ daemon' = [daemon EXCEPT ![d] = "starting"]
                             /\ child' = [child EXCEPT ![c] = d]
    BY <1>8 DEF Fork, Becomes
  <2>2. client' = [client EXCEPT ![c] = "awaiting"]
        /\ UNCHANGED <<lock, pid, sock, calls, bounds>>
    BY <1>8 DEF Fork, Goes, files
  <2>3. d # NoFile
    BY DEF StartupAssumption
  <2>4. /\ daemon' \in [Daemons -> DaemonStates]
        /\ \A e \in Daemons : daemon[e] # "unborn" => daemon'[e] # "unborn"
        /\ daemon'[d] # "unborn"
    BY <2>1 DEF TypeOK, DaemonStates
  <2>5. \A b \in Clients : client'[b] = "awaiting" => child'[b] # NoFile /\ daemon'[child'[b]] # "unborn"
    BY <2>1, <2>2, <2>3, <2>4 DEF TypeOK
  <2> QED BY <2>1, <2>2, <2>4, <2>5 DEF TypeOK, bounds, DaemonStates
<1>9. ASSUME NEW c \in Clients, SpawnEnds(c) PROVE TypeOK'
  BY <1>9 DEF SpawnEnds, Goes, TypeOK, bounds
<1>10. ASSUME NEW c \in Clients, Recheck(c) PROVE TypeOK'
  BY <1>10 DEF Recheck, TypeOK, bounds
<1>11. ASSUME NEW c \in Clients, SpawnTimesOut(c) PROVE TypeOK'
  <2>1. timeouts' \in 0 .. MaxTimeouts
    BY <1>2, <1>1, <1>11, CountsOn DEF SpawnTimesOut
  <2>2. client' = [client EXCEPT ![c] = "idle"] /\ lock' = NoLock
        /\ UNCHANGED <<child, pid, sock, daemon, calls, crashes, clientCrashes, lateProbes, shutdowns>>
    BY <1>11 DEF SpawnTimesOut, Goes
  <2> QED BY <2>1, <2>2 DEF TypeOK
<1>12. ASSUME NEW c \in Clients, ClientCrashes(c) PROVE TypeOK'
  <2>1. clientCrashes' \in 0 .. MaxClientCrashes
    BY <1>2, <1>1, <1>12, CountsOn DEF ClientCrashes
  <2>2. client' = [client EXCEPT ![c] = "crashed"]
        /\ UNCHANGED <<child, lock, pid, sock, daemon, calls, crashes, timeouts, lateProbes, shutdowns>>
    BY <1>12 DEF ClientCrashes, Goes, files
  <2> QED BY <2>1, <2>2 DEF TypeOK
<1>13. ASSUME NEW d \in Daemons, DaemonStep(d) PROVE TypeOK'
  <2>1. CASE Listen(d)
    BY <2>1 DEF Listen, Becomes, TypeOK, bounds
  <2>2. CASE Probe(d)
    BY <2>2 DEF Probe, Becomes, TypeOK, bounds, files
  <2>3. CASE UnlinkStale(d)
    BY <2>3 DEF UnlinkStale, Becomes, TypeOK, bounds
  <2>4. CASE BecomesReady(d)
    BY <2>4 DEF BecomesReady, Becomes, TypeOK, bounds
  <2>5. CASE RemovePid(d)
    BY <2>5 DEF RemovePid, Becomes, TypeOK, bounds
  <2> QED BY <1>13, <2>1, <2>2, <2>3, <2>4, <2>5 DEF DaemonStep
<1>14. ASSUME NEW d \in Daemons, ProbeTimesOut(d) PROVE TypeOK'
  <2>1. lateProbes' \in 0 .. MaxLateProbes
    BY <1>2, <1>1, <1>14, CountsOn DEF ProbeTimesOut
  <2>2. daemon' = [daemon EXCEPT ![d] = "unlinking"]
        /\ UNCHANGED <<client, child, lock, pid, sock, calls, crashes, clientCrashes, timeouts, shutdowns>>
    BY <1>14 DEF ProbeTimesOut, Becomes, files
  <2> QED BY <2>1, <2>2 DEF TypeOK
<1>15. ASSUME NEW d \in Daemons, CloseServer(d) PROVE TypeOK'
  <2>1. shutdowns' \in 0 .. MaxShutdowns
    BY <1>2, <1>1, <1>15, CountsOn DEF CloseServer
  <2>2. daemon' = [daemon EXCEPT ![d] = "closed"] /\ sock' = NoFile
        /\ UNCHANGED <<client, child, lock, pid, calls, crashes, clientCrashes, timeouts, lateProbes>>
    BY <1>15 DEF CloseServer, Becomes
  <2> QED BY <2>1, <2>2 DEF TypeOK
<1>16. ASSUME NEW d \in Daemons, DaemonCrashes(d) PROVE TypeOK'
  <2>1. crashes' \in 0 .. MaxDaemonCrashes
    BY <1>2, <1>1, <1>16, CountsOn DEF DaemonCrashes
  <2>2. daemon' = [daemon EXCEPT ![d] = "dead"]
        /\ UNCHANGED <<client, child, lock, pid, sock, calls, clientCrashes, timeouts, lateProbes, shutdowns>>
    BY <1>16 DEF DaemonCrashes, Becomes, files
  <2> QED BY <2>1, <2>2 DEF TypeOK
<1>17. ASSUME LockAges PROVE TypeOK'
  BY <1>17 DEF LockAges, TypeOK, bounds
<1>18. ASSUME UNCHANGED vars PROVE TypeOK'
  BY <1>18 DEF vars, files, bounds, TypeOK
<1> QED
  BY <1>3, <1>4, <1>5, <1>6, <1>7, <1>8, <1>9, <1>10, <1>11, <1>12, <1>13, <1>14, <1>15,
     <1>16, <1>17, <1>18 DEF Next, ClientStep

-----------------------------------------------------------------------------
(* The lock, until a client crashes.                                       *)
LEMMA NoFaults ==
  ASSUME TypeOK
  PROVE  /\ MaxClientCrashes = 0 => ~(clientCrashes < MaxClientCrashes)
         /\ MaxTimeouts = 0 => ~(timeouts < MaxTimeouts)
         /\ MaxLateProbes = 0 => ~(lateProbes < MaxLateProbes)
<1>1. /\ clientCrashes \in 0 .. MaxClientCrashes /\ timeouts \in 0 .. MaxTimeouts
      /\ lateProbes \in 0 .. MaxLateProbes
  BY DEF TypeOK
<1> QED BY <1>1

LEMMA InitLocks == ASSUME StartupAssumption, Init PROVE LockNamesSpawner
BY DEF Init, LockNamesSpawner, NoLock, StartupAssumption

LEMMA StepLocks ==
  ASSUME StartupAssumption, LockInv, [Next]_vars
  PROVE  LockNamesSpawner' \/ \E c \in Clients : ClientCrashes(c)
<1> USE DEF LockInv
<1>1. ASSUME NEW c \in Clients, CheckStatus(c) PROVE LockNamesSpawner'
  BY <1>1 DEF CheckStatus, Goes, TypeOK, files, LockNamesSpawner
<1>2. ASSUME NEW c \in Clients, RemoveStalePid(c) PROVE LockNamesSpawner'
  BY <1>2 DEF RemoveStalePid, Goes, TypeOK, LockNamesSpawner
<1>3. ASSUME NEW c \in Clients, AcquireLock(c) PROVE LockNamesSpawner'
  <2>1. lock # NoLock => lock.holder \in Clients /\ client[lock.holder] # "crashed"
    BY DEF TypeOK, LockNamesSpawner
  <2>2. lock = NoLock => \A b \in Clients : lock.holder # b
    BY DEF NoLock, StartupAssumption
  <2>3. CASE lock = NoLock
    <3>1. lock'.holder = c /\ client' = [client EXCEPT ![c] = "holding"]
      BY <1>3, <2>3 DEF AcquireLock, Goes
    <3> QED BY <2>2, <2>3, <3>1 DEF TypeOK, LockNamesSpawner
  <2>4. CASE lock # NoLock
    <3>1. lock' = lock /\ client[c] = "locking" /\ client' = [client EXCEPT ![c] = "waiting"]
      BY <1>3, <2>1, <2>4 DEF AcquireLock, Goes
    <3> QED BY <3>1 DEF TypeOK, LockNamesSpawner
  <2> QED BY <2>3, <2>4
<1>4. ASSUME NEW c \in Clients, BreakLock(c) PROVE LockNamesSpawner'
  BY <1>4 DEF BreakLock, LockNamesSpawner
<1>5. ASSUME NEW c \in Clients, StopWaiting(c) PROVE LockNamesSpawner'
  BY <1>5 DEF StopWaiting, Goes, TypeOK, files, LockNamesSpawner
<1>6. ASSUME NEW c \in Clients, Fork(c) PROVE LockNamesSpawner'
  BY <1>6 DEF Fork, Goes, TypeOK, files, LockNamesSpawner
<1>7. ASSUME NEW c \in Clients, SpawnEnds(c) \/ SpawnTimesOut(c) PROVE LockNamesSpawner'
  <2>1. lock' = NoLock /\ client[c] = "awaiting" /\ client' = [client EXCEPT ![c] = "idle"]
    BY <1>7 DEF SpawnEnds, SpawnTimesOut, Goes
  <2>2. \A b \in Clients : lock'.holder # b
    BY <2>1 DEF NoLock, StartupAssumption
  <2> QED BY <2>1, <2>2 DEF TypeOK, LockNamesSpawner
<1>8. ASSUME LockAges PROVE LockNamesSpawner'
  BY <1>8 DEF LockAges, TypeOK, LockNamesSpawner
<1>9. ASSUME UNCHANGED <<client, lock>> PROVE LockNamesSpawner'
  BY <1>9 DEF LockNamesSpawner
<1>10. ASSUME NEW c \in Clients, Recheck(c) PROVE UNCHANGED <<client, lock>>
  BY <1>10 DEF Recheck
<1>11. ASSUME NEW d \in Daemons, \/ DaemonStep(d) \/ ProbeTimesOut(d) \/ CloseServer(d)
                                 \/ DaemonCrashes(d)
       PROVE UNCHANGED <<client, lock>>
  BY <1>11 DEF DaemonStep, Listen, Probe, UnlinkStale, BecomesReady, RemovePid, ProbeTimesOut,
               CloseServer, DaemonCrashes, files
<1>12. UNCHANGED vars => UNCHANGED <<client, lock>>
  BY DEF vars, files
<1> QED
  BY <1>1, <1>2, <1>3, <1>4, <1>5, <1>6, <1>7, <1>8, <1>9, <1>10, <1>11, <1>12
     DEF Next, ClientStep

LEMMA StepUncrashed ==
  ASSUME StartupAssumption, MaxClientCrashes = 0, LockInv, [Next]_vars
  PROVE  LockNamesSpawner'
<1>1. ASSUME NEW c \in Clients, ClientCrashes(c) PROVE FALSE
  BY <1>1, NoFaults DEF ClientCrashes, LockInv
<1> QED BY <1>1, StepLocks

(* So it is until a client crashes, were it to crash later.                *)
LEMMA CrashCounted ==
  ASSUME [Next]_vars PROVE clientCrashes' = clientCrashes \/ \E c \in Clients : ClientCrashes(c)
<1>1. ASSUME NEW c \in Clients, CheckStatus(c) \/ ClientStep(c) \/ Recheck(c) \/ SpawnTimesOut(c)
      PROVE  clientCrashes' = clientCrashes
  BY <1>1 DEF CheckStatus, ClientStep, RemoveStalePid, AcquireLock, BreakLock, StopWaiting, Fork,
              SpawnEnds, Recheck, SpawnTimesOut, bounds
<1>2. ASSUME NEW d \in Daemons,
             DaemonStep(d) \/ ProbeTimesOut(d) \/ CloseServer(d) \/ DaemonCrashes(d)
      PROVE  clientCrashes' = clientCrashes
  BY <1>2 DEF DaemonStep, Listen, Probe, UnlinkStale, BecomesReady, RemovePid, ProbeTimesOut,
              CloseServer, DaemonCrashes, bounds
<1>3. ASSUME LockAges \/ UNCHANGED vars PROVE clientCrashes' = clientCrashes
  BY <1>3 DEF LockAges, vars, bounds
<1> QED BY <1>1, <1>2, <1>3 DEF Next

NamedUntilCrash == clientCrashes = 0 => LockNamesSpawner

LEMMA StepUntilCrash ==
  ASSUME StartupAssumption, TypeOK, NamedUntilCrash, [Next]_vars PROVE NamedUntilCrash'
<1>1. ASSUME NEW c \in Clients, ClientCrashes(c) PROVE clientCrashes' # 0
  <2>1. clientCrashes \in 0 .. MaxClientCrashes
    BY DEF TypeOK
  <2>2. clientCrashes' = clientCrashes + 1
    BY <1>1 DEF ClientCrashes
  <2> QED BY <2>1, <2>2
<1>2. CASE clientCrashes' = 0
  <2>1. clientCrashes = 0
    BY <1>1, <1>2, CrashCounted
  <2> QED BY <1>1, <1>2, <2>1, StepLocks DEF NamedUntilCrash, LockInv
<1> QED BY <1>2 DEF NamedUntilCrash

LEMMA LockInvariant ==
  ASSUME StartupAssumption, MaxClientCrashes = 0 PROVE Spec => []LockInv
<1>1. Init => LockInv
  BY InitTyped, InitLocks DEF LockInv
<1>2. LockInv /\ [Next]_vars => LockInv'
  BY StepTyped, StepUncrashed DEF LockInv
<1> QED BY <1>1, <1>2, PTL DEF Spec

(* Who has crashed takes no further step.                                  *)
LEMMA CrashedForGood ==
  ASSUME TypeOK, NEW x \in Clients, client[x] = "crashed", [Next]_vars
  PROVE  client'[x] = "crashed"
<1>1. ASSUME NEW c \in Clients, NEW s, client[c] # "crashed", Goes(c, s) PROVE client'[x] = "crashed"
  BY <1>1 DEF Goes, TypeOK
<1>2. ASSUME NEW c \in Clients,
             \/ CheckStatus(c) \/ ClientStep(c) \/ SpawnTimesOut(c) \/ ClientCrashes(c)
      PROVE  client[c] # "crashed" /\ \E s : Goes(c, s)
  <2>1. CASE CheckStatus(c)
    BY <2>1, Zenon DEF CheckStatus
  <2>2. CASE RemoveStalePid(c) \/ BreakLock(c) \/ StopWaiting(c) \/ Fork(c) \/ SpawnEnds(c)
    BY <2>2 DEF RemoveStalePid, BreakLock, StopWaiting, Fork, SpawnEnds
  <2>3. CASE AcquireLock(c)
    BY <2>3, Zenon DEF AcquireLock
  <2>4. CASE SpawnTimesOut(c) \/ ClientCrashes(c)
    BY <2>4 DEF SpawnTimesOut, ClientCrashes
  <2> QED BY <1>2, <2>1, <2>2, <2>3, <2>4 DEF ClientStep
<1>3. ASSUME NEW c \in Clients, Recheck(c) PROVE client' = client
  BY <1>3 DEF Recheck
<1>4. ASSUME NEW d \in Daemons,
             DaemonStep(d) \/ ProbeTimesOut(d) \/ CloseServer(d) \/ DaemonCrashes(d)
      PROVE  client' = client
  BY <1>4 DEF DaemonStep, Listen, Probe, UnlinkStale, BecomesReady, RemovePid, ProbeTimesOut,
              CloseServer, DaemonCrashes
<1>5. ASSUME LockAges \/ UNCHANGED vars PROVE client' = client
  BY <1>5 DEF LockAges, vars
<1> QED BY <1>1, <1>2, <1>3, <1>4, <1>5 DEF Next

(* The lock of a crashed client can be broken, but only the other one of   *)
(* two is there to break it.                                               *)
AtMostTwo == \A a, b, c \in Clients : a = b \/ a = c \/ b = c

NamedOrAlone == LockNamesSpawner \/ \E x \in Clients : client[x] = "crashed"

LEMMA StepAlone ==
  ASSUME StartupAssumption, TypeOK, NamedOrAlone, [Next]_vars PROVE NamedOrAlone'
<1>1. CASE LockNamesSpawner
  <2>1. ASSUME NEW c \in Clients, ClientCrashes(c) PROVE client'[c] = "crashed"
    BY <2>1 DEF ClientCrashes, Goes, TypeOK
  <2>2. LockNamesSpawner' \/ \E c \in Clients : ClientCrashes(c)
    BY <1>1, StepLocks DEF LockInv
  <2> QED BY <2>1, <2>2 DEF NamedOrAlone
<1>2. CASE \E x \in Clients : client[x] = "crashed"
  BY <1>2, CrashedForGood DEF NamedOrAlone
<1> QED BY <1>1, <1>2 DEF NamedOrAlone

-----------------------------------------------------------------------------
(* The socket, while nothing times out either.                             *)
LEMMA OneUnsettled ==
  ASSUME LockNamesSpawner, UnsettledIsAwaited, NEW d \in Daemons, NEW e \in Daemons,
         Unsettled(d), Unsettled(e)
  PROVE  d = e
BY DEF LockNamesSpawner, UnsettledIsAwaited

LEMMA StepSocket ==
  ASSUME StartupAssumption, MaxClientCrashes = 0, MaxTimeouts = 0, MaxLateProbes = 0,
         LockInv, SocketInv, [Next]_vars
  PROVE  SocketInv'
<1> DEFINE Others == UNCHANGED <<daemon, sock>>
<1>1. ASSUME NEW d \in Daemons, Listen(d) PROVE SocketInv'
  <2>1. Unsettled(d) /\ UNCHANGED <<client, child>>
    BY <1>1 DEF Listen, Unsettled
  <2>2. \A e \in Daemons \ {d} : daemon'[e] = daemon[e] /\ daemon[e] # "unlinking" /\ daemon[e] # "serving"
    BY <1>1, <2>1, OneUnsettled DEF Listen, Becomes, LockInv, TypeOK, SocketInv, Unsettled
  <2>3. daemon'[d] \in {"serving", "inuse", "inuse again"}
    BY <1>1 DEF Listen, Becomes, LockInv, TypeOK
  <2>4. UnsettledIsAwaited'
    BY <2>1, <2>2 DEF UnsettledIsAwaited, SocketInv, Unsettled
  <2>5. ProbeStillTrue'
    BY <2>2, <2>3 DEF ProbeStillTrue
  <2>6. ServerReachable'
    <3>1. CASE sock = NoFile
      <4>1. sock' = d /\ \A e \in Daemons : ~Serves(e)
        BY <1>1, <3>1 DEF Listen, SocketInv, ServerReachable, StartupAssumption
      <4> QED BY <2>2, <4>1 DEF ServerReachable, Serves
    <3>2. CASE sock # NoFile
      <4>1. sock' = sock /\ daemon'[d] \in {"inuse", "inuse again"}
        BY <1>1, <3>2 DEF Listen, Becomes, LockInv, TypeOK
      <4> QED BY <2>2, <4>1 DEF ServerReachable, Serves, SocketInv
    <3> QED BY <3>1, <3>2
  <2> QED BY <2>4, <2>5, <2>6 DEF SocketInv
<1>2. ASSUME NEW d \in Daemons, Probe(d) PROVE SocketInv'
  <2>1. /\ Unsettled(d) /\ UNCHANGED <<client, child, sock>>
        /\ \A e \in Daemons \ {d} : daemon'[e] = daemon[e]
        /\ daemon[d] \in {"inuse", "inuse again"}
        /\ daemon'[d] \in {"dead", "unlinking"} /\ (daemon'[d] = "unlinking" => ~Answers)
    BY <1>2 DEF Probe, Unsettled, Becomes, LockInv, TypeOK, files
  <2>2. Answers' = Answers
    BY <2>1 DEF Answers, Serves, LockInv, TypeOK
  <2> QED BY <2>1, <2>2 DEF SocketInv, UnsettledIsAwaited, Unsettled, ServerReachable, Serves,
                            ProbeStillTrue
<1>3. ASSUME NEW d \in Daemons, UnlinkStale(d) PROVE SocketInv'
  <2>1. /\ Unsettled(d) /\ UNCHANGED <<client, child>>
        /\ \A e \in Daemons \ {d} : daemon'[e] = daemon[e]
        /\ daemon'[d] = "retrying" /\ sock' = NoFile /\ ~Answers
    BY <1>3 DEF UnlinkStale, Unsettled, Becomes, LockInv, TypeOK, SocketInv, ProbeStillTrue
  <2>2. \A e \in Daemons : ~Serves(e)
    BY <2>1 DEF SocketInv, ServerReachable, Answers, StartupAssumption
  <2> QED BY <2>1, <2>2 DEF SocketInv, UnsettledIsAwaited, Unsettled, ServerReachable, Serves,
                            ProbeStillTrue, Answers
<1>4. ASSUME NEW d \in Daemons, BecomesReady(d) PROVE SocketInv'
  <2>1. /\ Unsettled(d) /\ UNCHANGED <<client, child, sock>>
        /\ \A e \in Daemons \ {d} : daemon'[e] = daemon[e]
        /\ daemon[d] = "serving" /\ daemon'[d] = "ready"
    BY <1>4 DEF BecomesReady, Unsettled, Becomes, LockInv, TypeOK
  <2>2. Answers' = Answers
    BY <2>1 DEF Answers, Serves, LockInv, TypeOK
  <2> QED BY <2>1, <2>2 DEF SocketInv, UnsettledIsAwaited, Unsettled, ServerReachable, Serves,
                            ProbeStillTrue
<1>5. ASSUME NEW d \in Daemons, CloseServer(d) PROVE SocketInv'
  <2>1. /\ UNCHANGED <<client, child>>
        /\ \A e \in Daemons \ {d} : daemon'[e] = daemon[e]
        /\ daemon[d] = "ready" /\ daemon'[d] = "closed" /\ sock' = NoFile
    BY <1>5 DEF CloseServer, Becomes, LockInv, TypeOK
  <2>2. \A e \in Daemons \ {d} : ~Serves(e)
    BY <2>1 DEF SocketInv, ServerReachable, Serves
  <2> QED BY <2>1, <2>2 DEF SocketInv, UnsettledIsAwaited, Unsettled, ServerReachable, Serves,
                            ProbeStillTrue, Answers
<1>6. ASSUME NEW d \in Daemons, RemovePid(d) \/ DaemonCrashes(d) PROVE SocketInv'
  <2>1. /\ UNCHANGED <<client, child, sock>>
        /\ \A e \in Daemons \ {d} : daemon'[e] = daemon[e]
        /\ daemon'[d] = "dead"
    BY <1>6 DEF RemovePid, DaemonCrashes, Becomes, LockInv, TypeOK, files
  <2>2. Answers' => Answers
    BY <2>1 DEF Answers, Serves, LockInv, TypeOK
  <2> QED BY <2>1, <2>2 DEF SocketInv, UnsettledIsAwaited, Unsettled, ServerReachable, Serves,
                            ProbeStillTrue
<1>7. ASSUME NEW c \in Clients, Fork(c) PROVE SocketInv'
  <2>1. PICK d \in Daemons : daemon[d] = "unborn" /\ daemon' = [daemon EXCEPT ![d] = "starting"]
                             /\ child' = [child EXCEPT ![c] = d]
    BY <1>7 DEF Fork, Becomes
  <2>2. client[c] = "holding" /\ client' = [client EXCEPT ![c] = "awaiting"] /\ sock' = sock
    BY <1>7 DEF Fork, Goes, files
  <2>3. UnsettledIsAwaited'
    BY <2>1, <2>2 DEF LockInv, TypeOK, SocketInv, UnsettledIsAwaited, Unsettled
  <2>4. \A e \in Daemons : Serves(e)' <=> Serves(e)
    BY <2>1 DEF Serves, LockInv, TypeOK
  <2>5. Answers' <=> Answers
    BY <2>2, <2>4 DEF Answers, LockInv, TypeOK
  <2>6. ServerReachable' /\ ProbeStillTrue'
    BY <2>1, <2>2, <2>4, <2>5 DEF ServerReachable, ProbeStillTrue, SocketInv, LockInv, TypeOK
  <2> QED BY <2>3, <2>6 DEF SocketInv
<1>8. ASSUME NEW c \in Clients,
             \/ CheckStatus(c) \/ RemoveStalePid(c) \/ AcquireLock(c) \/ BreakLock(c)
             \/ StopWaiting(c) \/ SpawnEnds(c) \/ Recheck(c)
      PROVE  SocketInv'
  <2>1. UNCHANGED <<daemon, sock, child>>
    BY <1>8 DEF CheckStatus, RemoveStalePid, AcquireLock, BreakLock, StopWaiting, SpawnEnds,
                Recheck, files
  <2>2. \A b \in Clients : client[b] = "awaiting" /\ Unsettled(child[b]) => client'[b] = "awaiting"
    <3>1. \A b \in Clients \ {c} : client'[b] = client[b]
      BY <1>8 DEF CheckStatus, RemoveStalePid, AcquireLock, BreakLock, StopWaiting, SpawnEnds,
                  Recheck, Goes, LockInv, TypeOK
    <3>2. client[c] = "awaiting" => ~Unsettled(child[c]) \/ client' = client
      BY <1>8 DEF CheckStatus, RemoveStalePid, AcquireLock, BreakLock, StopWaiting, SpawnEnds,
                  Recheck, Settled, Unsettled
    <3> QED BY <3>1, <3>2
  <2>3. UnsettledIsAwaited'
    BY <2>1, <2>2 DEF SocketInv, UnsettledIsAwaited, Unsettled
  <2>4. ServerReachable' /\ ProbeStillTrue'
    BY <2>1 DEF SocketInv, ServerReachable, Serves, ProbeStillTrue, Answers
  <2> QED BY <2>3, <2>4 DEF SocketInv
<1>9. ASSUME NEW c \in Clients, SpawnTimesOut(c) \/ ClientCrashes(c) PROVE FALSE
  BY <1>9, NoFaults DEF SpawnTimesOut, ClientCrashes, LockInv
<1>10. ASSUME NEW d \in Daemons, ProbeTimesOut(d) PROVE FALSE
  BY <1>10, NoFaults DEF ProbeTimesOut, LockInv
<1>11. ASSUME LockAges \/ UNCHANGED vars PROVE SocketInv'
  <2>1. UNCHANGED <<client, child, sock, daemon>>
    BY <1>11 DEF LockAges, vars, files
  <2> QED BY <2>1 DEF SocketInv, UnsettledIsAwaited, Unsettled, ServerReachable, Serves,
                      ProbeStillTrue, Answers
<1> QED
  BY <1>1, <1>2, <1>3, <1>4, <1>5, <1>6, <1>7, <1>8, <1>9, <1>10, <1>11
     DEF Next, ClientStep, DaemonStep

LEMMA SocketInvariant ==
  ASSUME StartupAssumption, MaxClientCrashes = 0, MaxTimeouts = 0, MaxLateProbes = 0
  PROVE  Spec => [](LockInv /\ SocketInv)
<1>1. Init => LockInv /\ SocketInv
  BY InitTyped, InitLocks DEF LockInv, SocketInv, Init, UnsettledIsAwaited, Unsettled,
                              ServerReachable, Serves, ProbeStillTrue
<1>2. LockInv /\ SocketInv /\ [Next]_vars => LockInv' /\ SocketInv'
  BY StepTyped, StepUncrashed, StepSocket DEF LockInv
<1> QED BY <1>1, <1>2, PTL DEF Spec

-----------------------------------------------------------------------------
(* The socket by itself, whoever forked.                                   *)
Undisturbed == lateProbes = 0 /\ crashes = 0 /\ shutdowns = 0

FileIsServed ==
    /\ \A d \in Daemons : /\ daemon[d] \notin {"unlinking", "retrying", "closed"}
                          /\ Serves(d) <=> sock = d
                          /\ daemon[d] \in {"inuse", "inuse again"} => sock # NoFile

ServedUntilDisturbed == Undisturbed => FileIsServed

LEMMA InitServed == ASSUME StartupAssumption, Init PROVE FileIsServed
BY DEF Init, FileIsServed, Serves, StartupAssumption

LEMMA StepServed ==
  ASSUME StartupAssumption, TypeOK, ServedUntilDisturbed, [Next]_vars PROVE ServedUntilDisturbed'
<1>1. ASSUME NEW d \in Daemons, Undisturbed',
             ProbeTimesOut(d) \/ CloseServer(d) \/ DaemonCrashes(d)
      PROVE  FALSE
  <2>1. lateProbes \in 0 .. MaxLateProbes /\ crashes \in 0 .. MaxDaemonCrashes
        /\ shutdowns \in 0 .. MaxShutdowns
    BY DEF TypeOK
  <2>2. lateProbes' = lateProbes + 1 \/ crashes' = crashes + 1 \/ shutdowns' = shutdowns + 1
    BY <1>1 DEF ProbeTimesOut, CloseServer, DaemonCrashes
  <2> QED BY <1>1, <2>1, <2>2 DEF Undisturbed
<1>2. ASSUME NEW d \in Daemons, DaemonStep(d), Undisturbed' PROVE FileIsServed'
  <2>1. Undisturbed
    BY <1>2 DEF DaemonStep, Listen, Probe, UnlinkStale, BecomesReady, RemovePid, bounds, Undisturbed
  <2>2. FileIsServed
    BY <2>1 DEF ServedUntilDisturbed
  <2>3. CASE Listen(d)
    <3>1. /\ \A e \in Daemons \ {d} : daemon'[e] = daemon[e]
          /\ daemon'[d] = IF sock = NoFile THEN "serving"
                          ELSE IF daemon[d] = "starting" THEN "inuse" ELSE "inuse again"
          /\ sock' = IF sock = NoFile THEN d ELSE sock
          /\ daemon[d] \in {"starting", "retrying"}
      BY <2>3 DEF Listen, Becomes, TypeOK
    <3>2. d # NoFile
      BY DEF StartupAssumption
    <3>3. CASE sock = NoFile
      <4>1. sock' = d /\ daemon'[d] = "serving"
        BY <3>1, <3>3
      <4>2. \A e \in Daemons \ {d} : daemon'[e] = daemon[e] /\ ~Serves(e) /\ sock' # e
        BY <2>2, <3>1, <3>3, <4>1 DEF FileIsServed, StartupAssumption
      <4> QED BY <2>2, <3>2, <4>1, <4>2 DEF FileIsServed, Serves
    <3>4. CASE sock # NoFile
      <4>1. sock' = sock /\ daemon'[d] \in {"inuse", "inuse again"} /\ ~Serves(d)
        BY <3>1, <3>4 DEF Serves
      <4> QED BY <2>2, <3>1, <3>4, <4>1 DEF FileIsServed, Serves
    <3> QED BY <3>3, <3>4
  <2>4. CASE Probe(d)
    <3>1. sock \in Daemons /\ Answers
      BY <2>2, <2>4 DEF Probe, FileIsServed, Answers, TypeOK
    <3>2. /\ \A e \in Daemons \ {d} : daemon'[e] = daemon[e]
          /\ daemon'[d] = "dead" /\ sock' = sock
          /\ daemon[d] \in {"inuse", "inuse again"}
      BY <2>4, <3>1 DEF Probe, Becomes, TypeOK, files
    <3> QED BY <2>2, <3>2 DEF FileIsServed, Serves
  <2>5. CASE UnlinkStale(d) \/ RemovePid(d)
    BY <2>2, <2>5 DEF UnlinkStale, RemovePid, FileIsServed
  <2>6. CASE BecomesReady(d)
    BY <2>2, <2>6 DEF BecomesReady, Becomes, FileIsServed, Serves, TypeOK
  <2> QED BY <1>2, <2>3, <2>4, <2>5, <2>6 DEF DaemonStep
<1>3. ASSUME NEW c \in Clients, Fork(c) PROVE ServedUntilDisturbed'
  <2>1. PICK d \in Daemons : daemon[d] = "unborn" /\ daemon' = [daemon EXCEPT ![d] = "starting"]
    BY <1>3 DEF Fork, Becomes
  <2>2. sock' = sock /\ UNCHANGED bounds
    BY <1>3 DEF Fork, files
  <2>3. FileIsServed => FileIsServed'
    BY <2>1, <2>2 DEF FileIsServed, Serves, TypeOK
  <2> QED BY <2>2, <2>3 DEF ServedUntilDisturbed, Undisturbed, bounds
<1>4. ASSUME UNCHANGED <<daemon, sock, lateProbes, crashes, shutdowns>>
      PROVE  ServedUntilDisturbed'
  BY <1>4 DEF ServedUntilDisturbed, Undisturbed, FileIsServed, Serves
<1>5. ASSUME NEW c \in Clients,
             \/ CheckStatus(c) \/ RemoveStalePid(c) \/ AcquireLock(c) \/ BreakLock(c)
             \/ StopWaiting(c) \/ SpawnEnds(c) \/ Recheck(c) \/ SpawnTimesOut(c)
             \/ ClientCrashes(c)
      PROVE  UNCHANGED <<daemon, sock, lateProbes, crashes, shutdowns>>
  BY <1>5 DEF CheckStatus, RemoveStalePid, AcquireLock, BreakLock, StopWaiting, SpawnEnds,
              Recheck, SpawnTimesOut, ClientCrashes, files, bounds
<1>6. ASSUME LockAges \/ UNCHANGED vars
      PROVE  UNCHANGED <<daemon, sock, lateProbes, crashes, shutdowns>>
  BY <1>6 DEF LockAges, vars, files, bounds
<1> QED
  BY <1>1, <1>2, <1>3, <1>4, <1>5, <1>6 DEF Next, ClientStep, ServedUntilDisturbed

-----------------------------------------------------------------------------
(* Every variable has its type, and a client that waits for a daemon has   *)
(* forked one (process.ts).                                                *)
THEOREM StartupTyped == ASSUME StartupAssumption PROVE Spec => []TypeOK
<1>1. Init => TypeOK
  BY InitTyped
<1>2. TypeOK /\ [Next]_vars => TypeOK'
  BY StepTyped
<1> QED BY <1>1, <1>2, PTL DEF Spec

(* Until a client crashes, one client at a time forks a daemon or waits    *)
(* for one, with any number of daemons that crash or are too slow          *)
(* (acquireLock and spawnDaemon, process.ts:86-199).                       *)
THEOREM OneSpawnerAtATime == ASSUME StartupAssumption PROVE Spec => []OneSpawnerUncrashed
<1>1. Init => TypeOK /\ NamedUntilCrash
  BY InitTyped, InitLocks DEF NamedUntilCrash
<1>2. TypeOK /\ NamedUntilCrash /\ [Next]_vars => TypeOK' /\ NamedUntilCrash'
  BY StepTyped, StepUntilCrash
<1>3. NamedUntilCrash => OneSpawnerUncrashed
  BY DEF NamedUntilCrash, LockNamesSpawner, OneSpawnerUncrashed, OneSpawner
<1> QED BY <1>1, <1>2, <1>3, PTL DEF Spec

(* Of two clients one at a time forks or waits even when they crash: the   *)
(* race in which two clients both break the lock of a crashed one needs    *)
(* a third (acquireLock, process.ts:130-165).                              *)
THEOREM OneSpawnerOfTwo ==
  ASSUME StartupAssumption, AtMostTwo PROVE Spec => []OneSpawner
<1>1. Init => TypeOK /\ NamedOrAlone
  BY InitTyped, InitLocks DEF NamedOrAlone
<1>2. TypeOK /\ NamedOrAlone /\ [Next]_vars => TypeOK' /\ NamedOrAlone'
  BY StepTyped, StepAlone
<1>3. TypeOK /\ NamedOrAlone => OneSpawner
  BY DEF NamedOrAlone, LockNamesSpawner, OneSpawner, AtMostTwo
<1> QED BY <1>1, <1>2, <1>3, PTL DEF Spec

(* If nothing times out either, there is never more than one daemon that   *)
(* serves, and nobody unlinks the socket it listens on: a daemon that      *)
(* crashes and the file it leaves are no danger (server-bind.ts).          *)
THEOREM OneDaemonServes ==
  ASSUME StartupAssumption, MaxClientCrashes = 0, MaxTimeouts = 0, MaxLateProbes = 0
  PROVE  Spec => [](SingleWriter /\ ServerReachable)
<1>1. SocketInv => SingleWriter /\ ServerReachable
  BY DEF SocketInv, SingleWriter, ServerReachable
<1> QED BY <1>1, SocketInvariant, PTL

(* Whatever becomes of the lock - clients that crash, locks that two       *)
(* clients broke, starts given up as too slow - there is one daemon that   *)
(* serves and it can be reached, so long as every probe is answered in     *)
(* time and no daemon has ended: a second one finds the first and goes     *)
(* (bindServerSocket, server-bind.ts:16-57).                               *)
THEOREM SocketKeepsApart == ASSUME StartupAssumption PROVE Spec => []SocketDecides
<1>1. Init => TypeOK /\ ServedUntilDisturbed
  BY InitTyped, InitServed DEF ServedUntilDisturbed
<1>2. TypeOK /\ ServedUntilDisturbed /\ [Next]_vars => TypeOK' /\ ServedUntilDisturbed'
  BY StepTyped, StepServed
<1>3. ServedUntilDisturbed => SocketDecides
  BY DEF ServedUntilDisturbed, Undisturbed, FileIsServed, SocketDecides, SingleWriter,
         ServerReachable
<1> QED BY <1>1, <1>2, <1>3, PTL DEF Spec
==============================================================================
