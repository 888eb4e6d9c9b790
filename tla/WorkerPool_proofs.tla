-------------------------- MODULE WorkerPool_proofs --------------------------
(***************************************************************************)
(* WorkerPool for any tasks, any number of threads and any length of the   *)
(* queue, with threads that throw, exit or hang: what the run              *)
(* "coordination" checks of four tasks and two threads, and that the pool  *)
(* implements TaskPool.                                                    *)
(*                                                                         *)
(* The invariant says where each task is: with one worker, with its timer  *)
(* only, in the queue once, or nowhere; and that all workers are busy      *)
(* while the queue is not empty.  Hence an event that frees a worker moves *)
(* at most one task out of the queue, as one step of TaskPool does, and    *)
(* the numbers of running and waiting tasks, which TaskPool looks at, are  *)
(* those of busy workers and of places in the queue.                       *)
(***************************************************************************)
EXTENDS WorkerPool, FiniteSetTheorems, SequenceTheorems, NaturalsInduction, WellFoundedInduction, TLAPS

Worker  == [busy : BOOLEAN, task : Tasks \cup {None}, alive : BOOLEAN]
Results == {"new", "queued", "running"} \cup Settled
Busy    == {i \in Places : workers[i].busy}
With(r) == {t \in Tasks : result[t] = r}

PartsTyped ==
    /\ workers \in [Places -> Worker]
    /\ queue \in Seq(Tasks) /\ orphans \subseteq Tasks
    /\ result \in [Tasks -> Results]
    /\ shuttingDown \in BOOLEAN /\ gone \in BOOLEAN

(* Where the running tasks are.                                            *)
Placed ==
    /\ \A i \in Busy : /\ workers[i].task \in Tasks \ orphans
                       /\ result[workers[i].task] = "running"
    /\ \A i, j \in Busy : workers[i].task = workers[j].task => i = j
    /\ \A t \in Tasks : result[t] = "running" => t \in orphans \/ \E i \in Busy : workers[i].task = t
    /\ \A t \in orphans : result[t] = "running"

(* The queue is the queued tasks, each once.                               *)
Lined ==
    /\ \A t \in Tasks : result[t] = "queued" <=> \E k \in 1..Len(queue) : queue[k] = t
    /\ \A k, l \in 1..Len(queue) : queue[k] = queue[l] => k = l
    /\ Len(queue) <= MaxQueue

(* Only a pool that has let go of its workers has tasks without one.       *)
LetGoOnce ==
    /\ gone => shuttingDown /\ Busy = {}
    /\ ~gone => orphans = {}

Sound == PartsTyped /\ Placed /\ Lined /\ NoIdleWhileQueued /\ LetGoOnce

Counted ==
    /\ completedTasks = Cardinality(With("ok"))
    /\ failedTasks = Cardinality(With("failed"))

Others == killed \in BOOLEAN /\ closing \subseteq Places /\ faults \in 0..MaxFaults

IInv == Sound /\ Counted /\ Others

-----------------------------------------------------------------------------
LEMMA PlacesFinite == ASSUME PoolAssumption PROVE IsFiniteSet(Places) /\ Cardinality(Places) = Size
<1>1. Size \in Nat /\ Size >= 1
  BY DEF PoolAssumption
<1> QED BY <1>1, FS_Interval DEF Places

(* drainQueue when there is nothing to hand out, or nobody to take it.     *)
LEMMA DrainNothing ==
  ASSUME PoolAssumption, queue \in Seq(Tasks),
         NEW ws \in [Places -> Worker], NEW res \in [Tasks -> Results],
         queue = <<>> \/ Idle(ws) = {}, Drain(ws, res)
  PROVE  workers' = ws /\ queue' = queue /\ result' = res
<1> DEFINE Turn(i) == Cardinality({j \in Idle(ws) : j <= i})
           served  == {i \in Idle(ws) : Turn(i) <= Len(queue)}
<1>1. \A i \in Idle(ws) : Turn(i) \in Nat /\ Turn(i) # 0
  <2> SUFFICES ASSUME NEW i \in Idle(ws) PROVE Turn(i) \in Nat /\ Turn(i) # 0
    OBVIOUS
  <2> DEFINE T == {j \in Idle(ws) : j <= i}
  <2>1. T \in SUBSET Places /\ i \in T
    BY DEF Idle, Places
  <2>2. IsFiniteSet(T)
    BY <2>1, PlacesFinite, FS_Subset
  <2>3. Cardinality(T) \in Nat /\ Cardinality(T) # 0
    BY <2>1, <2>2, FS_CardinalityType, FS_EmptySet
  <2> QED BY <2>3
<1>2. served = {}
  <2>1. Len(queue) \in Nat /\ (queue = <<>> => Len(queue) = 0)
    OBVIOUS
  <2> HIDE DEF Turn
  <2> QED BY <1>1, <2>1
<1>3. /\ workers' = [i \in Places |-> IF i \in served THEN Given(ws, i, queue[Turn(i)])[i] ELSE ws[i]]
      /\ queue' = SubSeq(queue, Cardinality(served) + 1, Len(queue))
      /\ result' = [t \in Tasks |-> IF \E i \in served : queue[Turn(i)] = t THEN "running" ELSE res[t]]
  BY Zenon DEF Drain
<1> HIDE DEF served, Turn
<1>4. workers' = ws
  BY <1>2, <1>3
<1>5. result' = res
  BY <1>2, <1>3
<1>6. queue' = queue
  BY <1>2, <1>3, FS_EmptySet, SubSeqFull
<1> QED BY <1>4, <1>5, <1>6

(* drainQueue with one idle worker: the first in the queue goes to it.     *)
LEMMA DrainFirst ==
  ASSUME PoolAssumption, queue \in Seq(Tasks),
         NEW ws \in [Places -> Worker], NEW res \in [Tasks -> Results],
         NEW i \in Places, Idle(ws) = {i}, queue # <<>>, Drain(ws, res)
  PROVE  /\ workers' = [ws EXCEPT ![i] = [busy |-> TRUE, task |-> Head(queue), alive |-> ws[i].alive]]
         /\ queue' = Tail(queue)
         /\ result' = [res EXCEPT ![Head(queue)] = "running"]
<1> DEFINE Turn(k) == Cardinality({j \in Idle(ws) : j <= k})
           served  == {k \in Idle(ws) : Turn(k) <= Len(queue)}
<1>1. Turn(i) = 1
  <2>1. {j \in Idle(ws) : j <= i} = {i}
    BY PlacesFinite DEF Places
  <2> QED BY <2>1, FS_Singleton
<1>2. Len(queue) \in Nat /\ Len(queue) >= 1
  OBVIOUS
<1>3. served = {i}
  <2> HIDE DEF Turn
  <2> QED BY <1>1, <1>2
<1>4. /\ workers' = [k \in Places |-> IF k \in served THEN Given(ws, k, queue[Turn(k)])[k] ELSE ws[k]]
      /\ queue' = SubSeq(queue, Cardinality(served) + 1, Len(queue))
      /\ result' = [t \in Tasks |-> IF \E k \in served : queue[Turn(k)] = t THEN "running" ELSE res[t]]
  BY Zenon DEF Drain
<1> HIDE DEF served, Turn
<1>5. queue[Turn(i)] = Head(queue) /\ Head(queue) \in Tasks
  BY <1>1, <1>2
<1>6. \A t : Given(ws, i, t)[i] = [busy |-> TRUE, task |-> t, alive |-> ws[i].alive]
  BY DEF Given, Worker
<1>7. workers' = [ws EXCEPT ![i] = [busy |-> TRUE, task |-> Head(queue), alive |-> ws[i].alive]]
  BY <1>3, <1>4, <1>5, <1>6
<1>8. result' = [res EXCEPT ![Head(queue)] = "running"]
  BY <1>3, <1>4, <1>5
<1>9. queue' = Tail(queue)
  <2>1. Cardinality(served) = 1
    BY <1>3, FS_Singleton
  <2>2. queue' = SubSeq(queue, 2, Len(queue))
    BY <1>4, <2>1
  <2> QED BY <2>2, TailIsSubSeq, Zenon
<1> QED BY <1>7, <1>8, <1>9

-----------------------------------------------------------------------------
(* The steps by what becomes of the tasks.  A worker that loses its task   *)
(* is idle with an empty queue, or has the first of the queue.             *)
Ended(out) ==
    /\ completedTasks' = IF out = "ok" THEN completedTasks + 1 ELSE completedTasks
    /\ failedTasks' = IF out = "ok" THEN failedTasks ELSE failedTasks + 1
    /\ UNCHANGED <<orphans, phase>>

Freed(i, w, out) ==
    /\ ~gone /\ i \in Busy /\ queue = <<>> /\ ~w.busy
    /\ workers' = [workers EXCEPT ![i] = w]
    /\ result' = [result EXCEPT ![workers[i].task] = out]
    /\ queue' = queue
    /\ Ended(out)

Passed(i, w, out) ==
    /\ ~gone /\ i \in Busy /\ queue # <<>>
    /\ w.busy /\ w.task = Head(queue)
    /\ workers' = [workers EXCEPT ![i] = w]
    /\ \E res \in [Tasks -> Results] :
          /\ res = [result EXCEPT ![workers[i].task] = out]
          /\ result' = [res EXCEPT ![Head(queue)] = "running"]
    /\ queue' = Tail(queue)
    /\ Ended(out)

Losing(i, out) == \E w \in Worker : Freed(i, w, out) \/ Passed(i, w, out)

(* A step nobody who submitted a task can see.                             *)
Unseen ==
    /\ workers' \in [Places -> Worker]
    /\ \A i \in Places : /\ workers'[i].busy = workers[i].busy
                         /\ workers[i].busy => workers'[i].task = workers[i].task
    /\ UNCHANGED <<queue, orphans, result, stats, shuttingDown, gone>>

(* What drainQueue does when worker i, busy so far, has become idle.       *)
LEMMA DrainLoses ==
  ASSUME PoolAssumption, Sound, ~gone,
         NEW i \in Busy, NEW out \in {"ok", "failed"}, NEW idle \in Worker, ~idle.busy,
         Drain([workers EXCEPT ![i] = idle], [result EXCEPT ![workers[i].task] = out]),
         Ended(out)
  PROVE  Losing(i, out)
<1> DEFINE ws  == [workers EXCEPT ![i] = idle]
           res == [result EXCEPT ![workers[i].task] = out]
<1>1. i \in Places /\ queue \in Seq(Tasks)
  BY DEF Busy, Sound, PartsTyped
<1>2. ws \in [Places -> Worker] /\ res \in [Tasks -> Results]
  BY DEF Sound, PartsTyped, Results, Settled
<1>3. ws[i] = idle /\ \A j \in Places \ {i} : ws[j] = workers[j]
  BY <1>1 DEF Sound, PartsTyped
<1>4. CASE queue = <<>>
  <2>1. workers' = ws /\ queue' = queue /\ result' = res
    BY <1>1, <1>2, <1>4, DrainNothing, Zenon
  <2> QED BY <1>4, <2>1 DEF Losing, Freed
<1>5. CASE queue # <<>>
  <2> DEFINE w == [busy |-> TRUE, task |-> Head(queue), alive |-> ws[i].alive]
  <2>1. Idle(ws) = {i}
    BY <1>1, <1>3, <1>5 DEF Idle, Sound, NoIdleWhileQueued
  <2>2. /\ workers' = [ws EXCEPT ![i] = w]
        /\ queue' = Tail(queue)
        /\ result' = [res EXCEPT ![Head(queue)] = "running"]
    BY <1>1, <1>2, <1>5, <2>1, DrainFirst, Zenon
  <2>3. w \in Worker
    BY <1>1, <1>2, <1>5, HeadTailProperties DEF Worker
  <2>4. workers' = [workers EXCEPT ![i] = w]
    BY <1>1, <2>2 DEF Sound, PartsTyped
  <2>5. Passed(i, w, out)
    BY <1>2, <1>5, <2>2, <2>4 DEF Passed
  <2> QED BY <2>3, <2>5 DEF Losing
<1> QED BY <1>4, <1>5

LEMMA IdleAgain ==
  ASSUME NEW ws \in [Places -> Worker], NEW i \in Places
  PROVE  \E idle \in Worker : /\ ~idle.busy
                              /\ [ws EXCEPT ![i].busy = FALSE, ![i].task = None] = [ws EXCEPT ![i] = idle]
<1> DEFINE f == [ws EXCEPT ![i].busy = FALSE]
           g == [f EXCEPT ![i].task = None]
<1>1. f \in [Places -> Worker] /\ f[i].busy = FALSE /\ \A j \in Places \ {i} : f[j] = ws[j]
  BY DEF Worker
<1>2. g \in [Places -> Worker] /\ g[i].busy = FALSE /\ \A j \in Places \ {i} : g[j] = ws[j]
  <2> HIDE DEF f
  <2> QED BY <1>1 DEF Worker
<1>3. [ws EXCEPT ![i].busy = FALSE, ![i].task = None] = g
  BY Zenon
<1> HIDE DEF g
<1>4. g = [ws EXCEPT ![i] = g[i]]
  BY <1>2
<1> QED BY <1>2, <1>3, <1>4

(* The ways a worker ends its task.                                        *)
LEMMA AnswerLoses ==
  ASSUME PoolAssumption, Sound, NEW i \in Places, NEW good \in BOOLEAN, Answer(i, good)
  PROVE  i \in Busy /\ Losing(i, IF good THEN "ok" ELSE "failed")
<1> DEFINE out == IF good THEN "ok" ELSE "failed"
<1>1. i \in Busy /\ ~gone
  BY DEF Answer, Busy
<1>2. Ended(out)
  BY DEF Answer, Ended
<1>3. PICK idle \in Worker :
         /\ ~idle.busy
         /\ [workers EXCEPT ![i].busy = FALSE, ![i].task = None] = [workers EXCEPT ![i] = idle]
  BY IdleAgain, Zenon DEF Sound, PartsTyped
<1>4. Drain([workers EXCEPT ![i].busy = FALSE, ![i].task = None], [result EXCEPT ![workers[i].task] = out])
  BY Zenon DEF Answer
<1>5. out \in {"ok", "failed"}
  OBVIOUS
<1> HIDE DEF out
<1> QED BY <1>1, <1>2, <1>3, <1>4, <1>5, DrainLoses, Zenon DEF out

LEMMA TimeOutLoses ==
  ASSUME PoolAssumption, Sound, NEW i \in Places, TimeOut(i)
  PROVE  i \in Busy /\ Losing(i, "failed")
<1> DEFINE idle == IF shuttingDown THEN [Fresh EXCEPT !.alive = FALSE] ELSE Fresh
<1>1. i \in Busy /\ ~gone /\ idle \in Worker /\ ~idle.busy
  BY DEF TimeOut, Busy, Worker, Fresh
<1>2. Ended("failed")
  BY DEF TimeOut, Ended
<1>3. Drain([workers EXCEPT ![i] = idle], [result EXCEPT ![workers[i].task] = "failed"])
  BY Zenon DEF TimeOut
<1> HIDE DEF idle
<1> QED BY <1>1, <1>2, <1>3, DrainLoses

LEMMA CrashLoses ==
  ASSUME PoolAssumption, Sound, NEW i \in Places, Crash(i)
  PROVE  (i \in Busy /\ Losing(i, "failed")) \/ Unseen
<1> DEFINE idle == IF shuttingDown THEN [Fresh EXCEPT !.alive = FALSE] ELSE Fresh
<1>1. ~gone /\ idle \in Worker /\ ~idle.busy
  BY DEF Crash, Worker, Fresh
<1>2. CASE workers[i].busy
  <2>1. i \in Busy
    BY <1>2 DEF Busy
  <2>2. Ended("failed")
    BY <1>2 DEF Crash, Ended
  <2>3. Drain([workers EXCEPT ![i] = idle], [result EXCEPT ![workers[i].task] = "failed"])
    BY <1>2, Zenon DEF Crash
  <2> HIDE DEF idle
  <2> QED BY <1>1, <2>1, <2>2, <2>3, DrainLoses
<1>3. CASE ~workers[i].busy
  <2>1. Drain([workers EXCEPT ![i] = idle], result)
    BY <1>3, Zenon DEF Crash
  <2>2. UNCHANGED <<orphans, stats, shuttingDown, gone>>
    BY <1>3 DEF Crash, phase, stats
  <2> HIDE DEF idle
  <2>3. queue = <<>> /\ queue \in Seq(Tasks) /\ result \in [Tasks -> Results]
    BY <1>3 DEF Sound, PartsTyped, NoIdleWhileQueued
  <2>4. [workers EXCEPT ![i] = idle] \in [Places -> Worker]
    BY <1>1 DEF Sound, PartsTyped
  <2>5. workers' = [workers EXCEPT ![i] = idle] /\ queue' = queue /\ result' = result
    BY <2>1, <2>3, <2>4, DrainNothing, Zenon
  <2>6. workers \in [Places -> Worker]
    BY DEF Sound, PartsTyped
  <2>7. idle.busy = FALSE /\ workers[i].busy = FALSE
    BY <1>1, <1>3, <2>6 DEF Worker
  <2>8. Unseen
    BY <2>7, <1>1, <1>3, <2>2, <2>4, <2>5, <2>6 DEF Unseen, stats
  <2> QED BY <2>8
<1> QED BY <1>2, <1>3

LEMMA ExitUnseen ==
  ASSUME Sound, NEW i \in Places, Exit(i) \/ ShutdownWorker(i) \/ ShutdownForced(i)
  PROVE  Unseen
<1>1. workers' = [workers EXCEPT ![i].alive = FALSE]
  BY Zenon DEF Exit, ShutdownWorker, ShutdownForced
<1>2. workers \in [Places -> Worker]
  BY DEF Sound, PartsTyped
<1>3. /\ workers' \in [Places -> Worker]
      /\ \A j \in Places : workers'[j].busy = workers[j].busy /\ workers'[j].task = workers[j].task
  BY <1>1, <1>2 DEF Worker
<1>4. UNCHANGED <<queue, orphans, result, completedTasks, failedTasks, shuttingDown, gone>>
  BY DEF Exit, ShutdownWorker, ShutdownForced, phase, stats
<1> QED BY <1>3, <1>4 DEF Unseen, stats

(* submit with an idle worker.                                             *)
Begun(t, i, w) ==
    /\ result[t] = "new" /\ ~shuttingDown /\ i \notin Busy
    /\ w.busy /\ w.task = t
    /\ workers' = [workers EXCEPT ![i] = w]
    /\ result' = [result EXCEPT ![t] = "running"]
    /\ UNCHANGED <<queue, orphans, stats, phase, faults>>

LEMMA GivenIsBusy ==
  ASSUME NEW ws \in [Places -> Worker], NEW i \in Places, NEW t \in Tasks
  PROVE  \E w \in Worker : w.busy /\ w.task = t /\ Given(ws, i, t) = [ws EXCEPT ![i] = w]
<1> DEFINE f == [ws EXCEPT ![i].busy = TRUE]
           g == [f EXCEPT ![i].task = t]
<1>1. f \in [Places -> Worker] /\ f[i].busy /\ \A j \in Places \ {i} : f[j] = ws[j]
  BY DEF Worker
<1>2. g \in [Places -> Worker] /\ g[i].busy /\ g[i].task = t /\ \A j \in Places \ {i} : g[j] = ws[j]
  <2> HIDE DEF f
  <2> QED BY <1>1 DEF Worker
<1>3. Given(ws, i, t) = g
  BY Zenon DEF Given
<1> HIDE DEF g
<1>4. g = [ws EXCEPT ![i] = g[i]]
  BY <1>2
<1> QED BY <1>2, <1>3, <1>4

(* The list of workers has a first idle one, if any.                       *)
LEMMA FirstPlace ==
  ASSUME NEW T \in SUBSET Nat, T # {}
  PROVE  \E i \in T : \A j \in T : i <= j
<1> DEFINE R == {ss \in Nat \X Nat : ss[1] < ss[2]}
<1>1. IsWellFoundedOn(R, Nat)
  <2>1. R = OpToRel(<, Nat)
    BY Zenon DEF OpToRel
  <2> QED BY <2>1, NatLessThanWellFounded, Zenon
<1>2. \A x, y \in Nat : x < y => <<x, y>> \in R
  OBVIOUS
<1> HIDE DEF R
<1>3. PICK i \in T : \A j \in T : ~(<<j, i>> \in R)
  BY <1>1, WFMin
<1>4. ASSUME NEW j \in T PROVE i <= j
  <2>1. i \in Nat /\ j \in Nat /\ ~(j < i)
    BY <1>2, <1>3
  <2> QED BY <2>1
<1> QED BY <1>4

LEMMA SubmitBegins ==
  ASSUME PoolAssumption, Sound, NEW t \in Tasks, Submit(t)
  PROVE  ~gone /\ \E i \in Places, w \in Worker : Begun(t, i, w)
<1> DEFINE first == CHOOSE i \in Idle(workers) : \A j \in Idle(workers) : i <= j
<1>1. workers \in [Places -> Worker] /\ Idle(workers) # {} /\ Idle(workers) \in SUBSET Nat
  BY DEF Sound, PartsTyped, Submit, Idle, Places
<1>2. first \in Idle(workers)
  BY <1>1, FirstPlace
<1>3. workers' = Given(workers, first, t)
  BY Zenon DEF Submit
<1> HIDE DEF first
<1>4. ~gone /\ first \in Places /\ first \notin Busy
  BY <1>2 DEF Idle, Busy
<1>5. PICK w \in Worker : w.busy /\ w.task = t /\ Given(workers, first, t) = [workers EXCEPT ![first] = w]
  BY <1>1, <1>4, GivenIsBusy
<1>6. Begun(t, first, w)
  BY <1>3, <1>4, <1>5 DEF Submit, Begun
<1> QED BY <1>4, <1>6

-----------------------------------------------------------------------------
(* The invariant, by kinds of steps.                                       *)
LEMMA SoundInit == ASSUME PoolAssumption PROVE Init => IInv
<1> SUFFICES ASSUME Init PROVE IInv
  OBVIOUS
<1>1. PartsTyped
  <2>1. workers \in [Places -> Worker]
    BY DEF Init, Worker, Fresh
  <2>2. queue \in Seq(Tasks) /\ orphans \subseteq Tasks /\ result \in [Tasks -> Results]
    BY DEF Init, Results
  <2>3. shuttingDown \in BOOLEAN /\ gone \in BOOLEAN
    BY Zenon DEF Init
  <2> QED BY <2>1, <2>2, <2>3 DEF PartsTyped
<1>2. Busy = {}
  BY DEF Init, Busy, Fresh
<1>3. Placed
  BY <1>2 DEF Init, Placed
<1>4. Lined
  BY DEF Init, Lined, PoolAssumption
<1>5. NoIdleWhileQueued /\ LetGoOnce
  BY DEF Init, NoIdleWhileQueued, LetGoOnce
<1>6. With("ok") = {} /\ With("failed") = {}
  BY DEF Init, With
<1>7. Counted
  BY <1>6, FS_EmptySet DEF Init, Counted
<1>8. Others
  <2>1. killed \in BOOLEAN
    BY Zenon DEF Init
  <2>2. closing \subseteq Places /\ faults \in 0..MaxFaults
    BY DEF Init, PoolAssumption
  <2> QED BY <2>1, <2>2 DEF Others
<1> QED BY <1>1, <1>3, <1>4, <1>5, <1>7, <1>8 DEF IInv, Sound

LEMMA UnseenSound == ASSUME Sound, Unseen PROVE Sound'
<1>1. Busy' = Busy /\ \A i \in Busy : workers'[i].task = workers[i].task
  BY DEF Unseen, Busy
<1>2. PartsTyped'
  BY DEF Sound, PartsTyped, Unseen
<1>3. Placed'
  BY <1>1 DEF Sound, Placed, Unseen
<1>4. Lined'
  BY DEF Sound, Lined, Unseen
<1>5. NoIdleWhileQueued'
  BY DEF Sound, NoIdleWhileQueued, Unseen
<1>6. LetGoOnce'
  BY <1>1 DEF Sound, LetGoOnce, Unseen
<1> QED BY <1>2, <1>3, <1>4, <1>5, <1>6 DEF Sound

LEMMA FreedSound ==
  ASSUME Sound, NEW i \in Places, NEW w \in Worker, NEW out \in {"ok", "failed"}, Freed(i, w, out)
  PROVE  Sound'
<1> DEFINE t == workers[i].task
<1>1. i \in Busy /\ t \in Tasks /\ result[t] = "running" /\ PartsTyped
  BY DEF Sound, Placed, Freed
<1>2. UNCHANGED <<orphans, shuttingDown, gone>>
  BY DEF Freed, Ended, phase
<1>3. PartsTyped'
  BY <1>1, <1>2 DEF PartsTyped, Freed, Results, Settled
<1>4. Busy' = Busy \ {i} /\ \A j \in Busy \ {i} : workers'[j] = workers[j]
  BY <1>1 DEF Freed, Busy, PartsTyped
<1>5. result' = [result EXCEPT ![t] = out]
  BY DEF Freed
<1> HIDE DEF t
<1>6. \A j \in Busy' : workers'[j].task \in Tasks \ orphans /\ workers'[j].task # t
  BY <1>1, <1>4 DEF Sound, Placed, t
<1>7. Placed'
  BY <1>1, <1>2, <1>4, <1>5, <1>6 DEF Sound, Placed, PartsTyped, t
<1>8. Lined'
  BY <1>1, <1>5 DEF Sound, Lined, PartsTyped, Freed
<1>9. NoIdleWhileQueued' /\ LetGoOnce'
  BY <1>2, <1>4 DEF Sound, NoIdleWhileQueued, LetGoOnce, Freed
<1> QED BY <1>3, <1>7, <1>8, <1>9 DEF Sound

(* The first in the queue is not in the rest of it.                        *)
LEMMA QueueParts ==
  ASSUME PoolAssumption, Sound, queue # <<>>
  PROVE  /\ Head(queue) \in Tasks /\ result[Head(queue)] = "queued"
         /\ Tail(queue) \in Seq(Tasks) /\ Len(Tail(queue)) <= MaxQueue
         /\ \A k, l \in 1..Len(Tail(queue)) : Tail(queue)[k] = Tail(queue)[l] => k = l
         /\ \A t \in Tasks : (\E k \in 1..Len(Tail(queue)) : Tail(queue)[k] = t)
                                <=> result[t] = "queued" /\ t # Head(queue)
<1> DEFINE q == queue
           tl == Tail(queue)
<1>1. q \in Seq(Tasks) /\ q # <<>> /\ Len(q) \in Nat /\ Len(q) >= 1
  BY DEF Sound, PartsTyped
<1>2. /\ Head(q) \in Tasks /\ tl \in Seq(Tasks) /\ Len(tl) = Len(q) - 1
      /\ \A k \in 1..Len(tl) : tl[k] = q[k + 1]
      /\ Head(q) = q[1]
  BY <1>1, HeadTailProperties
<1>3. /\ \A t \in Tasks : result[t] = "queued" <=> \E k \in 1..Len(q) : q[k] = t
      /\ \A k, l \in 1..Len(q) : q[k] = q[l] => k = l
      /\ Len(q) <= MaxQueue
  BY DEF Sound, Lined
<1>4. result[Head(q)] = "queued"
  BY <1>1, <1>2, <1>3
<1> HIDE DEF q, tl
<1>5. Len(tl) <= MaxQueue /\ Len(tl) \in Nat
  BY <1>1, <1>2, <1>3 DEF PoolAssumption, q
<1>6. \A k, l \in 1..Len(tl) : tl[k] = tl[l] => k = l
  BY <1>1, <1>2, <1>3
<1>7. \A t \in Tasks : (\E k \in 1..Len(tl) : tl[k] = t) <=> result[t] = "queued" /\ t # Head(q)
  <2> SUFFICES ASSUME NEW t \in Tasks
               PROVE  (\E k \in 1..Len(tl) : tl[k] = t) <=> result[t] = "queued" /\ t # Head(q)
    OBVIOUS
  <2>1. ASSUME NEW k \in 1..Len(tl), tl[k] = t PROVE result[t] = "queued" /\ t # Head(q)
    <3>1. k + 1 \in 1..Len(q) /\ 1 \in 1..Len(q) /\ k + 1 # 1 /\ q[k + 1] = t
      BY <1>1, <1>2, <2>1
    <3> QED BY <1>2, <1>3, <3>1
  <2>2. ASSUME result[t] = "queued", t # Head(q) PROVE \E k \in 1..Len(tl) : tl[k] = t
    <3>1. PICK l \in 1..Len(q) : q[l] = t
      BY <1>3, <2>2
    <3>2. l # 1
      BY <1>2, <2>2, <3>1
    <3>3. l - 1 \in 1..Len(tl) /\ (l - 1) + 1 = l
      BY <1>1, <1>2, <3>2
    <3> QED BY <1>2, <3>1, <3>3
  <2> QED BY <2>1, <2>2
<1> QED BY <1>2, <1>4, <1>5, <1>6, <1>7 DEF q, tl

LEMMA PassedSound ==
  ASSUME PoolAssumption, Sound, NEW i \in Places, NEW w \in Worker, NEW out \in {"ok", "failed"},
         Passed(i, w, out)
  PROVE  Sound'
<1> DEFINE t == workers[i].task
           u == Head(queue)
<1>1. /\ i \in Busy /\ t \in Tasks /\ result[t] = "running" /\ PartsTyped
      /\ queue # <<>> /\ w.busy /\ w.task = u
  BY DEF Sound, Placed, Passed
<1>2. UNCHANGED <<orphans, shuttingDown, gone>>
  BY DEF Passed, Ended, phase
<1>3. u \in Tasks /\ result[u] = "queued" /\ t # u
  BY <1>1, QueueParts
<1>4. PICK res \in [Tasks -> Results] : /\ res = [result EXCEPT ![t] = out]
                                         /\ result' = [res EXCEPT ![u] = "running"]
  BY Zenon DEF Passed
<1>5. workers' = [workers EXCEPT ![i] = w] /\ queue' = Tail(queue)
  BY DEF Passed
<1> HIDE DEF t
<1> HIDE DEF u
<1>6. /\ result' \in [Tasks -> Results] /\ result'[t] = out /\ result'[u] = "running"
      /\ \A v \in Tasks \ {t, u} : result'[v] = result[v]
  BY <1>1, <1>3, <1>4 DEF Results, PartsTyped
<1>7. PartsTyped'
  BY <1>1, <1>2, <1>5, <1>6, QueueParts DEF PartsTyped
<1>8. /\ Busy' = Busy /\ workers'[i].task = u
      /\ \A j \in Busy \ {i} : workers'[j].task = workers[j].task
  BY <1>1, <1>5 DEF Busy, PartsTyped
<1>9. \A j \in Busy \ {i} : /\ workers'[j].task \in Tasks \ orphans
                            /\ workers'[j].task \notin {t, u}
                            /\ result'[workers'[j].task] = "running"
  BY <1>1, <1>3, <1>6, <1>8 DEF Sound, Placed, t
<1>10. u \notin orphans
  BY <1>3 DEF Sound, Placed
<1>11. t \notin orphans
  BY <1>1 DEF Sound, Placed, t
<1>12. Placed'
  <2>1. \A j \in Busy' : /\ workers'[j].task \in (Tasks \ orphans)'
                         /\ result'[workers'[j].task] = "running"
    BY <1>2, <1>3, <1>6, <1>8, <1>9, <1>10
  <2>2. \A j, k \in Busy' : workers'[j].task = workers'[k].task => j = k
    BY <1>8, <1>9 DEF Sound, Placed
  <2>3. ASSUME NEW v \in Tasks, result'[v] = "running"
        PROVE  v \in orphans' \/ \E j \in Busy' : workers'[j].task = v
    BY <1>1, <1>2, <1>6, <1>8, <2>3 DEF Sound, Placed, t
  <2>4. \A v \in orphans' : result'[v] = "running"
    BY <1>2, <1>6, <1>10, <1>11 DEF Sound, Placed, PartsTyped
  <2> QED BY <2>1, <2>2, <2>3, <2>4 DEF Placed
<1>13. Lined'
  <2>1. \A v \in Tasks : result'[v] = "queued" <=> result[v] = "queued" /\ v # u
    BY <1>1, <1>3, <1>6
  <2> QED BY <1>1, <1>5, <2>1, QueueParts DEF Lined, u
<1>14. NoIdleWhileQueued'
  BY <1>1, <1>2, <1>8 DEF Sound, NoIdleWhileQueued, Busy
<1>15. LetGoOnce'
  BY <1>2, <1>8 DEF Sound, LetGoOnce
<1> QED BY <1>7, <1>12, <1>13, <1>14, <1>15 DEF Sound

LEMMA BegunSound ==
  ASSUME Sound, ~gone, NEW t \in Tasks, NEW i \in Places, NEW w \in Worker, Begun(t, i, w)
  PROVE  Sound'
<1>1. PartsTyped /\ orphans = {} /\ queue = <<>>
  BY DEF Sound, LetGoOnce, NoIdleWhileQueued, Begun, Busy
<1>2. UNCHANGED <<queue, orphans, shuttingDown, gone>>
  BY DEF Begun, phase
<1>3. PartsTyped'
  BY <1>1, <1>2 DEF PartsTyped, Begun, Results
<1>4. /\ Busy' = Busy \cup {i} /\ workers'[i].task = t
      /\ \A j \in Busy : workers'[j].task = workers[j].task
  BY <1>1 DEF Begun, Busy, PartsTyped
<1>5. result' = [result EXCEPT ![t] = "running"] /\ result[t] = "new" /\ i \notin Busy
  BY DEF Begun
<1>6. \A j \in Busy : /\ workers'[j].task \in Tasks \ orphans /\ workers'[j].task # t
                      /\ result[workers'[j].task] = "running"
  BY <1>4, <1>5 DEF Sound, Placed
<1>7. Placed'
  <2>1. \A j \in Busy' : /\ workers'[j].task \in (Tasks \ orphans)'
                         /\ result'[workers'[j].task] = "running"
    BY <1>1, <1>2, <1>4, <1>5, <1>6 DEF PartsTyped
  <2>2. \A j, k \in Busy' : workers'[j].task = workers'[k].task => j = k
    BY <1>4, <1>6 DEF Sound, Placed
  <2>3. ASSUME NEW v \in Tasks, result'[v] = "running"
        PROVE  v \in orphans' \/ \E j \in Busy' : workers'[j].task = v
    BY <1>1, <1>2, <1>4, <1>5, <2>3 DEF Sound, Placed, PartsTyped
  <2> QED BY <1>1, <1>2, <2>1, <2>2, <2>3 DEF Placed
<1>8. Lined'
  BY <1>1, <1>2, <1>5 DEF Sound, Lined, PartsTyped
<1>9. NoIdleWhileQueued' /\ LetGoOnce'
  BY <1>1, <1>2 DEF Sound, NoIdleWhileQueued, LetGoOnce, Begun
<1> QED BY <1>3, <1>7, <1>8, <1>9 DEF Sound

(* submit with no worker idle, to a pool that is open.                     *)
LEMMA AllBusy ==
  ASSUME Sound, NEW t \in Tasks, SubmitQueued(t)
  PROVE  ~gone /\ Busy = Places
BY DEF Sound, LetGoOnce, SubmitQueued, Idle, Busy

LEMMA QueuedSound ==
  ASSUME PoolAssumption, Sound, NEW t \in Tasks, SubmitQueued(t)
  PROVE  Sound'
<1>1. PartsTyped /\ result[t] = "new" /\ ~shuttingDown /\ ~gone /\ Busy = Places
  BY AllBusy DEF Sound, SubmitQueued
<1>2. UNCHANGED <<workers, orphans, shuttingDown, gone>>
  BY DEF SubmitQueued, phase
<1>3. Busy' = Busy
  BY <1>2 DEF Busy
<1>4. result' = [result EXCEPT ![t] = "rejected"] \/ result' = [result EXCEPT ![t] = "queued"]
  BY DEF SubmitQueued
<1>5. \A v \in Tasks : result'[v] = "running" <=> result[v] = "running"
  BY <1>1, <1>4 DEF PartsTyped
<1>6. Placed'
  BY <1>2, <1>3, <1>5 DEF Sound, Placed, PartsTyped
<1>7. NoIdleWhileQueued' /\ LetGoOnce'
  BY <1>1, <1>2, <1>3 DEF Sound, NoIdleWhileQueued, LetGoOnce, Busy
<1>8. CASE Len(queue) >= MaxQueue
  <2>1. result' = [result EXCEPT ![t] = "rejected"] /\ queue' = queue
    BY <1>8 DEF SubmitQueued
  <2>2. PartsTyped'
    BY <1>1, <1>2, <2>1 DEF PartsTyped, Results, Settled
  <2>3. Lined'
    BY <1>1, <2>1 DEF Sound, Lined, PartsTyped
  <2> QED BY <1>6, <1>7, <2>2, <2>3 DEF Sound
<1>9. CASE ~(Len(queue) >= MaxQueue)
  <2> DEFINE q == queue
             r == Append(queue, t)
  <2>1. result' = [result EXCEPT ![t] = "queued"] /\ queue' = r
    BY <1>9 DEF SubmitQueued
  <2>2. q \in Seq(Tasks) /\ Len(q) \in Nat /\ Len(q) < MaxQueue
    BY <1>1, <1>9 DEF PartsTyped, PoolAssumption
  <2>3. /\ r \in Seq(Tasks) /\ Len(r) = Len(q) + 1
        /\ \A k \in 1..Len(q) : r[k] = q[k]
        /\ r[Len(q) + 1] = t
    BY <2>2, AppendProperties
  <2>4. /\ \A v \in Tasks : result[v] = "queued" <=> \E k \in 1..Len(q) : q[k] = v
        /\ \A k, l \in 1..Len(q) : q[k] = q[l] => k = l
    BY DEF Sound, Lined
  <2>5. PartsTyped'
    BY <1>1, <1>2, <2>1, <2>3 DEF PartsTyped, Results
  <2> HIDE DEF q, r
  <2>6. \A k \in 1..Len(q) : q[k] # t
    BY <1>1, <2>4
  <2>7. 1..Len(r) = 1..Len(q) \cup {Len(q) + 1} /\ Len(q) + 1 \notin 1..Len(q)
    BY <2>2, <2>3
  <2>8. \A v \in Tasks : result'[v] = "queued" <=> \E k \in 1..Len(r) : r[k] = v
    <3>1. \A v \in Tasks : result'[v] = "queued" <=> result[v] = "queued" \/ v = t
      BY <1>1, <2>1 DEF PartsTyped
    <3>2. \A v : (\E k \in 1..Len(r) : r[k] = v) <=> (\E k \in 1..Len(q) : q[k] = v) \/ v = t
      BY <2>3, <2>7
    <3> QED BY <2>4, <3>1, <3>2
  <2>9. \A k, l \in 1..Len(r) : r[k] = r[l] => k = l
    BY <2>3, <2>4, <2>6, <2>7
  <2>10. Len(r) <= MaxQueue
    BY <2>2, <2>3 DEF PoolAssumption
  <2>11. Lined'
    BY <2>1, <2>8, <2>9, <2>10 DEF Lined
  <2> QED BY <1>6, <1>7, <2>5, <2>11 DEF Sound
<1> QED BY <1>8, <1>9

LEMMA ClosedSound ==
  ASSUME Sound, NEW t \in Tasks, SubmitClosed(t)
  PROVE  Sound'
<1>1. PartsTyped /\ result[t] = "new" /\ result' = [result EXCEPT ![t] = "rejected"]
  BY DEF Sound, SubmitClosed
<1>2. UNCHANGED <<workers, queue, orphans, shuttingDown, gone>> /\ Busy' = Busy
  BY DEF SubmitClosed, phase, Busy
<1>3. PartsTyped'
  BY <1>1, <1>2 DEF PartsTyped, Results, Settled
<1>4. \A v \in Tasks : /\ result'[v] = "running" <=> result[v] = "running"
                       /\ result'[v] = "queued" <=> result[v] = "queued"
  BY <1>1 DEF PartsTyped
<1>5. Placed'
  BY <1>2, <1>4 DEF Sound, Placed, PartsTyped
<1>6. Lined' /\ NoIdleWhileQueued' /\ LetGoOnce'
  BY <1>2, <1>4 DEF Sound, Lined, NoIdleWhileQueued, LetGoOnce
<1> QED BY <1>3, <1>5, <1>6 DEF Sound

(* A pool that has let go of its workers has an empty queue.               *)
LEMMA OrphanAlone ==
  ASSUME Sound, NEW t \in Tasks, OrphanTimesOut(t)
  PROVE  gone /\ shuttingDown /\ queue = <<>> /\ Busy = {} /\ result[t] = "running"
BY DEF Sound, LetGoOnce, NoIdleWhileQueued, Placed, OrphanTimesOut

LEMMA OrphanSound ==
  ASSUME Sound, NEW t \in Tasks, OrphanTimesOut(t)
  PROVE  Sound'
<1>1. PartsTyped /\ gone /\ shuttingDown /\ queue = <<>> /\ Busy = {} /\ result[t] = "running"
  BY OrphanAlone DEF Sound
<1>2. /\ UNCHANGED <<workers, queue, shuttingDown, gone>> /\ Busy' = Busy
      /\ orphans' = orphans \ {t} /\ result' = [result EXCEPT ![t] = "failed"]
  BY DEF OrphanTimesOut, phase, Busy
<1>3. PartsTyped'
  BY <1>1, <1>2 DEF PartsTyped, Results, Settled
<1>4. Placed'
  BY <1>1, <1>2 DEF Sound, Placed, PartsTyped
<1>5. Lined'
  BY <1>1, <1>2 DEF Sound, Lined, PartsTyped
<1>6. NoIdleWhileQueued' /\ LetGoOnce'
  BY <1>1, <1>2 DEF Sound, NoIdleWhileQueued, LetGoOnce
<1> QED BY <1>3, <1>4, <1>5, <1>6 DEF Sound

LEMMA RejectedParts ==
  ASSUME PoolAssumption, Sound, RejectQueued
  PROVE  /\ queue' = <<>> /\ result' \in [Tasks -> Results] /\ Lined'
         /\ \A t \in Tasks : /\ result'[t] # "queued"
                             /\ result[t] = "queued" => result'[t] = "rejected"
                             /\ result[t] # "queued" => result'[t] = result[t]
<1>1. /\ queue' = <<>>
      /\ result' = [t \in Tasks |-> IF result[t] = "queued" THEN "rejected" ELSE result[t]]
  BY DEF RejectQueued
<1>2. result \in [Tasks -> Results] /\ Len(queue) <= MaxQueue /\ Len(queue) \in Nat
  BY DEF Sound, PartsTyped, Lined
<1>3. \A t \in Tasks : /\ result'[t] # "queued"
                       /\ result[t] = "queued" => result'[t] = "rejected"
                       /\ result[t] # "queued" => result'[t] = result[t]
  BY <1>1
<1>4. result' \in [Tasks -> Results]
  BY <1>1, <1>2 DEF Results, Settled
<1>5. Lined'
  BY <1>1, <1>2, <1>3 DEF Lined, PoolAssumption
<1> QED BY <1>1, <1>3, <1>4, <1>5

LEMMA ShutdownSound ==
  ASSUME PoolAssumption, Sound, Shutdown
  PROVE  Sound'
<1>1. PartsTyped /\ RejectQueued /\ shuttingDown' = TRUE /\ UNCHANGED <<orphans, gone>> /\ ~gone
  BY DEF Sound, LetGoOnce, Shutdown
<1>2. workers' = [i \in Places |->
                    IF workers[i].busy THEN workers[i] ELSE [workers[i] EXCEPT !.alive = FALSE]]
  BY DEF Shutdown
<1>3. /\ workers' \in [Places -> Worker]
      /\ Busy' = Busy /\ \A i \in Busy : workers'[i] = workers[i]
  BY <1>1, <1>2 DEF PartsTyped, Worker, Busy
<1>4. PartsTyped'
  BY <1>1, <1>3, RejectedParts DEF PartsTyped
<1>5. Placed'
  BY <1>1, <1>3, RejectedParts DEF Sound, Placed, PartsTyped
<1>6. Lined' /\ NoIdleWhileQueued' /\ LetGoOnce'
  BY <1>1, RejectedParts DEF Sound, NoIdleWhileQueued, LetGoOnce
<1> QED BY <1>4, <1>5, <1>6 DEF Sound

(* The workers are let go, with the queue empty.                           *)
LEMMA LetGoSound ==
  ASSUME PoolAssumption, Sound, LetGo, shuttingDown' = TRUE,
         queue' = <<>>, result' \in [Tasks -> Results], Lined',
         \A t \in Tasks : result'[t] = "running" <=> result[t] = "running"
  PROVE  Sound'
<1> DEFINE left == {workers[i].task : i \in Busy}
<1>1. /\ gone' = TRUE /\ orphans' = orphans \cup left
      /\ workers' = [i \in Places |-> [Fresh EXCEPT !.alive = FALSE]]
  BY DEF LetGo, Busy
<1>2. left \subseteq Tasks /\ \A t \in left : result[t] = "running"
  BY DEF Sound, Placed
<1>3. workers' \in [Places -> Worker] /\ Busy' = {}
  BY <1>1 DEF Fresh, Worker, Busy
<1>4. \A t \in Tasks : result[t] = "running" => t \in orphans \/ t \in left
  BY DEF Sound, Placed
<1>5. orphans \subseteq Tasks /\ \A t \in orphans : result[t] = "running"
  BY DEF Sound, Placed, PartsTyped
<1> HIDE DEF left
<1>6. PartsTyped'
  <2>1. queue' \in Seq(Tasks) /\ orphans' \subseteq Tasks
    BY <1>1, <1>2, <1>5
  <2>2. shuttingDown' \in BOOLEAN /\ gone' \in BOOLEAN
    BY <1>1, Zenon
  <2> QED BY <1>3, <2>1, <2>2 DEF PartsTyped
<1>7. Placed'
  BY <1>1, <1>2, <1>3, <1>4, <1>5 DEF Placed
<1>8. NoIdleWhileQueued' /\ LetGoOnce'
  BY <1>1, <1>3 DEF NoIdleWhileQueued, LetGoOnce
<1> QED BY <1>6, <1>7, <1>8 DEF Sound

LEMMA EndsSound == ASSUME PoolAssumption, Sound, ShutdownEnds PROVE Sound'
<1>1. LetGo /\ shuttingDown /\ UNCHANGED <<queue, result, shuttingDown>>
  BY DEF ShutdownEnds
<1>2. queue = <<>> /\ shuttingDown' = TRUE /\ result \in [Tasks -> Results]
  BY <1>1 DEF Sound, PartsTyped, NoIdleWhileQueued
<1>3. Lined'
  BY <1>1 DEF Sound, Lined
<1> QED BY <1>1, <1>2, <1>3, LetGoSound

LEMMA KillSound == ASSUME PoolAssumption, Sound, Kill PROVE Sound'
<1>1. LetGo /\ RejectQueued /\ shuttingDown' = TRUE
  BY DEF Kill
<1>2. \A t \in Tasks : result'[t] = "running" <=> result[t] = "running"
  BY <1>1, RejectedParts
<1> QED BY <1>1, <1>2, RejectedParts, LetGoSound

(* Every step is of one of these kinds.                                    *)
LEMMA Kinds ==
  ASSUME PoolAssumption, Sound, [Next]_vars
  PROVE  \/ ~gone /\ \E t \in Tasks, i \in Places, w \in Worker : Begun(t, i, w)
         \/ \E t \in Tasks : SubmitQueued(t) \/ SubmitClosed(t) \/ OrphanTimesOut(t)
         \/ \E i \in Places, w \in Worker, out \in {"ok", "failed"} : Freed(i, w, out) \/ Passed(i, w, out)
         \/ Unseen
         \/ Shutdown \/ ShutdownEnds \/ Kill
<1>1. CASE UNCHANGED vars
  BY <1>1 DEF vars, stats, phase, Unseen, Sound, PartsTyped
<1>2. ASSUME NEW t \in Tasks, Submit(t)
      PROVE  ~gone /\ \E i \in Places, w \in Worker : Begun(t, i, w)
  BY <1>2, SubmitBegins
<1>3. ASSUME NEW i \in Places, NEW good \in BOOLEAN, Answer(i, good)
      PROVE  \E w \in Worker, out \in {"ok", "failed"} : Freed(i, w, out) \/ Passed(i, w, out)
  <2>1. Losing(i, IF good THEN "ok" ELSE "failed")
    BY <1>3, AnswerLoses
  <2>2. (IF good THEN "ok" ELSE "failed") \in {"ok", "failed"}
    OBVIOUS
  <2> QED BY <2>1, <2>2, Zenon DEF Losing
<1>4. ASSUME NEW i \in Places, TimeOut(i)
      PROVE  \E w \in Worker, out \in {"ok", "failed"} : Freed(i, w, out) \/ Passed(i, w, out)
  <2>1. Losing(i, "failed")
    BY <1>4, TimeOutLoses
  <2> QED BY <2>1, Zenon DEF Losing
<1>5. ASSUME NEW i \in Places, Crash(i)
      PROVE  \/ \E w \in Worker, out \in {"ok", "failed"} : Freed(i, w, out) \/ Passed(i, w, out)
             \/ Unseen
  <2>1. Losing(i, "failed") \/ Unseen
    BY <1>5, CrashLoses
  <2> QED BY <2>1, Zenon DEF Losing
<1>6. ASSUME NEW i \in Places, Exit(i) \/ ShutdownWorker(i) \/ ShutdownForced(i)
      PROVE  Unseen
  BY <1>6, ExitUnseen
<1> QED BY <1>1, <1>2, <1>3, <1>4, <1>5, <1>6, Zenon DEF Next

LEMMA SoundStep == ASSUME PoolAssumption, Sound, [Next]_vars PROVE Sound'
BY Kinds, BegunSound, QueuedSound, ClosedSound, OrphanSound, FreedSound, PassedSound,
   UnseenSound, ShutdownSound, EndsSound, KillSound, Zenon

-----------------------------------------------------------------------------
(* The counters.                                                           *)
LEMMA WithFinite == ASSUME PoolAssumption, NEW r PROVE IsFiniteSet(With(r))
<1>1. With(r) \in SUBSET Tasks /\ IsFiniteSet(Tasks)
  BY DEF With, PoolAssumption
<1> QED BY <1>1, FS_Subset

LEMMA CountsKept ==
  ASSUME Counted, UNCHANGED <<completedTasks, failedTasks>>,
         \A t \in Tasks, out \in {"ok", "failed"} : result'[t] = out <=> result[t] = out
  PROVE  Counted'
<1>1. With("ok")' = With("ok") /\ With("failed")' = With("failed")
  BY DEF With
<1> QED BY <1>1 DEF Counted

LEMMA CountsOne ==
  ASSUME PoolAssumption, Counted, NEW t \in Tasks, NEW out \in {"ok", "failed"},
         result[t] \notin {"ok", "failed"}, result'[t] = out,
         \A v \in Tasks \ {t}, r \in {"ok", "failed"} : result'[v] = r <=> result[v] = r,
         completedTasks' = IF out = "ok" THEN completedTasks + 1 ELSE completedTasks,
         failedTasks' = IF out = "ok" THEN failedTasks ELSE failedTasks + 1
  PROVE  Counted'
<1>1. CASE out = "ok"
  <2>1. With("ok")' = With("ok") \cup {t} /\ With("failed")' = With("failed") /\ t \notin With("ok")
    BY <1>1 DEF With
  <2>2. Cardinality(With("ok") \cup {t}) = Cardinality(With("ok")) + 1
    BY <2>1, WithFinite, FS_AddElement
  <2> QED BY <1>1, <2>1, <2>2 DEF Counted
<1>2. CASE out = "failed"
  <2>1. With("failed")' = With("failed") \cup {t} /\ With("ok")' = With("ok") /\ t \notin With("failed")
    BY <1>2 DEF With
  <2>2. Cardinality(With("failed") \cup {t}) = Cardinality(With("failed")) + 1
    BY <2>1, WithFinite, FS_AddElement
  <2> QED BY <1>2, <2>1, <2>2 DEF Counted
<1> QED BY <1>1, <1>2

(* What a worker that loses its task does to the results.                  *)
LEMMA LosingResults ==
  ASSUME PoolAssumption, Sound, NEW i \in Places, NEW w \in Worker, NEW out \in {"ok", "failed"},
         Freed(i, w, out) \/ Passed(i, w, out)
  PROVE  LET t == workers[i].task
         IN  /\ t \in Tasks /\ result[t] = "running" /\ result'[t] = out
             /\ queue = <<>> => result' = [result EXCEPT ![t] = out]
             /\ queue # <<>> =>
                  /\ Head(queue) \in Tasks /\ result[Head(queue)] = "queued" /\ Head(queue) # t
                  /\ result'[Head(queue)] = "running"
                  /\ \A v \in Tasks \ {t, Head(queue)} : result'[v] = result[v]
<1> DEFINE t == workers[i].task
<1>1. t \in Tasks /\ result[t] = "running" /\ result \in [Tasks -> Results]
  BY DEF Freed, Passed, Sound, Placed, PartsTyped
<1>2. CASE Freed(i, w, out)
  BY <1>1, <1>2 DEF Freed
<1>3. CASE Passed(i, w, out)
  <2> DEFINE u == Head(queue)
  <2>1. queue # <<>> /\ u \in Tasks /\ result[u] = "queued" /\ u # t
    BY <1>1, <1>3, QueueParts DEF Passed
  <2>2. PICK res \in [Tasks -> Results] : /\ res = [result EXCEPT ![t] = out]
                                           /\ result' = [res EXCEPT ![u] = "running"]
    BY <1>3, Zenon DEF Passed
  <2> HIDE DEF t, u
  <2>3. /\ result'[t] = out /\ result'[u] = "running"
        /\ \A v \in Tasks \ {t, u} : result'[v] = result[v]
    BY <1>1, <2>1, <2>2
  <2> QED BY <1>1, <2>1, <2>3 DEF t, u
<1> QED BY <1>2, <1>3

LEMMA CountedStep ==
  ASSUME PoolAssumption, Sound, Counted, [Next]_vars
  PROVE  Counted'
<1>1. result \in [Tasks -> Results]
  BY DEF Sound, PartsTyped
<1>2. ASSUME NEW t \in Tasks, NEW i \in Places, NEW w \in Worker, Begun(t, i, w)
      PROVE  Counted'
  BY <1>1, <1>2, CountsKept DEF Begun, stats
<1>3. ASSUME NEW t \in Tasks, SubmitQueued(t) PROVE Counted'
  <2>1. UNCHANGED <<completedTasks, failedTasks>>
    BY <1>3 DEF SubmitQueued, stats
  <2>2. /\ result[t] = "new"
        /\ result' = [result EXCEPT ![t] = "rejected"] \/ result' = [result EXCEPT ![t] = "queued"]
    BY <1>3 DEF SubmitQueued
  <2> QED BY <1>1, <2>1, <2>2, CountsKept
<1>4. ASSUME NEW t \in Tasks, SubmitClosed(t) PROVE Counted'
  BY <1>1, <1>4, CountsKept DEF SubmitClosed, stats
<1>5. ASSUME NEW t \in Tasks, OrphanTimesOut(t) PROVE Counted'
  <2>1. result[t] = "running"
    BY <1>5, OrphanAlone
  <2>2. /\ result' = [result EXCEPT ![t] = "failed"]
        /\ completedTasks' = completedTasks /\ failedTasks' = failedTasks + 1
    BY <1>5 DEF OrphanTimesOut
  <2> DEFINE out == "failed"
  <2>3. /\ out \in {"ok", "failed"} /\ out # "ok" /\ result[t] \notin {"ok", "failed"} /\ result'[t] = out
        /\ \A v \in Tasks \ {t}, r \in {"ok", "failed"} : result'[v] = r <=> result[v] = r
    BY <1>1, <2>1, <2>2
  <2>4. /\ completedTasks' = IF out = "ok" THEN completedTasks + 1 ELSE completedTasks
        /\ failedTasks' = IF out = "ok" THEN failedTasks ELSE failedTasks + 1
    BY <2>2
  <2> HIDE DEF out
  <2> QED BY <2>3, <2>4, CountsOne
<1>6. ASSUME NEW i \in Places, NEW w \in Worker, NEW out \in {"ok", "failed"},
             Freed(i, w, out) \/ Passed(i, w, out)
      PROVE  Counted'
  <2> DEFINE t == workers[i].task
  <2>1. /\ completedTasks' = IF out = "ok" THEN completedTasks + 1 ELSE completedTasks
        /\ failedTasks' = IF out = "ok" THEN failedTasks ELSE failedTasks + 1
    BY <1>6 DEF Freed, Passed, Ended
  <2>2. /\ t \in Tasks /\ result[t] \notin {"ok", "failed"} /\ result'[t] = out
        /\ \A v \in Tasks \ {t}, r \in {"ok", "failed"} : result'[v] = r <=> result[v] = r
    BY <1>1, <1>6, LosingResults
  <2> HIDE DEF t
  <2> QED BY <2>1, <2>2, CountsOne
<1>7. CASE Unseen
  BY <1>7, CountsKept DEF Unseen, stats
<1>8. CASE Shutdown \/ Kill
  <2>1. RejectQueued /\ UNCHANGED <<completedTasks, failedTasks>>
    BY <1>8 DEF Shutdown, Kill, stats
  <2> QED BY <2>1, RejectedParts, CountsKept
<1>9. CASE ShutdownEnds
  BY <1>9, CountsKept DEF ShutdownEnds, stats
<1> QED BY <1>2, <1>3, <1>4, <1>5, <1>6, <1>7, <1>8, <1>9, Kinds, Zenon

LEMMA OthersStep == ASSUME PoolAssumption, Others, [Next]_vars PROVE Others'
<1>1. MaxFaults \in Nat
  BY DEF PoolAssumption
<1>2. CASE UNCHANGED <<phase, faults>>
  BY <1>2 DEF phase, Others
<1>3. ASSUME NEW i \in Places, Crash(i) \/ Exit(i) PROVE Others'
  BY <1>1, <1>3 DEF Crash, Exit, phase, Others
<1>4. ASSUME NEW i \in Places, ShutdownWorker(i) \/ ShutdownForced(i) PROVE Others'
  BY <1>4 DEF ShutdownWorker, ShutdownForced, Others
<1>5. CASE Shutdown
  BY <1>5 DEF Shutdown, Others
<1>6. CASE ShutdownEnds
  BY <1>6 DEF ShutdownEnds, LetGo, Others
<1>7. CASE Kill
  <2>1. killed' \in BOOLEAN
    BY <1>7, Zenon DEF Kill
  <2> QED BY <1>7, <2>1 DEF Kill, Others
<1>8. CASE UNCHANGED vars
  BY <1>2, <1>8, Zenon DEF vars
<1>9. ASSUME NEW t \in Tasks, Submit(t) \/ SubmitQueued(t) \/ SubmitClosed(t) \/ OrphanTimesOut(t)
      PROVE  UNCHANGED <<phase, faults>>
  BY <1>9, Zenon DEF Submit, SubmitQueued, SubmitClosed, OrphanTimesOut
<1>10. ASSUME NEW i \in Places, TimeOut(i) \/ \E good \in BOOLEAN : Answer(i, good)
       PROVE  UNCHANGED <<phase, faults>>
  BY <1>10, Zenon DEF TimeOut, Answer
<1> QED BY <1>2, <1>3, <1>4, <1>5, <1>6, <1>7, <1>8, <1>9, <1>10, Zenon DEF Next

LEMMA IInvStep == ASSUME PoolAssumption, IInv, [Next]_vars PROVE IInv'
BY SoundStep, CountedStep, OthersStep DEF IInv

LEMMA IInvAlways == ASSUME PoolAssumption PROVE Spec => []IInv
BY SoundInit, IInvStep, PTL DEF Spec

-----------------------------------------------------------------------------
(* The variables stay in their types: the table of places, the queue, the  *)
(* counters and what shutdown waits for (worker-pool.ts).                  *)
THEOREM TypesKept == ASSUME PoolAssumption PROVE Spec => []TypeOK
<1>1. ASSUME IInv PROVE TypeOK
  <2>1. Cardinality(With("ok")) \in Nat /\ Cardinality(With("failed")) \in Nat
    BY WithFinite, FS_CardinalityType
  <2>2. completedTasks \in Nat /\ failedTasks \in Nat
    BY <1>1, <2>1 DEF IInv, Counted
  <2> QED BY <1>1, <2>2 DEF TypeOK, IInv, Sound, PartsTyped, Others, Worker, Results
<1> QED BY <1>1, IInvAlways, PTL

(* A running task is with exactly one worker, or has only its timer left;  *)
(* another task is with none (dispatch, drainQueue, replaceWorker).        *)
THEOREM TasksHaveOnePlace == ASSUME PoolAssumption PROVE Spec => []OnePlaceEach
<1>1. ASSUME Sound PROVE OnePlaceEach
  <2> SUFFICES ASSUME NEW t \in Tasks
               PROVE  LET places == {i \in Places : workers[i].busy /\ workers[i].task = t}
                      IN  /\ result[t] = "running" => (t \in orphans) \/ Cardinality(places) = 1
                          /\ result[t] # "running" => places = {} /\ t \notin orphans
    BY DEF OnePlaceEach
  <2> DEFINE places == {i \in Places : workers[i].busy /\ workers[i].task = t}
  <2>1. places = {i \in Busy : workers[i].task = t}
    BY DEF Busy
  <2>2. ASSUME result[t] = "running", t \notin orphans PROVE Cardinality(places) = 1
    <3>1. PICK i \in Busy : workers[i].task = t
      BY <1>1, <2>2 DEF Sound, Placed
    <3>2. places = {i}
      BY <1>1, <2>1, <3>1 DEF Sound, Placed
    <3> QED BY <3>2, FS_Singleton
  <2>3. ASSUME result[t] # "running" PROVE places = {} /\ t \notin orphans
    BY <1>1, <2>1, <2>3 DEF Sound, Placed
  <2> QED BY <2>2, <2>3
<1> QED BY <1>1, IInvAlways, PTL DEF IInv

(* While a task waits every worker is busy and the pool is open: every     *)
(* event that frees a worker drains the queue (onMessage, onError, the     *)
(* timer), and shutdown empties it.                                        *)
THEOREM QueueServed == ASSUME PoolAssumption PROVE Spec => []NoIdleWhileQueued
<1>1. IInv => NoIdleWhileQueued
  BY DEF IInv, Sound
<1> QED BY <1>1, IInvAlways, PTL

(* completedTasks and failedTasks count the tasks that ended, each once,   *)
(* also when an answer, a crash and a timer compete for the same task.     *)
THEOREM StatsCount == ASSUME PoolAssumption PROVE Spec => []StatsAddUp
<1>1. IInv => StatsAddUp
  BY DEF IInv, Counted, With, StatsAddUp
<1> QED BY <1>1, IInvAlways, PTL

-----------------------------------------------------------------------------
(* What TaskPool looks at: how many tasks run and how many wait.           *)
LEMMA RunningCount ==
  ASSUME PoolAssumption, Sound, ~gone
  PROVE  /\ Cardinality(With("running")) = Cardinality(Busy)
         /\ Busy = Places => Cardinality(Busy) = Size
         /\ Busy # Places => Cardinality(Busy) < Size
<1>1. Busy \in SUBSET Places
  BY DEF Busy
<1>2. IsFiniteSet(Busy) /\ Cardinality(Busy) <= Size /\ (Cardinality(Busy) = Size => Busy = Places)
  BY <1>1, PlacesFinite, FS_Subset
<1>3. Cardinality(Busy) \in Nat /\ Size \in Nat
  BY <1>2, FS_CardinalityType DEF PoolAssumption
<1> DEFINE f == [i \in Busy |-> workers[i].task]
<1>4. f \in [Busy -> With("running")]
  BY DEF Sound, Placed, With
<1>5. \A i, j \in Busy : f[i] = f[j] => i = j
  BY DEF Sound, Placed
<1>6. \A t \in With("running") : \E i \in Busy : f[i] = t
  BY DEF Sound, Placed, LetGoOnce, With
<1> HIDE DEF f
<1>7. f \in Bijection(Busy, With("running"))
  BY <1>4, <1>5, <1>6 DEF Bijection, Injection, Surjection, IsInjective
<1>8. ExistsBijection(Busy, With("running"))
  BY <1>7, Zenon DEF ExistsBijection
<1>9. Cardinality(With("running")) = Cardinality(Busy)
  BY <1>2, <1>8, FS_Bijection
<1> QED BY <1>2, <1>3, <1>9, PlacesFinite

LEMMA WaitingCount ==
  ASSUME PoolAssumption, Sound
  PROVE  /\ Cardinality(With("queued")) = Len(queue)
         /\ With("queued") = {} <=> queue = <<>>
<1> DEFINE n == Len(queue)
           f == [k \in 1..n |-> queue[k]]
<1>1. queue \in Seq(Tasks) /\ n \in Nat
  BY DEF Sound, PartsTyped
<1>2. f \in [1..n -> With("queued")]
  BY <1>1 DEF Sound, Lined, With
<1>3. \A k, l \in 1..n : f[k] = f[l] => k = l
  BY DEF Sound, Lined
<1>4. \A t \in With("queued") : \E k \in 1..n : f[k] = t
  BY DEF Sound, Lined, With
<1> HIDE DEF f
<1>5. f \in Bijection(1..n, With("queued"))
  BY <1>2, <1>3, <1>4 DEF Bijection, Injection, Surjection, IsInjective
<1>6. ExistsBijection(1..n, With("queued"))
  BY <1>5, Zenon DEF ExistsBijection
<1>7. Cardinality(With("queued")) = n
  <2> HIDE DEF n
  <2> QED BY <1>1, <1>6, FS_CountingElements
<1>8. With("queued") = {} <=> queue = <<>>
  BY <1>1, <1>2, <1>4
<1> QED BY <1>7, <1>8

LEMMA ShownAs ==
  ASSUME NEW t
  PROVE  /\ result[t] = "new" => Shown(t) = "new"
         /\ result[t] = "queued" => Shown(t) = "waiting"
         /\ result[t] = "running" => Shown(t) = "running"
         /\ result[t] = "ok" => Shown(t) = "done"
         /\ result[t] = "failed" => Shown(t) = "done"
         /\ result[t] = "rejected" => Shown(t) = "refused"
         /\ result'[t] = "new" => Shown(t)' = "new"
         /\ result'[t] = "queued" => Shown(t)' = "waiting"
         /\ result'[t] = "running" => Shown(t)' = "running"
         /\ result'[t] = "ok" => Shown(t)' = "done"
         /\ result'[t] = "failed" => Shown(t)' = "done"
         /\ result'[t] = "rejected" => Shown(t)' = "refused"
<1>1. result[t] = "new" => Shown(t) = "new"
  BY Zenon DEF Shown
<1>2. result[t] = "queued" => Shown(t) = "waiting"
  BY Zenon DEF Shown
<1>3. result[t] = "running" => Shown(t) = "running"
  BY Zenon DEF Shown
<1>4. result[t] = "ok" => Shown(t) = "done"
  BY Zenon DEF Shown
<1>5. result[t] = "failed" => Shown(t) = "done"
  BY Zenon DEF Shown
<1>6. result[t] = "rejected" => Shown(t) = "refused"
  BY Zenon DEF Shown
<1>7. result'[t] = "new" => Shown(t)' = "new"
  BY Zenon DEF Shown
<1>8. result'[t] = "queued" => Shown(t)' = "waiting"
  BY Zenon DEF Shown
<1>9. result'[t] = "running" => Shown(t)' = "running"
  BY Zenon DEF Shown
<1>10. result'[t] = "ok" => Shown(t)' = "done"
  BY Zenon DEF Shown
<1>11. result'[t] = "failed" => Shown(t)' = "done"
  BY Zenon DEF Shown
<1>12. result'[t] = "rejected" => Shown(t)' = "refused"
  BY Zenon DEF Shown
<1> QED BY <1>1, <1>2, <1>3, <1>4, <1>5, <1>6, <1>7, <1>8, <1>9, <1>10, <1>11, <1>12

LEMMA SameCardinality == ASSUME NEW S PROVE Promise!Cardinality(S) = Cardinality(S)
BY Zenon DEF Promise!Cardinality, Cardinality

LEMMA InShown ==
  ASSUME result \in [Tasks -> Results]
  PROVE  Promise!In("running") = With("running") /\ Promise!In("waiting") = With("queued")
BY ShownAs DEF Promise!In, With, Results, Settled

LEMMA BegunStarts ==
  ASSUME PoolAssumption, Sound, ~gone, NEW t \in Tasks, NEW i \in Places, NEW w \in Worker,
         Begun(t, i, w)
  PROVE  Promise!Start(t)
<1>1. result \in [Tasks -> Results] /\ result' = [result EXCEPT ![t] = "running"]
  BY DEF Begun, Sound, PartsTyped
<1>2. Cardinality(Promise!In("running")) < Size
  BY <1>1, InShown, RunningCount DEF Begun
<1>3. [u \in Tasks |-> Shown(u)]' = [[u \in Tasks |-> Shown(u)] EXCEPT ![t] = "running"]
  BY <1>1, ShownAs DEF Results, Settled
<1>4. Shown(t) = "new" /\ ~shuttingDown /\ UNCHANGED shuttingDown
  BY ShownAs DEF Begun, phase
<1> QED BY <1>2, <1>3, <1>4, SameCardinality DEF Promise!Start

LEMMA QueuedLinesUp ==
  ASSUME PoolAssumption, Sound, NEW t \in Tasks, SubmitQueued(t)
  PROVE  Promise!LineUp(t) \/ Promise!Refuse(t)
<1>1. result \in [Tasks -> Results] /\ Len(queue) \in Nat /\ Len(queue) <= MaxQueue
  BY DEF Sound, PartsTyped, Lined
<1>2. Cardinality(Promise!In("running")) = Size /\ Cardinality(Promise!In("waiting")) = Len(queue)
  BY <1>1, InShown, AllBusy, RunningCount, WaitingCount
<1>3. Shown(t) = "new" /\ ~shuttingDown /\ UNCHANGED shuttingDown
  BY ShownAs DEF SubmitQueued, phase
<1>4. CASE Len(queue) >= MaxQueue
  <2>1. result' = [result EXCEPT ![t] = "rejected"]
    BY <1>4 DEF SubmitQueued
  <2>2. [u \in Tasks |-> Shown(u)]' = [[u \in Tasks |-> Shown(u)] EXCEPT ![t] = "refused"]
    BY <1>1, <2>1, ShownAs DEF Results, Settled
  <2>3. Len(queue) = MaxQueue
    BY <1>1, <1>4 DEF PoolAssumption
  <2> QED BY <1>2, <1>3, <2>2, <2>3, SameCardinality DEF Promise!Refuse
<1>5. CASE ~(Len(queue) >= MaxQueue)
  <2>1. result' = [result EXCEPT ![t] = "queued"]
    BY <1>5 DEF SubmitQueued
  <2>2. [u \in Tasks |-> Shown(u)]' = [[u \in Tasks |-> Shown(u)] EXCEPT ![t] = "waiting"]
    BY <1>1, <2>1, ShownAs DEF Results, Settled
  <2>3. Len(queue) < MaxQueue
    BY <1>1, <1>5 DEF PoolAssumption
  <2> QED BY <1>2, <1>3, <2>2, <2>3, SameCardinality DEF Promise!LineUp
<1> QED BY <1>4, <1>5

LEMMA ClosedRefuses ==
  ASSUME Sound, NEW t \in Tasks, SubmitClosed(t)
  PROVE  Promise!Refuse(t)
<1>1. /\ result \in [Tasks -> Results] /\ result' = [result EXCEPT ![t] = "rejected"]
      /\ shuttingDown /\ UNCHANGED shuttingDown /\ Shown(t) = "new"
  BY ShownAs DEF SubmitClosed, Sound, PartsTyped, phase
<1>2. [u \in Tasks |-> Shown(u)]' = [[u \in Tasks |-> Shown(u)] EXCEPT ![t] = "refused"]
  BY <1>1, ShownAs DEF Results, Settled
<1> QED BY <1>1, <1>2 DEF Promise!Refuse

LEMMA OrphanFinishes ==
  ASSUME PoolAssumption, Sound, NEW t \in Tasks, OrphanTimesOut(t)
  PROVE  Promise!Finish(t)
<1>1. /\ result \in [Tasks -> Results] /\ result' = [result EXCEPT ![t] = "failed"]
      /\ result[t] = "running" /\ UNCHANGED shuttingDown
  BY OrphanAlone DEF OrphanTimesOut, Sound, PartsTyped, phase
<1>2. Promise!In("waiting") = {}
  BY <1>1, InShown, OrphanAlone, WaitingCount
<1>3. [u \in Tasks |-> Shown(u)]' = [[u \in Tasks |-> Shown(u)] EXCEPT ![t] = "done"]
  BY <1>1, ShownAs DEF Results, Settled
<1>4. Shown(t) = "running"
  BY <1>1, ShownAs
<1> QED BY <1>1, <1>2, <1>3, <1>4 DEF Promise!Finish

(* A worker that loses its task: the task ends, and the first in the queue *)
(* runs in the same step.                                                  *)
LEMMA LosingFinishes ==
  ASSUME PoolAssumption, Sound, NEW i \in Places, NEW w \in Worker, NEW out \in {"ok", "failed"},
         Freed(i, w, out) \/ Passed(i, w, out)
  PROVE  \E t \in Tasks : Promise!Finish(t)
<1>1. result \in [Tasks -> Results] /\ UNCHANGED shuttingDown
  BY DEF Freed, Passed, Ended, phase, Sound, PartsTyped
<1>2. PICK t \in Tasks : t = workers[i].task
  BY LosingResults
<1>3. result[t] = "running" /\ result'[t] = out
  BY <1>2, LosingResults
<1>4. Shown(t) = "running" /\ Shown(t)' = "done"
  BY <1>3, ShownAs
<1>5. CASE queue = <<>>
  <2>1. Promise!In("waiting") = {}
    BY <1>1, <1>5, InShown, WaitingCount
  <2>2. result' = [result EXCEPT ![t] = out]
    BY <1>2, <1>5, LosingResults
  <2>3. [v \in Tasks |-> Shown(v)]' = [[v \in Tasks |-> Shown(v)] EXCEPT ![t] = "done"]
    BY <1>1, <1>4, <2>2, ShownAs DEF Results, Settled
  <2> QED BY <1>1, <1>4, <2>1, <2>3 DEF Promise!Finish
<1>6. CASE queue # <<>>
  <2>1. PICK u \in Tasks : u = Head(queue)
    BY <1>6, LosingResults
  <2>2. /\ result[u] = "queued" /\ u # t /\ result'[u] = "running"
        /\ \A v \in Tasks \ {t, u} : result'[v] = result[v]
    BY <1>2, <1>6, <2>1, LosingResults
  <2>3. u \in Promise!In("waiting")
    BY <1>1, <2>2, InShown DEF With
  <2>4. Shown(u)' = "running"
    BY <2>2, ShownAs
  <2>5. \A v \in Tasks \ {t, u} : Shown(v)' = Shown(v)
    <3> SUFFICES ASSUME NEW v \in Tasks \ {t, u} PROVE Shown(v)' = Shown(v)
      OBVIOUS
    <3>1. result'[v] = result[v] /\ result[v] \in Results
      BY <1>1, <2>2
    <3> QED BY <3>1, ShownAs DEF Results, Settled
  <2>6. [v \in Tasks |-> Shown(v)]' = [[v \in Tasks |-> Shown(v)] EXCEPT ![t] = "done", ![u] = "running"]
    BY <1>4, <2>2, <2>4, <2>5
  <2> QED BY <1>1, <1>4, <2>3, <2>6 DEF Promise!Finish
<1> QED BY <1>5, <1>6

LEMMA RejectingCloses ==
  ASSUME PoolAssumption, Sound, RejectQueued, shuttingDown' = TRUE
  PROVE  Promise!Close
<1>1. result \in [Tasks -> Results]
  BY DEF Sound, PartsTyped
<1>2. [t \in Tasks |-> Shown(t)]'
        = [t \in Tasks |-> IF [u \in Tasks |-> Shown(u)][t] = "waiting" THEN "refused"
                           ELSE [u \in Tasks |-> Shown(u)][t]]
  BY <1>1, RejectedParts, ShownAs DEF Results, Settled
<1> QED BY <1>2 DEF Promise!Close

(* The pool implements TaskPool: nobody who submits a task can tell it,    *)
(* with its crashes, timers and replaced threads, from a pool that starts  *)
(* tasks while it has room, lines up as many as it may, refuses the rest   *)
(* and gives every place that becomes free to one that waits.              *)
THEOREM PoolImplementsTaskPool == ASSUME PoolAssumption PROVE Spec => Implements
<1>1. Init => Promise!Init
  BY ShownAs DEF Init, Promise!Init
<1>2. ASSUME IInv, [Next]_vars PROVE [Promise!Next]_(Promise!poolVars)
  <2>1. Sound
    BY <1>2 DEF IInv
  <2>2. ASSUME NEW t \in Tasks, NEW i \in Places, NEW w \in Worker, ~gone, Begun(t, i, w)
        PROVE  Promise!Next
    BY <2>1, <2>2, BegunStarts DEF Promise!Next
  <2>3. ASSUME NEW t \in Tasks, SubmitQueued(t) \/ SubmitClosed(t) \/ OrphanTimesOut(t)
        PROVE  Promise!Next
    BY <2>1, <2>3, QueuedLinesUp, ClosedRefuses, OrphanFinishes DEF Promise!Next
  <2>4. ASSUME NEW i \in Places, NEW w \in Worker, NEW out \in {"ok", "failed"},
               Freed(i, w, out) \/ Passed(i, w, out)
        PROVE  Promise!Next
    <3>1. \E t \in Tasks : Promise!Finish(t)
      BY <2>1, <2>4, LosingFinishes
    <3> QED BY <3>1, Zenon DEF Promise!Next
  <2>5. ASSUME UNCHANGED <<result, shuttingDown>> PROVE UNCHANGED (Promise!poolVars)
    BY <2>5 DEF Promise!poolVars, Shown
  <2>6. CASE Unseen \/ ShutdownEnds
    BY <2>5, <2>6 DEF Unseen, ShutdownEnds
  <2>7. CASE Shutdown \/ Kill
    BY <2>1, <2>7, RejectingCloses DEF Shutdown, Kill, Promise!Next
  <2> QED BY <1>2, <2>1, <2>2, <2>3, <2>4, <2>6, <2>7, Kinds, Zenon
<1> QED BY <1>1, <1>2, IInvAlways, PTL DEF Spec, Implements, Promise!Spec

(* All of it, as the run "coordination" checks it of four tasks and two    *)
(* threads: the books of the pool are right and its submitters see a       *)
(* TaskPool, for any tasks, threads and length of the queue.               *)
THEOREM PoolKeepsItsPromise == ASSUME PoolAssumption PROVE Spec => PoolImplements
<1>1. Spec => [](TypeOK /\ OnePlaceEach /\ NoIdleWhileQueued /\ StatsAddUp)
  BY TypesKept, TasksHaveOnePlace, QueueServed, StatsCount, PTL
<1> QED BY <1>1, PoolImplementsTaskPool, PTL DEF PoolImplements
=============================================================================
