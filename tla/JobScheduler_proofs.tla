------------------------- MODULE JobScheduler_proofs -------------------------
(***************************************************************************)
(* JobScheduler for any set of jobs, any number of slots and retries, and  *)
(* with listeners that cancel jobs from their callbacks or without: what   *)
(* the run "coordination" checks of three jobs and one slot.               *)
(*                                                                         *)
(* Every method ends in the dispatch loop, which starts from the state the *)
(* method has made so far.  So the invariant is stated of a state of the   *)
(* scheduler, each change a method makes is shown to keep it, and the loop *)
(* is shown to keep it, too.                                               *)
(***************************************************************************)
EXTENDS JobScheduler, FiniteSetTheorems, TLAPS

With(s, st) == {j \in Jobs : s.status[j] = st}

(* Where jobs are.  A listener's cancel may leave a cancelled job in the   *)
(* queue, and such a job can run again; nothing else disagrees.            *)
Placed(s) ==
    \A j \in Jobs :
        /\ j \in s.queue => s.status[j] \in {"queued", "cancelled"}
        /\ s.status[j] = "queued" => j \in s.queue
        /\ j \in s.active <=> s.status[j] = "running"
        /\ s.retries[j] <= MaxRetries \/ s.status[j] = "failed"

Counted(s) ==
    /\ s.completed = Cardinality(With(s, "completed"))
    /\ s.failed    = Cardinality(With(s, "failed"))

Sound(s) ==
    /\ s \in Scheduler
    /\ Placed(s)
    /\ Counted(s)
    /\ Cardinality(s.active) <= MaxConcurrent

(* The calls of handlers, cs, against the failures.                        *)
Called(s, cs) ==
    \A j \in Jobs \ Unhandled :
        cs[j] = s.retries[j] + (IF s.status[j] \in {"running", "completed"} THEN 1 ELSE 0)

(* Without listeners that cancel, the queue holds queued jobs only.        *)
InLine(s) == \A j \in s.queue : s.status[j] = "queued"

(* What holds of a state of the scheduler between any two steps, and of    *)
(* the state a method hands to the dispatch loop.                          *)
Kept(s, cs) ==
    /\ Sound(s)
    /\ Called(s, cs)
    /\ s.waiting => s.active # {}
    /\ ~Reentrant => InLine(s)

IInv ==
    /\ Kept(sched, starts)
    /\ handlers \subseteq Attempts
    /\ timers \subseteq handlers
    /\ starts \in [Jobs -> 0..(MaxRetries + 1)]
    /\ quiet \in BOOLEAN

LEMMA DisjointUnion ==
  ASSUME NEW S, NEW T, IsFiniteSet(S), IsFiniteSet(T), S \cap T = {}
  PROVE  Cardinality(S \cup T) = Cardinality(S) + Cardinality(T)
<1>1. Cardinality(S \cup T) = Cardinality(S) + Cardinality(T) - Cardinality({})
  BY FS_Union
<1>2. Cardinality({}) = 0 /\ Cardinality(S) \in Nat /\ Cardinality(T) \in Nat
  BY FS_EmptySet, FS_CardinalityType
<1> QED BY <1>1, <1>2

(* One job leaves the queue or a slot with a new status.                   *)
LEMMA Counting ==
  ASSUME SchedulerAssumption, NEW s \in Scheduler, NEW st
  PROVE  IsFiniteSet(With(s, st)) /\ IsFiniteSet(s.active) /\ Cardinality(With(s, st)) \in Nat
         /\ Cardinality(s.active) \in Nat
<1>1. With(s, st) \in SUBSET Jobs /\ s.active \in SUBSET Jobs
  BY DEF With, Scheduler
<1> QED BY <1>1, FS_Subset, FS_CardinalityType DEF SchedulerAssumption

-----------------------------------------------------------------------------
(* The dispatch loop.                                                      *)
LEMMA DispatchedFields ==
  ASSUME NEW s \in Scheduler, NEW B \in SUBSET Jobs, Cardinality(B \cap Unhandled) \in Nat
  PROVE  LET d == Dispatched(s, B) IN
         /\ d \in Scheduler
         /\ d.queue = s.queue \ B /\ d.active = s.active \cup (B \ Unhandled)
         /\ d.retries = s.retries /\ d.completed = s.completed
         /\ d.waiting = s.waiting
         /\ d.failed = s.failed + Cardinality(B \cap Unhandled)
         /\ \A j \in Jobs : d.status[j] = IF j \notin B THEN s.status[j]
                                          ELSE IF j \in Unhandled THEN "failed" ELSE "running"
<1> DEFINE st == [j \in Jobs |-> IF j \notin B THEN s.status[j]
                                 ELSE IF j \in Unhandled THEN "failed" ELSE "running"]
<1>1. st \in [Jobs -> Statuses]
  BY DEF Scheduler, Statuses, Ended
<1>2. Dispatched(s, B) = [s EXCEPT !.queue  = @ \ B, !.active = @ \cup (B \ Unhandled),
                                   !.status = st, !.failed = @ + Cardinality(B \cap Unhandled)]
  BY DEF Dispatched
<1>3. s.failed + Cardinality(B \cap Unhandled) \in Nat
  BY DEF Scheduler
<1> HIDE DEF st
<1> DEFINE d == [s EXCEPT !.queue  = @ \ B, !.active = @ \cup (B \ Unhandled),
                          !.status = st, !.failed = @ + Cardinality(B \cap Unhandled)]
<1>4. /\ d \in Scheduler
      /\ d.queue = s.queue \ B /\ d.active = s.active \cup (B \ Unhandled)
      /\ d.retries = s.retries /\ d.completed = s.completed
      /\ d.waiting = s.waiting
      /\ d.failed = s.failed + Cardinality(B \cap Unhandled)
      /\ d.status = st
  BY <1>1, <1>3 DEF Scheduler
<1>5. \A j \in Jobs : st[j] = IF j \notin B THEN s.status[j]
                              ELSE IF j \in Unhandled THEN "failed" ELSE "running"
  BY DEF st
<1> HIDE DEF d
<1> QED BY <1>2, <1>4, <1>5 DEF d

LEMMA BatchSizes ==
  ASSUME SchedulerAssumption, NEW s, Sound(s), NEW B \in Batches(s)
  PROVE  /\ B \in SUBSET s.queue
         /\ Cardinality(B \ Unhandled) + Cardinality(s.active) <= MaxConcurrent
<1> DEFINE free == MaxConcurrent - Cardinality(s.active)
<1>1. Cardinality(s.active) \in Nat /\ free \in Nat
  BY Counting DEF Sound, SchedulerAssumption
<1>2. CASE B = {}
  <2>1. B \ Unhandled = {}
    BY <1>2
  <2> QED BY <1>1, <1>2, <2>1, FS_EmptySet DEF SchedulerAssumption
<1>3. CASE B # {}
  <2>1. B \in SUBSET (s.queue \ s.later)
        /\ (Cardinality(B \ Unhandled) = free \/ Cardinality(B \ Unhandled) < free)
    BY <1>3 DEF Batches
  <2>2. B \ Unhandled \in SUBSET Jobs
    BY <2>1 DEF Sound, Scheduler
  <2>3. Cardinality(B \ Unhandled) \in Nat
    BY <2>2, FS_Subset, FS_CardinalityType DEF SchedulerAssumption
  <2> QED BY <1>1, <2>1, <2>3 DEF SchedulerAssumption
<1> QED BY <1>2, <1>3

LEMMA DispatchedOK ==
  ASSUME SchedulerAssumption, NEW s, Sound(s), NEW B \in Batches(s)
  PROVE  Sound(Dispatched(s, B)) /\ (InLine(s) => InLine(Dispatched(s, B)))
<1> DEFINE d == Dispatched(s, B)
           U == B \cap Unhandled
           H == B \ Unhandled
<1>1. s \in Scheduler /\ Placed(s) /\ Counted(s) /\ B \in SUBSET s.queue /\ B \in SUBSET Jobs
  BY BatchSizes DEF Sound, Scheduler
<1>2. IsFiniteSet(U) /\ IsFiniteSet(H) /\ Cardinality(U) \in Nat /\ Cardinality(H) \in Nat
  <2>1. U \in SUBSET Jobs /\ H \in SUBSET Jobs
    BY <1>1
  <2> QED BY <2>1, FS_Subset, FS_CardinalityType DEF SchedulerAssumption
<1>3. /\ d \in Scheduler
      /\ d.queue = s.queue \ B /\ d.active = s.active \cup H
      /\ d.retries = s.retries /\ d.completed = s.completed
      /\ d.failed = s.failed + Cardinality(U)
      /\ \A j \in Jobs : d.status[j] = IF j \notin B THEN s.status[j]
                                       ELSE IF j \in Unhandled THEN "failed" ELSE "running"
  BY <1>1, <1>2, DispatchedFields
<1> HIDE DEF d
<1>4. Placed(d)
  BY <1>1, <1>3 DEF Placed, Scheduler
<1>5. Counted(d)
  <2>1. With(d, "completed") = With(s, "completed")
    BY <1>1, <1>3 DEF With, Placed
  <2>2. With(d, "failed") = With(s, "failed") \cup U /\ With(s, "failed") \cap U = {}
    BY <1>1, <1>3 DEF With, Placed
  <2>3. Cardinality(With(d, "failed")) = Cardinality(With(s, "failed")) + Cardinality(U)
    BY <1>1, <1>2, <2>2, Counting, DisjointUnion
  <2> QED BY <1>1, <1>3, <2>1, <2>3 DEF Counted
<1>6. Cardinality(d.active) <= MaxConcurrent
  <2>1. s.active \cap H = {}
    BY <1>1 DEF Placed
  <2>2. Cardinality(d.active) = Cardinality(s.active) + Cardinality(H)
    BY <1>1, <1>2, <1>3, <2>1, Counting, DisjointUnion
  <2> QED BY <1>1, <1>2, <2>2, BatchSizes, Counting DEF SchedulerAssumption
<1>7. InLine(s) => InLine(d)
  BY <1>1, <1>3 DEF InLine, Scheduler
<1> QED BY <1>3, <1>4, <1>5, <1>6, <1>7 DEF Sound, d

(* One run of the loop keeps the invariant, from any state that has it,    *)
(* and changes the status of jobs in the queue only.                       *)
LEMMA DispatchStep ==
  ASSUME SchedulerAssumption, NEW s, Kept(s, starts),
         starts \in [Jobs -> 0..(MaxRetries + 1)],
         NEW hs \in SUBSET Attempts, NEW ts \in SUBSET hs, Dispatch(s, hs, ts)
  PROVE  /\ Kept(sched', starts')
         /\ starts' \in [Jobs -> 0..(MaxRetries + 1)]
         /\ handlers' \subseteq Attempts /\ timers' \subseteq handlers'
         /\ \A j \in Jobs : j \notin s.queue => sched'.status[j] = s.status[j]
<1>1. PICK B \in Batches(s) :
        LET begun == {<<j, s.retries[j]>> : j \in B \ Unhandled}
        IN  /\ sched'    = Dispatched(s, B)
            /\ handlers' = hs \cup begun
            /\ timers'   = ts \cup begun
            /\ starts'   = [j \in Jobs |-> IF j \in B \ Unhandled THEN starts[j] + 1
                                                                  ELSE starts[j]]
  BY DEF Dispatch
<1> DEFINE H == B \ Unhandled
           begun == {<<j, s.retries[j]>> : j \in H}
<1>2. s \in Scheduler /\ Placed(s) /\ Sound(s) /\ Called(s, starts) /\ B \in SUBSET s.queue
  BY BatchSizes DEF Sound, Kept
<1>3. B \in SUBSET Jobs
  BY <1>2 DEF Scheduler
<1>4. Cardinality(B \cap Unhandled) \in Nat
  <2>1. B \cap Unhandled \in SUBSET Jobs
    BY <1>3
  <2> QED BY <2>1, FS_Subset, FS_CardinalityType DEF SchedulerAssumption
<1>5. /\ sched'.active = s.active \cup H /\ sched'.retries = s.retries
      /\ sched'.waiting = s.waiting
      /\ \A j \in Jobs : sched'.status[j] = IF j \notin B THEN s.status[j]
                                           ELSE IF j \in Unhandled THEN "failed" ELSE "running"
  BY <1>1, <1>2, <1>3, <1>4, DispatchedFields
<1>6. Sound(sched') /\ (InLine(s) => InLine(sched'))
  BY <1>1, <1>2, DispatchedOK
<1>7. \A j \in H : j \in Jobs /\ s.retries[j] \in 0..MaxRetries
                  /\ s.status[j] \in {"queued", "cancelled"}
  BY <1>2, <1>3 DEF Placed, Scheduler, SchedulerAssumption
<1>8. begun \in SUBSET Attempts
  BY <1>7 DEF Attempts
<1>9. /\ \A j \in H : starts'[j] = starts[j] + 1
      /\ \A j \in Jobs \ H : starts'[j] = starts[j]
  BY <1>1, <1>7
<1>10. Called(sched', starts')
  <2> SUFFICES ASSUME NEW j \in Jobs \ Unhandled
               PROVE  starts'[j] = sched'.retries[j] +
                        (IF sched'.status[j] \in {"running", "completed"} THEN 1 ELSE 0)
    BY DEF Called
  <2>1. starts[j] = s.retries[j] + (IF s.status[j] \in {"running", "completed"} THEN 1 ELSE 0)
        /\ s.retries[j] \in Nat
    BY <1>2 DEF Called, Scheduler
  <2>2. CASE j \in H
    BY <1>5, <1>7, <1>9, <2>1, <2>2
  <2>3. CASE j \notin H
    BY <1>5, <1>9, <2>1, <2>3
  <2> QED BY <2>2, <2>3
<1>11. starts' \in [Jobs -> 0..(MaxRetries + 1)]
  <2> SUFFICES ASSUME NEW j \in Jobs
               PROVE  starts'[j] \in 0..(MaxRetries + 1)
    BY <1>1
  <2>1. CASE j \in H
    <3>1. starts[j] = s.retries[j]
      BY <1>2, <1>7, <2>1 DEF Called, Scheduler
    <3> QED BY <1>7, <1>9, <2>1, <3>1 DEF SchedulerAssumption
  <2>2. CASE j \notin H
    BY <1>9, <2>2
  <2> QED BY <2>1, <2>2
<1>12. Kept(sched', starts')
  BY <1>5, <1>6, <1>10 DEF Kept
<1> QED BY <1>1, <1>2, <1>5, <1>8, <1>11, <1>12

-----------------------------------------------------------------------------
(* What the methods do before they run the loop.                           *)

LEMMA ResolvedFields ==
  ASSUME NEW s \in Scheduler
  PROVE  LET t == Resolved(s) IN
         /\ t \in Scheduler
         /\ t.active = s.active /\ t.queue = s.queue /\ t.retries = s.retries
         /\ t.completed = s.completed /\ t.failed = s.failed /\ t.status = s.status
         /\ t.waiting = (s.waiting /\ s.active # {})
<1> DEFINE w == s.waiting /\ s.active # {}
<1>1. w \in BOOLEAN /\ Resolved(s) = [s EXCEPT !.waiting = w]
  BY DEF Resolved, Scheduler
<1> HIDE DEF w
<1>2. LET t == Resolved(s) IN
      /\ t \in Scheduler
      /\ t.active = s.active /\ t.queue = s.queue /\ t.retries = s.retries
      /\ t.completed = s.completed /\ t.failed = s.failed /\ t.status = s.status
      /\ t.waiting = w
  BY <1>1 DEF Scheduler
<1> QED BY <1>2 DEF w

(* An answer in time completes its job.                                    *)
LEMMA SucceededOK ==
  ASSUME SchedulerAssumption, NEW s, Kept(s, starts), NEW j \in s.active
  PROVE  LET t == Resolved(Succeeded(s, j)) IN
         /\ Kept(t, starts) /\ t.queue = s.queue
         /\ \A k \in Jobs \ {j} : t.status[k] = s.status[k]
<1> DEFINE t == Resolved(Succeeded(s, j))
<1>1. s \in Scheduler /\ Placed(s) /\ Counted(s) /\ j \in Jobs /\ s.status[j] = "running"
  BY DEF Kept, Sound, Placed, Scheduler
<1>2. /\ t \in Scheduler
      /\ t.active = s.active \ {j} /\ t.queue = s.queue /\ t.retries = s.retries
      /\ t.completed = s.completed + 1 /\ t.failed = s.failed
      /\ t.waiting = (s.waiting /\ s.active \ {j} # {})
      /\ t.status = [s.status EXCEPT ![j] = "completed"]
  <2> DEFINE u  == Succeeded(s, j)
             st == [s.status EXCEPT ![j] = "completed"]
  <2>1. st \in [Jobs -> Statuses]
    BY <1>1 DEF Scheduler, Statuses, Ended
  <2> DEFINE c == s.completed + 1
             v == [s EXCEPT !.active = s.active \ {j}, !.status = st,
                            !.completed = c]
  <2>2. u = v
    BY <1>1 DEF Succeeded, Scheduler
  <2> HIDE DEF st, u
  <2>3. c \in Nat
    BY <1>1 DEF Scheduler
  <2> HIDE DEF c
  <2>4. /\ v \in Scheduler
        /\ v.active = s.active \ {j} /\ v.queue = s.queue /\ v.retries = s.retries
        /\ v.completed = c /\ v.failed = s.failed
        /\ v.waiting = s.waiting /\ v.status = st
    BY <1>1, <2>1, <2>3 DEF Scheduler
  <2> HIDE DEF v
  <2> QED BY <2>2, <2>4, ResolvedFields DEF st, u, c
<1> HIDE DEF t
<1>3. /\ t.status[j] = "completed"
      /\ \A k \in Jobs \ {j} : t.status[k] = s.status[k]
  BY <1>1, <1>2 DEF Scheduler
<1>4. Placed(t)
  BY <1>1, <1>2, <1>3 DEF Placed
<1>5. Counted(t)
  <2>1. With(t, "failed") = With(s, "failed")
    BY <1>1, <1>3 DEF With
  <2>2. With(t, "completed") = With(s, "completed") \cup {j} /\ j \notin With(s, "completed")
    BY <1>1, <1>3 DEF With
  <2>3. Cardinality(With(t, "completed")) = Cardinality(With(s, "completed")) + 1
    BY <1>1, <2>2, Counting, FS_AddElement
  <2> QED BY <1>1, <1>2, <2>1, <2>3 DEF Counted
<1>6. Cardinality(t.active) <= MaxConcurrent
  <2>1. Cardinality(t.active) = Cardinality(s.active) - 1
    BY <1>1, <1>2, Counting, FS_RemoveElement
  <2> QED BY <1>1, <2>1, Counting DEF Kept, Sound, SchedulerAssumption
<1>7. Called(t, starts)
  BY <1>1, <1>2, <1>3 DEF Called, Kept
<1>8. InLine(s) => InLine(t)
  BY <1>1, <1>2, <1>3 DEF InLine, Scheduler, Placed
<1> QED BY <1>2, <1>3, <1>4, <1>5, <1>6, <1>7, <1>8 DEF Kept, Sound, t

(* A failure or a timeout queues its job again or gives up on it.          *)
LEMMA FailedOK ==
  ASSUME SchedulerAssumption, NEW s, Kept(s, starts), NEW j \in s.active, NEW heard \in Heard
  PROVE  LET t == Resolved(Failed(s, j, heard)) IN
         /\ Kept(t, starts) /\ t.queue \in SUBSET (s.queue \cup {j})
         /\ \A k \in Jobs \ {j} : t.status[k] = s.status[k]
<1> DEFINE n == s.retries[j] + 1
           t == Resolved(Failed(s, j, heard))
<1>1. s \in Scheduler /\ Placed(s) /\ Counted(s) /\ j \in Jobs /\ s.status[j] = "running"
      /\ Called(s, starts)
  BY DEF Kept, Sound, Placed, Scheduler
<1>2. n \in 1..(MaxRetries + 1) /\ s.retries[j] \in 0..MaxRetries
  BY <1>1 DEF Placed, Scheduler, SchedulerAssumption
<1>3. heard \in {"queued", "cancelled"} /\ (~Reentrant => heard = "queued")
  BY DEF Heard
<1>4. CASE n <= MaxRetries
  <2>1. /\ t \in Scheduler
        /\ t.active = s.active \ {j} /\ t.queue = s.queue \cup {j}
        /\ t.retries = [s.retries EXCEPT ![j] = n]
        /\ t.completed = s.completed /\ t.failed = s.failed
        /\ t.waiting = (s.waiting /\ s.active \ {j} # {})
        /\ t.status = [s.status EXCEPT ![j] = heard]
    <3> DEFINE u  == Failed(s, j, heard)
               st == [s.status EXCEPT ![j] = heard]
               rt == [s.retries EXCEPT ![j] = n]
    <3>1. st \in [Jobs -> Statuses] /\ rt \in [Jobs -> 0..(MaxRetries + 1)]
      <4>1. heard \in Statuses /\ n \in 0..(MaxRetries + 1)
        BY <1>2, <1>3 DEF Statuses, Ended, SchedulerAssumption
      <4> QED BY <1>1, <4>1 DEF Scheduler
    <3> DEFINE v == [s EXCEPT !.active = s.active \ {j}, !.retries = rt, !.status = st,
                              !.queue = s.queue \cup {j}, !.later = s.later \cup {j}]
    <3>2. u = v
      BY <1>1, <1>4 DEF Failed, Scheduler
    <3> HIDE DEF st, rt, u
    <3>3. /\ v \in Scheduler
          /\ v.active = s.active \ {j} /\ v.queue = s.queue \cup {j} /\ v.retries = rt
          /\ v.completed = s.completed /\ v.failed = s.failed
          /\ v.waiting = s.waiting /\ v.status = st
      BY <1>1, <3>1 DEF Scheduler
    <3> HIDE DEF v
    <3> QED BY <3>2, <3>3, ResolvedFields DEF st, rt, u
  <2> HIDE DEF t
  <2>2. /\ t.status[j] = heard /\ t.retries[j] = n
        /\ \A k \in Jobs \ {j} : t.status[k] = s.status[k] /\ t.retries[k] = s.retries[k]
    BY <1>1, <2>1 DEF Scheduler
  <2>3. Placed(t)
    BY <1>1, <1>3, <1>4, <2>1, <2>2 DEF Placed
  <2>4. With(t, "failed") = With(s, "failed") /\ With(t, "completed") = With(s, "completed")
    BY <1>1, <1>3, <2>2 DEF With
  <2>5. Counted(t)
    BY <1>1, <2>1, <2>4 DEF Counted
  <2>6. Cardinality(t.active) <= MaxConcurrent
    <3>1. Cardinality(t.active) = Cardinality(s.active) - 1
      BY <1>1, <2>1, Counting, FS_RemoveElement
    <3> QED BY <1>1, <3>1, Counting DEF Kept, Sound, SchedulerAssumption
  <2>7. Called(t, starts)
    BY <1>1, <1>2, <1>3, <2>2 DEF Called
  <2>8. ~Reentrant => InLine(t)
    BY <1>1, <1>3, <2>1, <2>2 DEF InLine, Scheduler, Placed, Kept
  <2> QED BY <2>1, <2>2, <2>3, <2>5, <2>6, <2>7, <2>8 DEF Kept, Sound, t
<1>5. CASE n > MaxRetries
  <2>1. /\ t \in Scheduler
        /\ t.active = s.active \ {j} /\ t.queue = s.queue
        /\ t.retries = [s.retries EXCEPT ![j] = n]
        /\ t.completed = s.completed /\ t.failed = s.failed + 1
        /\ t.waiting = (s.waiting /\ s.active \ {j} # {})
        /\ t.status = [s.status EXCEPT ![j] = "failed"]
    <3> DEFINE u  == Failed(s, j, heard)
               st == [s.status EXCEPT ![j] = "failed"]
               rt == [s.retries EXCEPT ![j] = n]
    <3>1. st \in [Jobs -> Statuses] /\ rt \in [Jobs -> 0..(MaxRetries + 1)]
      BY <1>1, <1>2 DEF Scheduler, Statuses, Ended, SchedulerAssumption
    <3>2. n <= MaxRetries <=> FALSE
      BY <1>2, <1>5 DEF SchedulerAssumption
    <3> DEFINE f == s.failed + 1
               v == [s EXCEPT !.active = s.active \ {j}, !.retries = rt, !.status = st,
                              !.failed = f]
    <3>3. u = v
      BY <1>1, <3>2 DEF Failed, Scheduler
    <3>4. f \in Nat
      BY <1>1 DEF Scheduler
    <3> HIDE DEF st, rt, u, f
    <3>5. /\ v \in Scheduler
          /\ v.active = s.active \ {j} /\ v.queue = s.queue /\ v.retries = rt
          /\ v.completed = s.completed /\ v.failed = f
          /\ v.waiting = s.waiting /\ v.status = st
      BY <1>1, <3>1, <3>4 DEF Scheduler
    <3> HIDE DEF v
    <3> QED BY <3>3, <3>5, ResolvedFields DEF st, rt, u, f
  <2> HIDE DEF t
  <2>2. /\ t.status[j] = "failed" /\ t.retries[j] = n
        /\ \A k \in Jobs \ {j} : t.status[k] = s.status[k] /\ t.retries[k] = s.retries[k]
    BY <1>1, <2>1 DEF Scheduler
  <2>3. Placed(t)
    BY <1>1, <2>1, <2>2 DEF Placed
  <2>4. With(t, "completed") = With(s, "completed")
    BY <1>1, <2>2 DEF With
  <2>5. With(t, "failed") = With(s, "failed") \cup {j} /\ j \notin With(s, "failed")
    BY <1>1, <2>2 DEF With
  <2>6. Cardinality(With(t, "failed")) = Cardinality(With(s, "failed")) + 1
    BY <1>1, <2>5, Counting, FS_AddElement
  <2>7. Counted(t)
    BY <1>1, <2>1, <2>4, <2>6 DEF Counted
  <2>8. Cardinality(t.active) <= MaxConcurrent
    <3>1. Cardinality(t.active) = Cardinality(s.active) - 1
      BY <1>1, <2>1, Counting, FS_RemoveElement
    <3> QED BY <1>1, <3>1, Counting DEF Kept, Sound, SchedulerAssumption
  <2>9. Called(t, starts)
    BY <1>1, <1>2, <2>2 DEF Called
  <2>10. ~Reentrant => InLine(t)
    BY <1>1, <2>1, <2>2 DEF InLine, Scheduler, Placed, Kept
  <2> QED BY <2>1, <2>2, <2>3, <2>7, <2>8, <2>9, <2>10 DEF Kept, Sound, t
<1> QED BY <1>2, <1>4, <1>5 DEF SchedulerAssumption

(* A submitted job, deferred or not.                                       *)
Queued(s, j, l) == [s EXCEPT !.status[j] = "queued", !.queue = @ \cup {j}, !.later = l]

LEMMA SubmittedOK ==
  ASSUME SchedulerAssumption, NEW s, Kept(s, starts), NEW j \in Jobs, s.status[j] = "none",
         NEW l \in SUBSET Jobs
  PROVE  LET t == Queued(s, j, l) IN
         /\ Kept(t, starts) /\ t.queue = s.queue \cup {j}
         /\ \A k \in Jobs \ {j} : t.status[k] = s.status[k]
<1> DEFINE st == [s.status EXCEPT ![j] = "queued"]
           t  == [s EXCEPT !.status = st, !.queue = @ \cup {j}, !.later = l]
<1>1. s \in Scheduler /\ Placed(s) /\ Counted(s) /\ Called(s, starts)
  BY DEF Kept, Sound
<1>2. st \in [Jobs -> Statuses]
  BY <1>1 DEF Scheduler, Statuses
<1>3. /\ st[j] = "queued"
      /\ \A k \in Jobs \ {j} : st[k] = s.status[k]
  BY <1>1 DEF Scheduler
<1>4. Queued(s, j, l) = t
  BY <1>1 DEF Scheduler, Queued
<1> HIDE DEF st
<1>5. /\ t \in Scheduler
      /\ t.active = s.active /\ t.queue = s.queue \cup {j} /\ t.retries = s.retries
      /\ t.completed = s.completed /\ t.failed = s.failed
      /\ t.waiting = s.waiting /\ t.status = st
  BY <1>1, <1>2 DEF Scheduler
<1> HIDE DEF t
<1>6. Placed(t)
  BY <1>1, <1>3, <1>5 DEF Placed
<1>7. With(t, "failed") = With(s, "failed") /\ With(t, "completed") = With(s, "completed")
  BY <1>1, <1>3, <1>5 DEF With
<1>8. Counted(t)
  BY <1>1, <1>5, <1>7 DEF Counted
<1>9. Called(t, starts)
  BY <1>1, <1>3, <1>5 DEF Called
<1>10. InLine(s) => InLine(t)
  BY <1>1, <1>3, <1>5 DEF InLine, Scheduler
<1>11. Kept(t, starts)
  BY <1>5, <1>6, <1>8, <1>9, <1>10 DEF Kept, Sound
<1> QED BY <1>3, <1>4, <1>5, <1>11

(* The switch, and the resolvers of a stop.                                *)
LEMMA SwitchedOK ==
  ASSUME NEW s, Kept(s, starts), NEW on \in BOOLEAN, NEW w \in BOOLEAN, w => s.active # {}
  PROVE  LET t == [s EXCEPT !.on = on, !.waiting = w] IN
         Kept(t, starts) /\ t.queue = s.queue /\ t.status = s.status
<1> DEFINE t == [s EXCEPT !.on = on, !.waiting = w]
<1>1. /\ t \in Scheduler
      /\ t.active = s.active /\ t.queue = s.queue /\ t.retries = s.retries
      /\ t.completed = s.completed /\ t.failed = s.failed
      /\ t.waiting = w /\ t.status = s.status
  BY DEF Scheduler, Kept, Sound
<1> HIDE DEF t
<1>2. Placed(t) /\ Counted(t) /\ Called(t, starts) /\ (InLine(s) => InLine(t))
  BY <1>1 DEF Placed, Counted, With, Called, InLine, Kept, Sound
<1> QED BY <1>1, <1>2 DEF Kept, Sound, t

LEMMA RipenedOK ==
  ASSUME NEW s, Kept(s, starts), NEW j
  PROVE  LET t == [s EXCEPT !.later = @ \ {j}] IN Kept(t, starts) /\ t.status = s.status
<1> DEFINE t == [s EXCEPT !.later = @ \ {j}]
<1>1. /\ t \in Scheduler
      /\ t.active = s.active /\ t.queue = s.queue /\ t.retries = s.retries
      /\ t.completed = s.completed /\ t.failed = s.failed
      /\ t.waiting = s.waiting /\ t.status = s.status
  BY DEF Scheduler, Kept, Sound
<1> HIDE DEF t
<1>2. Placed(t) /\ Counted(t) /\ Called(t, starts) /\ (InLine(s) => InLine(t))
  BY <1>1 DEF Placed, Counted, With, Called, InLine, Kept, Sound
<1> QED BY <1>1, <1>2 DEF Kept, Sound, t

LEMMA CancelledOK ==
  ASSUME SchedulerAssumption, NEW s, Kept(s, starts), NEW j \in Jobs, s.status[j] = "queued"
  PROVE  LET t == [s EXCEPT !.status[j] = "cancelled", !.queue = @ \ {j}, !.later = @ \ {j}] IN
         /\ Kept(t, starts)
         /\ \A k \in Jobs \ {j} : t.status[k] = s.status[k]
<1> DEFINE st == [s.status EXCEPT ![j] = "cancelled"]
           t  == [s EXCEPT !.status = st, !.queue = @ \ {j}, !.later = @ \ {j}]
<1>1. s \in Scheduler /\ Placed(s) /\ Counted(s) /\ Called(s, starts)
  BY DEF Kept, Sound
<1>2. st \in [Jobs -> Statuses]
  BY <1>1 DEF Scheduler, Statuses, Ended
<1>3. /\ st[j] = "cancelled"
      /\ \A k \in Jobs \ {j} : st[k] = s.status[k]
  BY <1>1 DEF Scheduler
<1>4. [s EXCEPT !.status[j] = "cancelled", !.queue = @ \ {j}, !.later = @ \ {j}] = t
  BY <1>1 DEF Scheduler
<1> HIDE DEF st
<1>5. /\ t \in Scheduler
      /\ t.active = s.active /\ t.queue = s.queue \ {j} /\ t.retries = s.retries
      /\ t.completed = s.completed /\ t.failed = s.failed
      /\ t.waiting = s.waiting /\ t.status = st
  BY <1>1, <1>2 DEF Scheduler
<1> HIDE DEF t
<1>6. Placed(t)
  BY <1>1, <1>3, <1>5 DEF Placed
<1>7. With(t, "failed") = With(s, "failed") /\ With(t, "completed") = With(s, "completed")
  BY <1>1, <1>3, <1>5 DEF With
<1>8. Counted(t)
  BY <1>1, <1>5, <1>7 DEF Counted
<1>9. Called(t, starts)
  BY <1>1, <1>3, <1>5 DEF Called
<1>10. InLine(s) => InLine(t)
  BY <1>1, <1>3, <1>5 DEF InLine, Scheduler
<1>11. Kept(t, starts)
  BY <1>5, <1>6, <1>8, <1>9, <1>10 DEF Kept, Sound
<1> QED BY <1>3, <1>4, <1>11

-----------------------------------------------------------------------------
(* The invariant.                                                          *)

LEMMA InitEstablishesIInv == ASSUME SchedulerAssumption, Init PROVE IInv
<1>1. sched \in Scheduler /\ sched.status = [j \in Jobs |-> "none"]
      /\ sched.retries = [j \in Jobs |-> 0] /\ sched.queue = {} /\ sched.active = {}
      /\ sched.waiting = FALSE /\ sched.completed = 0 /\ sched.failed = 0
  BY DEF Init, Scheduler, Statuses, SchedulerAssumption
<1>2. Placed(sched) /\ Called(sched, starts) /\ InLine(sched)
  BY <1>1 DEF Placed, Called, InLine, Init, SchedulerAssumption
<1>3. With(sched, "completed") = {} /\ With(sched, "failed") = {} /\ Cardinality({}) = 0
  BY <1>1, FS_EmptySet DEF With
<1>4. Counted(sched) /\ Cardinality(sched.active) <= MaxConcurrent
  BY <1>1, <1>3 DEF Counted, SchedulerAssumption
<1>5. Kept(sched, starts)
  BY <1>1, <1>2, <1>4 DEF Kept, Sound
<1>6. starts \in [Jobs -> 0..(MaxRetries + 1)]
  BY DEF Init, SchedulerAssumption
<1>7. handlers \subseteq Attempts /\ timers \subseteq handlers /\ quiet \in BOOLEAN
  BY DEF Init
<1> QED BY <1>5, <1>6, <1>7 DEF IInv

(* A step keeps the invariant, and ends in a state whose jobs that had     *)
(* ended before are as they were, when no listener cancels.                *)
EndsKept == \A j \in Jobs : sched.status[j] \in Ended => sched'.status[j] = sched.status[j]

LEMMA QuietTyped == ASSUME NEW s, quiet \in BOOLEAN, Quietens(s) PROVE quiet' \in BOOLEAN
BY DEF Quietens

LEMMA StepPreservesIInv ==
  ASSUME SchedulerAssumption, IInv, [Next]_vars
  PROVE  IInv' /\ (~Reentrant => EndsKept)
<1>1. /\ Kept(sched, starts) /\ starts \in [Jobs -> 0..(MaxRetries + 1)] /\ quiet \in BOOLEAN
      /\ handlers \in SUBSET Attempts /\ timers \in SUBSET handlers
  BY DEF IInv
<1>2. sched \in Scheduler /\ Placed(sched) /\ (~Reentrant => InLine(sched))
  BY <1>1 DEF Kept, Sound
<1>3. ASSUME NEW j \in Jobs, Submit(j) PROVE IInv' /\ (~Reentrant => EndsKept)
  <2>1. PICK deferred \in BOOLEAN :
          Dispatch([sched EXCEPT !.status[j] = "queued", !.queue = @ \cup {j},
                                 !.later = IF deferred THEN @ \cup {j} ELSE @],
                   handlers, timers)
    BY <1>3 DEF Submit
  <2> DEFINE l == IF deferred THEN sched.later \cup {j} ELSE sched.later
             t == Queued(sched, j, l)
  <2>2. Dispatch(t, handlers, timers)
    BY <2>1 DEF Queued
  <2>3. l \in SUBSET Jobs
    BY <1>2 DEF Scheduler
  <2>4. sched.status[j] = "none" /\ quiet' = quiet
    BY <1>3 DEF Submit
  <2> HIDE DEF l
  <2>5. /\ Kept(t, starts) /\ t.queue = sched.queue \cup {j}
        /\ \A k \in Jobs \ {j} : t.status[k] = sched.status[k]
    BY <1>1, <2>3, <2>4, SubmittedOK
  <2> HIDE DEF t
  <2>6. IInv'
    BY <1>1, <2>2, <2>4, <2>5, DispatchStep DEF IInv
  <2>7. \A k \in Jobs : k \notin t.queue => sched'.status[k] = t.status[k]
    BY <1>1, <2>2, <2>5, DispatchStep
  <2>8. ~Reentrant => EndsKept
    BY <1>2, <2>4, <2>5, <2>7 DEF EndsKept, InLine, Ended
  <2> QED BY <2>6, <2>8
<1>4. ASSUME NEW j \in Jobs, Ripen(j) PROVE IInv' /\ (~Reentrant => EndsKept)
  <2>1. sched' = [sched EXCEPT !.later = @ \ {j}]
        /\ UNCHANGED <<handlers, timers, starts, quiet>>
    BY <1>4 DEF Ripen
  <2>2. Kept(sched', starts) /\ sched'.status = sched.status
    BY <1>1, <2>1, RipenedOK
  <2> QED BY <1>1, <2>1, <2>2 DEF IInv, EndsKept
<1>5. ASSUME NEW j \in Jobs, CancelJob(j) PROVE IInv' /\ (~Reentrant => EndsKept)
  <2>1. sched' = [sched EXCEPT !.status[j] = "cancelled", !.queue = @ \ {j}, !.later = @ \ {j}]
        /\ sched.status[j] = "queued" /\ UNCHANGED <<handlers, timers, starts, quiet>>
    BY <1>5 DEF CancelJob
  <2>2. Kept(sched', starts) /\ \A k \in Jobs \ {j} : sched'.status[k] = sched.status[k]
    BY <1>1, <2>1, CancelledOK
  <2> QED BY <1>1, <2>1, <2>2 DEF IInv, EndsKept, Ended
<1>6. ASSUME NEW a \in Attempts, Succeeds(a) PROVE IInv' /\ (~Reentrant => EndsKept)
  <2> DEFINE j == a[1]
             t == Resolved(Succeeded(sched, j))
  <2>1. CASE j \in sched.active
    <3>1. /\ Dispatch(t, handlers \ {a}, timers \ {a})
          /\ Quietens(Succeeded(sched, j))
      BY <1>6, <2>1 DEF Succeeds
    <3>2. /\ Kept(t, starts) /\ t.queue = sched.queue
          /\ \A k \in Jobs \ {j} : t.status[k] = sched.status[k]
      BY <1>1, <2>1, SucceededOK
    <3> HIDE DEF t
    <3>3. handlers \ {a} \in SUBSET Attempts /\ timers \ {a} \in SUBSET (handlers \ {a})
      BY <1>1
    <3>4. /\ Kept(sched', starts') /\ starts' \in [Jobs -> 0..(MaxRetries + 1)]
          /\ handlers' \subseteq Attempts /\ timers' \subseteq handlers'
          /\ \A k \in Jobs : k \notin t.queue => sched'.status[k] = t.status[k]
      BY <1>1, <3>1, <3>2, <3>3, DispatchStep
    <3>5. IInv'
      BY <1>1, <3>1, <3>4, QuietTyped DEF IInv
    <3>6. ~Reentrant => EndsKept
      BY <1>2, <2>1, <3>2, <3>4 DEF EndsKept, InLine, Ended, Placed
    <3> QED BY <3>5, <3>6
  <2>2. CASE j \notin sched.active
    BY <1>1, <1>6, <2>2 DEF Succeeds, IInv, EndsKept
  <2> QED BY <2>1, <2>2
<1>7. ASSUME NEW a \in Attempts, Fails(a) \/ TimesOut(a)
      PROVE IInv' /\ (~Reentrant => EndsKept)
  <2> DEFINE j == a[1]
  <2>1. CASE j \in sched.active
    <3>1. PICK heard \in Heard, hs \in SUBSET Attempts, ts \in SUBSET Attempts :
            /\ ts \in SUBSET hs
            /\ Dispatch(Resolved(Failed(sched, j, heard)), hs, ts)
            /\ Quietens(Failed(sched, j, heard))
      <4>1. handlers \ {a} \in SUBSET Attempts /\ timers \ {a} \in SUBSET (handlers \ {a})
            /\ timers \ {a} \in SUBSET handlers /\ timers \ {a} \in SUBSET Attempts
        BY <1>1
      <4>2. CASE Fails(a)
        BY <1>1, <2>1, <4>1, <4>2 DEF Fails
      <4>3. CASE TimesOut(a)
        BY <1>1, <2>1, <4>1, <4>3 DEF TimesOut
      <4> QED BY <1>7, <4>2, <4>3
    <3> DEFINE t == Resolved(Failed(sched, j, heard))
    <3>2. /\ Kept(t, starts) /\ t.queue \in SUBSET (sched.queue \cup {j})
          /\ \A k \in Jobs \ {j} : t.status[k] = sched.status[k]
      BY <1>1, <2>1, FailedOK
    <3>3. Dispatch(t, hs, ts)
      BY <3>1
    <3> HIDE DEF t
    <3>4. /\ Kept(sched', starts') /\ starts' \in [Jobs -> 0..(MaxRetries + 1)]
          /\ handlers' \subseteq Attempts /\ timers' \subseteq handlers'
          /\ \A k \in Jobs : k \notin t.queue => sched'.status[k] = t.status[k]
      BY <1>1, <3>1, <3>2, <3>3, DispatchStep
    <3>5. IInv'
      BY <1>1, <3>1, <3>4, QuietTyped DEF IInv
    <3>6. ~Reentrant => EndsKept
      BY <1>2, <2>1, <3>2, <3>4 DEF EndsKept, InLine, Ended, Placed
    <3> QED BY <3>5, <3>6
  <2>2. CASE j \notin sched.active
    BY <1>1, <1>7, <2>2 DEF Fails, TimesOut, IInv, EndsKept
  <2> QED BY <2>1, <2>2
<1>8. ASSUME Start PROVE IInv' /\ (~Reentrant => EndsKept)
  <2> DEFINE w == sched.waiting
             t == [sched EXCEPT !.on = TRUE, !.waiting = w]
  <2>1. Dispatch(t, handlers, timers) /\ quiet' = FALSE
    <3>1. [sched EXCEPT !.on = TRUE] = t
      BY <1>2 DEF Scheduler
    <3> QED BY <1>8, <3>1 DEF Start
  <2>2. w \in BOOLEAN /\ (w => sched.active # {})
    BY <1>1, <1>2 DEF Scheduler, Kept
  <2>3. Kept(t, starts) /\ t.queue = sched.queue /\ t.status = sched.status
    BY <1>1, <2>2, SwitchedOK
  <2> HIDE DEF t
  <2>4. /\ IInv'
        /\ \A k \in Jobs : k \notin t.queue => sched'.status[k] = t.status[k]
    BY <1>1, <2>1, <2>3, DispatchStep DEF IInv
  <2> QED BY <1>2, <2>3, <2>4 DEF EndsKept, InLine, Ended
<1>9. ASSUME NEW graceful \in BOOLEAN, Stop(graceful) PROVE IInv' /\ (~Reentrant => EndsKept)
  <2> DEFINE w == sched.waiting \/ (graceful /\ sched.on /\ sched.active # {})
  <2>1. sched' = [sched EXCEPT !.on = FALSE, !.waiting = w]
        /\ quiet' = (quiet \/ (graceful /\ ~(sched.on /\ sched.active # {})))
        /\ UNCHANGED <<handlers, timers, starts>>
    BY <1>9 DEF Stop
  <2>2. w \in BOOLEAN /\ (w => sched.active # {})
    BY <1>1, <1>2 DEF Scheduler, Kept
  <2> HIDE DEF w
  <2>3. Kept(sched', starts) /\ sched'.status = sched.status
    BY <1>1, <2>1, <2>2, SwitchedOK
  <2> QED BY <1>1, <2>1, <2>3 DEF IInv, EndsKept
<1>10. ASSUME Poll PROVE IInv' /\ (~Reentrant => EndsKept)
  <2>1. Dispatch(sched, handlers, timers) /\ quiet' = quiet
    BY <1>10 DEF Poll
  <2>2. /\ IInv'
        /\ \A k \in Jobs : k \notin sched.queue => sched'.status[k] = sched.status[k]
    BY <1>1, <2>1, DispatchStep DEF IInv
  <2> QED BY <1>2, <2>2 DEF EndsKept, InLine, Ended
<1>11. ASSUME UNCHANGED vars PROVE IInv' /\ (~Reentrant => EndsKept)
  <2>1. Kept(sched', starts')
    BY <1>1, <1>11 DEF vars
  <2> QED BY <1>1, <1>11, <2>1 DEF vars, IInv, EndsKept
<1> QED BY <1>3, <1>4, <1>5, <1>6, <1>7, <1>8, <1>9, <1>10, <1>11 DEF Next

LEMMA IInvariant == ASSUME SchedulerAssumption PROVE Spec => []IInv
<1>1. Init => IInv
  BY InitEstablishesIInv
<1>2. IInv /\ [Next]_vars => IInv'
  BY StepPreservesIInv
<1> QED BY <1>1, <1>2, PTL DEF Spec

-----------------------------------------------------------------------------
(* Every field stays in its type: the retries of a job in their bound, the *)
(* attempts whose timer is armed among those whose handler runs            *)
(* (scheduler.ts:44-67, 287-320).                                          *)
THEOREM SchedulerTyped == ASSUME SchedulerAssumption PROVE Spec => []TypeOK
<1>1. IInv => TypeOK
  BY DEF IInv, Kept, Sound, TypeOK
<1> QED BY <1>1, IInvariant, PTL

(* completedCount and failedCount count each job once, whatever late       *)
(* answers, timeouts and jobs without a handler there are                  *)
(* (scheduler.ts:268-285, 322-370).                                        *)
THEOREM StatisticsExact == ASSUME SchedulerAssumption PROVE Spec => []CountersExact
<1>1. IInv => CountersExact
  BY DEF IInv, Kept, Sound, Counted, With, CountersExact
<1> QED BY <1>1, IInvariant, PTL

(* The handler of a job has been called once for each failure, and once    *)
(* more if the job runs or has completed: no crossing of late answers and  *)
(* timeouts makes the scheduler skip an attempt or run one twice           *)
(* (executeJob, handleFailure, handleTimeout).                             *)
THEOREM NoAttemptTwice == ASSUME SchedulerAssumption PROVE Spec => []OneCallPerAttempt
<1>1. IInv => OneCallPerAttempt
  BY DEF IInv, Kept, Called, OneCallPerAttempt
<1> QED BY <1>1, IInvariant, PTL

(* No more slots are taken than there are, and a graceful stop waits only  *)
(* while one is taken (dispatch, resolveShutdownIfDone).                   *)
THEOREM SlotsBounded == ASSUME SchedulerAssumption PROVE Spec => []SlotsAccounted
<1>1. IInv => SlotsAccounted
  BY DEF IInv, Kept, Sound, SlotsAccounted
<1> QED BY <1>1, IInvariant, PTL

(* If no listener cancels a job from its callback, the queue holds exactly *)
(* the queued jobs and the slots the running ones.                         *)
THEOREM JobsInPlace ==
  ASSUME SchedulerAssumption, ~Reentrant PROVE Spec => []OnePlace
<1>1. IInv => OnePlace
  BY DEF IInv, Kept, Sound, Placed, InLine, OnePlace
<1> QED BY <1>1, IInvariant, PTL

(* And then a job that has completed, failed or been cancelled stays so,   *)
(* whichever of its handlers answer and timers fire afterwards.            *)
THEOREM EndsStand ==
  ASSUME SchedulerAssumption, ~Reentrant PROVE Spec => EndedStays
<1>1. IInv /\ [Next]_vars
        => [\A j \in Jobs : sched.status[j] \in Ended
                             => sched'.status[j] = sched.status[j]]_vars
  BY StepPreservesIInv DEF EndsKept
<1> QED BY <1>1, IInvariant, PTL DEF Spec, EndedStays
==============================================================================
