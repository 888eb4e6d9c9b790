------------------------------ MODULE JobHeap ------------------------------
(***************************************************************************)
(* The priority queue of the job scheduler: a binary heap in an array,     *)
(* with a map from job to position so that a job can be taken out of the   *)
(* middle, and a search for the best job that is not deferred.             *)
(*                                                                         *)
(* The code is packages/niyanta/src/job-queue.ts.  Positions count from 1  *)
(* here and from 0 there.  The sift operations are loops over the array;   *)
(* they are recursive operators here, so nothing is proved about them.     *)
(***************************************************************************)
EXTENDS Integers, Sequences, FiniteSets, SequencesExt

CONSTANTS
    Ids,            \* jobs
    Priority,       \* the weight of each: 0 is critical
    CreatedAt,
    Times,          \* values of scheduledAt (0: undefined)
    MaxNow          \* bound on the clock

HeapAssumption ==
    /\ IsFiniteSet(Ids)
    /\ Priority \in [Ids -> Nat]
    /\ CreatedAt \in [Ids -> Nat]
    /\ Times \subseteq Nat
    /\ MaxNow \in Nat

VARIABLES
    heap,       \* the array: a sequence of entries
    index,      \* where each job is, 0 if it is not queued
    now

vars == <<heap, index, now>>

Entry == [id : Ids, at : Times]

(* compareJobs: a comes before b.                                          *)
Before(a, b) ==
    LET pa == Priority[a.id]
        pb == Priority[b.id]
    IN  \/ pa < pb
        \/ pa = pb /\ a.at < b.at
        \/ pa = pb /\ a.at = b.at /\ CreatedAt[a.id] < CreatedAt[b.id]

Eligible(e) == e.at <= now

Parent(p) == p \div 2

-----------------------------------------------------------------------------
(* A queue is its array and its index.                                     *)

Swapped(q, a, b) ==
    [heap  |-> [q.heap EXCEPT ![a] = q.heap[b], ![b] = q.heap[a]],
     index |-> [q.index EXCEPT ![q.heap[a].id] = b, ![q.heap[b].id] = a]]

RECURSIVE BubbledUp(_, _), SunkDown(_, _)

BubbledUp(q, p) ==
    IF p = 1 \/ ~Before(q.heap[p], q.heap[Parent(p)]) THEN q
    ELSE BubbledUp(Swapped(q, p, Parent(p)), Parent(p))

(* The smaller child takes the place of its parent.                        *)
SunkDown(q, p) ==
    LET children == {c \in {2 * p, 2 * p + 1} : c <= Len(q.heap)}
        smaller  == {c \in children : /\ Before(q.heap[c], q.heap[p])
                                      /\ \A d \in children : ~Before(q.heap[d], q.heap[c])}
    IN  IF smaller = {} THEN q
        ELSE LET c == CHOOSE c \in smaller : \A d \in smaller : c <= d
             IN  SunkDown(Swapped(q, p, c), c)

(* The slip that only lets it sink: what a queue without removal from the  *)
(* middle could do.                                                        *)
RemovedAtDown(q, p) ==
    LET last  == q.heap[Len(q.heap)]
        rest  == Front(q.heap)
        left  == [q.index EXCEPT ![q.heap[p].id] = 0]
    IN  IF p > Len(rest)
        THEN [heap |-> rest, index |-> left]
        ELSE SunkDown([heap  |-> [rest EXCEPT ![p] = last],
                       index |-> [left EXCEPT ![last.id] = p]], p)

(* removeAt: the last job takes the place of the removed one and moves up  *)
(* or down from there.                                                     *)
RemovedAt(q, p) ==
    LET last  == q.heap[Len(q.heap)]
        rest  == Front(q.heap)
        left  == [q.index EXCEPT ![q.heap[p].id] = 0]
    IN  IF p > Len(rest)
        THEN [heap |-> rest, index |-> left]
        ELSE SunkDown(BubbledUp([heap  |-> [rest EXCEPT ![p] = last],
                                 index |-> [left EXCEPT ![last.id] = p]], p), p)

(* findFirstEligible: a search level by level that does not look below an  *)
(* eligible job.  Of equals the first one found is kept.  0 if there is    *)
(* none.                                                                   *)
Reached(h) ==
    {p \in DOMAIN h : \A k \in 1..(p - 1) :
        (\E i \in 1..p : p \div (2 ^ i) = k) => ~Eligible(h[k])}

FirstEligible(h) ==
    LET found == {p \in Reached(h) : Eligible(h[p])}
        best  == {p \in found : \A r \in found : ~Before(h[r], h[p])}
    IN  IF best = {} THEN 0 ELSE CHOOSE p \in best : \A r \in best : p <= r

(* drain: the root, until the heap is empty.                               *)
RECURSIVE Drained(_)

Drained(q) ==
    IF q.heap = <<>> THEN <<>>
    ELSE <<Head(q.heap)>> \o Drained(RemovedAt(q, 1))

Queue == [heap |-> heap, index |-> index]

Becomes(q) == heap' = q.heap /\ index' = q.index

-----------------------------------------------------------------------------
Init ==
    /\ heap  = <<>>
    /\ index = [i \in Ids |-> 0]
    /\ now   = 0

(* enqueue refuses a job that is there already.                            *)
Enqueue(i, at) ==
    /\ index[i] = 0
    /\ LET n == Len(heap) + 1
       IN  Becomes(BubbledUp([heap  |-> Append(heap, [id |-> i, at |-> at]),
                              index |-> [index EXCEPT ![i] = n]], n))
    /\ UNCHANGED now

DequeueEligible ==
    /\ FirstEligible(heap) # 0
    /\ Becomes(RemovedAt(Queue, FirstEligible(heap)))
    /\ UNCHANGED now

RemoveJob(i) ==
    /\ index[i] # 0
    /\ Becomes(RemovedAt(Queue, index[i]))
    /\ UNCHANGED now

(* drain, as the step it is for the queue.                                 *)
Drain ==
    /\ heap # <<>>
    /\ heap'  = <<>>
    /\ index' = [i \in Ids |-> 0]
    /\ UNCHANGED now

Tick ==
    /\ now < MaxNow
    /\ now' = now + 1
    /\ UNCHANGED <<heap, index>>

Next ==
    \/ \E i \in Ids, at \in Times : Enqueue(i, at)
    \/ DequeueEligible
    \/ \E i \in Ids : RemoveJob(i)
    \/ Drain
    \/ Tick

Spec == Init /\ [][Next]_vars

-----------------------------------------------------------------------------
(* The array holds entries and the index positions.                        *)
TypeOK ==
    /\ heap \in Seq(Entry)
    /\ index \in [Ids -> 0..Cardinality(Ids)]
    /\ now \in 0..MaxNow

(* No job comes before its parent, after any sequence of insertions and    *)
(* removals from anywhere (the heap property that findFirstEligible's      *)
(* pruning relies on).                                                     *)
HeapOrdered == \A p \in 2..Len(heap) : ~Before(heap[p], heap[Parent(p)])

(* The map says exactly where each job is: swaps, removals and the last    *)
(* job's move keep it in step with the array.                              *)
IndexExact ==
    /\ \A p \in DOMAIN heap : index[heap[p].id] = p
    /\ \A i \in Ids : index[i] # 0 => index[i] \in DOMAIN heap /\ heap[index[i]].id = i

(* What dequeueEligible takes is the best of all eligible jobs, although   *)
(* its search leaves out what is below an eligible one.                    *)
TakesTheBest ==
    LET p == FirstEligible(heap)
        eligible == {r \in DOMAIN heap : Eligible(heap[r])}
    IN  /\ p = 0 <=> eligible = {}
        /\ p # 0 => p \in eligible /\ \A r \in eligible : ~Before(heap[r], heap[p])

(* drain gives all jobs, in order.                                         *)
DrainsInOrder ==
    LET d == Drained(Queue)
    IN  /\ ToSet(d) = ToSet(heap) /\ Len(d) = Len(heap)
        /\ \A m, n \in DOMAIN d : m < n => ~Before(d[n], d[m])
=============================================================================
