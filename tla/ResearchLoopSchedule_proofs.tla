-------------------- MODULE ResearchLoopSchedule_proofs --------------------
(***************************************************************************)
(* ResearchLoopSchedule for every number of owners and loops, every lease  *)
(* length and every retry window: types and well-formed rows, the backing  *)
(* of every grant by the table, and what follows from it.                  *)
(*                                                                         *)
(* The first invariant is inductive once types and well-formed rows are    *)
(* taken together: a claim yields a well-formed row only from one.  The    *)
(* second, GrantBackedByLease, needs the first: a lease that is live in    *)
(* the history is live in the row, so every operation that asks whether a  *)
(* lease is live sees it.                                                  *)
(***************************************************************************)
EXTENDS ResearchLoopSchedule, TLAPS

(* TypeOK and RowsWellFormed by the part of the state they speak of.       *)
RowsTyped == row \in [Loops -> Row] /\ RowsWellFormed

ProcsTyped ==
    /\ stage  \in [Owners -> Stages]
    /\ target \in [Owners -> Loops \cup {NoLoop}]
    /\ \A o \in Owners : stage[o] = "idle" <=> target[o] = NoLoop

HistoryTyped ==
    /\ grant     \in [Loops -> [Owners -> 0..TTL]]
    /\ displaced \in [Loops -> SUBSET Owners]

Typed == RowsTyped /\ ProcsTyped /\ HistoryTyped

LEMMA TypedParts == Typed <=> TypeOK /\ RowsWellFormed
  BY DEF Typed, RowsTyped, ProcsTyped, HistoryTyped, TypeOK

-----------------------------------------------------------------------------
(* One row changes into a well-formed one.                                 *)
LEMMA OneRow ==
  ASSUME RowsTyped, NEW l \in Loops, NEW r \in Row, RowWellFormed(r),
         row' = [row EXCEPT ![l] = r]
  PROVE  RowsTyped'
<1>1. row' \in [Loops -> Row]
  BY DEF RowsTyped
<1>2. ASSUME NEW k \in Loops PROVE RowWellFormed(row'[k])
  <2>1. CASE k = l
    BY <2>1 DEF RowsTyped
  <2>2. CASE k # l
    <3>1. row'[k] = row[k]
      BY <2>2 DEF RowsTyped
    <3> QED BY <3>1 DEF RowsTyped, RowsWellFormed
  <2> QED BY <2>1, <2>2
<1> QED BY <1>1, <1>2 DEF RowsTyped, RowsWellFormed

(* A process moves on: to a stage with a loop, or back to idle.            *)
LEMMA OneProc ==
  ASSUME ProcsTyped, NEW o \in Owners, NEW s \in Stages, NEW l \in Loops \cup {NoLoop},
         s = "idle" <=> l = NoLoop, Goto(o, s, l)
  PROVE  ProcsTyped'
  BY DEF ProcsTyped, Goto

LEMMA GrantedTyped ==
  ASSUME HistoryTyped, NEW l \in Loops, NEW o \in Owners, Granted(l, o)
  PROVE  HistoryTyped'
  BY RowAssumption DEF HistoryTyped, Granted

LEMMA LetGoTyped ==
  ASSUME HistoryTyped, NEW l \in Loops, NEW o \in Owners, LetGo(l, o)
  PROVE  HistoryTyped'
  BY RowAssumption DEF HistoryTyped, LetGo

LEMMA WipedTyped ==
  ASSUME HistoryTyped, RowsTyped, NEW l \in Loops, Wiped(l), UNCHANGED grant
  PROVE  HistoryTyped'
<1>1. CASE UNCHANGED displaced
  BY <1>1 DEF HistoryTyped
<1>2. CASE LeaseActive(row[l]) /\ displaced' = [displaced EXCEPT ![l] = @ \cup {row[l].leaseOwner}]
  <2>1. row[l].leaseOwner \in Owners
    BY <1>2 DEF RowsTyped, Row, LeaseActive
  <2> QED BY <1>2, <2>1 DEF HistoryTyped
<1> QED BY <1>1, <1>2 DEF Wiped

(* A process that is not idle drives a loop.                               *)
LEMMA TargetIsLoop ==
  ASSUME ProcsTyped, NEW o \in Owners, stage[o] # "idle"
  PROVE  target[o] \in Loops
  BY DEF ProcsTyped

-----------------------------------------------------------------------------
(* The operations of ResearchLoopRow keep a row typed and well formed.     *)

(* A missing row is a well-formed row.                                     *)
LEMMA NoRowOK == NoRow \in Row /\ RowWellFormed(NoRow)
  BY RowAssumption
  DEF NoRow, Row, Statuses, Live, Terminal, Phases, PreStartPhases, StopReasons,
      RowWellFormed, LeaseWellFormed, CancelWellFormed, OutcomeWellFormed, WindowWellFormed

(* The queued upsert of upsertResearchLoopSchedule.                        *)
LEMMA UpsertQueuedOK ==
  ASSUME NEW r \in Row, RowWellFormed(r), NEW d \in 0..MaxDelay, NEW ph \in Phases
  PROVE  UpsertQueued(r, d, ph) \in Row /\ RowWellFormed(UpsertQueued(r, d, ph))
<1> DEFINE q == UpsertQueued(r, d, ph)
<1>1. /\ "queued" \in Statuses
      /\ NoOwner \in Owners \cup {NoOwner}
      /\ 0 \in 0..TTL
      /\ "none" \in StopReasons \cup {"none"}
      /\ (IF ph = "none" THEN r.phase ELSE ph) \in Phases
  BY RowAssumption DEF Row, Statuses, Live
<1>2. q \in Row
  BY <1>1 DEF UpsertQueued, Row
<1>3. /\ q.status = "queued"
      /\ q.leaseOwner = NoOwner
      /\ q.leaseLeft = 0
      /\ q.cancelRequested = r.cancelRequested
      /\ q.stopReason = "none"
      /\ q.finished = FALSE
  BY DEF UpsertQueued, Row
<1>4. RowWellFormed(q)
  BY <1>2, <1>3, RowAssumption
  DEF Row, Live, Terminal,
      RowWellFormed, LeaseWellFormed, CancelWellFormed, OutcomeWellFormed, WindowWellFormed
<1> QED BY <1>2, <1>4

(* The claim and heartbeat of claimResearchLoopSchedule.                   *)
LEMMA ClaimOK ==
  ASSUME NEW r \in Row, RowWellFormed(r), NEW o \in Owners, NEW ph \in Phases,
         Claimable(r, o)
  PROVE  Claim(r, o, ph) \in Row /\ RowWellFormed(Claim(r, o, ph))
<1> DEFINE q == Claim(r, o, ph)
<1>1. /\ (IF r.cancelRequested THEN "cancelling" ELSE "leased") \in Statuses
      /\ TTL \in 0..TTL
      /\ (IF ph = "none" THEN r.phase ELSE ph) \in Phases
  BY RowAssumption DEF Row, Statuses, Live
<1>2. q \in Row
  BY <1>1 DEF Claim, Row
<1>3. /\ q.status = (IF r.cancelRequested THEN "cancelling" ELSE "leased")
      /\ q.availableIn = r.availableIn
      /\ q.leaseOwner = o
      /\ q.leaseLeft = TTL
      /\ q.cancelRequested = r.cancelRequested
      /\ q.stopReason = r.stopReason
      /\ q.finished = r.finished
  BY DEF Claim, Row
<1>4. RowWellFormed(q)
  BY <1>2, <1>3, RowAssumption
  DEF Claimable, Row, Live, Terminal,
      RowWellFormed, LeaseWellFormed, CancelWellFormed, OutcomeWellFormed, WindowWellFormed
<1> QED BY <1>2, <1>4

(* cancelResearchLoopSchedule.                                             *)
LEMMA CancelOK ==
  ASSUME NEW r \in Row, RowWellFormed(r)
  PROVE  Cancel(r) \in Row /\ RowWellFormed(Cancel(r))
  BY RowAssumption
  DEF Cancel, Row, Statuses, Live, Terminal, Phases, PreStartPhases, StopReasons,
      RowWellFormed, LeaseWellFormed, CancelWellFormed, OutcomeWellFormed, WindowWellFormed

(* completeResearchLoopSchedule.                                           *)
LEMMA CompleteOK ==
  ASSUME NEW r \in Row, NEW reason \in StopReasons
  PROVE  Complete(r, reason) \in Row /\ RowWellFormed(Complete(r, reason))
<1> DEFINE q == Complete(r, reason)
<1>1. /\ OutcomeOf(reason) \in Terminal
      /\ Terminal \subseteq Statuses
      /\ NoOwner \in Owners \cup {NoOwner}
      /\ 0 \in 0..TTL
      /\ reason # "none"
  BY RowAssumption DEF OutcomeOf, StopReasons, Statuses, Terminal
<1>2. q \in Row
  BY <1>1 DEF Complete, Row
<1>3. /\ q.status = OutcomeOf(reason)
      /\ q.leaseOwner = NoOwner
      /\ q.leaseLeft = 0
      /\ q.stopReason = reason
      /\ q.finished = TRUE
  BY DEF Complete, Row
<1>4. RowWellFormed(q)
  BY <1>1, <1>2, <1>3, RowAssumption
  DEF Row, Terminal,
      RowWellFormed, LeaseWellFormed, CancelWellFormed, OutcomeWellFormed, WindowWellFormed
<1> QED BY <1>2, <1>4

(* The passage of time.                                                    *)
LEMMA AgedOK ==
  ASSUME NEW r \in Row, RowWellFormed(r)
  PROVE  Aged(r) \in Row /\ RowWellFormed(Aged(r))
<1> DEFINE q == Aged(r)
<1>1. /\ Monus1(r.leaseLeft) \in 0..TTL
      /\ Monus1(r.availableIn) \in 0..MaxDelay
      /\ r.leaseLeft = 0 => Monus1(r.leaseLeft) = 0
      /\ r.availableIn = 0 => Monus1(r.availableIn) = 0
  BY RowAssumption DEF Row, Monus1
<1>2. q \in Row
  BY <1>1 DEF Aged, Row
<1>3. /\ q.status = r.status
      /\ q.availableIn = Monus1(r.availableIn)
      /\ q.leaseOwner = r.leaseOwner
      /\ q.leaseLeft = Monus1(r.leaseLeft)
      /\ q.cancelRequested = r.cancelRequested
      /\ q.stopReason = r.stopReason
      /\ q.finished = r.finished
  BY DEF Aged, Row
<1>4. RowWellFormed(q)
  BY <1>1, <1>2, <1>3, RowAssumption
  DEF Row, Live, Terminal,
      RowWellFormed, LeaseWellFormed, CancelWellFormed, OutcomeWellFormed, WindowWellFormed
<1> QED BY <1>2, <1>4

-----------------------------------------------------------------------------
LEMMA TypedInit == Init => Typed
<1> SUFFICES ASSUME Init PROVE Typed
  OBVIOUS
<1>1. RowsTyped
  BY NoRowOK DEF Init, RowsTyped, RowsWellFormed
<1>2. ProcsTyped
  BY ScheduleAssumption DEF Init, ProcsTyped, Stages
<1>3. HistoryTyped
  BY RowAssumption DEF Init, HistoryTyped
<1> QED BY <1>1, <1>2, <1>3 DEF Typed

(* Every step keeps types and well-formed rows.                            *)
LEMMA TypedStep == Typed /\ [Next]_vars => Typed'
<1> SUFFICES ASSUME Typed, [Next]_vars PROVE Typed'
  OBVIOUS
<1> USE DEF Typed
<1>a. ASSUME NEW l \in Loops PROVE row[l] \in Row /\ RowWellFormed(row[l])
  BY DEF RowsTyped, RowsWellFormed
<1>b. /\ {"idle", "queueing", "claiming", "working", "requeueing", "closing"} = Stages
      /\ {"none", "started", "resident-dispatch", "dispatch-retry"} \subseteq Phases
  BY DEF Stages, Phases, PreStartPhases
<1>1. ASSUME NEW l \in Loops, Enqueue(l) PROVE Typed'
  <2>1. PICK d \in Delays \cup {row[l].availableIn} :
           row' = [row EXCEPT ![l] = UpsertQueued(row[l], d, "none")]
    BY <1>1 DEF Enqueue
  <2>2. d \in 0..MaxDelay
    BY <1>a DEF Delays, Row
  <2>3. RowsTyped'
    BY <2>1, <2>2, <1>a, <1>b, UpsertQueuedOK, OneRow
  <2>4. ProcsTyped'
    BY <1>1 DEF Enqueue, ProcsTyped
  <2>5. HistoryTyped'
    BY <1>1, WipedTyped DEF Enqueue
  <2> QED BY <2>3, <2>4, <2>5
<1>2. ASSUME NEW l \in Loops, CancelLoop(l) PROVE Typed'
  <2>1. RowsTyped'
    BY <1>2, <1>a, CancelOK, OneRow DEF CancelLoop
  <2> QED BY <1>2, <2>1 DEF CancelLoop, ProcsTyped, HistoryTyped
<1>3. ASSUME NEW o \in Owners, NEW l \in Loops, BeginClaim(o, l) PROVE Typed'
  <2>1. RowsTyped'
    BY <1>3 DEF BeginClaim, RowsTyped, RowsWellFormed
  <2>2. ProcsTyped'
    <3>1. l # NoLoop
      BY ScheduleAssumption
    <3> QED BY <1>3, <1>b, <3>1, OneProc DEF BeginClaim
  <2> QED BY <1>3, <2>1, <2>2 DEF BeginClaim, HistoryTyped
<1>4. ASSUME NEW o \in Owners, NEW l \in Loops, ReconcileTerminal(o, l) PROVE Typed'
  <2>1. RowsTyped'
    BY <1>4, <1>a, CompleteOK, OneRow DEF ReconcileTerminal
  <2> QED BY <1>4, <2>1 DEF ReconcileTerminal, ProcsTyped, HistoryTyped
<1>5. ASSUME NEW o \in Owners, QueueForClaim(o) PROVE Typed'
  <2> DEFINE l == target[o]
  <2>1. l \in Loops /\ l # NoLoop
    BY <1>5, TargetIsLoop, ScheduleAssumption DEF QueueForClaim
  <2>2. row[l].availableIn \in 0..MaxDelay
    BY <2>1, <1>a DEF Row
  <2>3. RowsTyped'
    BY <1>5, <2>1, <2>2, <1>a, <1>b, UpsertQueuedOK, OneRow DEF QueueForClaim
  <2>4. ProcsTyped'
    BY <1>5, <2>1, <1>b, OneProc DEF QueueForClaim
  <2>5. HistoryTyped'
    BY <1>5, <2>1, WipedTyped DEF QueueForClaim
  <2> QED BY <2>3, <2>4, <2>5
<1>6. ASSUME NEW o \in Owners, FinishClaim(o) PROVE Typed'
  <2> DEFINE l == target[o]
  <2>1. l \in Loops /\ l # NoLoop
    BY <1>6, TargetIsLoop, ScheduleAssumption DEF FinishClaim
  <2>2. CASE Claimable(row[l], o) /\ Granted(l, o) /\ Goto(o, "working", l)
             /\ row' = [row EXCEPT ![l] = Claim(row[l], o, "started")]
    <3>1. RowsTyped'
      BY <2>1, <2>2, <1>a, <1>b, ClaimOK, OneRow
    <3>2. ProcsTyped'
      BY <2>1, <2>2, <1>b, OneProc
    <3> QED BY <2>1, <2>2, <3>1, <3>2, GrantedTyped
  <2>3. CASE Goto(o, "idle", NoLoop) /\ UNCHANGED <<row, grant, displaced>>
    <3>1. ProcsTyped'
      BY <2>3, <1>b, OneProc
    <3> QED BY <2>3, <3>1 DEF RowsTyped, RowsWellFormed, HistoryTyped
  <2> QED BY <1>6, <2>2, <2>3 DEF FinishClaim
<1>7. ASSUME NEW o \in Owners, DispatchNext(o) PROVE Typed'
  <2>1. PICK l \in Loops :
           /\ Claimable(row[l], o) /\ Granted(l, o)
           /\ row' = [row EXCEPT ![l] = Claim(row[l], o, "resident-dispatch")]
           /\ Goto(o, IF ShowsCancellation(row[l]) THEN "closing" ELSE "working", l)
    BY <1>7 DEF DispatchNext
  <2>2. RowsTyped'
    BY <2>1, <1>a, <1>b, ClaimOK, OneRow
  <2>3. ProcsTyped'
    BY <2>1, <1>b, OneProc, ScheduleAssumption
  <2> QED BY <2>1, <2>2, <2>3, GrantedTyped
<1>8. ASSUME NEW o \in Owners, Refresh(o) PROVE Typed'
  <2> DEFINE l == target[o]
  <2>1. l \in Loops /\ l # NoLoop
    BY <1>8, TargetIsLoop, ScheduleAssumption DEF Refresh
  <2>2. CASE Claimable(row[l], o) /\ Granted(l, o) /\ UNCHANGED <<stage, target>>
             /\ \E ph \in {"none", "started"} : row' = [row EXCEPT ![l] = Claim(row[l], o, ph)]
    <3>1. RowsTyped'
      BY <2>1, <2>2, <1>a, <1>b, ClaimOK, OneRow
    <3> QED BY <2>1, <2>2, <3>1, GrantedTyped DEF ProcsTyped
  <2>3. CASE LetGo(l, o) /\ Goto(o, "closing", l) /\ UNCHANGED row
    <3>1. ProcsTyped'
      BY <2>1, <2>3, <1>b, OneProc
    <3> QED BY <2>1, <2>3, <3>1, LetGoTyped DEF RowsTyped, RowsWellFormed
  <2> QED BY <1>8, <2>2, <2>3 DEF Refresh
<1>9. ASSUME NEW o \in Owners, CompleteLoop(o) PROVE Typed'
  <2> DEFINE l == target[o]
  <2>1. l \in Loops
    BY <1>9, TargetIsLoop DEF CompleteLoop
  <2>2. RowsTyped'
    <3>1. CASE UNCHANGED row
      BY <3>1 DEF RowsTyped, RowsWellFormed
    <3>2. CASE \E reason \in StopReasons : row' = [row EXCEPT ![l] = Complete(row[l], reason)]
      BY <2>1, <3>2, <1>a, CompleteOK, OneRow
    <3> QED BY <1>9, <3>1, <3>2 DEF CompleteLoop
  <2>3. ProcsTyped'
    BY <1>9, <1>b, OneProc DEF CompleteLoop
  <2> QED BY <1>9, <2>1, <2>2, <2>3, LetGoTyped DEF CompleteLoop
<1>10. ASSUME NEW o \in Owners, BeginRequeue(o) PROVE Typed'
  <2> DEFINE l == target[o]
  <2>1. l \in Loops /\ l # NoLoop
    BY <1>10, TargetIsLoop, ScheduleAssumption DEF BeginRequeue
  <2>2. ProcsTyped'
    <3>1. Goto(o, "requeueing", l) \/ Goto(o, "closing", l) \/ Goto(o, "idle", NoLoop)
      BY <1>10 DEF BeginRequeue
    <3> QED BY <2>1, <3>1, <1>b, OneProc
  <2> QED BY <1>10, <2>1, <2>2, LetGoTyped DEF BeginRequeue, RowsTyped, RowsWellFormed
<1>11. ASSUME NEW o \in Owners, FinishRequeue(o) PROVE Typed'
  <2> DEFINE l == target[o]
  <2>1. l \in Loops
    BY <1>11, TargetIsLoop DEF FinishRequeue
  <2>2. PICK d \in Delays : row' = [row EXCEPT ![l] = UpsertQueued(row[l], d, "dispatch-retry")]
    BY <1>11 DEF FinishRequeue
  <2>3. RowsTyped'
    BY <2>1, <2>2, <1>a, <1>b, UpsertQueuedOK, OneRow DEF Delays
  <2>4. ProcsTyped'
    BY <1>11, <1>b, OneProc DEF FinishRequeue
  <2>5. HistoryTyped'
    BY <1>11, <2>1, WipedTyped DEF FinishRequeue
  <2> QED BY <2>3, <2>4, <2>5
<1>12. ASSUME NEW o \in Owners, Crash(o) PROVE Typed'
  <2>1. target[o] \in Loops
    BY <1>12, TargetIsLoop DEF Crash
  <2>2. ProcsTyped'
    BY <1>12, <1>b, OneProc DEF Crash
  <2> QED BY <1>12, <2>1, <2>2, LetGoTyped DEF Crash, RowsTyped, RowsWellFormed
<1>13. ASSUME Tick PROVE Typed'
  <2>1. RowsTyped'
    BY <1>13, <1>a, AgedOK DEF Tick, RowsTyped, RowsWellFormed
  <2>2. HistoryTyped'
    <3>1. \A n \in 0..TTL : Monus1(n) \in 0..TTL
      BY RowAssumption DEF Monus1
    <3> QED BY <1>13, <3>1 DEF Tick, HistoryTyped
  <2> QED BY <1>13, <2>1, <2>2 DEF Tick, ProcsTyped
<1>14. ASSUME UNCHANGED vars PROVE Typed'
  BY <1>14 DEF vars, RowsTyped, RowsWellFormed, ProcsTyped, HistoryTyped
<1> QED
  BY <1>1, <1>2, <1>3, <1>4, <1>5, <1>6, <1>7, <1>8, <1>9, <1>10, <1>11, <1>12, <1>13, <1>14
  DEF Next, OtherSteps

(* Every reachable state is typed, for any owners, loops, lease length and *)
(* retry window.                                                           *)
THEOREM TypeCorrect == Spec => []TypeOK
<1>1. Typed => TypeOK
  BY TypedParts
<1> QED BY <1>1, TypedInit, TypedStep, PTL DEF Spec

(* No row ever mixes the fields of two writes: whatever claims, retries,   *)
(* cancellations and completions interleave, RowsWellFormed holds.         *)
THEOREM RowsStayWellFormed == Spec => []RowsWellFormed
<1>1. Typed => RowsWellFormed
  BY TypedParts
<1> QED BY <1>1, TypedInit, TypedStep, PTL DEF Spec

-----------------------------------------------------------------------------
(* GrantBackedByLease, for one loop and one owner.                         *)
Backed(l, o) ==
    grant[l][o] > 0 =>
        /\ stage[o] \in {"working", "closing"} /\ target[o] = l
        /\ o \notin displaced[l] =>
               row[l].leaseOwner = o /\ row[l].leaseLeft = grant[l][o]

LEMMA BackedAll == GrantBackedByLease <=> \A l \in Loops, o \in Owners : Backed(l, o)
  BY DEF GrantBackedByLease, Backed

(* A grant that was not wiped is a live lease of the row.                  *)
LEMMA GrantIsLive ==
  ASSUME Typed, NEW l \in Loops, NEW o \in Owners, Backed(l, o),
         grant[l][o] > 0, o \notin displaced[l]
  PROVE  LeaseActive(row[l]) /\ row[l].leaseOwner = o
  BY RowAssumption DEF Backed, LeaseActive

(* A queued rewrite keeps the backing: the holder it wiped is displaced.   *)
LEMMA WipeKeepsBacked ==
  ASSUME Typed, GrantBackedByLease, NEW l \in Loops, NEW r,
         row' = [row EXCEPT ![l] = r], Wiped(l), UNCHANGED grant,
         \A k \in Loops, p \in Owners :
            grant[k][p] > 0 => stage'[p] = stage[p] /\ target'[p] = target[p]
  PROVE  GrantBackedByLease'
<1> SUFFICES ASSUME NEW k \in Loops, NEW p \in Owners, grant[k][p] > 0
             PROVE  Backed(k, p)'
  BY DEF Backed, GrantBackedByLease
<1>1. Backed(k, p)
  BY BackedAll
<1>2. CASE k # l
  <2>1. row'[k] = row[k] /\ displaced'[k] = displaced[k]
    BY <1>2 DEF Wiped, Typed, RowsTyped, HistoryTyped
  <2> QED BY <1>1, <2>1 DEF Backed
<1>3. CASE k = l
  <2>1. p \in displaced'[l]
    <3>1. CASE p \in displaced[l]
      BY <3>1 DEF Wiped, Typed, HistoryTyped
    <3>2. CASE p \notin displaced[l]
      <4>1. LeaseActive(row[l]) /\ row[l].leaseOwner = p
        BY <1>1, <1>3, <3>2, GrantIsLive
      <4> QED BY <4>1, <1>3 DEF Wiped, Typed, HistoryTyped
    <3> QED BY <3>1, <3>2
  <2> QED BY <1>1, <1>3, <2>1 DEF Backed
<1> QED BY <1>2, <1>3

(* A claim keeps the backing: it is refused while another's lease is live. *)
LEMMA ClaimKeepsBacked ==
  ASSUME Typed, GrantBackedByLease, NEW l \in Loops, NEW o \in Owners, NEW ph,
         Claimable(row[l], o), row' = [row EXCEPT ![l] = Claim(row[l], o, ph)],
         Granted(l, o),
         \A p \in Owners \ {o} : stage'[p] = stage[p] /\ target'[p] = target[p],
         stage'[o] \in {"working", "closing"} /\ target'[o] = l,
         \A k \in Loops : grant[k][o] > 0 => k = l
  PROVE  GrantBackedByLease'
<1> SUFFICES ASSUME NEW k \in Loops, NEW p \in Owners, grant'[k][p] > 0
             PROVE  Backed(k, p)'
  BY DEF Backed, GrantBackedByLease
<1>1. Backed(k, p)
  BY BackedAll
<1>2. CASE p = o
  <2>1. k = l
    BY <1>2 DEF Granted, Typed, HistoryTyped
  <2>2. grant'[l][o] = TTL
    BY DEF Granted, Typed, HistoryTyped
  <2>3. row'[l].leaseOwner = o /\ row'[l].leaseLeft = TTL
    BY DEF Claim, Typed, RowsTyped, Row
  <2> QED BY <1>2, <2>1, <2>2, <2>3 DEF Backed
<1>3. CASE p # o
  <2>1. grant'[k][p] = grant[k][p] /\ (p \in displaced'[k] <=> p \in displaced[k])
    BY <1>3 DEF Granted, Typed, HistoryTyped
  <2>2. p \notin displaced[k] => k # l
    BY <1>1, <1>3, <2>1, GrantIsLive DEF Claimable
  <2>3. k # l => row'[k] = row[k]
    BY DEF Typed, RowsTyped
  <2> QED BY <1>1, <1>3, <2>1, <2>2, <2>3 DEF Backed
<1> QED BY <1>2, <1>3

(* So does letting go, when the row stays or its lease was o's to release. *)
LEMMA LetGoKeepsBacked ==
  ASSUME Typed, GrantBackedByLease, NEW l \in Loops, NEW o \in Owners, NEW r,
         row' = row \/ (Completable(row[l], o) /\ row' = [row EXCEPT ![l] = r]),
         LetGo(l, o), target[o] = l,
         \A p \in Owners \ {o} : stage'[p] = stage[p] /\ target'[p] = target[p]
  PROVE  GrantBackedByLease'
<1> SUFFICES ASSUME NEW k \in Loops, NEW p \in Owners, grant'[k][p] > 0
             PROVE  Backed(k, p)'
  BY DEF Backed, GrantBackedByLease
<1>1. Backed(k, p)
  BY BackedAll
<1>2. p # o
  <2>1. ASSUME p = o PROVE FALSE
    <3>1. k # l
      BY <2>1 DEF LetGo, Typed, HistoryTyped
    <3>2. grant[k][o] > 0
      BY <2>1, <3>1 DEF LetGo, Typed, HistoryTyped
    <3> QED BY <1>1, <2>1, <3>1, <3>2 DEF Backed
  <2> QED BY <2>1
<1>3. grant'[k][p] = grant[k][p] /\ (p \in displaced'[k] <=> p \in displaced[k])
  BY <1>2 DEF LetGo, Typed, HistoryTyped
<1>4. p \notin displaced[k] => row'[k] = row[k]
  <2>1. p \notin displaced[k] => k # l \/ ~Completable(row[l], o)
    BY <1>1, <1>2, <1>3, GrantIsLive DEF Completable
  <2> QED BY <2>1 DEF Typed, RowsTyped
<1> QED BY <1>1, <1>2, <1>3, <1>4 DEF Backed

-----------------------------------------------------------------------------
(* The strengthening of every property below.                              *)
IInv == Typed /\ GrantBackedByLease

LEMMA IInit == Init => IInv
<1>1. Init => GrantBackedByLease
  BY DEF Init, GrantBackedByLease
<1> QED BY <1>1, TypedInit DEF IInv

LEMMA IStep == IInv /\ [Next]_vars => IInv'
<1> SUFFICES ASSUME Typed, GrantBackedByLease, [Next]_vars PROVE GrantBackedByLease'
  BY TypedStep DEF IInv
<1>a. ASSUME NEW k \in Loops, NEW p \in Owners, grant[k][p] > 0
      PROVE  stage[p] \in {"working", "closing"} /\ target[p] = k
  BY <1>a DEF GrantBackedByLease
<1>b. ASSUME NEW o \in Owners, stage[o] # "idle" PROVE target[o] \in Loops
  BY <1>b, TargetIsLoop DEF Typed
<1>c. ASSUME NEW o \in Owners, NEW s, NEW l, Goto(o, s, l)
      PROVE  /\ \A p \in Owners \ {o} : stage'[p] = stage[p] /\ target'[p] = target[p]
             /\ stage'[o] = s /\ target'[o] = l
  BY <1>c DEF Goto, Typed, ProcsTyped
<1>1. ASSUME NEW l \in Loops, Enqueue(l) PROVE GrantBackedByLease'
  BY <1>1, WipeKeepsBacked DEF Enqueue
<1>2. ASSUME NEW l \in Loops, CancelLoop(l) PROVE GrantBackedByLease'
  <2>1. \A k \in Loops : /\ row'[k].leaseOwner = row[k].leaseOwner
                         /\ row'[k].leaseLeft = row[k].leaseLeft
    BY <1>2 DEF CancelLoop, Cancel, Typed, RowsTyped, Row
  <2> QED BY <1>2, <2>1 DEF CancelLoop, GrantBackedByLease
<1>3. ASSUME NEW o \in Owners, NEW l \in Loops, BeginClaim(o, l) PROVE GrantBackedByLease'
  <2>1. \A k \in Loops : ~(grant[k][o] > 0)
    BY <1>3, <1>a DEF BeginClaim
  <2>2. \A p \in Owners \ {o} : stage'[p] = stage[p] /\ target'[p] = target[p]
    BY <1>3, <1>c DEF BeginClaim
  <2> QED BY <1>3, <2>1, <2>2 DEF BeginClaim, GrantBackedByLease
<1>4. ASSUME NEW o \in Owners, NEW l \in Loops, ReconcileTerminal(o, l)
      PROVE  GrantBackedByLease'
  <2>1. ASSUME NEW k \in Loops, NEW p \in Owners, grant[k][p] > 0, p \notin displaced[k]
        PROVE  row'[k] = row[k]
    <3>1. p # o
      BY <1>4, <2>1, <1>a DEF ReconcileTerminal
    <3>2. Backed(k, p)
      BY BackedAll
    <3>3. k # l
      BY <1>4, <2>1, <3>1, <3>2, GrantIsLive DEF ReconcileTerminal, Completable
    <3> QED BY <1>4, <3>3 DEF ReconcileTerminal, Typed, RowsTyped
  <2> QED BY <1>4, <2>1 DEF ReconcileTerminal, GrantBackedByLease
<1>5. ASSUME NEW o \in Owners, QueueForClaim(o) PROVE GrantBackedByLease'
  <2>1. \A k \in Loops, p \in Owners :
           grant[k][p] > 0 => stage'[p] = stage[p] /\ target'[p] = target[p]
    BY <1>5, <1>a, <1>c DEF QueueForClaim
  <2> QED BY <1>5, <1>b, <2>1, WipeKeepsBacked DEF QueueForClaim
<1>6. ASSUME NEW o \in Owners, FinishClaim(o) PROVE GrantBackedByLease'
  <2>1. \A k \in Loops : ~(grant[k][o] > 0)
    BY <1>6, <1>a DEF FinishClaim
  <2>2. CASE Claimable(row[target[o]], o) /\ Granted(target[o], o)
             /\ Goto(o, "working", target[o])
             /\ row' = [row EXCEPT ![target[o]] = Claim(row[target[o]], o, "started")]
    BY <1>6, <2>1, <2>2, <1>b, <1>c, ClaimKeepsBacked DEF FinishClaim
  <2>3. CASE Goto(o, "idle", NoLoop) /\ UNCHANGED <<row, grant, displaced>>
    <3>1. \A p \in Owners \ {o} : stage'[p] = stage[p] /\ target'[p] = target[p]
      BY <2>3, <1>c
    <3> QED BY <2>1, <2>3, <3>1 DEF GrantBackedByLease
  <2> QED BY <1>6, <2>2, <2>3 DEF FinishClaim
<1>7. ASSUME NEW o \in Owners, DispatchNext(o) PROVE GrantBackedByLease'
  <2>1. \A k \in Loops : ~(grant[k][o] > 0)
    BY <1>7, <1>a DEF DispatchNext
  <2>2. PICK l \in Loops :
           /\ Claimable(row[l], o) /\ Granted(l, o)
           /\ row' = [row EXCEPT ![l] = Claim(row[l], o, "resident-dispatch")]
           /\ Goto(o, IF ShowsCancellation(row[l]) THEN "closing" ELSE "working", l)
    BY <1>7 DEF DispatchNext
  <2>3. /\ stage'[o] \in {"working", "closing"} /\ target'[o] = l
        /\ \A p \in Owners \ {o} : stage'[p] = stage[p] /\ target'[p] = target[p]
    BY <2>2, <1>c
  <2> QED BY <2>1, <2>2, <2>3, ClaimKeepsBacked
<1>8. ASSUME NEW o \in Owners, Refresh(o) PROVE GrantBackedByLease'
  <2> DEFINE l == target[o]
  <2>1. l \in Loops
    BY <1>8, <1>b DEF Refresh
  <2>2. CASE Claimable(row[l], o) /\ Granted(l, o) /\ UNCHANGED <<stage, target>>
             /\ \E ph \in {"none", "started"} : row' = [row EXCEPT ![l] = Claim(row[l], o, ph)]
    <3>1. stage'[o] \in {"working", "closing"} /\ target'[o] = l
      BY <1>8, <2>2 DEF Refresh
    <3>2. PICK ph \in {"none", "started"} : row' = [row EXCEPT ![l] = Claim(row[l], o, ph)]
      BY <2>2
    <3>3. \A k \in Loops : grant[k][o] > 0 => k = l
      BY <1>a
    <3> QED BY <2>1, <2>2, <3>1, <3>2, <3>3, ClaimKeepsBacked
  <2>3. CASE LetGo(l, o) /\ Goto(o, "closing", l) /\ UNCHANGED row
    BY <2>1, <2>3, <1>c, LetGoKeepsBacked
  <2> QED BY <1>8, <2>2, <2>3 DEF Refresh
<1>9. ASSUME NEW o \in Owners, CompleteLoop(o) PROVE GrantBackedByLease'
  <2> DEFINE l == target[o]
  <2>1. l \in Loops
    BY <1>9, <1>b DEF CompleteLoop
  <2>2. PICK reason \in StopReasons :
           row' = IF Completable(row[l], o)
                  THEN [row EXCEPT ![l] = Complete(row[l], reason)]
                  ELSE row
    BY <1>9 DEF CompleteLoop
  <2>3. \A p \in Owners \ {o} : stage'[p] = stage[p] /\ target'[p] = target[p]
    BY <1>9, <1>c DEF CompleteLoop
  <2> QED BY <1>9, <2>1, <2>2, <2>3, LetGoKeepsBacked DEF CompleteLoop
<1>10. ASSUME NEW o \in Owners, BeginRequeue(o) PROVE GrantBackedByLease'
  <2>1. \A p \in Owners \ {o} : stage'[p] = stage[p] /\ target'[p] = target[p]
    BY <1>10 DEF BeginRequeue, Goto, Typed, ProcsTyped
  <2> QED BY <1>10, <1>b, <2>1, LetGoKeepsBacked DEF BeginRequeue
<1>11. ASSUME NEW o \in Owners, FinishRequeue(o) PROVE GrantBackedByLease'
  <2>1. \A k \in Loops, p \in Owners :
           grant[k][p] > 0 => stage'[p] = stage[p] /\ target'[p] = target[p]
    BY <1>11, <1>a, <1>c DEF FinishRequeue
  <2> QED BY <1>11, <1>b, <2>1, WipeKeepsBacked DEF FinishRequeue
<1>12. ASSUME NEW o \in Owners, Crash(o) PROVE GrantBackedByLease'
  <2>1. \A p \in Owners \ {o} : stage'[p] = stage[p] /\ target'[p] = target[p]
    BY <1>12, <1>c DEF Crash
  <2> QED BY <1>12, <1>b, <2>1, LetGoKeepsBacked DEF Crash
<1>13. ASSUME Tick PROVE GrantBackedByLease'
  <2> SUFFICES ASSUME NEW k \in Loops, NEW p \in Owners, grant'[k][p] > 0
               PROVE  Backed(k, p)'
    BY DEF Backed, GrantBackedByLease
  <2>1. grant[k][p] \in Nat /\ grant'[k][p] = Monus1(grant[k][p])
    BY <1>13, RowAssumption DEF Tick, Typed, HistoryTyped
  <2>2. row[k] \in Row /\ row'[k] = Aged(row[k])
    BY <1>13 DEF Tick, Typed, RowsTyped
  <2>3. /\ row'[k].leaseOwner = row[k].leaseOwner
        /\ row'[k].leaseLeft = Monus1(row[k].leaseLeft)
    BY <2>2 DEF Aged, Row
  <2>4. grant[k][p] > 1
    BY <2>1 DEF Monus1
  <2>5. p \notin displaced'[k] => p \notin displaced[k]
    BY <1>13, <2>4 DEF Tick
  <2> QED BY <1>13, <2>1, <2>3, <2>4, <2>5 DEF Tick, Backed, GrantBackedByLease
<1>14. ASSUME UNCHANGED vars PROVE GrantBackedByLease'
  BY <1>14 DEF vars, GrantBackedByLease
<1> QED
  BY <1>1, <1>2, <1>3, <1>4, <1>5, <1>6, <1>7, <1>8, <1>9, <1>10, <1>11, <1>12, <1>13, <1>14
  DEF Next, OtherSteps

(* Nobody acts on a lease the table gave to somebody else.                 *)
THEOREM GrantsAreBacked == Spec => []GrantBackedByLease
<1>1. IInv => GrantBackedByLease
  BY DEF IInv
<1> QED BY <1>1, IInit, IStep, PTL DEF Spec

(* Two processes act on live leases of one loop only after a queued        *)
(* rewrite displaced one of them.                                          *)
THEOREM MutualExclusion == Spec => []Exclusive
<1>1. IInv => Exclusive
  BY DEF IInv, GrantBackedByLease, Exclusive
<1> QED BY <1>1, IInit, IStep, PTL DEF Spec

(* The holder of a live lease is never refused its next heartbeat.         *)
THEOREM HoldersStayIn == Spec => []HolderNeverRefused
<1>1. IInv => HolderNeverRefused
  <2> SUFFICES ASSUME IInv, NEW l \in Loops, NEW o \in Owners,
                      grant[l][o] > 0, o \notin displaced[l]
               PROVE  Claimable(row[l], o)
    BY DEF HolderNeverRefused
  <2>1. row[l].leaseOwner = o /\ row[l] \in Row /\ RowWellFormed(row[l]) /\ o # NoOwner
    BY RowAssumption DEF IInv, GrantBackedByLease, Typed, RowsTyped, RowsWellFormed
  <2>2. row[l].status \in Live
    BY <2>1 DEF Row, Statuses, Live, Terminal, RowWellFormed, LeaseWellFormed
  <2>3. row[l].availableIn = 0
    BY <2>1 DEF RowWellFormed, WindowWellFormed
  <2> QED BY <2>1, <2>2, <2>3 DEF Claimable
<1> QED BY <1>1, IInit, IStep, PTL DEF Spec

(* A row the dispatcher lists is a row it can claim, whoever it is.        *)
THEOREM ListedIsClaimable == Spec => []DispatchNeverSkips
<1>1. Typed => DispatchNeverSkips
  <2> SUFFICES ASSUME Typed, NEW l \in Loops, Runnable(row[l]), NEW o \in Owners
               PROVE  Claimable(row[l], o)
    BY DEF DispatchNeverSkips
  <2>1. RowWellFormed(row[l])
    BY DEF Typed, RowsTyped, RowsWellFormed
  <2>2. ~LeaseActive(row[l])
    BY <2>1 DEF Runnable, LeaseActive, RowWellFormed, LeaseWellFormed
  <2> QED BY <2>2 DEF Runnable, Claimable
<1> QED BY <1>1, TypedInit, TypedStep, PTL DEF Spec

-----------------------------------------------------------------------------
(* What a step makes of one row: one of the operations of ResearchLoopRow. *)
RowStep(r, q) ==
    \/ q = r
    \/ \E d, ph : q = UpsertQueued(r, d, ph)
    \/ \E o \in Owners : \E ph : Claimable(r, o) /\ q = Claim(r, o, ph)
    \/ \E o \in Owners, reason \in StopReasons : Completable(r, o) /\ q = Complete(r, reason)
    \/ q = Cancel(r)
    \/ q = Aged(r)

LEMMA StepByRow ==
  ASSUME Typed, [Next]_vars, NEW k \in Loops
  PROVE  RowStep(row[k], row'[k])
<1> USE DEF Typed, RowsTyped
<1>1. ASSUME NEW l \in Loops, Enqueue(l) PROVE RowStep(row[k], row'[k])
  BY <1>1 DEF Enqueue, RowStep
<1>2. ASSUME NEW l \in Loops, CancelLoop(l) PROVE RowStep(row[k], row'[k])
  BY <1>2 DEF CancelLoop, RowStep
<1>3. ASSUME NEW o \in Owners, NEW l \in Loops, ReconcileTerminal(o, l)
      PROVE  RowStep(row[k], row'[k])
  BY <1>3 DEF ReconcileTerminal, RowStep
<1>4. ASSUME NEW o \in Owners, QueueForClaim(o) PROVE RowStep(row[k], row'[k])
  BY <1>4 DEF QueueForClaim, RowStep
<1>5. ASSUME NEW o \in Owners, FinishClaim(o) PROVE RowStep(row[k], row'[k])
  BY <1>5 DEF FinishClaim, RowStep
<1>6. ASSUME NEW o \in Owners, DispatchNext(o) PROVE RowStep(row[k], row'[k])
  BY <1>6 DEF DispatchNext, RowStep
<1>7. ASSUME NEW o \in Owners, Refresh(o) PROVE RowStep(row[k], row'[k])
  BY <1>7 DEF Refresh, RowStep
<1>8. ASSUME NEW o \in Owners, CompleteLoop(o) PROVE RowStep(row[k], row'[k])
  BY <1>8 DEF CompleteLoop, RowStep
<1>9. ASSUME NEW o \in Owners, FinishRequeue(o) PROVE RowStep(row[k], row'[k])
  BY <1>9 DEF FinishRequeue, RowStep
<1>10. ASSUME Tick PROVE RowStep(row[k], row'[k])
  BY <1>10 DEF Tick, RowStep
<1>11. CASE UNCHANGED row
  BY <1>11 DEF RowStep
<1> QED
  BY <1>1, <1>2, <1>3, <1>4, <1>5, <1>6, <1>7, <1>8, <1>9, <1>10, <1>11
  DEF Next, OtherSteps, BeginClaim, BeginRequeue, Crash, vars

(* A cancellation that reached a row is never lost, and the row is never   *)
(* leased as if it had not been cancelled.                                 *)
THEOREM CancellationSticks == Spec => CancelSticky
<1>1. ASSUME Typed, [Next]_vars
      PROVE  \A l \in Loops : row[l].cancelRequested =>
                 row'[l].cancelRequested /\ row'[l].status # "leased"
  <2> SUFFICES ASSUME NEW l \in Loops, row[l].cancelRequested
               PROVE  row'[l].cancelRequested /\ row'[l].status # "leased"
    OBVIOUS
  <2>1. row[l] \in Row
    BY <1>1 DEF Typed, RowsTyped
  <2>2. RowStep(row[l], row'[l])
    BY <1>1, StepByRow
  <2>3. row'[l].cancelRequested
    BY <2>1, <2>2 DEF RowStep, Row, UpsertQueued, Claim, Complete, Cancel, Aged
  <2>4. RowWellFormed(row'[l])
    BY <1>1, TypedStep DEF Typed, RowsTyped, RowsWellFormed
  <2> QED BY <2>3, <2>4 DEF RowWellFormed, CancelWellFormed
<1> QED BY <1>1, TypedInit, TypedStep, PTL DEF Spec, CancelSticky

(* A live lease leaves its row only by lapsing, by a queued rewrite, or by *)
(* the completion its own holder asked for.                                *)
THEOREM LeasesAreKept == Spec => LiveLeaseKept
<1> DEFINE Kept(l) ==
      \/ row'[l].status = "queued"
      \/ /\ row'[l].finished
         /\ stage[row[l].leaseOwner] = "idle" \/ target[row[l].leaseOwner] = l
         /\ stage'[row[l].leaseOwner] = "idle"
<1>1. ASSUME Typed, [Next]_vars, NEW l \in Loops,
             LeaseActive(row[l]), row'[l].leaseOwner # row[l].leaseOwner
      PROVE  Kept(l)
  <2> USE <1>1 DEF Typed, RowsTyped
  <2> DEFINE h == row[l].leaseOwner
  <2>a. row[l] \in Row /\ h \in Owners /\ row'[l] # row[l]
    BY DEF Row, LeaseActive
  <2>b. ASSUME NEW d, NEW ph, row'[l] = UpsertQueued(row[l], d, ph) PROVE Kept(l)
    BY <2>a, <2>b DEF UpsertQueued, Row
  <2>c. ASSUME NEW o \in Owners, NEW ph, Claimable(row[l], o), row'[l] = Claim(row[l], o, ph)
        PROVE  FALSE
    BY <2>a, <2>c DEF Claimable, Claim, Row
  <2>d. ASSUME NEW o \in Owners, NEW reason, Completable(row[l], o),
               row'[l] = Complete(row[l], reason)
        PROVE  o = h /\ row'[l].finished
    BY <2>a, <2>d DEF Completable, Complete, Row
  <2>1. ASSUME NEW k \in Loops, Enqueue(k) PROVE Kept(l)
    <3>1. k = l
      BY <2>1, <2>a DEF Enqueue
    <3> QED BY <2>1, <2>b, <3>1 DEF Enqueue
  <2>2. ASSUME NEW k \in Loops, CancelLoop(k) PROVE Kept(l)
    BY <2>2, <2>a DEF CancelLoop, Cancel, Row
  <2>3. ASSUME NEW o \in Owners, NEW k \in Loops, ReconcileTerminal(o, k) PROVE Kept(l)
    <3>1. k = l
      BY <2>3, <2>a DEF ReconcileTerminal
    <3>2. o = h /\ row'[l].finished
      BY <2>3, <2>d, <3>1 DEF ReconcileTerminal
    <3> QED BY <2>3, <3>2 DEF ReconcileTerminal
  <2>4. ASSUME NEW o \in Owners, QueueForClaim(o) PROVE Kept(l)
    <3>1. target[o] = l
      BY <2>4, <2>a DEF QueueForClaim
    <3> QED BY <2>4, <2>b, <3>1 DEF QueueForClaim
  <2>5. ASSUME NEW o \in Owners, FinishClaim(o) PROVE Kept(l)
    <3>1. target[o] = l
      BY <2>5, <2>a DEF FinishClaim
    <3> QED BY <2>5, <2>a, <2>c, <3>1 DEF FinishClaim
  <2>6. ASSUME NEW o \in Owners, DispatchNext(o) PROVE Kept(l)
    <3>1. PICK k \in Loops :
             /\ Claimable(row[k], o)
             /\ row' = [row EXCEPT ![k] = Claim(row[k], o, "resident-dispatch")]
      BY <2>6 DEF DispatchNext
    <3>2. k = l
      BY <3>1, <2>a
    <3> QED BY <2>c, <3>1, <3>2
  <2>7. ASSUME NEW o \in Owners, Refresh(o) PROVE Kept(l)
    <3>1. target[o] = l
      BY <2>7, <2>a DEF Refresh
    <3> QED BY <2>7, <2>a, <2>c, <3>1 DEF Refresh
  <2>8. ASSUME NEW o \in Owners, CompleteLoop(o) PROVE Kept(l)
    <3>1. target[o] = l
      BY <2>8, <2>a DEF CompleteLoop
    <3>2. o = h /\ row'[l].finished
      BY <2>8, <2>a, <2>d, <3>1 DEF CompleteLoop
    <3>3. stage'[o] = "idle"
      BY <2>8 DEF CompleteLoop, Goto, ProcsTyped
    <3> QED BY <3>1, <3>2, <3>3
  <2>9. ASSUME NEW o \in Owners, FinishRequeue(o) PROVE Kept(l)
    <3>1. target[o] = l
      BY <2>9, <2>a DEF FinishRequeue
    <3> QED BY <2>9, <2>b, <3>1 DEF FinishRequeue
  <2>10. CASE Tick
    BY <2>10, <2>a DEF Tick, Aged, Row
  <2>11. CASE UNCHANGED row
    BY <2>11, <2>a
  <2> QED
    BY <2>1, <2>2, <2>3, <2>4, <2>5, <2>6, <2>7, <2>8, <2>9, <2>10, <2>11
    DEF Next, OtherSteps, BeginClaim, BeginRequeue, Crash, vars
<1>2. Typed /\ [Next]_vars =>
        \A l \in Loops :
          LET holder == row[l].leaseOwner IN
          LeaseActive(row[l]) /\ row'[l].leaseOwner # holder =>
              \/ row'[l].status = "queued"
              \/ /\ row'[l].finished
                 /\ stage[holder] = "idle" \/ target[holder] = l
                 /\ stage'[holder] = "idle"
  BY <1>1
<1> QED BY <1>2, TypedInit, TypedStep, PTL DEF Spec, LiveLeaseKept

-----------------------------------------------------------------------------
(* The table implements the lease protocol.  A step of the table is one    *)
(* operation on each row (StepByRow), and each operation on a well-formed  *)
(* row is one action of the protocol or none.                              *)

(* Each operation on a well-formed row, seen through the refinement map.   *)
LEMMA RowStepIsLeaseStep ==
  ASSUME NEW l \in Loops, row[l] \in Row, RowWellFormed(row[l]),
         row'[l] \in Row, RowWellFormed(row'[l]), RowStep(row[l], row'[l])
  PROVE  [Lease(l)!Next]_(Lease(l)!vars)
<1> DEFINE r == row[l]
           q == row'[l]
<1>0. /\ LeaseState(r) = "absent"  <=> r.status = "missing"
      /\ LeaseState(r) = "ended"   <=> r.status \in Terminal
      /\ LeaseState(r) = "waiting" <=> r.status \in Live /\ r.leaseOwner = NoOwner
      /\ LeaseState(r) = "held"    <=> r.status \in Live /\ r.leaseOwner # NoOwner
  BY DEF LeaseState, Row, Statuses, Live, Terminal
<1>1. CASE q = r
  BY <1>1 DEF Lease!vars
<1>2. ASSUME NEW d, NEW ph, q = UpsertQueued(r, d, ph) PROVE Lease(l)!Submit
  <2>1. /\ q.status = "queued" /\ q.leaseOwner = NoOwner
        /\ q.leaseLeft = 0     /\ q.cancelRequested = r.cancelRequested
    BY <1>2 DEF UpsertQueued, Row
  <2>2. LeaseState(q) = "waiting"
    BY <2>1 DEF LeaseState, Live, Terminal
  <2> QED BY <2>1, <2>2 DEF Lease!Submit
<1>3. ASSUME NEW o \in Owners, NEW ph, Claimable(r, o), q = Claim(r, o, ph)
      PROVE  Lease(l)!Acquire(o)
  <2>1. /\ q.status \in {"cancelling", "leased"} /\ q.leaseOwner = o
        /\ q.leaseLeft = TTL /\ q.cancelRequested = r.cancelRequested
    BY <1>3 DEF Claim, Row
  <2>2. o # NoOwner /\ LeaseState(q) = "held"
    BY <2>1, RowAssumption DEF LeaseState, Live, Terminal
  <2>3. r.leaseLeft > 0 => r.leaseOwner = o
    BY <1>3, RowAssumption DEF Claimable, LeaseActive, RowWellFormed, LeaseWellFormed, Row
  <2>4. LeaseState(r) \in {"waiting", "held"}
    BY <1>0, <1>3 DEF Claimable
  <2> QED BY <2>1, <2>2, <2>3, <2>4 DEF Lease!Acquire
<1>4. ASSUME NEW o \in Owners, NEW reason \in StopReasons, Completable(r, o),
             q = Complete(r, reason)
      PROVE  Lease(l)!End
  <2>1. /\ q.status \in Terminal /\ q.leaseOwner = NoOwner
        /\ q.leaseLeft = 0       /\ q.cancelRequested = r.cancelRequested
    BY <1>4 DEF Complete, OutcomeOf, Terminal, Row
  <2>2. LeaseState(q) = "ended" /\ LeaseState(r) # "absent"
    BY <1>0, <1>4, <2>1 DEF LeaseState, Live, Terminal, Completable
  <2> QED BY <2>1, <2>2 DEF Lease!End
<1>5. ASSUME q = Cancel(r) PROVE Lease(l)!AskCancel \/ q = r
  <2>1. CASE r.status \in Live
    <3>1. /\ q.status = "cancelling" /\ q.cancelRequested = TRUE
          /\ q.leaseOwner = r.leaseOwner /\ q.leaseLeft = r.leaseLeft
      BY <1>5, <2>1 DEF Cancel, Row
    <3>2. LeaseState(q) = LeaseState(r) /\ LeaseState(r) \in {"waiting", "held"}
      BY <1>0, <2>1, <3>1 DEF LeaseState, Live, Terminal
    <3> QED BY <3>1, <3>2 DEF Lease!AskCancel
  <2> QED BY <1>5, <2>1 DEF Cancel
<1>6. ASSUME q = Aged(r) PROVE Lease(l)!Lapse \/ UNCHANGED Lease(l)!vars
  <2>1. /\ q.status = r.status /\ q.leaseOwner = r.leaseOwner
        /\ q.leaseLeft = Monus1(r.leaseLeft) /\ q.cancelRequested = r.cancelRequested
    BY <1>6 DEF Aged, Row
  <2>2. LeaseState(q) = LeaseState(r)
    BY <2>1 DEF LeaseState
  <2>3. r.leaseLeft \in Nat
    BY RowAssumption DEF Row
  <2>4. CASE r.leaseLeft = 0
    BY <2>1, <2>2, <2>4 DEF Monus1, Lease!vars
  <2>5. CASE r.leaseLeft > 0
    BY <2>1, <2>2, <2>3, <2>5 DEF Monus1, Lease!Lapse
  <2> QED BY <2>3, <2>4, <2>5
<1> QED BY <1>1, <1>2, <1>3, <1>4, <1>5, <1>6 DEF RowStep, Lease!Next, Lease!vars

(* Loop by loop, the table is a lease: initial states map to initial       *)
(* states, and every step to a step of the protocol or a stutter.          *)
THEOREM TableImplementsLease == Spec => ImplementsLease
<1>1. Init => \A l \in Loops : Lease(l)!Init
  BY DEF Init, NoRow, LeaseState, Live, Terminal, Lease!Init
<1>2. Typed /\ [Next]_vars => \A l \in Loops : [Lease(l)!Next]_(Lease(l)!vars)
  <2> SUFFICES ASSUME Typed, [Next]_vars, NEW l \in Loops
               PROVE  [Lease(l)!Next]_(Lease(l)!vars)
    OBVIOUS
  <2>1. row[l] \in Row /\ RowWellFormed(row[l])
    BY DEF Typed, RowsTyped, RowsWellFormed
  <2>2. row'[l] \in Row /\ RowWellFormed(row'[l])
    BY TypedStep DEF Typed, RowsTyped, RowsWellFormed
  <2> QED BY <2>1, <2>2, StepByRow, RowStepIsLeaseStep
<1> QED BY <1>1, <1>2, TypedInit, TypedStep, PTL DEF Spec, ImplementsLease
=============================================================================
