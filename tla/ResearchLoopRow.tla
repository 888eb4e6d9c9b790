-------------------------- MODULE ResearchLoopRow --------------------------
(***************************************************************************)
(* The durable schedule row of one overnight research loop, and what each  *)
(* synchronous function of packages/smriti/src/research-loop-scheduler.ts  *)
(* does to it.  Every function there reads the row, decides, and writes    *)
(* the whole row back without yielding, so each is one operator            *)
(* Row -> Row here, plus a predicate for the case where it refuses.        *)
(*                                                                         *)
(* Time is relative: leaseLeft is leaseExpiresAt - now and availableIn is  *)
(* availableAt - now, both cut at zero, because the code compares both     *)
(* stamps with the current time and with nothing else.                     *)
(***************************************************************************)
EXTENDS Naturals

CONSTANTS
    Owners,     \* lease identities: one per worker process
    NoOwner,    \* leaseOwner: null
    TTL,        \* ticks a claim or a heartbeat extends the lease by
    MaxDelay    \* longest retry delay a row may be queued with (bound)

ASSUME RowAssumption ==
    /\ NoOwner \notin Owners
    /\ TTL \in Nat \ {0}
    /\ MaxDelay \in Nat

Live     == {"queued", "leased", "cancelling"}
Terminal == {"cancelled", "completed", "failed"}

(* "missing" stands for the absence of a row.                              *)
Statuses == Live \cup Terminal \cup {"missing"}

(* Phases, told apart only as far as the retry classification does: null,  *)
(* the two phases of the resident-dispatch window, and everything later.   *)
PreStartPhases == {"none", "resident-dispatch", "dispatch-retry"}
Phases         == PreStartPhases \cup {"started"}

(* One stop reason per class of outcome: a clean stop, the cancellation,   *)
(* a worker failure, and the one failure only the dispatcher reports.      *)
StopReasons == {"max-rounds", "cancelled", "control-plane-lost", "dispatch-failed"}

Row == [status          : Statuses,
        availableIn     : 0..MaxDelay,
        leaseOwner      : Owners \cup {NoOwner},
        leaseLeft       : 0..TTL,
        phase           : Phases,
        cancelRequested : BOOLEAN,
        stopReason      : StopReasons \cup {"none"},
        finished        : BOOLEAN]

NoRow == [status |-> "missing", availableIn |-> 0, leaseOwner |-> NoOwner,
          leaseLeft |-> 0, phase |-> "none", cancelRequested |-> FALSE,
          stopReason |-> "none", finished |-> FALSE]

-----------------------------------------------------------------------------

(* Definitions named as slips (...Early, ...ForgetsCancel) are plausible   *)
(* bugs of the definition that follows them; nothing uses them except the  *)
(* mutation runs that show which property would notice.                    *)
LeaseActiveEarly(r) == r.leaseOwner # NoOwner /\ r.leaseLeft > 1

LeaseActive(r) == r.leaseOwner # NoOwner /\ r.leaseLeft > 0

IsTerminal(r) == r.status \in Terminal \/ r.finished

UpsertQueuedForgetsCancel(r, delay, ph) ==
    [r EXCEPT !.status = "queued", !.availableIn = delay, !.leaseOwner = NoOwner,
              !.leaseLeft = 0, !.stopReason = "none", !.finished = FALSE,
              !.cancelRequested = FALSE]

UpsertQueuedKeepsLease(r, delay, ph) ==
    [r EXCEPT !.status = "queued", !.availableIn = delay, !.phase = ph,
              !.stopReason = "none", !.finished = FALSE]

(* Upsert with status "queued", the only status the daemon upserts.  It    *)
(* asks neither for ownership nor whether the row already finished, drops  *)
(* the lease and the outcome, and keeps the cancellation marks.            *)
UpsertQueued(r, delay, ph) ==
    [r EXCEPT !.status      = "queued",
              !.availableIn = delay,
              !.leaseOwner  = NoOwner,
              !.leaseLeft   = 0,
              !.phase       = IF ph = "none" THEN r.phase ELSE ph,
              !.stopReason  = "none",
              !.finished    = FALSE]

ClaimableIgnoresHolder(r, o) ==
    /\ r.status \in Live
    /\ r.status \in {"queued", "cancelling"} => r.availableIn = 0

ClaimableWhenFinished(r, o) ==
    /\ r.status # "missing"
    /\ r.availableIn = 0
    /\ LeaseActive(r) => r.leaseOwner = o

(* The refusals of claimResearchLoopSchedule, in its order.                *)
Claimable(r, o) ==
    /\ r.status \in Live
    /\ r.status \in {"queued", "cancelling"} => r.availableIn = 0
    /\ LeaseActive(r) => r.leaseOwner = o

ClaimForgetsCancel(r, o, ph) ==
    [r EXCEPT !.status = "leased", !.leaseOwner = o, !.leaseLeft = TTL, !.phase = ph,
              !.cancelRequested = FALSE]

ClaimExtendsLease(r, o, ph) ==
    [r EXCEPT !.status = "leased", !.leaseOwner = o, !.leaseLeft = @ + TTL, !.phase = ph]

(* A claim that is not refused, first or refreshing: the lease runs for    *)
(* its full time from now, whatever was left of it.                        *)
Claim(r, o, ph) ==
    [r EXCEPT !.status     = IF r.cancelRequested THEN "cancelling" ELSE "leased",
              !.leaseOwner = o,
              !.leaseLeft  = TTL,
              !.phase      = IF ph = "none" THEN r.phase ELSE ph]

CancelReleasesLease(r) ==
    IF r.status \in Live
    THEN [r EXCEPT !.status = "cancelling", !.cancelRequested = TRUE,
                   !.leaseOwner = NoOwner, !.leaseLeft = 0]
    ELSE r

(* Operator cancellation: the lease and the retry window stay as they are. *)
Cancel(r) ==
    IF r.status \in Live
    THEN [r EXCEPT !.status = "cancelling", !.cancelRequested = TRUE]
    ELSE r

OutcomeOf(reason) ==
    CASE reason = "cancelled"                                 -> "cancelled"
      [] reason \in {"control-plane-lost", "dispatch-failed"} -> "failed"
      [] OTHER                                                -> "completed"

CompletableByAnyone(r, o) == r.status # "missing"

(* Completion is refused only while somebody else's lease is live; a row   *)
(* that already finished is not refused.                                   *)
Completable(r, o) ==
    /\ r.status # "missing"
    /\ LeaseActive(r) => r.leaseOwner = o

CompleteKeepsLease(r, reason) ==
    [r EXCEPT !.status = OutcomeOf(reason), !.stopReason = reason, !.finished = TRUE]

Complete(r, reason) ==
    [r EXCEPT !.status     = OutcomeOf(reason),
              !.stopReason = reason,
              !.leaseOwner = NoOwner,
              !.leaseLeft  = 0,
              !.finished   = TRUE]

(* The runnableOnly filter of listResearchLoopSchedules.                   *)
Runnable(r) ==
    /\ r.status \in Live
    /\ r.availableIn = 0
    /\ r.status = "queued" \/ ~LeaseActive(r)

(* One tick of the clock, as the row's two stamps see it.                  *)
Monus1(n) == IF n = 0 THEN 0 ELSE n - 1

Aged(r) == [r EXCEPT !.leaseLeft = Monus1(r.leaseLeft), !.availableIn = Monus1(r.availableIn)]

-----------------------------------------------------------------------------
(* Daemon-side readings of a row (services-research-scheduler.ts).         *)

ShowsCancellation(r) == r.cancelRequested \/ r.status = "cancelling"

(* inspectResearchLoopScheduleClaim.                                       *)
ClaimStatus(r, o) ==
    CASE r.status = "missing"                                       -> "missing"
      [] IsTerminal(r)                                              -> "terminal"
      [] r.status \in {"queued", "cancelling"} /\ r.availableIn > 0 -> "available-later"
      [] LeaseActive(r) /\ r.leaseOwner # o                         -> "lease-active"
      [] OTHER                                                      -> "claimable"

(* classifyDispatchRetryOutcome over canRewriteScheduledRow.               *)
DispatchRetryOutcome(r, o) ==
    LET rewritable == /\ r.status # "missing"
                      /\ ~r.finished
                      /\ LeaseActive(r) => r.leaseOwner = o
        preStart   == r.phase \in PreStartPhases /\ r.status \in {"queued", "leased"}
    IN  CASE ~rewritable                         -> "lease-lost"
          [] rewritable /\ ShowsCancellation(r)  -> "cancelled"
          [] rewritable /\ ~ShowsCancellation(r) /\ preStart  -> "requeued"
          [] rewritable /\ ~ShowsCancellation(r) /\ ~preStart ->
                IF r.phase # "none" THEN "phase-advanced" ELSE "lease-lost"

-----------------------------------------------------------------------------
(* What every row that the functions above produced looks like.  It is the *)
(* part of the inductive invariants that speaks of one row.                *)

LeaseWellFormed(r) ==
    /\ r.leaseOwner = NoOwner => r.leaseLeft = 0
    /\ r.status = "leased" => r.leaseOwner # NoOwner
    /\ r.status \in {"queued", "missing"} \cup Terminal => r.leaseOwner = NoOwner

CancelWellFormed(r) ==
    /\ r.status = "cancelling" => r.cancelRequested
    /\ r.status = "leased" => ~r.cancelRequested

OutcomeWellFormed(r) ==
    /\ r.finished <=> r.status \in Terminal
    /\ r.finished => r.stopReason # "none" /\ r.status = OutcomeOf(r.stopReason)
    /\ ~r.finished => r.stopReason = "none"

(* A lease, live or lapsed, is only ever on a row whose retry window has   *)
(* opened.                                                                 *)
WindowWellFormed(r) == r.leaseOwner # NoOwner => r.availableIn = 0

RowWellFormed(r) ==
    /\ LeaseWellFormed(r)
    /\ CancelWellFormed(r)
    /\ OutcomeWellFormed(r)
    /\ WindowWellFormed(r)
=============================================================================
