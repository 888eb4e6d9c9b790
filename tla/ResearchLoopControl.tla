------------------------ MODULE ResearchLoopControl ------------------------
(***************************************************************************)
(* The life of one overnight research loop across its worker processes     *)
(* and the daemon's control plane.                                         *)
(*                                                                         *)
(* The daemon (packages/daemon/src/services-research-loops.ts) answers     *)
(* start, resume, heartbeat, cancel and complete.  Each handler reads its  *)
(* in-memory record of the loop first, then awaits the checkpoint and the  *)
(* durable row, and writes back a record built from what it read first.    *)
(* Every await is a point where another handler can run, so a handler is   *)
(* a sequence of actions, one per stretch between awaits.                  *)
(*                                                                         *)
(* A worker (packages/prana/src/chitragupta-nodes-research-*.ts) restores  *)
(* what a previous worker left, joins the loop, heartbeats on a timer      *)
(* while its rounds run, and closes the loop in a fixed order: complete at *)
(* the daemon, terminal checkpoint, summary, clear.  It can die anywhere;  *)
(* the handler that serves it then runs on.  A lost or late answer is a    *)
(* worker that gives up before the handler's last action.                  *)
(***************************************************************************)
EXTENDS ResearchLoopRow, TLC

CONSTANTS
    StaleAfter,     \* ticks of silence after which a loop may be resumed
    Enqueued,       \* whether the loop was enqueued before any worker starts
    MaxCancels      \* cancellations an operator gets acknowledged (bound)

ASSUME ControlAssumption ==
    /\ StaleAfter \in Nat \ {0}
    /\ Enqueued \in BOOLEAN
    /\ MaxCancels \in Nat

VARIABLES
    row,        \* the durable schedule row
    mem,        \* the daemon's record of the loop (activeResearchLoops)
    ckpt,       \* the durable checkpoint
    ledger,     \* stop reason of the recorded summary, or "none"
    at,         \* where each worker process stands
    why,        \* the stop reason it reports, "none" while it runs rounds
    abort,      \* why its abort signal fired, or "none"
    call,       \* the daemon handler serving it
    beat,       \* the daemon handler of its timer's heartbeat
    oper,       \* the daemon handler of an operator's cancel
    acked,      \* history: how many cancels were answered "cancelled: true"
    rewound     \* history: a queued upsert rewrote an existing row

vars == <<row, mem, ckpt, ledger, at, why, abort, call, beat, oper, acked, rewound>>
workerVars == <<at, why, abort>>
durable    == <<row, ckpt, ledger>>

(* Worker processes are interchangeable: no constant and no property       *)
(* singles one out.                                                        *)
Symmetry == Permutations(Owners)

WorkerReasons == {"max-rounds", "cancelled", "control-plane-lost"}
MaybeReason   == WorkerReasons \cup {"none"}
IsFailure(reason) == reason = "control-plane-lost"

(* "live" is the code's running or cancelling: cancelling iff cancel.      *)
NoMem == [status |-> "none", cancel |-> FALSE, age |-> 0]
MemLive == mem.status = "live"
MemTerminal == mem.status \in Terminal
LiveMem(cancel) == [status |-> "live", cancel |-> cancel, age |-> 0]

NoCkpt == [kind |-> "none", reason |-> "none"]
Ckpt(kind, reason) == [kind |-> kind, reason |-> reason]

(* A handler: the action it continues with, the cancellation it read so    *)
(* far, the stop reason it was called with and, as history, whether a      *)
(* cancellation was durable when that call arrived.                        *)
Idle == [step |-> "none", cancel |-> FALSE, reason |-> "none", known |-> FALSE]
At(s, c) == [c EXCEPT !.step = s]

WorkerStages == {"off", "fresh", "resume", "attach", "ended", "joining", "joined",
                 "running", "ready", "refreshing", "completing", "reconciling",
                 "closing", "recording", "clearing", "pending"}
CallSteps == {"none", "seek", "look", "find", "weigh", "claim", "queue", "take",
              "refresh", "inspect", "commit"}

-----------------------------------------------------------------------------
Init ==
    /\ row = IF Enqueued THEN UpsertQueued(NoRow, 0, "none") ELSE NoRow
    /\ mem = NoMem
    /\ ckpt = NoCkpt
    /\ ledger = "none"
    /\ at    = [w \in Owners |-> "off"]
    /\ why   = [w \in Owners |-> "none"]
    /\ abort = [w \in Owners |-> "none"]
    /\ call  = [w \in Owners |-> Idle]
    /\ beat  = [w \in Owners |-> Idle]
    /\ oper  = FALSE
    /\ acked = 0
    /\ rewound = FALSE

Goto(w, s) == at' = [at EXCEPT ![w] = s]

(* The process is gone, and its local state with it.                       *)
Leave(w) ==
    /\ Goto(w, "off")
    /\ why'   = [why EXCEPT ![w] = "none"]
    /\ abort' = [abort EXCEPT ![w] = "none"]

Serve(w, c) == call' = [call EXCEPT ![w] = c]

(* abortLoop: the first reason stays.  Past its last heartbeat nothing     *)
(* reads the worker's signal any more.                                     *)
Abortable == {"joining", "joined", "running", "ready", "refreshing"}

Aborted(w, reason) ==
    IF abort[w] = "none" /\ at[w] \in Abortable
    THEN abort' = [abort EXCEPT ![w] = reason]
    ELSE UNCHANGED abort

(* The refusal of a start or resume ends the worker, unless it is gone.    *)
Refused(w) ==
    /\ Serve(w, Idle)
    /\ IF at[w] = "joining" THEN Leave(w) ELSE UNCHANGED workerVars
    /\ UNCHANGED <<durable, mem, beat, oper, acked, rewound>>

(* The handler of w goes on to step s without having written anything.     *)
Continue(w, c) ==
    /\ Serve(w, c)
    /\ UNCHANGED <<durable, mem, workerVars, beat, oper, acked, rewound>>

-----------------------------------------------------------------------------
(* A worker process starts and restores what was left behind               *)
(* (restoreOvernightResearchLoopState): a checkpoint decides, else the     *)
(* recorded summary.  Failures are resumable while rounds are left, and    *)
(* what ran under another research policy is not continued: the worker     *)
(* starts afresh.  A process is replaced only once the handlers that       *)
(* served it have ended (bound).                                           *)
Load(w) ==
    /\ at[w] = "off" /\ call[w] = Idle /\ beat[w] = Idle
    /\ LET from(s, reason) == Goto(w, s) /\ why' = [why EXCEPT ![w] = reason]
       IN  \/ ckpt.kind = "active"   /\ from("resume", "none")
           \/ ckpt.kind = "pending"  /\ from("attach", ckpt.reason)
           \/ ckpt.kind = "terminal" /\ from("ended", ckpt.reason)
           \/ ckpt.kind \in {"none", "active"} /\ from("fresh", "none")
           \/ ckpt.kind = "none" /\ IsFailure(ledger) /\ from("resume", "none")
           \/ ckpt.kind = "none" /\ ledger # "none"   /\ from("ended", ledger)
    /\ UNCHANGED <<durable, mem, abort, call, beat, oper, acked, rewound>>

(* Attaching to finish a pending completion asks research.loops.get first  *)
(* and starts the loop anew when the daemon knows nothing of it.           *)
Attach(w) ==
    /\ at[w] = "attach"
    /\ Goto(w, IF mem = NoMem /\ ckpt = NoCkpt THEN "fresh" ELSE "resume")
    /\ UNCHANGED <<durable, mem, why, abort, call, beat, oper, acked, rewound>>

(* research.loops.start: refused while the daemon has a record ...         *)
StartArrives(w) ==
    /\ at[w] = "fresh"
    /\ IF mem.status = "none"
       THEN Goto(w, "joining") /\ Serve(w, At("seek", Idle)) /\ UNCHANGED <<why, abort>>
       ELSE Leave(w) /\ UNCHANGED call
    /\ UNCHANGED <<durable, mem, beat, oper, acked, rewound>>

(* ... while a checkpoint exists ...                                       *)
StartSeeks(w) ==
    /\ call[w].step = "seek"
    /\ IF ckpt.kind = "none" THEN Continue(w, At("look", call[w])) ELSE Refused(w)

(* ... and when the row finished or shows a cancellation.                  *)
StartLooks(w) ==
    /\ call[w].step = "look"
    /\ IF IsTerminal(row) \/ ShowsCancellation(row)
       THEN Refused(w)
       ELSE Continue(w, At("claim", call[w]))

(* research.loops.resume captures the record; a finished one or one that   *)
(* was active a moment ago is refused in the end.                          *)
ResumeArrives(w) ==
    /\ at[w] = "resume"
    /\ IF MemTerminal \/ (MemLive /\ mem.age < StaleAfter)
       THEN Leave(w) /\ UNCHANGED call
       ELSE /\ Goto(w, "joining")
            /\ Serve(w, [Idle EXCEPT !.step = IF mem.status = "none" THEN "find" ELSE "weigh",
                                     !.cancel = mem.cancel])
            /\ UNCHANGED <<why, abort>>
    /\ UNCHANGED <<durable, mem, beat, oper, acked, rewound>>

(* Without a record the state is rebuilt from the checkpoint               *)
(* (checkpointOnlyLoopState): only a pending completion counts as running, *)
(* an active checkpoint as failed with control-plane-lost.  A cancellation *)
(* in the checkpoint would be merged here, but a pending one is saved      *)
(* without (saveCompletionPendingResearchLoopCheckpoint passes no          *)
(* cancelState), and an active one is not saved once the signal fired.     *)
CkptResumable == ckpt.kind = "pending"

ResumeFinds(w) ==
    /\ call[w].step = "find"
    /\ IF CkptResumable THEN Continue(w, At("weigh", call[w])) ELSE Refused(w)

(* The row must be free; its cancellation is merged in                     *)
(* (applyDurableScheduleTruth).                                            *)
ResumeWeighs(w) ==
    /\ call[w].step = "weigh"
    /\ IF ClaimStatus(row, w) \in {"missing", "claimable"}
       THEN Continue(w, [At("claim", call[w]) EXCEPT !.cancel = @ \/ ShowsCancellation(row)])
       ELSE Refused(w)

(* claimResearchLoopLease, for both: a missing row is queued first ...     *)
ClaimInspects(w) ==
    /\ call[w].step = "claim"
    /\ Continue(w, At(IF row.status = "missing" THEN "queue" ELSE "take", call[w]))

(* ... an await after it was seen missing ...                              *)
ClaimQueues(w) ==
    /\ call[w].step = "queue"
    /\ row' = UpsertQueued(row, row.availableIn, "started")
    /\ rewound' = (rewound \/ row.status # "missing")
    /\ Serve(w, At("take", call[w]))
    /\ UNCHANGED <<ckpt, ledger, mem, workerVars, beat, oper, acked>>

(* ... then claimed, and the daemon's record is replaced by one built from *)
(* what the handler captured on the way.                                   *)
ClaimTakes(w) ==
    /\ call[w].step = "take"
    /\ IF Claimable(row, w)
       THEN /\ row' = Claim(row, w, "started")
            /\ mem' = LiveMem(call[w].cancel)
            /\ Serve(w, Idle)
            /\ Goto(w, CASE at[w] # "joining"                   -> at[w]
                         [] at[w] = "joining" /\ why[w] = "none" -> "joined"
                         [] OTHER                                -> "ready")
            /\ UNCHANGED <<ckpt, ledger, why, abort, beat, oper, acked, rewound>>
       ELSE Refused(w)

-----------------------------------------------------------------------------
(* A heartbeat of w, from its round timer or before a round: refused       *)
(* without a record, answered from the record when that is terminal ...    *)
PollArrives(w) ==
    /\ at[w] \in {"joined", "running"} /\ abort[w] = "none" /\ beat[w] = Idle
    /\ \/ /\ mem.status = "none"
          /\ Aborted(w, "control-plane-lost") /\ UNCHANGED beat
       \/ /\ MemTerminal
          /\ mem.cancel /\ Aborted(w, "cancelled") /\ UNCHANGED beat
       \/ /\ MemLive
          /\ beat' = [beat EXCEPT ![w] = [Idle EXCEPT !.step = "refresh", !.cancel = mem.cancel]]
          /\ UNCHANGED abort
    /\ UNCHANGED <<durable, mem, at, why, call, oper, acked, rewound>>

(* What a heartbeat writes after its await: the row's lease, and the       *)
(* record as it was captured before the await.                             *)
BeatRevives(w, c) ==
    /\ row' = IF Claimable(row, w) THEN Claim(row, w, "started") ELSE row
    /\ mem' = LiveMem(c.cancel)

BeatWrites(w, c) ==
    IF Claimable(row, w)
    THEN row' = Claim(row, w, "started") /\ mem' = LiveMem(c.cancel)
    ELSE UNCHANGED <<row, mem>>

PollEnds(w) ==
    /\ beat[w].step = "refresh"
    /\ BeatWrites(w, beat[w])
    /\ CASE ~Claimable(row, w)                    -> Aborted(w, "control-plane-lost")
         [] Claimable(row, w) /\ beat[w].cancel   -> Aborted(w, "cancelled")
         [] OTHER                                 -> UNCHANGED abort
    /\ beat' = [beat EXCEPT ![w] = Idle]
    /\ UNCHANGED <<ckpt, ledger, at, why, call, oper, acked, rewound>>

(* A heartbeat that gets no answer.                                        *)
PollLost(w) ==
    /\ at[w] \in {"joined", "running"} /\ abort[w] = "none"
    /\ Aborted(w, "control-plane-lost")
    /\ UNCHANGED <<durable, mem, at, why, call, beat, oper, acked, rewound>>

(* The checkpoint a round saves before it runs, unless it was aborted.     *)
SaveActive(w) ==
    /\ at[w] \in {"joined", "running"} /\ abort[w] = "none"
    /\ ckpt' = Ckpt("active", "none")
    /\ Goto(w, "running")
    /\ UNCHANGED <<row, ledger, mem, why, abort, call, beat, oper, acked, rewound>>

AbortReason(w) == IF abort[w] = "control-plane-lost" THEN "control-plane-lost" ELSE "cancelled"

(* Rounds stop.  Running out of rounds leaves no checkpoint yet; every     *)
(* other end leaves a terminal one (persistTerminalLoopSummary) before the *)
(* daemon hears of it.  Once a round ran, the signal does not decide the   *)
(* reason: an abort can come too late to be noticed, an error that only    *)
(* sounds like a cancellation is taken for one, and the cleanup of a       *)
(* cancelled round can fail.                                               *)
StopRounds(w) ==
    /\ \/ at[w] = "running" /\ why' = [why EXCEPT ![w] = "max-rounds"] /\ UNCHANGED ckpt
       \/ \E reason \in WorkerReasons :
             /\ \/ at[w] = "running"
                \/ /\ at[w] = "joined"
                   /\ reason = IF abort[w] = "none" THEN "max-rounds" ELSE AbortReason(w)
             /\ why'  = [why EXCEPT ![w] = reason]
             /\ ckpt' = Ckpt("terminal", reason)
    /\ Goto(w, "ready")
    /\ UNCHANGED <<row, ledger, mem, abort, call, beat, oper, acked, rewound>>

-----------------------------------------------------------------------------
(* What the last heartbeat told turns every outcome but a failure.         *)
Closes(w, seen) ==
    /\ Goto(w, "completing")
    /\ abort' = [abort EXCEPT ![w] = "none"]
    /\ why'   = [why EXCEPT ![w] = IF seen # "none" /\ ~IsFailure(@) THEN seen ELSE @]

(* finalizeOvernightResearchLoop: a last heartbeat, unless the worker is   *)
(* aborted already ...                                                     *)
RefreshArrives(w) ==
    /\ at[w] = "ready"
    /\ \/ /\ abort[w] = "none" /\ MemLive
          /\ Goto(w, "refreshing")
          /\ Serve(w, [Idle EXCEPT !.step = "refresh", !.cancel = mem.cancel])
          /\ UNCHANGED <<why, abort>>
       \/ LET seen == IF abort[w] # "none" THEN AbortReason(w)
                      ELSE IF mem.status = "none" THEN "control-plane-lost" ELSE "cancelled"
              hit  == abort[w] # "none" \/ mem.status = "none" \/ mem.cancel
          IN  /\ abort[w] # "none" \/ ~MemLive
              /\ UNCHANGED call
              /\ Closes(w, IF hit THEN seen ELSE "none")
    /\ UNCHANGED <<durable, mem, beat, oper, acked, rewound>>

(* ... whose answer, or the lack of one, may turn the outcome ...          *)
Refreshed(w, reason) ==
    IF at[w] = "refreshing"
    THEN Closes(w, IF abort[w] # "none" THEN AbortReason(w) ELSE reason)
    ELSE UNCHANGED workerVars

RefreshEnds(w) ==
    /\ call[w].step = "refresh"
    /\ BeatWrites(w, call[w])
    /\ Refreshed(w, CASE ~Claimable(row, w)                  -> "control-plane-lost"
                      [] Claimable(row, w) /\ call[w].cancel -> "cancelled"
                      [] OTHER                               -> "none")
    /\ Serve(w, Idle)
    /\ UNCHANGED <<ckpt, ledger, beat, oper, acked, rewound>>

(* ... then research.loops.complete, which captures the record's           *)
(* cancellation.  A worker that found the loop ended reconciles by the     *)
(* same call.                                                              *)
CompleteArrives(w) ==
    /\ at[w] \in {"completing", "ended"} /\ call[w] = Idle
    /\ Goto(w, IF at[w] = "ended" THEN "reconciling" ELSE "completing")
    /\ Serve(w, [step   |-> "inspect", cancel |-> mem.cancel,
                 reason |-> why[w],    known  |-> row.cancelRequested])
    /\ UNCHANGED <<durable, mem, why, abort, beat, oper, acked, rewound>>

CompleteInspectsNothing(w) ==
    /\ call[w].step = "inspect"
    /\ Continue(w, At("commit", call[w]))

(* The row's cancellation counts as much as the record's.                  *)
CompleteInspects(w) ==
    /\ call[w].step = "inspect"
    /\ Continue(w, [At("commit", call[w]) EXCEPT !.cancel = @ \/ ShowsCancellation(row)])

(* A cancellation outranks every outcome but a failure.                    *)
FinalReason(w) ==
    IF call[w].cancel /\ ~IsFailure(call[w].reason) THEN "cancelled" ELSE call[w].reason

(* The answer sends a worker on to closing with the daemon's stop reason,  *)
(* a refusal to a pending checkpoint with its own.                         *)
Concluded(w, accepted) ==
    CASE at[w] = "completing" /\ accepted ->
            /\ Goto(w, "closing")
            /\ why' = [why EXCEPT ![w] = FinalReason(w)]
            /\ UNCHANGED abort
      [] at[w] = "completing" /\ ~accepted -> Goto(w, "pending") /\ UNCHANGED <<why, abort>>
      [] at[w] = "reconciling"             -> Leave(w)
      [] OTHER                             -> UNCHANGED workerVars

(* The row decides: the record becomes terminal only if the row did.       *)
CompleteCommitsUnchecked(w) ==
    /\ call[w].step = "commit"
    /\ row' = IF Completable(row, w) THEN Complete(row, FinalReason(w)) ELSE row
    /\ mem' = [status |-> OutcomeOf(FinalReason(w)), cancel |-> call[w].cancel, age |-> 0]
    /\ Concluded(w, TRUE)
    /\ Serve(w, Idle)
    /\ UNCHANGED <<ckpt, ledger, beat, oper, acked, rewound>>

CompleteCommits(w) ==
    LET accepted == Completable(row, w) IN
    /\ call[w].step = "commit"
    /\ IF accepted
       THEN /\ row' = Complete(row, FinalReason(w))
            /\ mem' = [status |-> OutcomeOf(FinalReason(w)), cancel |-> call[w].cancel, age |-> 0]
       ELSE UNCHANGED <<row, mem>>
    /\ Concluded(w, accepted)
    /\ Serve(w, Idle)
    /\ UNCHANGED <<ckpt, ledger, beat, oper, acked, rewound>>

(* What is left: the terminal checkpoint, the summary, and only then the   *)
(* checkpoint goes ...                                                     *)
SaveTerminal(w) ==
    /\ at[w] = "closing"
    /\ ckpt' = Ckpt("terminal", why[w])
    /\ Goto(w, "recording")
    /\ UNCHANGED <<row, ledger, mem, why, abort, call, beat, oper, acked, rewound>>

RecordSummaryMaybe(w) ==
    /\ at[w] = "recording"
    /\ \/ ledger' = why[w] \/ UNCHANGED ledger
    /\ Goto(w, "clearing")
    /\ UNCHANGED <<row, ckpt, mem, why, abort, call, beat, oper, acked, rewound>>

(* ... which stays, degraded, when the summary cannot be recorded.         *)
RecordSummary(w) ==
    /\ at[w] = "recording"
    /\ \/ ledger' = why[w] /\ Goto(w, "clearing") /\ UNCHANGED <<ckpt, why, abort>>
       \/ ckpt' = Ckpt("terminal", why[w]) /\ Leave(w) /\ UNCHANGED ledger
    /\ UNCHANGED <<row, mem, call, beat, oper, acked, rewound>>

ClearCkpt(w) ==
    /\ at[w] = "clearing"
    /\ ckpt' = NoCkpt
    /\ Leave(w)
    /\ UNCHANGED <<row, ledger, mem, call, beat, oper, acked, rewound>>

(* ... or the summary waits in the checkpoint for a later completion.      *)
SavePending(w) ==
    /\ at[w] = "pending"
    /\ ckpt' = Ckpt("pending", why[w])
    /\ Leave(w)
    /\ UNCHANGED <<row, ledger, mem, call, beat, oper, acked, rewound>>

(* No answer in time: the worker goes on without one, its handler too.     *)
GiveUp(w) ==
    /\ call[w] # Idle
    /\ \/ /\ at[w] = "refreshing"
          /\ Refreshed(w, "control-plane-lost")
       \/ /\ at[w] = "completing"
          /\ Goto(w, "pending") /\ UNCHANGED <<why, abort>>
       \/ /\ at[w] \in {"joining", "reconciling"}
          /\ Leave(w)
    /\ UNCHANGED <<durable, mem, call, beat, oper, acked, rewound>>

-----------------------------------------------------------------------------
(* research.loops.cancel: only a live record can be cancelled ...          *)
CancelArrives ==
    /\ MemLive /\ ~oper /\ acked < MaxCancels
    /\ oper' = TRUE
    /\ UNCHANGED <<durable, mem, workerVars, call, beat, acked, rewound>>

(* ... and, an await later, the row and the record both say so.            *)
CancelEnds ==
    /\ oper
    /\ row' = Cancel(row)
    /\ mem' = LiveMem(TRUE)
    /\ acked' = acked + 1
    /\ oper' = FALSE
    /\ UNCHANGED <<ckpt, ledger, workerVars, call, beat, rewound>>

(* A worker process dies; the handlers serving it run on.                  *)
Crash(w) ==
    /\ at[w] # "off"
    /\ Leave(w)
    /\ UNCHANGED <<durable, mem, call, beat, oper, acked, rewound>>

(* The daemon dies: records and handlers are gone, and every waiting       *)
(* worker gets an error.                                                   *)
DaemonCrash ==
    /\ mem' = NoMem
    /\ call' = [w \in Owners |-> Idle]
    /\ beat' = [w \in Owners |-> Idle]
    /\ oper' = FALSE
    /\ LET gone   == {w \in Owners : at[w] \in {"joining", "reconciling"}}
           turned == {w \in Owners : at[w] = "refreshing" /\ ~IsFailure(why[w])}
       IN  /\ at' = [w \in Owners |->
                        CASE w \in gone                              -> "off"
                          [] at[w] = "refreshing"                    -> "completing"
                          [] at[w] = "completing" /\ call[w] # Idle  -> "pending"
                          [] OTHER                                   -> at[w]]
           /\ why' = [w \in Owners |->
                         CASE w \in gone   -> "none"
                           [] w \in turned -> IF abort[w] = "cancelled" THEN "cancelled"
                                              ELSE "control-plane-lost"
                           [] OTHER        -> why[w]]
           /\ abort' = [w \in Owners |->
                           CASE w \in gone \/ at[w] = "refreshing" -> "none"
                             [] abort[w] = "none" /\ beat[w] # Idle /\ at[w] \in Abortable \ {"joining"}
                                   -> "control-plane-lost"
                             [] OTHER -> abort[w]]
    /\ UNCHANGED <<durable, acked, rewound>>

Tick ==
    /\ row' = Aged(row)
    /\ mem' = [mem EXCEPT !.age = IF MemLive /\ @ < StaleAfter THEN @ + 1 ELSE @]
    /\ UNCHANGED <<ckpt, ledger, workerVars, call, beat, oper, acked, rewound>>

Next ==
    \/ \E w \in Owners :
          \/ Load(w) \/ Attach(w)
          \/ StartArrives(w) \/ StartSeeks(w) \/ StartLooks(w)
          \/ ResumeArrives(w) \/ ResumeFinds(w) \/ ResumeWeighs(w)
          \/ ClaimInspects(w) \/ ClaimQueues(w) \/ ClaimTakes(w)
          \/ PollArrives(w) \/ PollEnds(w) \/ PollLost(w)
          \/ SaveActive(w) \/ StopRounds(w)
          \/ RefreshArrives(w) \/ RefreshEnds(w)
          \/ CompleteArrives(w) \/ CompleteInspects(w) \/ CompleteCommits(w)
          \/ SaveTerminal(w) \/ RecordSummary(w) \/ ClearCkpt(w) \/ SavePending(w)
          \/ GiveUp(w) \/ Crash(w)
    \/ CancelArrives \/ CancelEnds \/ DaemonCrash \/ Tick

Spec == Init /\ [][Next]_vars

-----------------------------------------------------------------------------
TypeOK ==
    /\ row \in Row
    /\ mem \in [status : {"none", "live"} \cup Terminal, cancel : BOOLEAN, age : 0..StaleAfter]
    /\ ckpt \in [kind : {"none", "active", "pending", "terminal"}, reason : MaybeReason]
    /\ ledger \in MaybeReason
    /\ at    \in [Owners -> WorkerStages]
    /\ why   \in [Owners -> MaybeReason]
    /\ abort \in [Owners -> {"none", "cancelled", "control-plane-lost"}]
    /\ call  \in [Owners -> [step : CallSteps, cancel : BOOLEAN, reason : MaybeReason,
                              known : BOOLEAN]]
    /\ beat  \in [Owners -> [step : {"none", "refresh"}, cancel : BOOLEAN, reason : {"none"},
                              known : {FALSE}]]
    /\ {oper, rewound} \subseteq BOOLEAN
    /\ acked \in 0..MaxCancels

(* The daemon's record never claims what the durable row does not hold     *)
(* ("I fail closed instead of letting in-memory loop state claim success   *)
(* after the durable scheduler already moved on"): a finished record goes  *)
(* with a row that finished the same way, and a record that runs on after  *)
(* the row finished is one that a late cancel rewrote.                     *)
RecordMatchesRow ==
    ~rewound =>
        /\ MemTerminal => row.finished /\ row.status = mem.status
        /\ MemLive /\ row.finished => mem.cancel

(* No heartbeat, resume or start takes a finished record back to life,     *)
(* however late it lands: only a cancel that was accepted before the       *)
(* completion, or a rewritten row, does.                                   *)
NeverRevived ==
    [][MemTerminal /\ mem'.status = "live" => rewound' \/ (oper /\ ~oper')]_vars

(* A cancellation the operator saw acknowledged is on the durable row,     *)
(* across takeovers and daemon restarts, unless the loop had finished.     *)
AckedCancelDurable == acked > 0 => row.cancelRequested \/ row.finished \/ rewound

(* A completion that reached the daemon after the cancellation was durable *)
(* never ends as a success, even when the record was lost in between.      *)
CancelOutranksSuccess ==
    [][\A w \in Owners :
          call[w].step = "commit" /\ call[w].known /\ call'[w] = Idle /\ row' # row =>
              row'.status # "completed"]_vars

(* The outcome of a finished loop is always recoverable by the next        *)
(* worker: from its checkpoint or from its recorded summary.               *)
OutcomeRecoverable == row.finished => ckpt.kind # "none" \/ ledger # "none"

-----------------------------------------------------------------------------
(* Expected to fail: what the repository says of the program.              *)

(* "Heartbeats are what make remote cancellation observable to a           *)
(* still-running local round": once a cancel is acknowledged, the record   *)
(* the heartbeats answer from carries it as long as the loop runs.         *)
AckedCancelVisible == acked > 0 /\ MemLive => mem.cancel

(* research.loops.active offers a loop it knows only from its checkpoint   *)
(* as resumable whenever its row is free.                                  *)
AdvertisedResumable(w) ==
    /\ mem.status = "none" /\ ckpt.kind # "none"
    /\ ClaimStatus(row, w) \in {"missing", "claimable"}

(* "timeout pickup can resume or inspect work without requiring a          *)
(* still-running daemon process": a resume is not refused for the          *)
(* checkpoint while the daemon would list that very loop as resumable.     *)
AdvertisedIsResumed ==
    [][\A w \in Owners :
          call[w].step = "find" /\ AdvertisedResumable(w) => call'[w].step # "none"]_vars

(* "checkpoint state is the durable source of truth for a resume or        *)
(* completion-pending recovery": a worker that comes back for a pending    *)
(* completion is not refused because that completion had gone through.     *)
PendingRecovers ==
    [][\A w \in Owners :
          /\ call[w].step = "weigh" /\ at[w] = "joining" /\ ckpt.kind = "pending"
          /\ call'[w].step = "none" /\ at'[w] = "off"
          => ~row.finished]_vars

(* "`stopReason` becomes authoritative only after final daemon completion  *)
(* succeeds": from then on the loop's outcome does not change.             *)
OutcomeFinal ==
    [][row.finished /\ row'.finished => row'.stopReason = row.stopReason]_vars
=============================================================================
