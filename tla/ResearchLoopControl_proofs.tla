--------------------- MODULE ResearchLoopControl_proofs ---------------------
(***************************************************************************)
(* ResearchLoopControl for every number of workers, every lease length and *)
(* every number of cancellations: what the runs "control" and              *)
(* "control_unqueued" check of two workers.                                *)
(*                                                                         *)
(* The inductive invariant comes in three layers.  The first speaks of     *)
(* workers, handlers and the checkpoint: their types, and that whoever     *)
(* reports an outcome has a stop reason.  The second adds the row and the  *)
(* daemon's record: a completion writes a well-formed row only because its *)
(* handler was given a reason.  The third adds what a handler carries      *)
(* across its awaits: that the outcome it is about to write is backed by a *)
(* checkpoint or a summary, and that it knows of the cancellation that     *)
(* was durable when it was called.                                         *)
(***************************************************************************)
EXTENDS ResearchLoopControl, TLAPS

(* TypeOK by the part of the state it speaks of.                           *)
WorkersTyped ==
    /\ at    \in [Owners -> WorkerStages]
    /\ why   \in [Owners -> MaybeReason]
    /\ abort \in [Owners -> {"none", "cancelled", "control-plane-lost"}]

CkptTyped ==
    /\ ckpt \in [kind : {"none", "active", "pending", "terminal"}, reason : MaybeReason]
    /\ ledger \in MaybeReason

Handler == [step : CallSteps, cancel : BOOLEAN, reason : MaybeReason, known : BOOLEAN]

CallsTyped == call \in [Owners -> Handler]

BeatsTyped ==
    beat \in [Owners -> [step : {"none", "refresh"}, cancel : BOOLEAN, reason : {"none"},
                         known : {FALSE}]]

RecordTyped ==
    /\ mem \in [status : {"none", "live"} \cup Terminal, cancel : BOOLEAN, age : 0..StaleAfter]
    /\ {oper, rewound} \subseteq BOOLEAN
    /\ acked \in 0..MaxCancels

LEMMA TypeParts ==
  TypeOK <=> row \in Row /\ RecordTyped /\ CkptTyped /\ WorkersTyped /\ CallsTyped /\ BeatsTyped
  BY DEF TypeOK, RecordTyped, CkptTyped, WorkersTyped, CallsTyped, BeatsTyped, Handler

(* Stages of a worker that reports an outcome, and of a handler that is    *)
(* about to write one.                                                     *)
Reporting == {"ended", "ready", "refreshing", "completing", "reconciling", "closing",
              "recording", "clearing", "pending"}

Completing(w) == call[w].step \in {"inspect", "commit"}

(* The first layer: whoever reports has a reason.                          *)
WorkersSound == WorkersTyped /\ \A w \in Owners : at[w] \in Reporting => why[w] # "none"

CkptSound == CkptTyped /\ (ckpt.kind \in {"pending", "terminal"} => ckpt.reason # "none")

CallsSound == CallsTyped /\ \A w \in Owners : Completing(w) => call[w].reason # "none"

Reported == WorkersSound /\ CkptSound /\ CallsSound

(* The second layer: a record or an operator's cancel speaks of a loop     *)
(* whose row is there.                                                     *)
Present == MemLive \/ oper => row.status # "missing"

Recorded ==
    /\ Reported /\ BeatsTyped
    /\ row \in Row /\ RowWellFormed(row)
    /\ RecordTyped /\ Present
    /\ oper => acked < MaxCancels

(* The third layer.                                                        *)
Evidence == ckpt.kind # "none" \/ ledger # "none"

Backed ==
    /\ OutcomeRecoverable
    /\ \A w \in Owners :
          /\ why[w] # "none" \/ at[w] = "running" => Evidence
          /\ at[w] = "clearing" => ledger # "none"
          /\ Completing(w) => Evidence

CancelCarried ==
    \A w \in Owners :
        Completing(w) /\ call[w].known =>
            row.cancelRequested /\ (call[w].step = "commit" => call[w].cancel)

-----------------------------------------------------------------------------
(* A handler goes on, and one handler takes the place of another.          *)
LEMMA HandlersGoOn ==
  /\ Idle \in Handler /\ Idle.step = "none"
  /\ \A c \in Handler, s \in CallSteps :
        /\ At(s, c) \in Handler /\ At(s, c).step = s
        /\ At(s, c).cancel = c.cancel /\ At(s, c).reason = c.reason /\ At(s, c).known = c.known
  /\ \A c \in Handler, b \in BOOLEAN :
        LET d == [c EXCEPT !.cancel = @ \/ b]
        IN  /\ d \in Handler /\ d.step = c.step /\ d.cancel = (c.cancel \/ b)
            /\ d.reason = c.reason /\ d.known = c.known
  BY DEF Idle, At, Handler, CallSteps, MaybeReason, WorkerReasons

LEMMA FinalReasonOK ==
  ASSUME CallsSound, NEW w \in Owners, Completing(w)
  PROVE  FinalReason(w) \in WorkerReasons
  BY DEF CallsSound, CallsTyped, Handler, FinalReason, MaybeReason, WorkerReasons

LEMMA WorkersStep == Reported /\ [Next]_vars => WorkersSound'
<1> SUFFICES ASSUME Reported, [Next]_vars PROVE WorkersSound'
  OBVIOUS
<1> USE DEF Reported, WorkersSound, CkptSound, WorkersTyped, CkptTyped, Reporting, Goto, Leave,
            workerVars, WorkerStages, MaybeReason, WorkerReasons
<1>1. ASSUME NEW w \in Owners, Load(w) PROVE WorkersSound'
  BY <1>1 DEF Load, IsFailure
<1>2. ASSUME NEW w \in Owners, Attach(w) PROVE WorkersSound'
  BY <1>2 DEF Attach
<1>3. ASSUME NEW w \in Owners, StartArrives(w) PROVE WorkersSound'
  BY <1>3 DEF StartArrives
<1>4. ASSUME NEW w \in Owners, StartSeeks(w) PROVE WorkersSound'
  BY <1>4 DEF StartSeeks, Continue, Refused
<1>5. ASSUME NEW w \in Owners, StartLooks(w) PROVE WorkersSound'
  BY <1>5 DEF StartLooks, Continue, Refused
<1>6. ASSUME NEW w \in Owners, ResumeArrives(w) PROVE WorkersSound'
  BY <1>6 DEF ResumeArrives
<1>7. ASSUME NEW w \in Owners, ResumeFinds(w) PROVE WorkersSound'
  BY <1>7 DEF ResumeFinds, Continue, Refused
<1>8. ASSUME NEW w \in Owners, ResumeWeighs(w) PROVE WorkersSound'
  BY <1>8 DEF ResumeWeighs, Continue, Refused
<1>9. ASSUME NEW w \in Owners, ClaimInspects(w) PROVE WorkersSound'
  BY <1>9 DEF ClaimInspects, Continue
<1>10. ASSUME NEW w \in Owners, ClaimQueues(w) PROVE WorkersSound'
  BY <1>10 DEF ClaimQueues
<1>11. ASSUME NEW w \in Owners, ClaimTakes(w) PROVE WorkersSound'
  BY <1>11 DEF ClaimTakes, Refused
<1>12. ASSUME NEW w \in Owners, PollArrives(w) PROVE WorkersSound'
  BY <1>12 DEF PollArrives, Aborted
<1>13. ASSUME NEW w \in Owners, PollEnds(w) PROVE WorkersSound'
  BY <1>13 DEF PollEnds, Aborted
<1>14. ASSUME NEW w \in Owners, PollLost(w) PROVE WorkersSound'
  BY <1>14 DEF PollLost, Aborted
<1>15. ASSUME NEW w \in Owners, SaveActive(w) PROVE WorkersSound'
  <2>1. at[w] \notin Reporting /\ UNCHANGED why /\ at' = [at EXCEPT ![w] = "running"]
    BY <1>15 DEF SaveActive
  <2> QED BY <1>15, <2>1 DEF SaveActive
<1>16. ASSUME NEW w \in Owners, StopRounds(w) PROVE WorkersSound'
  BY <1>16 DEF StopRounds, AbortReason
<1>17. ASSUME NEW w \in Owners, RefreshArrives(w) PROVE WorkersSound'
  BY <1>17 DEF RefreshArrives, Closes, AbortReason
<1>18. ASSUME NEW w \in Owners, RefreshEnds(w) PROVE WorkersSound'
  BY <1>18 DEF RefreshEnds, Refreshed, Closes, AbortReason
<1>19. ASSUME NEW w \in Owners, CompleteArrives(w) PROVE WorkersSound'
  BY <1>19 DEF CompleteArrives
<1>20. ASSUME NEW w \in Owners, CompleteInspects(w) PROVE WorkersSound'
  BY <1>20 DEF CompleteInspects, Continue
<1>21. ASSUME NEW w \in Owners, CompleteCommits(w) PROVE WorkersSound'
  <2>1. FinalReason(w) \in WorkerReasons
    BY <1>21, FinalReasonOK DEF CompleteCommits, Completing
  <2> QED BY <1>21, <2>1 DEF CompleteCommits, Concluded
<1>22. ASSUME NEW w \in Owners, SaveTerminal(w) PROVE WorkersSound'
  BY <1>22 DEF SaveTerminal
<1>23. ASSUME NEW w \in Owners, RecordSummary(w) PROVE WorkersSound'
  BY <1>23 DEF RecordSummary
<1>24. ASSUME NEW w \in Owners, ClearCkpt(w) PROVE WorkersSound'
  BY <1>24 DEF ClearCkpt
<1>25. ASSUME NEW w \in Owners, SavePending(w) PROVE WorkersSound'
  BY <1>25 DEF SavePending
<1>26. ASSUME NEW w \in Owners, GiveUp(w) PROVE WorkersSound'
  BY <1>26 DEF GiveUp, Refreshed, Closes, AbortReason
<1>27. ASSUME NEW w \in Owners, Crash(w) PROVE WorkersSound'
  BY <1>27 DEF Crash
<1>28. CASE CancelArrives
  BY <1>28 DEF CancelArrives
<1>29. CASE CancelEnds
  BY <1>29 DEF CancelEnds
<1>30. CASE DaemonCrash
  BY <1>30 DEF DaemonCrash
<1>31. CASE Tick
  BY <1>31 DEF Tick
<1>32. CASE UNCHANGED vars
  BY <1>32 DEF vars
<1> QED
  BY <1>1, <1>2, <1>3, <1>4, <1>5, <1>6, <1>7, <1>8, <1>9, <1>10, <1>11,
     <1>12, <1>13, <1>14, <1>15, <1>16, <1>17, <1>18, <1>19, <1>20, <1>21,
     <1>22, <1>23, <1>24, <1>25, <1>26, <1>27, <1>28, <1>29, <1>30, <1>31,
     <1>32
  DEF Next

LEMMA CkptStep == Reported /\ [Next]_vars => CkptSound'
<1> SUFFICES ASSUME Reported, [Next]_vars PROVE CkptSound'
  OBVIOUS
<1> USE DEF Reported, WorkersSound, CkptSound, WorkersTyped, CkptTyped, Reporting, Ckpt, NoCkpt,
            durable, MaybeReason, WorkerReasons
<1>1. ASSUME NEW w \in Owners, Load(w) PROVE CkptSound'
  BY <1>1 DEF Load
<1>2. ASSUME NEW w \in Owners, Attach(w) PROVE CkptSound'
  BY <1>2 DEF Attach
<1>3. ASSUME NEW w \in Owners, StartArrives(w) PROVE CkptSound'
  BY <1>3 DEF StartArrives
<1>4. ASSUME NEW w \in Owners, StartSeeks(w) PROVE CkptSound'
  BY <1>4 DEF StartSeeks, Continue, Refused
<1>5. ASSUME NEW w \in Owners, StartLooks(w) PROVE CkptSound'
  BY <1>5 DEF StartLooks, Continue, Refused
<1>6. ASSUME NEW w \in Owners, ResumeArrives(w) PROVE CkptSound'
  BY <1>6 DEF ResumeArrives
<1>7. ASSUME NEW w \in Owners, ResumeFinds(w) PROVE CkptSound'
  BY <1>7 DEF ResumeFinds, Continue, Refused
<1>8. ASSUME NEW w \in Owners, ResumeWeighs(w) PROVE CkptSound'
  BY <1>8 DEF ResumeWeighs, Continue, Refused
<1>9. ASSUME NEW w \in Owners, ClaimInspects(w) PROVE CkptSound'
  BY <1>9 DEF ClaimInspects, Continue
<1>10. ASSUME NEW w \in Owners, ClaimQueues(w) PROVE CkptSound'
  BY <1>10 DEF ClaimQueues
<1>11. ASSUME NEW w \in Owners, ClaimTakes(w) PROVE CkptSound'
  BY <1>11 DEF ClaimTakes, Refused
<1>12. ASSUME NEW w \in Owners, PollArrives(w) PROVE CkptSound'
  BY <1>12 DEF PollArrives, Aborted
<1>13. ASSUME NEW w \in Owners, PollEnds(w) PROVE CkptSound'
  BY <1>13 DEF PollEnds, Aborted
<1>14. ASSUME NEW w \in Owners, PollLost(w) PROVE CkptSound'
  BY <1>14 DEF PollLost, Aborted
<1>15. ASSUME NEW w \in Owners, SaveActive(w) PROVE CkptSound'
  BY <1>15 DEF SaveActive
<1>16. ASSUME NEW w \in Owners, StopRounds(w) PROVE CkptSound'
  BY <1>16 DEF StopRounds, AbortReason
<1>17. ASSUME NEW w \in Owners, RefreshArrives(w) PROVE CkptSound'
  BY <1>17 DEF RefreshArrives, Closes, AbortReason
<1>18. ASSUME NEW w \in Owners, RefreshEnds(w) PROVE CkptSound'
  BY <1>18 DEF RefreshEnds, Refreshed, Closes, AbortReason
<1>19. ASSUME NEW w \in Owners, CompleteArrives(w) PROVE CkptSound'
  BY <1>19 DEF CompleteArrives
<1>20. ASSUME NEW w \in Owners, CompleteInspects(w) PROVE CkptSound'
  BY <1>20 DEF CompleteInspects, Continue
<1>21. ASSUME NEW w \in Owners, CompleteCommits(w) PROVE CkptSound'
  BY <1>21 DEF CompleteCommits, Concluded, FinalReason
<1>22. ASSUME NEW w \in Owners, SaveTerminal(w) PROVE CkptSound'
  BY <1>22 DEF SaveTerminal
<1>23. ASSUME NEW w \in Owners, RecordSummary(w) PROVE CkptSound'
  BY <1>23 DEF RecordSummary
<1>24. ASSUME NEW w \in Owners, ClearCkpt(w) PROVE CkptSound'
  BY <1>24 DEF ClearCkpt
<1>25. ASSUME NEW w \in Owners, SavePending(w) PROVE CkptSound'
  BY <1>25 DEF SavePending
<1>26. ASSUME NEW w \in Owners, GiveUp(w) PROVE CkptSound'
  BY <1>26 DEF GiveUp, Refreshed, Closes, AbortReason
<1>27. ASSUME NEW w \in Owners, Crash(w) PROVE CkptSound'
  BY <1>27 DEF Crash
<1>28. CASE CancelArrives
  BY <1>28 DEF CancelArrives
<1>29. CASE CancelEnds
  BY <1>29 DEF CancelEnds
<1>30. CASE DaemonCrash
  BY <1>30 DEF DaemonCrash
<1>31. CASE Tick
  BY <1>31 DEF Tick
<1>32. CASE UNCHANGED vars
  BY <1>32 DEF vars
<1> QED
  BY <1>1, <1>2, <1>3, <1>4, <1>5, <1>6, <1>7, <1>8, <1>9, <1>10, <1>11,
     <1>12, <1>13, <1>14, <1>15, <1>16, <1>17, <1>18, <1>19, <1>20, <1>21,
     <1>22, <1>23, <1>24, <1>25, <1>26, <1>27, <1>28, <1>29, <1>30, <1>31,
     <1>32
  DEF Next

(* What a step does to the handlers: nothing, one of them arrives or goes  *)
(* on, or the daemon dies.  A completion inspects before it commits.       *)
Arrived(w, c) ==
    /\ c.step = "inspect"
    /\ c.reason = why[w] /\ why[w] # "none"
    /\ c.known = row.cancelRequested

Inspected(w, c) ==
    /\ c.step = "commit" /\ call[w].step = "inspect"
    /\ c.reason = call[w].reason /\ c.known = call[w].known
    /\ c.cancel = (call[w].cancel \/ ShowsCancellation(row))

HandlerStep ==
    \/ UNCHANGED call
    \/ call' = [w \in Owners |-> Idle]
    \/ \E w \in Owners, c \in Handler :
          /\ c.step \in {"inspect", "commit"} => Arrived(w, c) \/ Inspected(w, c)
          /\ Serve(w, c)

LEMMA HandlerSteps ==
  Reported /\ RecordTyped /\ row \in Row /\ [Next]_vars => HandlerStep
<1> SUFFICES ASSUME Reported, RecordTyped, row \in Row, [Next]_vars PROVE HandlerStep
  OBVIOUS
<1> USE DEF Reported
<1>a. ASSUME UNCHANGED call PROVE HandlerStep
  BY <1>a DEF HandlerStep
<1>b. ASSUME NEW w \in Owners, Serve(w, Idle) PROVE HandlerStep
  BY <1>b, HandlersGoOn DEF HandlerStep
<1>c. ASSUME NEW w \in Owners, NEW c \in Handler, c.step \notin {"inspect", "commit"},
             Serve(w, c)
      PROVE  HandlerStep
  BY <1>c DEF HandlerStep
<1>1. ASSUME NEW w \in Owners, Load(w) PROVE HandlerStep
  BY <1>1, <1>a DEF Load
<1>2. ASSUME NEW w \in Owners, Attach(w) PROVE HandlerStep
  BY <1>2, <1>a DEF Attach
<1>3. ASSUME NEW w \in Owners, StartArrives(w) PROVE HandlerStep
  <2>1. CASE Serve(w, At("seek", Idle))
    BY <2>1, HandlersGoOn, <1>c DEF CallSteps
  <2> QED BY <1>3, <1>a, <2>1 DEF StartArrives
<1>4. ASSUME NEW w \in Owners, StartSeeks(w) PROVE HandlerStep
  <2>1. call[w] \in Handler /\ "look" \in CallSteps
    BY DEF CallsSound, CallsTyped, CallSteps
  <2> QED BY <1>4, <1>b, <2>1, HandlersGoOn, <1>c DEF StartSeeks, Continue, Refused
<1>5. ASSUME NEW w \in Owners, StartLooks(w) PROVE HandlerStep
  <2>1. call[w] \in Handler /\ "claim" \in CallSteps
    BY DEF CallsSound, CallsTyped, CallSteps
  <2> QED BY <1>5, <1>b, <2>1, HandlersGoOn, <1>c DEF StartLooks, Continue, Refused
<1>6. ASSUME NEW w \in Owners, ResumeArrives(w) PROVE HandlerStep
  <2> DEFINE c == [Idle EXCEPT !.step = IF mem.status = "none" THEN "find" ELSE "weigh",
                               !.cancel = mem.cancel]
  <2>1. c \in Handler /\ c.step \in {"find", "weigh"}
    BY DEF Idle, Handler, CallSteps, RecordTyped, MaybeReason, WorkerReasons
  <2> QED BY <1>6, <1>a, <2>1, <1>c DEF ResumeArrives
<1>7. ASSUME NEW w \in Owners, ResumeFinds(w) PROVE HandlerStep
  <2>1. call[w] \in Handler /\ "weigh" \in CallSteps
    BY DEF CallsSound, CallsTyped, CallSteps
  <2> QED BY <1>7, <1>b, <2>1, HandlersGoOn, <1>c DEF ResumeFinds, Continue, Refused
<1>8. ASSUME NEW w \in Owners, ResumeWeighs(w) PROVE HandlerStep
  <2> DEFINE c == [At("claim", call[w]) EXCEPT !.cancel = @ \/ ShowsCancellation(row)]
  <2>1. call[w] \in Handler /\ "claim" \in CallSteps /\ ShowsCancellation(row) \in BOOLEAN
    BY DEF CallsSound, CallsTyped, CallSteps, ShowsCancellation, Row
  <2>2. c \in Handler /\ c.step = "claim"
    BY <2>1, HandlersGoOn
  <2> QED BY <1>8, <1>b, <2>2, <1>c DEF ResumeWeighs, Continue, Refused
<1>9. ASSUME NEW w \in Owners, ClaimInspects(w) PROVE HandlerStep
  <2> DEFINE s == IF row.status = "missing" THEN "queue" ELSE "take"
  <2>1. call[w] \in Handler /\ s \in CallSteps /\ s \notin {"inspect", "commit"}
    BY DEF CallsSound, CallsTyped, CallSteps
  <2> QED BY <1>9, <2>1, HandlersGoOn, <1>c DEF ClaimInspects, Continue
<1>10. ASSUME NEW w \in Owners, ClaimQueues(w) PROVE HandlerStep
  <2>1. call[w] \in Handler /\ "take" \in CallSteps
    BY DEF CallsSound, CallsTyped, CallSteps
  <2> QED BY <1>10, <2>1, HandlersGoOn, <1>c DEF ClaimQueues
<1>11. ASSUME NEW w \in Owners, ClaimTakes(w) PROVE HandlerStep
  BY <1>11, <1>b DEF ClaimTakes, Refused
<1>12. ASSUME NEW w \in Owners, PollArrives(w) PROVE HandlerStep
  BY <1>12, <1>a DEF PollArrives, Aborted
<1>13. ASSUME NEW w \in Owners, PollEnds(w) PROVE HandlerStep
  BY <1>13, <1>a DEF PollEnds, Aborted
<1>14. ASSUME NEW w \in Owners, PollLost(w) PROVE HandlerStep
  BY <1>14, <1>a DEF PollLost, Aborted
<1>15. ASSUME NEW w \in Owners, SaveActive(w) PROVE HandlerStep
  BY <1>15, <1>a DEF SaveActive
<1>16. ASSUME NEW w \in Owners, StopRounds(w) PROVE HandlerStep
  BY <1>16, <1>a DEF StopRounds, AbortReason
<1>17. ASSUME NEW w \in Owners, RefreshArrives(w) PROVE HandlerStep
  <2> DEFINE c == [Idle EXCEPT !.step = "refresh", !.cancel = mem.cancel]
  <2>1. c \in Handler /\ c.step = "refresh"
    BY DEF Idle, Handler, CallSteps, RecordTyped, MaybeReason, WorkerReasons
  <2> QED BY <1>17, <1>a, <2>1, <1>c DEF RefreshArrives
<1>18. ASSUME NEW w \in Owners, RefreshEnds(w) PROVE HandlerStep
  BY <1>18, <1>b DEF RefreshEnds
<1>19. ASSUME NEW w \in Owners, CompleteArrives(w) PROVE HandlerStep
  <2> DEFINE c == [step |-> "inspect", cancel |-> mem.cancel, reason |-> why[w],
                   known |-> row.cancelRequested]
  <2>1. c \in Handler /\ Arrived(w, c)
    BY <1>19 DEF CompleteArrives, WorkersSound, WorkersTyped, Reporting, Handler, CallSteps,
                RecordTyped, Row, Arrived
  <2> QED BY <1>19, <2>1 DEF CompleteArrives, HandlerStep
<1>20. ASSUME NEW w \in Owners, CompleteInspects(w) PROVE HandlerStep
  <2> DEFINE c == [At("commit", call[w]) EXCEPT !.cancel = @ \/ ShowsCancellation(row)]
  <2>1. call[w] \in Handler /\ "commit" \in CallSteps /\ ShowsCancellation(row) \in BOOLEAN
    BY DEF CallsSound, CallsTyped, CallSteps, ShowsCancellation, Row
  <2>2. c \in Handler /\ Inspected(w, c)
    BY <1>20, <2>1, HandlersGoOn DEF CompleteInspects, Inspected
  <2> QED BY <1>20, <2>2 DEF CompleteInspects, Continue, HandlerStep
<1>21. ASSUME NEW w \in Owners, CompleteCommits(w) PROVE HandlerStep
  BY <1>21, <1>b DEF CompleteCommits
<1>22. ASSUME NEW w \in Owners, SaveTerminal(w) PROVE HandlerStep
  BY <1>22, <1>a DEF SaveTerminal
<1>23. ASSUME NEW w \in Owners, RecordSummary(w) PROVE HandlerStep
  BY <1>23, <1>a DEF RecordSummary
<1>24. ASSUME NEW w \in Owners, ClearCkpt(w) PROVE HandlerStep
  BY <1>24, <1>a DEF ClearCkpt
<1>25. ASSUME NEW w \in Owners, SavePending(w) PROVE HandlerStep
  BY <1>25, <1>a DEF SavePending
<1>26. ASSUME NEW w \in Owners, GiveUp(w) PROVE HandlerStep
  BY <1>26, <1>a DEF GiveUp, Refreshed, Closes, AbortReason
<1>27. ASSUME NEW w \in Owners, Crash(w) PROVE HandlerStep
  BY <1>27, <1>a DEF Crash
<1>28. CASE CancelArrives
  BY <1>28, <1>a DEF CancelArrives
<1>29. CASE CancelEnds
  BY <1>29, <1>a DEF CancelEnds
<1>30. CASE DaemonCrash
  BY <1>30 DEF DaemonCrash, HandlerStep
<1>31. CASE Tick
  BY <1>31, <1>a DEF Tick
<1>32. CASE UNCHANGED vars
  BY <1>32, <1>a DEF vars
<1> QED
  BY <1>1, <1>2, <1>3, <1>4, <1>5, <1>6, <1>7, <1>8, <1>9, <1>10, <1>11,
     <1>12, <1>13, <1>14, <1>15, <1>16, <1>17, <1>18, <1>19, <1>20, <1>21,
     <1>22, <1>23, <1>24, <1>25, <1>26, <1>27, <1>28, <1>29, <1>30, <1>31,
     <1>32
  DEF Next

LEMMA CallsStep ==
  Reported /\ HandlerStep => CallsSound'
<1> SUFFICES ASSUME Reported, HandlerStep PROVE CallsSound'
  OBVIOUS
<1> USE DEF Reported, CallsSound, CallsTyped, Completing
<1>1. CASE UNCHANGED call
  BY <1>1
<1>2. CASE call' = [w \in Owners |-> Idle]
  BY <1>2, HandlersGoOn
<1>3. ASSUME NEW w \in Owners, NEW c \in Handler, Serve(w, c),
             c.step \in {"inspect", "commit"} => Arrived(w, c) \/ Inspected(w, c)
      PROVE  CallsSound'
  BY <1>3 DEF Serve, Arrived, Inspected
<1> QED BY <1>1, <1>2, <1>3 DEF HandlerStep

LEMMA ReportedStep == Reported /\ RecordTyped /\ row \in Row /\ [Next]_vars => Reported'
  BY WorkersStep, CkptStep, HandlerSteps, CallsStep DEF Reported

LEMMA BeatsStep == BeatsTyped /\ RecordTyped /\ [Next]_vars => BeatsTyped'
<1> SUFFICES ASSUME BeatsTyped, RecordTyped, [Next]_vars PROVE BeatsTyped'
  OBVIOUS
<1> USE DEF BeatsTyped, RecordTyped
<1>1. ASSUME NEW w \in Owners,
             \/ Load(w) \/ Attach(w) \/ StartArrives(w) \/ StartSeeks(w) \/ StartLooks(w)
             \/ ResumeArrives(w) \/ ResumeFinds(w) \/ ResumeWeighs(w) \/ ClaimInspects(w)
             \/ ClaimQueues(w) \/ ClaimTakes(w)
      PROVE  UNCHANGED beat
  BY <1>1 DEF Load, Attach, StartArrives, StartSeeks, StartLooks, ResumeArrives, ResumeFinds,
              ResumeWeighs, ClaimInspects, ClaimQueues, ClaimTakes, Continue, Refused
<1>2. ASSUME NEW w \in Owners,
             \/ PollLost(w) \/ SaveActive(w) \/ StopRounds(w) \/ RefreshArrives(w)
             \/ RefreshEnds(w) \/ CompleteArrives(w) \/ CompleteInspects(w)
             \/ CompleteCommits(w) \/ SaveTerminal(w) \/ RecordSummary(w) \/ ClearCkpt(w)
             \/ SavePending(w) \/ GiveUp(w) \/ Crash(w)
      PROVE  UNCHANGED beat
  BY <1>2 DEF PollLost, SaveActive, StopRounds, RefreshArrives, RefreshEnds, CompleteArrives,
              CompleteInspects, CompleteCommits, Continue, SaveTerminal, RecordSummary,
              ClearCkpt, SavePending, GiveUp, Crash
<1>3. ASSUME NEW w \in Owners, PollArrives(w) PROVE BeatsTyped'
  <2> DEFINE b == [Idle EXCEPT !.step = "refresh", !.cancel = mem.cancel]
  <2>1. b \in [step : {"none", "refresh"}, cancel : BOOLEAN, reason : {"none"}, known : {FALSE}]
    BY DEF Idle
  <2> QED BY <1>3, <2>1 DEF PollArrives
<1>4. ASSUME NEW w \in Owners, PollEnds(w) PROVE BeatsTyped'
  BY <1>4 DEF PollEnds, Idle
<1>5. CASE DaemonCrash
  <2>1. beat' = [w \in Owners |-> Idle]
    BY <1>5 DEF DaemonCrash
  <2>2. Idle \in [step : {"none", "refresh"}, cancel : BOOLEAN, reason : {"none"}, known : {FALSE}]
    BY DEF Idle
  <2> QED BY <2>1, <2>2
<1>6. CASE CancelArrives \/ CancelEnds \/ Tick \/ UNCHANGED vars
  BY <1>6 DEF CancelArrives, CancelEnds, Tick, vars
<1> QED BY <1>1, <1>2, <1>3, <1>4, <1>5, <1>6 DEF Next

-----------------------------------------------------------------------------
(* What a step does to the row and the daemon's record: nothing, or one of *)
(* these.                                                                  *)
Requeued ==
    /\ row' = UpsertQueued(row, row.availableIn, "started")
    /\ rewound' = (rewound \/ row.status # "missing")
    /\ UNCHANGED <<mem, oper, acked>>

Leased ==
    /\ \E w \in Owners, cancel \in BOOLEAN :
          /\ Claimable(row, w)
          /\ row' = Claim(row, w, "started")
          /\ mem' = LiveMem(cancel)
    /\ UNCHANGED <<oper, acked, rewound>>

Finished ==
    /\ \E w \in Owners, reason \in WorkerReasons, cancel \in BOOLEAN :
          /\ call[w].step = "commit" /\ reason = FinalReason(w)
          /\ Completable(row, w)
          /\ Serve(w, Idle)
          /\ row' = Complete(row, reason)
          /\ mem' = [status |-> OutcomeOf(reason), cancel |-> cancel, age |-> 0]
    /\ UNCHANGED <<oper, acked, rewound>>

SharedStep ==
    \/ UNCHANGED <<row, mem, oper, acked, rewound>>
    \/ Requeued \/ Leased \/ Finished
    \/ CancelArrives \/ CancelEnds \/ DaemonCrash \/ Tick

LEMMA SharedSteps == Recorded /\ [Next]_vars => SharedStep
<1> SUFFICES ASSUME Recorded, [Next]_vars PROVE SharedStep
  OBVIOUS
<1> USE DEF Recorded, Reported
<1>1. ASSUME NEW w \in Owners, ClaimQueues(w) PROVE Requeued
  BY <1>1 DEF ClaimQueues, Requeued
<1>2. ASSUME NEW w \in Owners, ClaimTakes(w) PROVE SharedStep
  <2>1. call[w].cancel \in BOOLEAN
    BY DEF CallsSound, CallsTyped, Handler
  <2> QED BY <1>2, <2>1 DEF ClaimTakes, Refused, durable, SharedStep, Leased
<1>3. ASSUME NEW w \in Owners, PollEnds(w) PROVE SharedStep
  <2>1. beat[w].cancel \in BOOLEAN
    BY DEF BeatsTyped
  <2> QED BY <1>3, <2>1 DEF PollEnds, BeatWrites, SharedStep, Leased
<1>4. ASSUME NEW w \in Owners, RefreshEnds(w) PROVE SharedStep
  <2>1. call[w].cancel \in BOOLEAN
    BY DEF CallsSound, CallsTyped, Handler
  <2> QED BY <1>4, <2>1 DEF RefreshEnds, BeatWrites, SharedStep, Leased
<1>5. ASSUME NEW w \in Owners, CompleteCommits(w) PROVE SharedStep
  <2>1. call[w].cancel \in BOOLEAN /\ FinalReason(w) \in WorkerReasons
    BY <1>5, FinalReasonOK DEF CallsSound, CallsTyped, Handler, Completing, CompleteCommits
  <2> QED BY <1>5, <2>1 DEF CompleteCommits, SharedStep, Finished
<1>6. ASSUME NEW w \in Owners,
             \/ Load(w) \/ Attach(w) \/ StartArrives(w) \/ StartSeeks(w) \/ StartLooks(w)
             \/ ResumeArrives(w) \/ ResumeFinds(w) \/ ResumeWeighs(w) \/ ClaimInspects(w)
      PROVE  UNCHANGED <<row, mem, oper, acked, rewound>>
  BY <1>6 DEF Load, Attach, StartArrives, StartSeeks, StartLooks, ResumeArrives, ResumeFinds,
              ResumeWeighs, ClaimInspects, Continue, Refused, durable
<1>7. ASSUME NEW w \in Owners,
             \/ PollArrives(w) \/ PollLost(w) \/ SaveActive(w) \/ StopRounds(w)
             \/ RefreshArrives(w) \/ CompleteArrives(w) \/ CompleteInspects(w)
      PROVE  UNCHANGED <<row, mem, oper, acked, rewound>>
  BY <1>7 DEF PollArrives, PollLost, SaveActive, StopRounds, RefreshArrives, CompleteArrives,
              CompleteInspects, Continue, durable
<1>8. ASSUME NEW w \in Owners,
             \/ SaveTerminal(w) \/ RecordSummary(w) \/ ClearCkpt(w) \/ SavePending(w)
             \/ GiveUp(w) \/ Crash(w)
      PROVE  UNCHANGED <<row, mem, oper, acked, rewound>>
  BY <1>8 DEF SaveTerminal, RecordSummary, ClearCkpt, SavePending, GiveUp, Crash, durable
<1>9. CASE UNCHANGED vars
  BY <1>9 DEF vars, SharedStep
<1> QED
  BY <1>1, <1>2, <1>3, <1>4, <1>5, <1>6, <1>7, <1>8, <1>9 DEF Next, SharedStep

-----------------------------------------------------------------------------
(* The operations of ResearchLoopRow keep a row typed and well formed.     *)

(* A missing row is a well-formed row.                                     *)
LEMMA NoRowOK == NoRow \in Row /\ RowWellFormed(NoRow)
  BY RowAssumption
  DEF NoRow, Row, Statuses, Live, Terminal, Phases, PreStartPhases, StopReasons,
      RowWellFormed, LeaseWellFormed, CancelWellFormed, OutcomeWellFormed, WindowWellFormed

(* The queued upsert of upsertResearchLoopSchedule.                        *)
LEMMA UpsertQueuedOK ==
  ASSUME NEW r \in Row, RowWellFormed(r), NEW d \in 0..MaxDelay, NEW ph \in Phases
  PROVE  UpsertQueued(r, d, ph) \in Row /\ RowWellFormed(UpsertQueued(r, d, ph))
<1> DEFINE q == UpsertQueued(r, d, ph)
<1>1. /\ "queued" \in Statuses
      /\ NoOwner \in Owners \cup {NoOwner}
      /\ 0 \in 0..TTL
      /\ "none" \in StopReasons \cup {"none"}
      /\ (IF ph = "none" THEN r.phase ELSE ph) \in Phases
  BY RowAssumption DEF Row, Statuses, Live
<1>2. q \in Row
  BY <1>1 DEF UpsertQueued, Row
<1>3. /\ q.status = "queued"
      /\ q.leaseOwner = NoOwner
      /\ q.leaseLeft = 0
      /\ q.cancelRequested = r.cancelRequested
      /\ q.stopReason = "none"
      /\ q.finished = FALSE
  BY DEF UpsertQueued, Row
<1>4. RowWellFormed(q)
  BY <1>2, <1>3, RowAssumption
  DEF Row, Live, Terminal,
      RowWellFormed, LeaseWellFormed, CancelWellFormed, OutcomeWellFormed, WindowWellFormed
<1> QED BY <1>2, <1>4

(* The claim and heartbeat of claimResearchLoopSchedule.                   *)
LEMMA ClaimOK ==
  ASSUME NEW r \in Row, RowWellFormed(r), NEW o \in Owners, NEW ph \in Phases,
         Claimable(r, o)
  PROVE  Claim(r, o, ph) \in Row /\ RowWellFormed(Claim(r, o, ph))
<1> DEFINE q == Claim(r, o, ph)
<1>1. /\ (IF r.cancelRequested THEN "cancelling" ELSE "leased") \in Statuses
      /\ TTL \in 0..TTL
      /\ (IF ph = "none" THEN r.phase ELSE ph) \in Phases
  BY RowAssumption DEF Row, Statuses, Live
<1>2. q \in Row
  BY <1>1 DEF Claim, Row
<1>3. /\ q.status = (IF r.cancelRequested THEN "cancelling" ELSE "leased")
      /\ q.availableIn = r.availableIn
      /\ q.leaseOwner = o
      /\ q.leaseLeft = TTL
      /\ q.cancelRequested = r.cancelRequested
      /\ q.stopReason = r.stopReason
      /\ q.finished = r.finished
  BY DEF Claim, Row
<1>4. RowWellFormed(q)
  BY <1>2, <1>3, RowAssumption
  DEF Claimable, Row, Live, Terminal,
      RowWellFormed, LeaseWellFormed, CancelWellFormed, OutcomeWellFormed, WindowWellFormed
<1> QED BY <1>2, <1>4

(* cancelResearchLoopSchedule.                                             *)
LEMMA CancelOK ==
  ASSUME NEW r \in Row, RowWellFormed(r)
  PROVE  Cancel(r) \in Row /\ RowWellFormed(Cancel(r))
  BY RowAssumption
  DEF Cancel, Row, Statuses, Live, Terminal, Phases, PreStartPhases, StopReasons,
      RowWellFormed, LeaseWellFormed, CancelWellFormed, OutcomeWellFormed, WindowWellFormed

(* completeResearchLoopSchedule.                                           *)
LEMMA CompleteOK ==
  ASSUME NEW r \in Row, NEW reason \in StopReasons
  PROVE  Complete(r, reason) \in Row /\ RowWellFormed(Complete(r, reason))
<1> DEFINE q == Complete(r, reason)
<1>1. /\ OutcomeOf(reason) \in Terminal
      /\ Terminal \subseteq Statuses
      /\ NoOwner \in Owners \cup {NoOwner}
      /\ 0 \in 0..TTL
      /\ reason # "none"
  BY RowAssumption DEF OutcomeOf, StopReasons, Statuses, Terminal
<1>2. q \in Row
  BY <1>1 DEF Complete, Row
<1>3. /\ q.status = OutcomeOf(reason)
      /\ q.leaseOwner = NoOwner
      /\ q.leaseLeft = 0
      /\ q.stopReason = reason
      /\ q.finished = TRUE
  BY DEF Complete, Row
<1>4. RowWellFormed(q)
  BY <1>1, <1>2, <1>3, RowAssumption
  DEF Row, Terminal,
      RowWellFormed, LeaseWellFormed, CancelWellFormed, OutcomeWellFormed, WindowWellFormed
<1> QED BY <1>2, <1>4

(* The passage of time.                                                    *)
LEMMA AgedOK ==
  ASSUME NEW r \in Row, RowWellFormed(r)
  PROVE  Aged(r) \in Row /\ RowWellFormed(Aged(r))
<1> DEFINE q == Aged(r)
<1>1. /\ Monus1(r.leaseLeft) \in 0..TTL
      /\ Monus1(r.availableIn) \in 0..MaxDelay
      /\ r.leaseLeft = 0 => Monus1(r.leaseLeft) = 0
      /\ r.availableIn = 0 => Monus1(r.availableIn) = 0
  BY RowAssumption DEF Row, Monus1
<1>2. q \in Row
  BY <1>1 DEF Aged, Row
<1>3. /\ q.status = r.status
      /\ q.availableIn = Monus1(r.availableIn)
      /\ q.leaseOwner = r.leaseOwner
      /\ q.leaseLeft = Monus1(r.leaseLeft)
      /\ q.cancelRequested = r.cancelRequested
      /\ q.stopReason = r.stopReason
      /\ q.finished = r.finished
  BY DEF Aged, Row
<1>4. RowWellFormed(q)
  BY <1>1, <1>2, <1>3, RowAssumption
  DEF Row, Live, Terminal,
      RowWellFormed, LeaseWellFormed, CancelWellFormed, OutcomeWellFormed, WindowWellFormed
<1> QED BY <1>2, <1>4

-----------------------------------------------------------------------------
(* The row stays well formed and, once it is there, stays there; its       *)
(* cancellation sticks.                                                    *)
LEMMA RowStep ==
  ASSUME Recorded, SharedStep
  PROVE  /\ row' \in Row /\ RowWellFormed(row')
         /\ row.status # "missing" => row'.status # "missing"
         /\ row.cancelRequested => row'.cancelRequested
<1> USE DEF Recorded
<1> DEFINE Kept == /\ row.status # "missing" => row'.status # "missing"
                   /\ row.cancelRequested => row'.cancelRequested
<1>1. CASE Requeued
  <2>1. row.availableIn \in 0..MaxDelay /\ "started" \in Phases
    BY DEF Row, Phases
  <2>2. row' \in Row /\ RowWellFormed(row')
    BY <1>1, <2>1, UpsertQueuedOK DEF Requeued
  <2>3. Kept
    BY <1>1 DEF Requeued, UpsertQueued, Row
  <2> QED BY <2>2, <2>3
<1>2. CASE Leased
  <2>1. PICK w \in Owners : Claimable(row, w) /\ row' = Claim(row, w, "started")
    BY <1>2 DEF Leased
  <2>2. row' \in Row /\ RowWellFormed(row')
    BY <2>1, ClaimOK DEF Phases
  <2>3. Kept
    BY <2>1 DEF Claim, Row
  <2> QED BY <2>2, <2>3
<1>3. CASE Finished
  <2>1. PICK reason \in WorkerReasons : row' = Complete(row, reason)
    BY <1>3 DEF Finished
  <2>2. row' \in Row /\ RowWellFormed(row')
    BY <2>1, CompleteOK DEF WorkerReasons, StopReasons
  <2>3. Kept
    BY <2>1 DEF Complete, Row, OutcomeOf
  <2> QED BY <2>2, <2>3
<1>4. CASE CancelEnds
  <2>1. Kept
    BY <1>4 DEF CancelEnds, Cancel, Row, Live
  <2> QED BY <1>4, <2>1, CancelOK DEF CancelEnds
<1>5. CASE Tick
  <2>1. Kept
    BY <1>5 DEF Tick, Aged, Row
  <2> QED BY <1>5, <2>1, AgedOK DEF Tick
<1>6. CASE UNCHANGED row
  BY <1>6
<1> QED
  BY <1>1, <1>2, <1>3, <1>4, <1>5, <1>6 DEF SharedStep, CancelArrives, DaemonCrash, durable

LEMMA RecordStep ==
  ASSUME Recorded, SharedStep
  PROVE  RecordTyped' /\ Present' /\ (oper => acked < MaxCancels)'
<1> USE DEF Recorded, RecordTyped, Present, MemLive
<1>1. CASE Requeued
  BY <1>1, RowStep DEF Requeued
<1>2. CASE Leased
  <2>1. row'.status # "missing"
    BY <1>2, RowStep DEF Leased, Claimable, Live
  <2> QED BY <1>2, <2>1, ControlAssumption DEF Leased, LiveMem
<1>3. CASE Finished
  <2>1. PICK reason \in WorkerReasons, cancel \in BOOLEAN :
           mem' = [status |-> OutcomeOf(reason), cancel |-> cancel, age |-> 0]
    BY <1>3 DEF Finished
  <2>2. OutcomeOf(reason) \in Terminal
    BY DEF OutcomeOf, Terminal
  <2> QED BY <1>3, <2>1, <2>2, RowStep, ControlAssumption DEF Finished, Terminal
<1>4. CASE CancelArrives
  BY <1>4 DEF CancelArrives, durable
<1>5. CASE CancelEnds
  <2>1. row'.status # "missing"
    BY <1>5, RowStep DEF CancelEnds
  <2>2. acked' \in 0..MaxCancels /\ oper' = FALSE /\ rewound' = rewound
    BY <1>5, ControlAssumption DEF CancelEnds
  <2>3. mem' \in [status : {"none", "live"} \cup Terminal, cancel : BOOLEAN, age : 0..StaleAfter]
    BY <1>5, ControlAssumption DEF CancelEnds, LiveMem
  <2> QED BY <2>1, <2>2, <2>3
<1>6. CASE DaemonCrash
  <2>1. mem' = NoMem /\ oper' = FALSE /\ UNCHANGED <<acked, rewound>>
    BY <1>6 DEF DaemonCrash
  <2>2. mem' \in [status : {"none", "live"} \cup Terminal, cancel : BOOLEAN, age : 0..StaleAfter]
        /\ mem'.status = "none"
    BY <2>1, ControlAssumption DEF NoMem
  <2> QED BY <2>1, <2>2
<1>7. CASE Tick
  <2>1. mem' \in [status : {"none", "live"} \cup Terminal, cancel : BOOLEAN, age : 0..StaleAfter]
        /\ mem'.status = mem.status
    BY <1>7, ControlAssumption DEF Tick
  <2> QED BY <1>7, <2>1, RowStep DEF Tick
<1>8. CASE UNCHANGED <<row, mem, oper, acked, rewound>>
  BY <1>8
<1> QED BY <1>1, <1>2, <1>3, <1>4, <1>5, <1>6, <1>7, <1>8 DEF SharedStep

LEMMA RecordedStep == Recorded /\ [Next]_vars => Recorded'
<1> SUFFICES ASSUME Recorded, [Next]_vars PROVE Recorded'
  OBVIOUS
<1>1. SharedStep
  BY SharedSteps
<1>2. Reported' /\ BeatsTyped'
  BY ReportedStep, BeatsStep DEF Recorded
<1> QED BY <1>1, <1>2, RowStep, RecordStep DEF Recorded

LEMMA RecordedInit == Init => Recorded
<1> SUFFICES ASSUME Init PROVE Recorded
  OBVIOUS
<1>1. row \in Row /\ RowWellFormed(row)
  BY NoRowOK, UpsertQueuedOK, RowAssumption DEF Init, Phases, PreStartPhases
<1>2. WorkersSound /\ CkptSound
  BY DEF Init, WorkersSound, WorkersTyped, Reporting, CkptSound, CkptTyped, NoCkpt, WorkerStages,
         MaybeReason
<1>3. CallsSound
  BY HandlersGoOn DEF Init, CallsSound, CallsTyped, Completing
<1>4. BeatsTyped
  BY DEF Init, BeatsTyped, Idle
<1>5. RecordTyped /\ Present /\ (oper => acked < MaxCancels)
  <2>1. NoMem \in [status : {"none", "live"} \cup Terminal, cancel : BOOLEAN, age : 0..StaleAfter]
    BY ControlAssumption DEF NoMem
  <2>2. acked \in 0..MaxCancels
    BY ControlAssumption DEF Init
  <2> QED BY <2>1, <2>2 DEF Init, RecordTyped, Present, MemLive, NoMem
<1> QED BY <1>1, <1>2, <1>3, <1>4, <1>5 DEF Recorded, Reported

-----------------------------------------------------------------------------
(* The evidence of an outcome, a checkpoint or a summary, is never all     *)
(* taken away: a worker clears its checkpoint only once it has seen its    *)
(* summary recorded.                                                       *)
LEMMA EvidenceStays == Recorded /\ Backed /\ [Next]_vars => (Evidence => Evidence')
<1> SUFFICES ASSUME Recorded, Backed, [Next]_vars, Evidence PROVE Evidence'
  OBVIOUS
<1> USE DEF Evidence
<1>1. CASE UNCHANGED <<ckpt, ledger>>
  BY <1>1
<1>2. ASSUME NEW w \in Owners, SaveActive(w) \/ SaveTerminal(w) \/ SavePending(w)
      PROVE  Evidence'
  BY <1>2 DEF SaveActive, SaveTerminal, SavePending, Ckpt
<1>3. ASSUME NEW w \in Owners, StopRounds(w) PROVE Evidence'
  BY <1>3 DEF StopRounds, Ckpt
<1>4. ASSUME NEW w \in Owners, RecordSummary(w) PROVE Evidence'
  <2>1. why[w] # "none"
    BY <1>4 DEF RecordSummary, Recorded, Reported, WorkersSound, Reporting
  <2> QED BY <1>4, <2>1 DEF RecordSummary, Ckpt
<1>5. ASSUME NEW w \in Owners, ClearCkpt(w) PROVE Evidence'
  BY <1>5 DEF ClearCkpt, Backed
<1>6. ASSUME NEW w \in Owners,
             \/ Load(w) \/ Attach(w) \/ StartArrives(w) \/ StartSeeks(w) \/ StartLooks(w)
             \/ ResumeArrives(w) \/ ResumeFinds(w) \/ ResumeWeighs(w) \/ ClaimInspects(w)
             \/ ClaimQueues(w) \/ ClaimTakes(w) \/ PollArrives(w) \/ PollEnds(w)
      PROVE  UNCHANGED <<ckpt, ledger>>
  BY <1>6 DEF Load, Attach, StartArrives, StartSeeks, StartLooks, ResumeArrives, ResumeFinds,
              ResumeWeighs, ClaimInspects, ClaimQueues, ClaimTakes, PollArrives, PollEnds,
              Continue, Refused, durable
<1>7. ASSUME NEW w \in Owners,
             \/ PollLost(w) \/ RefreshArrives(w) \/ RefreshEnds(w) \/ CompleteArrives(w)
             \/ CompleteInspects(w) \/ CompleteCommits(w) \/ GiveUp(w) \/ Crash(w)
      PROVE  UNCHANGED <<ckpt, ledger>>
  BY <1>7 DEF PollLost, RefreshArrives, RefreshEnds, CompleteArrives, CompleteInspects,
              CompleteCommits, GiveUp, Crash, Continue, durable
<1>8. CASE CancelArrives \/ CancelEnds \/ DaemonCrash \/ Tick \/ UNCHANGED vars
  BY <1>8 DEF CancelArrives, CancelEnds, DaemonCrash, Tick, durable, vars
<1> QED BY <1>1, <1>2, <1>3, <1>4, <1>5, <1>6, <1>7, <1>8 DEF Next

(* Who has a reason, runs rounds or is about to commit has evidence.       *)
LEMMA CommitsBacked ==
  Recorded /\ Backed /\ [Next]_vars => \A v \in Owners : Completing(v)' => Evidence'
<1> SUFFICES ASSUME Recorded, Backed, [Next]_vars, NEW v \in Owners, Completing(v)'
             PROVE  Evidence
  BY EvidenceStays
<1>1. HandlerStep
  BY HandlerSteps DEF Recorded
<1> USE DEF Completing
<1>2. CASE Completing(v)
  BY <1>2 DEF Backed
<1>3. ASSUME NEW w \in Owners, NEW c \in Handler, Serve(w, c), ~Completing(v),
             c.step \in {"inspect", "commit"} => Arrived(w, c) \/ Inspected(w, c)
      PROVE  Evidence
  <2>1. w = v /\ c.step \in {"inspect", "commit"}
    BY <1>3 DEF Serve, Recorded, Reported, CallsSound, CallsTyped
  <2> QED BY <1>3, <2>1 DEF Arrived, Inspected, Backed
<1> QED BY <1>1, <1>2, <1>3, HandlersGoOn DEF HandlerStep

(* A worker that clears its checkpoint has recorded its summary, and       *)
(* summaries are only replaced by summaries.                               *)
LEMMA SummaryBeforeClear ==
  Recorded /\ Backed /\ [Next]_vars =>
      \A v \in Owners : at'[v] = "clearing" => ledger' # "none"
<1> DEFINE Goal == \A v \in Owners : at'[v] = "clearing" => ledger' # "none"
<1> SUFFICES ASSUME Recorded, Backed, [Next]_vars PROVE Goal
  OBVIOUS
<1> USE DEF Recorded, Reported, WorkersSound, WorkersTyped, Backed, Goto, Leave, workerVars, durable
<1>1. ASSUME NEW w \in Owners, Load(w) PROVE Goal
  BY <1>1 DEF Load
<1>2. ASSUME NEW w \in Owners, Attach(w) PROVE Goal
  BY <1>2 DEF Attach
<1>3. ASSUME NEW w \in Owners, StartArrives(w) PROVE Goal
  BY <1>3 DEF StartArrives
<1>4. ASSUME NEW w \in Owners, StartSeeks(w) PROVE Goal
  BY <1>4 DEF StartSeeks, Continue, Refused
<1>5. ASSUME NEW w \in Owners, StartLooks(w) PROVE Goal
  BY <1>5 DEF StartLooks, Continue, Refused
<1>6. ASSUME NEW w \in Owners, ResumeArrives(w) PROVE Goal
  BY <1>6 DEF ResumeArrives
<1>7. ASSUME NEW w \in Owners, ResumeFinds(w) PROVE Goal
  BY <1>7 DEF ResumeFinds, Continue, Refused
<1>8. ASSUME NEW w \in Owners, ResumeWeighs(w) PROVE Goal
  BY <1>8 DEF ResumeWeighs, Continue, Refused
<1>9. ASSUME NEW w \in Owners, ClaimInspects(w) PROVE Goal
  BY <1>9 DEF ClaimInspects, Continue
<1>10. ASSUME NEW w \in Owners, ClaimQueues(w) PROVE Goal
  BY <1>10 DEF ClaimQueues
<1>11. ASSUME NEW w \in Owners, ClaimTakes(w) PROVE Goal
  BY <1>11 DEF ClaimTakes, Refused
<1>12. ASSUME NEW w \in Owners, PollArrives(w) PROVE Goal
  BY <1>12 DEF PollArrives, Aborted
<1>13. ASSUME NEW w \in Owners, PollEnds(w) PROVE Goal
  BY <1>13 DEF PollEnds, Aborted
<1>14. ASSUME NEW w \in Owners, PollLost(w) PROVE Goal
  BY <1>14 DEF PollLost, Aborted
<1>15. ASSUME NEW w \in Owners, SaveActive(w) PROVE Goal
  BY <1>15 DEF SaveActive
<1>16. ASSUME NEW w \in Owners, StopRounds(w) PROVE Goal
  BY <1>16 DEF StopRounds, AbortReason
<1>17. ASSUME NEW w \in Owners, RefreshArrives(w) PROVE Goal
  BY <1>17 DEF RefreshArrives, Closes, AbortReason
<1>18. ASSUME NEW w \in Owners, RefreshEnds(w) PROVE Goal
  BY <1>18 DEF RefreshEnds, Refreshed, Closes, AbortReason
<1>19. ASSUME NEW w \in Owners, CompleteArrives(w) PROVE Goal
  BY <1>19 DEF CompleteArrives
<1>20. ASSUME NEW w \in Owners, CompleteInspects(w) PROVE Goal
  BY <1>20 DEF CompleteInspects, Continue
<1>21. ASSUME NEW w \in Owners, CompleteCommits(w) PROVE Goal
  BY <1>21 DEF CompleteCommits, Concluded, FinalReason
<1>22. ASSUME NEW w \in Owners, SaveTerminal(w) PROVE Goal
  BY <1>22 DEF SaveTerminal
<1>23. ASSUME NEW w \in Owners, RecordSummary(w) PROVE Goal
  <2>1. why[w] # "none"
    BY <1>23 DEF RecordSummary, Reporting
  <2> QED BY <1>23, <2>1 DEF RecordSummary
<1>24. ASSUME NEW w \in Owners, ClearCkpt(w) PROVE Goal
  BY <1>24 DEF ClearCkpt
<1>25. ASSUME NEW w \in Owners, SavePending(w) PROVE Goal
  BY <1>25 DEF SavePending
<1>26. ASSUME NEW w \in Owners, GiveUp(w) PROVE Goal
  BY <1>26 DEF GiveUp, Refreshed, Closes, AbortReason
<1>27. ASSUME NEW w \in Owners, Crash(w) PROVE Goal
  BY <1>27 DEF Crash
<1>28. CASE CancelArrives
  BY <1>28 DEF CancelArrives
<1>29. CASE CancelEnds
  BY <1>29 DEF CancelEnds
<1>30. CASE DaemonCrash
  BY <1>30 DEF DaemonCrash
<1>31. CASE Tick
  BY <1>31 DEF Tick
<1>32. CASE UNCHANGED vars
  BY <1>32 DEF vars
<1> QED
  BY <1>1, <1>2, <1>3, <1>4, <1>5, <1>6, <1>7, <1>8, <1>9, <1>10, <1>11,
     <1>12, <1>13, <1>14, <1>15, <1>16, <1>17, <1>18, <1>19, <1>20, <1>21,
     <1>22, <1>23, <1>24, <1>25, <1>26, <1>27, <1>28, <1>29, <1>30, <1>31,
     <1>32
  DEF Next

(* Who has a reason or runs rounds has evidence.                           *)
LEMMA ReasonsBacked ==
  Recorded /\ Backed /\ [Next]_vars =>
      \A v \in Owners : why'[v] # "none" \/ at'[v] = "running" => Evidence'
<1> DEFINE Goal == \A v \in Owners : why'[v] # "none" \/ at'[v] = "running" => Evidence \/ Evidence'
<1> SUFFICES ASSUME Recorded, Backed, [Next]_vars PROVE Goal
  BY EvidenceStays
<1> USE DEF Recorded, Reported, WorkersSound, WorkersTyped, Reporting, Backed, Goto, Leave,
            workerVars, durable
<1>1. ASSUME NEW w \in Owners, Load(w) PROVE Goal
  BY <1>1 DEF Load, Evidence
<1>2. ASSUME NEW w \in Owners, Attach(w) PROVE Goal
  BY <1>2 DEF Attach
<1>3. ASSUME NEW w \in Owners, StartArrives(w) PROVE Goal
  BY <1>3 DEF StartArrives
<1>4. ASSUME NEW w \in Owners, StartSeeks(w) PROVE Goal
  BY <1>4 DEF StartSeeks, Continue, Refused
<1>5. ASSUME NEW w \in Owners, StartLooks(w) PROVE Goal
  BY <1>5 DEF StartLooks, Continue, Refused
<1>6. ASSUME NEW w \in Owners, ResumeArrives(w) PROVE Goal
  BY <1>6 DEF ResumeArrives
<1>7. ASSUME NEW w \in Owners, ResumeFinds(w) PROVE Goal
  BY <1>7 DEF ResumeFinds, Continue, Refused
<1>8. ASSUME NEW w \in Owners, ResumeWeighs(w) PROVE Goal
  BY <1>8 DEF ResumeWeighs, Continue, Refused
<1>9. ASSUME NEW w \in Owners, ClaimInspects(w) PROVE Goal
  BY <1>9 DEF ClaimInspects, Continue
<1>10. ASSUME NEW w \in Owners, ClaimQueues(w) PROVE Goal
  BY <1>10 DEF ClaimQueues
<1>11. ASSUME NEW w \in Owners, ClaimTakes(w) PROVE Goal
  BY <1>11 DEF ClaimTakes, Refused
<1>12. ASSUME NEW w \in Owners, PollArrives(w) PROVE Goal
  BY <1>12 DEF PollArrives, Aborted
<1>13. ASSUME NEW w \in Owners, PollEnds(w) PROVE Goal
  BY <1>13 DEF PollEnds, Aborted
<1>14. ASSUME NEW w \in Owners, PollLost(w) PROVE Goal
  BY <1>14 DEF PollLost, Aborted
<1>15. ASSUME NEW w \in Owners, SaveActive(w) PROVE Goal
  BY <1>15 DEF SaveActive, Evidence, Ckpt
<1>16. ASSUME NEW w \in Owners, StopRounds(w) PROVE Goal
  BY <1>16 DEF StopRounds, AbortReason, Evidence, Ckpt
<1>17. ASSUME NEW w \in Owners, RefreshArrives(w) PROVE Goal
  BY <1>17 DEF RefreshArrives, Closes, AbortReason
<1>18. ASSUME NEW w \in Owners, RefreshEnds(w) PROVE Goal
  BY <1>18 DEF RefreshEnds, Refreshed, Closes, AbortReason
<1>19. ASSUME NEW w \in Owners, CompleteArrives(w) PROVE Goal
  BY <1>19 DEF CompleteArrives
<1>20. ASSUME NEW w \in Owners, CompleteInspects(w) PROVE Goal
  BY <1>20 DEF CompleteInspects, Continue
<1>21. ASSUME NEW w \in Owners, CompleteCommits(w) PROVE Goal
  BY <1>21 DEF CompleteCommits, Concluded, FinalReason
<1>22. ASSUME NEW w \in Owners, SaveTerminal(w) PROVE Goal
  BY <1>22 DEF SaveTerminal
<1>23. ASSUME NEW w \in Owners, RecordSummary(w) PROVE Goal
  BY <1>23 DEF RecordSummary
<1>24. ASSUME NEW w \in Owners, ClearCkpt(w) PROVE Goal
  BY <1>24 DEF ClearCkpt
<1>25. ASSUME NEW w \in Owners, SavePending(w) PROVE Goal
  BY <1>25 DEF SavePending
<1>26. ASSUME NEW w \in Owners, GiveUp(w) PROVE Goal
  BY <1>26 DEF GiveUp, Refreshed, Closes, AbortReason
<1>27. ASSUME NEW w \in Owners, Crash(w) PROVE Goal
  BY <1>27 DEF Crash
<1>28. CASE CancelArrives
  BY <1>28 DEF CancelArrives
<1>29. CASE CancelEnds
  BY <1>29 DEF CancelEnds
<1>30. CASE DaemonCrash
  BY <1>30 DEF DaemonCrash
<1>31. CASE Tick
  BY <1>31 DEF Tick
<1>32. CASE UNCHANGED vars
  BY <1>32 DEF vars
<1> QED
  BY <1>1, <1>2, <1>3, <1>4, <1>5, <1>6, <1>7, <1>8, <1>9, <1>10, <1>11,
     <1>12, <1>13, <1>14, <1>15, <1>16, <1>17, <1>18, <1>19, <1>20, <1>21,
     <1>22, <1>23, <1>24, <1>25, <1>26, <1>27, <1>28, <1>29, <1>30, <1>31,
     <1>32
  DEF Next

(* A finished row has evidence: the handler that finishes it has.          *)
LEMMA OutcomeBacked == Recorded /\ Backed /\ [Next]_vars => OutcomeRecoverable'
<1> SUFFICES ASSUME Recorded, Backed, [Next]_vars PROVE row'.finished => Evidence
  BY EvidenceStays DEF OutcomeRecoverable, Evidence
<1>1. SharedStep
  BY SharedSteps
<1>2. row.finished => Evidence
  BY DEF Backed, OutcomeRecoverable, Evidence
<1> USE DEF Recorded
<1>3. CASE Requeued
  BY <1>3 DEF Requeued, UpsertQueued, Row
<1>4. CASE Leased
  BY <1>2, <1>4 DEF Leased, Claim, Row
<1>5. CASE Finished
  BY <1>5 DEF Finished, Backed, Completing
<1>6. CASE CancelEnds
  BY <1>2, <1>6 DEF CancelEnds, Cancel, Row
<1>7. CASE Tick
  BY <1>2, <1>7 DEF Tick, Aged, Row
<1>8. CASE UNCHANGED row
  BY <1>2, <1>8
<1> QED
  BY <1>1, <1>3, <1>4, <1>5, <1>6, <1>7, <1>8 DEF SharedStep, CancelArrives, DaemonCrash, durable

LEMMA BackedStep == Recorded /\ Backed /\ [Next]_vars => Backed'
  BY CommitsBacked, SummaryBeforeClear, ReasonsBacked, OutcomeBacked DEF Backed

LEMMA BackedInit == Init => Backed
  BY RecordedInit
  DEF Init, Backed, OutcomeRecoverable, Completing, Idle, NoRow, UpsertQueued

-----------------------------------------------------------------------------
(* What a completion knows of a cancellation it keeps until it commits.    *)
LEMMA CarriedStep == Recorded /\ CancelCarried /\ [Next]_vars => CancelCarried'
<1> SUFFICES ASSUME Recorded, CancelCarried, [Next]_vars PROVE CancelCarried'
  OBVIOUS
<1>1. HandlerStep
  BY HandlerSteps DEF Recorded
<1>2. row.cancelRequested => row'.cancelRequested
  BY SharedSteps, RowStep
<1> USE DEF CancelCarried, Completing
<1>3. CASE UNCHANGED call
  BY <1>2, <1>3
<1>4. CASE call' = [w \in Owners |-> Idle]
  BY <1>4, HandlersGoOn
<1>5. ASSUME NEW w \in Owners, NEW c \in Handler, Serve(w, c),
             c.step \in {"inspect", "commit"} => Arrived(w, c) \/ Inspected(w, c)
      PROVE  CancelCarried'
  BY <1>2, <1>5
  DEF Serve, Arrived, Inspected, ShowsCancellation, Recorded, Reported, CallsSound, CallsTyped, Row
<1> QED BY <1>1, <1>3, <1>4, <1>5 DEF HandlerStep

LEMMA CarriedInit == Init => CancelCarried
  BY HandlersGoOn DEF Init, CancelCarried, Completing

-----------------------------------------------------------------------------
(* The record and the row: what RecordMatchesRow says, step by step.       *)
LEMMA MatchStep == Recorded /\ RecordMatchesRow /\ [Next]_vars => RecordMatchesRow'
<1> SUFFICES ASSUME Recorded, RecordMatchesRow, [Next]_vars PROVE RecordMatchesRow'
  OBVIOUS
<1>1. SharedStep
  BY SharedSteps
<1> USE DEF Recorded, RecordMatchesRow, MemLive, MemTerminal, Terminal
<1>2. CASE Requeued
  BY <1>2 DEF Requeued, Present, RowWellFormed, OutcomeWellFormed
<1>3. CASE Leased
  <2>1. row'.finished = FALSE
    BY <1>3 DEF Leased, Claim, Claimable, Row, Live, RowWellFormed, OutcomeWellFormed
  <2> QED BY <1>3, <2>1 DEF Leased, LiveMem
<1>4. CASE Finished
  <2>1. PICK reason \in WorkerReasons, cancel \in BOOLEAN :
           /\ row' = Complete(row, reason)
           /\ mem' = [status |-> OutcomeOf(reason), cancel |-> cancel, age |-> 0]
    BY <1>4 DEF Finished
  <2>2. row'.finished /\ row'.status = OutcomeOf(reason)
    BY <2>1 DEF Complete, Row
  <2>3. OutcomeOf(reason) # "live"
    BY DEF OutcomeOf
  <2> QED BY <2>1, <2>2, <2>3
<1>5. CASE CancelEnds
  BY <1>5 DEF CancelEnds, LiveMem
<1>6. CASE DaemonCrash
  <2>1. mem' = NoMem
    BY <1>6 DEF DaemonCrash
  <2> QED BY <2>1 DEF NoMem
<1>7. CASE Tick
  <2>1. /\ row'.finished = row.finished /\ row'.status = row.status
        /\ mem'.status = mem.status /\ mem'.cancel = mem.cancel /\ rewound' = rewound
    BY <1>7 DEF Tick, Aged, Row, RecordTyped
  <2> QED BY <2>1
<1>8. CASE UNCHANGED <<row, mem, oper, acked, rewound>>
  BY <1>8
<1>9. CASE CancelArrives
  BY <1>9 DEF CancelArrives, durable
<1> QED BY <1>1, <1>2, <1>3, <1>4, <1>5, <1>6, <1>7, <1>8, <1>9 DEF SharedStep

LEMMA AckedStep == Recorded /\ AckedCancelDurable /\ [Next]_vars => AckedCancelDurable'
<1> SUFFICES ASSUME Recorded, AckedCancelDurable, [Next]_vars PROVE AckedCancelDurable'
  OBVIOUS
<1>1. SharedStep
  BY SharedSteps
<1>a. row.cancelRequested => row'.cancelRequested
  BY <1>1, RowStep
<1> USE DEF Recorded, AckedCancelDurable
<1>2. CASE Requeued
  BY <1>a, <1>2 DEF Requeued, RowWellFormed, OutcomeWellFormed, Terminal
<1>3. CASE Leased
  BY <1>a, <1>3 DEF Leased, Claim, Row
<1>4. CASE Finished
  BY <1>4 DEF Finished, Complete, Row
<1>5. CASE CancelEnds
  <2>1. row.status \in Live \/ row.finished
    BY <1>5 DEF CancelEnds, Present, Row, Statuses, RowWellFormed, OutcomeWellFormed
  <2>2. row'.cancelRequested \/ row'.finished
    BY <1>5, <2>1 DEF CancelEnds, Cancel, Row
  <2> QED BY <2>2
<1>6. CASE Tick
  BY <1>a, <1>6 DEF Tick, Aged, Row
<1>7. CASE UNCHANGED <<row, acked, rewound>>
  BY <1>7
<1> QED
  BY <1>1, <1>2, <1>3, <1>4, <1>5, <1>6, <1>7
  DEF SharedStep, CancelArrives, DaemonCrash, durable

(* Only the re-creation of a row or an accepted cancel gives a finished    *)
(* record back to the running loops.                                       *)
LEMMA RevivalStep ==
  Recorded /\ RecordMatchesRow /\ [Next]_vars /\ MemTerminal /\ mem'.status = "live" =>
      rewound' \/ (oper /\ ~oper')
<1> SUFFICES ASSUME Recorded, RecordMatchesRow, [Next]_vars, MemTerminal, mem'.status = "live"
             PROVE  rewound' \/ (oper /\ ~oper')
  OBVIOUS
<1>1. SharedStep
  BY SharedSteps
<1> USE DEF MemTerminal, Terminal
<1>2. CASE Leased
  <2>1. ~row.finished
    BY <1>2
    DEF Leased, Claimable, Live, Recorded, Row, RowWellFormed, OutcomeWellFormed
  <2>2. rewound
    BY <2>1 DEF RecordMatchesRow
  <2> QED BY <1>2, <2>2 DEF Leased
<1>3. CASE Finished
  <2>1. PICK reason \in WorkerReasons : mem'.status = OutcomeOf(reason)
    BY <1>3 DEF Finished
  <2> QED BY <2>1 DEF OutcomeOf
<1>4. CASE CancelEnds
  BY <1>4 DEF CancelEnds
<1>5. CASE DaemonCrash
  <2>1. mem' = NoMem
    BY <1>5 DEF DaemonCrash
  <2> QED BY <2>1 DEF NoMem
<1>6. CASE Tick
  <2>1. mem'.status = mem.status
    BY <1>6 DEF Tick, Recorded, RecordTyped
  <2> QED BY <2>1
<1>7. CASE UNCHANGED mem
  BY <1>7
<1> QED
  BY <1>1, <1>2, <1>3, <1>4, <1>5, <1>6, <1>7 DEF SharedStep, Requeued, CancelArrives

(* A completion that knows of a cancellation commits no success.           *)
LEMMA CommitStep ==
  ASSUME Recorded, CancelCarried, [Next]_vars, NEW w \in Owners,
         call[w].step = "commit", call[w].known, call'[w] = Idle, row' # row
  PROVE  row'.status # "completed"
<1>1. SharedStep
  BY SharedSteps
<1> USE DEF Recorded
<1>2. CASE Requeued
  BY <1>2 DEF Requeued, UpsertQueued, Row
<1>3. CASE Leased
  BY <1>3 DEF Leased, Claim, Row
<1>4. CASE Finished
  <2>1. PICK v \in Owners :
           /\ call[v].step = "commit" /\ Serve(v, Idle)
           /\ row' = Complete(row, FinalReason(v))
    BY <1>4 DEF Finished
  <2>2. v = w
    BY <2>1, HandlersGoOn DEF Serve, Reported, CallsSound, CallsTyped
  <2>3. call[w].cancel
    BY DEF CancelCarried, Completing
  <2>4. FinalReason(w) \in {"cancelled", "control-plane-lost"}
    BY <2>3 DEF FinalReason, IsFailure
  <2>5. row'.status = OutcomeOf(FinalReason(w))
    BY <2>1, <2>2 DEF Complete, Row
  <2> QED BY <2>4, <2>5 DEF OutcomeOf
<1>5. CASE CancelEnds \/ Tick
  BY <1>5, HandlersGoOn DEF CancelEnds, Tick
<1> QED
  BY <1>1, <1>2, <1>3, <1>4, <1>5 DEF SharedStep, CancelArrives, DaemonCrash, durable

-----------------------------------------------------------------------------
IInv == Recorded /\ Backed /\ CancelCarried /\ RecordMatchesRow /\ AckedCancelDurable

LEMMA InitEstablishesIInv == Init => IInv
<1> SUFFICES ASSUME Init PROVE IInv
  OBVIOUS
<1>1. RecordMatchesRow /\ AckedCancelDurable
  BY DEF Init, RecordMatchesRow, AckedCancelDurable, MemTerminal, MemLive, NoMem, Terminal
<1> QED BY <1>1, RecordedInit, BackedInit, CarriedInit DEF IInv

LEMMA StepPreservesIInv == IInv /\ [Next]_vars => IInv'
  BY RecordedStep, BackedStep, CarriedStep, MatchStep, AckedStep DEF IInv

LEMMA IInvariant == Spec => []IInv
  BY InitEstablishesIInv, StepPreservesIInv, PTL DEF Spec

(* Every handler, record and checkpoint keeps its type, for any number of  *)
(* workers.                                                                *)
THEOREM ControlTyped == Spec => []TypeOK
<1>1. IInv => TypeOK
  BY TypeParts DEF IInv, Recorded, Reported, WorkersSound, CkptSound, CallsSound
<1> QED BY <1>1, IInvariant, PTL

(* The daemon's record never claims an outcome the durable row does not    *)
(* hold: complete writes its record only after the row accepted, and a     *)
(* heartbeat or takeover that captured an older record before its await    *)
(* cannot put it back over a finished row.                                 *)
THEOREM RecordFollowsRow == Spec => []RecordMatchesRow
  BY IInvariant, PTL DEF IInv

(* A cancellation that was acknowledged stays on the durable row through   *)
(* every later claim, takeover, requeue and daemon restart.                *)
THEOREM CancelStays == Spec => []AckedCancelDurable
  BY IInvariant, PTL DEF IInv

(* Whenever the row is finished, a checkpoint or a recorded summary tells  *)
(* the next worker how: the order of complete, terminal checkpoint,        *)
(* summary and clear leaves no crash point without either.                 *)
THEOREM OutcomeKept == Spec => []OutcomeRecoverable
<1>1. IInv => OutcomeRecoverable
  BY DEF IInv, Backed
<1> QED BY <1>1, IInvariant, PTL

(* No late heartbeat, resume or start takes a finished record back to      *)
(* life.                                                                   *)
THEOREM FinishedStaysFinished == Spec => NeverRevived
<1>1. IInv /\ [Next]_vars =>
         [MemTerminal /\ mem'.status = "live" => rewound' \/ (oper /\ ~oper')]_vars
  BY RevivalStep DEF IInv
<1> QED BY <1>1, IInvariant, PTL DEF Spec, NeverRevived

(* A completion called after the cancellation was durable never commits a  *)
(* success, even when the daemon lost its record between the two: complete *)
(* merges the row's cancellation after its await.                          *)
THEOREM CancelWins == Spec => CancelOutranksSuccess
<1> DEFINE A == \A w \in Owners :
                   call[w].step = "commit" /\ call[w].known /\ call'[w] = Idle /\ row' # row =>
                       row'.status # "completed"
<1>1. IInv /\ [Next]_vars => A
  BY CommitStep DEF IInv
<1>2. IInv /\ [Next]_vars => [A]_vars
  BY <1>1
<1>3. Spec => [][A]_vars
  BY <1>2, IInvariant, PTL DEF Spec
<1> QED BY <1>3 DEF CancelOutranksSuccess
=============================================================================
