--------------------------- MODULE RefinementQueue ---------------------------
(***************************************************************************)
(* The durable queue of semantic repairs that research asked for and that  *)
(* could not be done at once (packages/smriti/src/                         *)
(* research-refinement-queue.ts), and the passes of the daemon that fill   *)
(* and drain it (packages/anina/src/chitragupta-daemon-postprocess.ts,     *)
(* chitragupta-daemon-semantic-queue.ts, chitragupta-daemon.ts).           *)
(*                                                                         *)
(* There is a row for each scope, a project with its sessions.  Asking     *)
(* again widens the row.  The daily pass repairs scopes of its own,        *)
(* queues those that remain in debt, and drains the queue; the refresh of  *)
(* the deep sleep only drains.  The two exclude each other (module         *)
(* ResidentDaemon), but the queue is widened at any time by those who      *)
(* record outcomes and by the deep sleep.                                  *)
(*                                                                         *)
(* The work of a row (fingerprints, objectives, budgets, frontiers) is a   *)
(* set of items; a row is exact when it carries a repair to replay, which  *)
(* is taken to do the work of the row.  A row that is queued without work  *)
(* is one whose text cannot be parsed.  Time is the order in which rows    *)
(* become due.                                                             *)
(***************************************************************************)
EXTENDS Naturals, Sequences, SequencesExt

CONSTANTS
    Scopes,         \* what rows are about
    Items,          \* the work there can be
    Budget,         \* rows a pass may replay
    MaxRequests,    \* bound: requests by those who record outcomes
    MaxDays,        \* bound: days that have scopes of their own
    MaxSpoiled      \* bound: rows whose text is spoiled

QueueAssumption == Budget \in Nat \ {0} /\ {MaxRequests, MaxDays, MaxSpoiled} \subseteq Nat

VARIABLES
    row,        \* the row of each scope
    due,        \* the scopes whose time has come, the oldest first
    pass,       \* what the pass is at
    selected,   \* what the daily pass repairs itself: the work of each scope
    limit,      \* rows this pass may replay
    list,       \* the rows it has read and not yet dealt with
    drained,    \* rows it has replayed
    active,     \* whether a budget for repairs is on record and has not expired
    requests,   \* requests of others
    days,       \* daily passes with scopes of their own
    spoiled,    \* rows whose text was spoiled
    owed,       \* history: work asked for and not repaired since
    late,       \* history: the part of it asked for after the pass had read its row
    indebted    \* history: the part of it the repair of the day left in debt

queue == <<row, due>>
drain == <<pass, selected, limit, list, drained>>
bounds == <<requests, days, spoiled>>
history == <<owed, late, indebted>>
vars == <<queue, drain, active, bounds, history>>

NoRow == [queued |-> FALSE, work |-> {}, exact |-> FALSE]
Nothing == [k \in Scopes |-> {}]
Rows(k, work) == {<<k, i>> : i \in work}

-----------------------------------------------------------------------------
(***************************************************************************)
(* upsertResearchRefinementQueue: a new row, or a wider one; either way it *)
(* is due.                                                                 *)
(***************************************************************************)
Replaced(k, work, exact) ==
    row' = [row EXCEPT ![k] = [queued |-> TRUE, work |-> work, exact |-> exact]]

UpsertReplacing(k, work, exact) ==
    /\ Replaced(k, work, exact)
    /\ due' = IF k \in ToSet(due) THEN due ELSE Append(due, k)

Upsert(k, work, exact) ==
    /\ Replaced(k, row[k].work \cup work, row[k].exact \/ exact)
    /\ due' = IF k \in ToSet(due) THEN due ELSE Append(due, k)

(* deferQueuedResearchRefinementScope, and the clear beside it: by the     *)
(* identifier of the row                                                   *)
NoLongerDue(k) ==
    due' = IF k \in ToSet(due) THEN RemoveAt(due, CHOOSE n \in 1 .. Len(due) : due[n] = k) ELSE due

Defer(k) == NoLongerDue(k) /\ UNCHANGED row

Clear(k) == NoLongerDue(k) /\ row' = [row EXCEPT ![k] = NoRow]

(* Work that is owed and that a pass must not lose.                        *)
Firm == owed \ (late \cup indebted)

(* What a pass does not see any more when it is asked for now: all work of *)
(* a scope whose row it has read and not yet dealt with, and the work that *)
(* its own repair is at or has done for the day.                           *)
OnList(k) == \E n \in 1 .. Len(list) : list[n].key = k

TooLate(k) ==
    IF OnList(k) THEN Items
    ELSE IF pass \in {"repairing selected", "listing"} THEN selected[k]
    ELSE {}

Owe(k, work) ==
    /\ owed' = owed \cup Rows(k, work)
    /\ late' = (late \ Rows(k, work)) \cup (Rows(k, work \cap TooLate(k)) \ Firm)
    /\ indebted' = indebted \ Rows(k, work)

OweInDebt(k, work) ==
    /\ owed' = owed \cup Rows(k, work)
    /\ late' = late \ Rows(k, work)
    /\ indebted' = indebted \cup Rows(k, work)

(* what is repaired, or destroyed, is no longer counted *)
Forget(items) ==
    /\ owed' = owed \ items
    /\ late' = late \ items
    /\ indebted' = indebted \ items

-----------------------------------------------------------------------------
(* Somebody asks: an outcome was recorded, or the deep sleep left work.    *)
Request(k, work, exact) ==
    /\ requests < MaxRequests
    /\ requests' = requests + 1
    /\ Upsert(k, work, exact)
    /\ Owe(k, work)
    /\ UNCHANGED <<drain, active, days, spoiled>>

(* The time of a deferred row comes. *)
BecomesDue(k) ==
    /\ row[k].queued /\ k \notin ToSet(due)
    /\ due' = Append(due, k)
    /\ UNCHANGED <<row, drain, active, bounds, history>>

(* The text of a row is spoiled; what it asked for is gone.                *)
Spoil(k) ==
    /\ spoiled < MaxSpoiled /\ row[k].work # {}
    /\ spoiled' = spoiled + 1
    /\ Replaced(k, {}, FALSE)
    /\ Forget(Rows(k, row[k].work))
    /\ UNCHANGED <<due, drain, active, requests, days>>

(* upsertResearchRefinementBudget by those who record outcomes and by the  *)
(* deep sleep; and the record expires.                                     *)
BudgetRecorded ==
    /\ ~active /\ active' = TRUE
    /\ UNCHANGED <<queue, drain, bounds, history>>

BudgetExpires ==
    /\ active /\ active' = FALSE
    /\ UNCHANGED <<queue, drain, bounds, history>>

-----------------------------------------------------------------------------
(***************************************************************************)
(* runDailyDaemonPostprocess: one of the scopes of the day is repaired     *)
(* now, another one, if there is one, is queued.  When the day's scopes    *)
(* fill the budget nothing is left of it for the queue.                    *)
(***************************************************************************)
Daily(k, left, work, budget) ==
    /\ pass = "idle" /\ days < MaxDays
    /\ days' = days + 1
    /\ pass' = "repairing selected"
    /\ selected' = [Nothing EXCEPT ![k] = work]
    /\ limit' = budget
    /\ active' = TRUE
    /\ IF left = k THEN UNCHANGED <<queue, history>>
       ELSE Upsert(left, work, FALSE) /\ Owe(left, work)
    /\ UNCHANGED <<list, drained, requests, spoiled>>

(* A day whose research names no scope drains all the same, with a budget  *)
(* on record, one made of its loops and experiments, or none.              *)
DailyWithoutScopes(research) ==
    /\ pass = "idle"
    /\ pass' = "listing"
    /\ limit' = Budget
    /\ active' = (active \/ research)
    /\ UNCHANGED <<queue, selected, list, drained, bounds, history>>

(* the repair of the scope ends, well, in debt of quality, or in an error  *)
SelectedRepaired ==
    /\ pass = "repairing selected"
    /\ pass' = "listing"
    /\ Forget(UNION {Rows(k, selected[k]) : k \in Scopes})
    /\ UNCHANGED <<queue, selected, limit, list, drained, active, bounds>>

SelectedInDebt ==
    /\ pass = "repairing selected"
    /\ pass' = "listing"
    /\ \E k \in Scopes :
          /\ selected[k] # {}
          /\ Upsert(k, selected[k], FALSE)
          /\ OweInDebt(k, selected[k])
    /\ UNCHANGED <<selected, limit, list, drained, active, bounds>>

SelectedFails ==
    /\ pass = "repairing selected"
    /\ pass' = "idle"
    /\ selected' = Nothing
    /\ UNCHANGED <<queue, limit, list, drained, active, bounds, history>>

(* runSemanticEpochRefresh: without a budget on record the queue waits for *)
(* the daily pass.                                                         *)
Refresh ==
    /\ pass = "idle" /\ due # <<>> /\ active
    /\ pass' = "listing"
    /\ limit' = Budget
    /\ UNCHANGED <<queue, selected, list, drained, active, bounds, history>>

-----------------------------------------------------------------------------
(***************************************************************************)
(* drainQueuedResearchRefinementScopes: reads the due rows and deals with  *)
(* them one by one.                                                        *)
(***************************************************************************)
DrainBegins ==
    /\ pass = "listing"
    /\ pass' = "draining"
    /\ list' = [n \in 1 .. Len(due) |-> [key |-> due[n], row |-> row[due[n]]]]
    /\ drained' = 0
    /\ UNCHANGED <<queue, selected, limit, active, bounds, history>>

Entry == Head(list)

(* the parse error of an entry, and shouldSkipQueuedEntry *)
Unreadable(r) == r.queued /\ r.work = {}
Covered == selected[Entry.key] # {}

Skip ==
    IF Unreadable(Entry.row) THEN "defer"
    ELSE IF ~Covered THEN "process"
    ELSE IF Entry.row.exact \/ ~(Entry.row.work \subseteq selected[Entry.key]) THEN "keep"
    ELSE "clear"

Dealt == list' = Tail(list)

DefersUnreadable ==
    /\ pass = "draining" /\ list # <<>> /\ Skip = "defer"
    /\ Defer(Entry.key)
    /\ Dealt
    /\ UNCHANGED <<pass, selected, limit, drained, active, bounds, history>>

ClearsCovered ==
    /\ pass = "draining" /\ list # <<>> /\ Skip = "clear"
    /\ Clear(Entry.key)
    /\ Dealt
    /\ UNCHANGED <<pass, selected, limit, drained, active, bounds, history>>

KeepsExact ==
    /\ pass = "draining" /\ list # <<>> /\ Skip = "keep"
    /\ IF limit = 0 THEN UNCHANGED queue ELSE Defer(Entry.key)
    /\ Dealt
    /\ UNCHANGED <<pass, selected, limit, drained, active, bounds, history>>

LeavesForLater ==
    /\ pass = "draining" /\ list # <<>> /\ Skip = "process" /\ drained >= limit
    /\ Dealt
    /\ UNCHANGED <<queue, pass, selected, limit, drained, active, bounds, history>>

Replays ==
    /\ pass = "draining" /\ list # <<>> /\ Skip = "process" /\ drained < limit
    /\ drained' = drained + 1
    /\ pass' = "replaying"
    /\ UNCHANGED <<queue, selected, limit, list, active, bounds, history>>

ReplaySucceeds ==
    /\ pass = "replaying"
    /\ Clear(Entry.key)
    /\ Forget(Rows(Entry.key, Entry.row.work))
    /\ Dealt
    /\ pass' = "draining"
    /\ UNCHANGED <<selected, limit, drained, active, bounds>>

(* an error, or debt of quality *)
ReplayFails ==
    /\ pass = "replaying"
    /\ Defer(Entry.key)
    /\ Dealt
    /\ pass' = "draining"
    /\ UNCHANGED <<selected, limit, drained, active, bounds, history>>

(* The daily pass clears the budget when it leaves nothing open, here or   *)
(* with the epoch.                                                         *)
DrainEnds ==
    /\ pass = "draining" /\ list = <<>>
    /\ pass' = "idle"
    /\ selected' = Nothing
    /\ active' \in IF due = <<>> THEN {active, FALSE} ELSE {active}
    /\ UNCHANGED <<queue, limit, list, drained, bounds, history>>

Init ==
    /\ row = [k \in Scopes |-> NoRow]
    /\ due = <<>>
    /\ pass = "idle"
    /\ selected = Nothing
    /\ limit = 0
    /\ list = <<>>
    /\ drained = 0
    /\ active = FALSE
    /\ requests = 0 /\ days = 0 /\ spoiled = 0
    /\ owed = {} /\ late = {} /\ indebted = {}

PassStep ==
    \/ SelectedRepaired
    \/ SelectedInDebt
    \/ SelectedFails
    \/ DrainBegins
    \/ DefersUnreadable
    \/ ClearsCovered
    \/ KeepsExact
    \/ LeavesForLater
    \/ Replays
    \/ ReplaySucceeds
    \/ ReplayFails
    \/ DrainEnds

Next ==
    \/ \E k \in Scopes, work \in (SUBSET Items) \ {{}}, exact \in BOOLEAN : Request(k, work, exact)
    \/ \E k \in Scopes : BecomesDue(k)
    \/ \E k, left \in Scopes, work \in (SUBSET Items) \ {{}}, budget \in {0, Budget} : Daily(k, left, work, budget)
    \/ \E research \in BOOLEAN : DailyWithoutScopes(research)
    \/ Refresh
    \/ \E k \in Scopes : Spoil(k)
    \/ BudgetRecorded
    \/ BudgetExpires
    \/ PassStep

Spec == Init /\ [][Next]_vars

(***************************************************************************)
(* Repairs end; time passes; there is a daily pass every night, and days   *)
(* without scopes of their own go on when research rests.  Nothing is      *)
(* asked of the refresh, which has to wait for a budget that need not      *)
(* come.  That a repair which is tried again and again succeeds in the end *)
(* is a hypothesis about the repairs, not something the code provides.     *)
(***************************************************************************)
NightlyPass == \E research \in BOOLEAN : DailyWithoutScopes(research)

Fairness ==
    /\ WF_vars(PassStep)
    /\ \A k \in Scopes : WF_vars(BecomesDue(k))
    /\ SF_vars(NightlyPass)
    /\ \A k \in Scopes : SF_vars(ReplaySucceeds /\ Entry.key = k)

FairSpec == Spec /\ Fairness

-----------------------------------------------------------------------------
(***************************************************************************)
(* Properties.                                                             *)
(***************************************************************************)

(* Every variable has its type; what is due is queued, once, and so is all *)
(* that a pass still has before it.                                        *)
TypeOK ==
    /\ row \in [Scopes -> [queued : BOOLEAN, work : SUBSET Items, exact : BOOLEAN]]
    /\ \A k \in Scopes : row[k].work # {} => row[k].queued
    /\ ToSet(due) \subseteq {k \in Scopes : row[k].queued} /\ IsInjective(due)
    /\ pass \in {"idle", "repairing selected", "listing", "draining", "replaying"}
    /\ selected \in [Scopes -> SUBSET Items]
    /\ limit \in {0, Budget} /\ drained \in 0 .. Budget /\ active \in BOOLEAN
    /\ \A n \in 1 .. Len(list) : list[n].row.queued /\ row[list[n].key].queued
    /\ pass = "replaying" => list # <<>>
    /\ requests \in 0 .. MaxRequests /\ days \in 0 .. MaxDays /\ spoiled \in 0 .. MaxSpoiled
    /\ late \cup indebted \subseteq owed /\ owed \subseteq Scopes \X Items

InQueue(pair) == pair[2] \in row[pair[1]].work

(* Work that was asked for stays in the queue until it has been repaired,  *)
(* through widening, deferring, failing replays, spent budgets and the     *)
(* repairs of the day.  Two kinds of work are left out, for the code does  *)
(* lose them (RemovedOnceRepaired below): what is asked for after a pass   *)
(* has read the row of its scope or repaired the same work, and what the   *)
(* repair of the day itself leaves in debt of quality.                     *)
KeptUntilRepaired == \A pair \in Firm : InQueue(pair)

(* The queue loses no work but for these two kinds: it is kept, and the    *)
(* queue is in order.                                                      *)
WorkKept == TypeOK /\ KeptUntilRepaired

(* Every row that can be read leaves the queue in the end, when research   *)
(* rests and repairs that are tried again succeed: the nightly pass alone  *)
(* starves none for those that fail or cannot be read, nor loses one from  *)
(* sight by what the passes leave behind.                                  *)
RowsAreRepaired == \A k \in Scopes : []<>(~row[k].queued \/ Unreadable(row[k]))

-----------------------------------------------------------------------------
(***************************************************************************)
(* Expected to fail: what the repository says of the program.              *)
(***************************************************************************)

(* packages/smriti/src/research-refinement-queue.ts:501: "Remove a queued  *)
(* refinement scope once the daemon has fully repaired it."  When the      *)
(* repair of the day ends in debt of quality, its scope is queued again,   *)
(* and the drain of the same pass takes the row for covered and removes    *)
(* it; and a row is removed with what was added to it during its replay.   *)
RemovedOnceRepaired == \A pair \in owed : InQueue(pair)
=============================================================================
