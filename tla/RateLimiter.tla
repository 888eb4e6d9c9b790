----------------------------- MODULE RateLimiter -----------------------------
(***************************************************************************)
(* The limiter of calls to a provider (packages/swara/src/rate-limiter.ts):*)
(* so many requests and so many tokens in a window of time; who finds no   *)
(* room waits in a line ordered by priority, which a timer looks at.       *)
(*                                                                         *)
(* The entries of the window carry their age; those older than the window  *)
(* are gone when time passes, as the code prunes them before it looks.     *)
(***************************************************************************)
EXTENDS Naturals, Sequences, SequencesExt, FiniteSets

CONSTANTS
    Calls, TokensOf, PriorityOf,    \* 0 is the most urgent
    Limits,         \* what requestsPerMinute and tokensPerMinute are, in turn
    Window          \* the length of the window

RatesAssumption ==
    /\ TokensOf \in [Calls -> Nat] /\ PriorityOf \in [Calls -> 0 .. 2]
    /\ Limits \in Seq([requests : Nat, tokens : Nat]) /\ Limits # <<>>
    /\ Window \in Nat

VARIABLES
    config,         \* which of the limits
    window,         \* the requests in it, the oldest first
    queue,
    drainTimer,     \* whether it runs
    destroyed,
    answer          \* what each call came to

vars == <<config, window, queue, drainTimer, destroyed, answer>>

Entries == [call : Calls, age : 0 .. Window]
Entry(c) == [call |-> c, age |-> 0]

Tokens(w) == FoldSeq(LAMBDA e, n : TokensOf[e.call] + n, 0, w)

(* What was used fits the limits. *)
Fits(w, i) == Len(w) <= Limits[i].requests /\ Tokens(w) <= Limits[i].tokens

HasCapacity(c) == Fits(Append(window, Entry(c)), config)

InsertByPriority(c) ==
    LET before == {i \in DOMAIN queue : \A j \in 1 .. i : PriorityOf[queue[j]] <= PriorityOf[c]} IN
    InsertAt(queue, Cardinality(before) + 1, c)

-----------------------------------------------------------------------------
(* The fast path looks at no one in line. *)
Acquire(c) ==
    /\ answer[c] = "none"
    /\ IF destroyed
         THEN /\ answer' = [answer EXCEPT ![c] = "refused"]
              /\ UNCHANGED <<window, queue, drainTimer>>
       ELSE IF HasCapacity(c)
         THEN /\ answer' = [answer EXCEPT ![c] = "granted"]
              /\ window' = Append(window, Entry(c))
              /\ UNCHANGED <<queue, drainTimer>>
       ELSE /\ answer' = [answer EXCEPT ![c] = "waiting"]
            /\ queue' = InsertByPriority(c)
            /\ drainTimer' = TRUE
            /\ UNCHANGED window
    /\ UNCHANGED <<config, destroyed>>

(* drainQueue, when the timer fires: the longest part of the line that     *)
(* fits, one after the other.                                              *)
Granting(k) == window \o [i \in 1 .. k |-> Entry(queue[i])]
Grantable == {k \in 1 .. Len(queue) : \A j \in 1 .. k : Fits(Granting(j), config)}

Drain ==
    LET k == Cardinality(Grantable) IN
    /\ drainTimer
    /\ window' = Granting(k)
    /\ queue' = SubSeq(queue, k + 1, Len(queue))
    /\ drainTimer' = (k < Len(queue))
    /\ answer' = [c \in Calls |-> IF \E i \in 1 .. k : queue[i] = c THEN "granted" ELSE answer[c]]
    /\ UNCHANGED <<config, destroyed>>

RejectAllQueued ==
    /\ queue' = <<>>
    /\ answer' = [c \in Calls |-> IF answer[c] = "waiting" THEN "refused" ELSE answer[c]]

(* The timer goes on, and finds nobody. *)
Reset ==
    /\ window' = <<>>
    /\ RejectAllQueued
    /\ UNCHANGED <<config, drainTimer, destroyed>>

Destroy ==
    /\ destroyed' = TRUE /\ drainTimer' = FALSE
    /\ RejectAllQueued
    /\ UNCHANGED <<config, window>>

(* Nobody in line is looked at before the timer fires. *)
UpdateConfig ==
    /\ config < Len(Limits) /\ config' = config + 1
    /\ UNCHANGED <<window, queue, drainTimer, destroyed, answer>>

Tick ==
    /\ window' = [i \in 1 .. Len(SelectSeq(window, LAMBDA e : e.age < Window)) |->
                    LET e == SelectSeq(window, LAMBDA f : f.age < Window)[i] IN
                    [e EXCEPT !.age = @ + 1]]
    /\ UNCHANGED <<config, queue, drainTimer, destroyed, answer>>

Init ==
    /\ config = 1 /\ window = <<>> /\ queue = <<>>
    /\ drainTimer = FALSE /\ destroyed = FALSE
    /\ answer = [c \in Calls |-> "none"]

Next ==
    \/ \E c \in Calls : Acquire(c)
    \/ Drain \/ Reset \/ Destroy \/ UpdateConfig \/ Tick

Spec == Init /\ [][Next]_vars

(* The timer fires and time passes. *)
Fairness == WF_vars(Drain) /\ WF_vars(Tick)

FairSpec == Spec /\ Fairness
-----------------------------------------------------------------------------
TypeOK ==
    /\ config \in 1 .. Len(Limits)
    /\ window \in Seq(Entries) /\ queue \in Seq(Calls)
    /\ drainTimer \in BOOLEAN /\ destroyed \in BOOLEAN
    /\ answer \in [Calls -> {"none", "waiting", "granted", "refused"}]

(* The line is just those who wait, the more urgent first, and a timer     *)
(* runs while there is anybody in it.                                      *)
LineServed ==
    /\ ToSet(queue) = {c \in Calls : answer[c] = "waiting"} /\ IsInjective(queue)
    /\ \A i, j \in DOMAIN queue : i < j => PriorityOf[queue[i]] <= PriorityOf[queue[j]]
    /\ queue # <<>> => drainTimer

(* Never more is used in one window than some limit allowed that was set.  *)
WithinLimits == \E i \in 1 .. config : Fits(window, i)

(* Everybody in line gets an answer, if no request is larger than the      *)
(* limit and calls do not come for ever.                                   *)
NobodyWaits == queue = <<>>
Served == []<>NobodyWaits

(* Strict: nobody gets in while others of the same urgency wait. *)
InTurn ==
    [][\A c, d \in Calls : answer[c] = "waiting" /\ answer'[d] = "granted" /\ answer[d] = "none"
          => PriorityOf[d] < PriorityOf[c]]_vars
===============================================================================
