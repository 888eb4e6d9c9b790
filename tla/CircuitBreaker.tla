--------------------------- MODULE CircuitBreaker ---------------------------
(***************************************************************************)
(* The circuit breaker of one MCP server, and callers that ask it, call    *)
(* the server and report how the call went, in any order.                  *)
(*                                                                         *)
(* The code is CircuitBreaker in packages/tantra/src/mcp-circuit-breaker.ts*)
(* Times are kept as ages and as what is left of the cooldown.             *)
(***************************************************************************)
EXTENDS Integers, Sequences, SequencesExt, FiniteSets

CONSTANTS
    Calls,
    Threshold,      \* failureThreshold
    Window,         \* windowMs
    Cooldown        \* cooldownMs

BreakerAssumption ==
    /\ IsFiniteSet(Calls)
    /\ Threshold \in Nat \ {0} /\ Window \in Nat /\ Cooldown \in Nat

VARIABLES
    state,
    failureAges,    \* ages of failureTimestamps, cut at Window + 1
    left,           \* time until halfOpenAt, 0 when it has passed
    call,           \* per call: "idle", "out", or "probe" if it was admitted
                    \* in the half-open state that lasts
    healthy,        \* the server answers from now on
    given           \* what is known of the last Threshold failures since the
                    \* breaker was last closed: how many are in the window

vars == <<state, failureAges, left, call, healthy, given>>

(* getState: open becomes half-open when the cooldown has passed.          *)
Seen == IF state = "open" /\ left = 0 THEN "half-open" ELSE state

Fresh(ages) == SelectSeq(ages, LAMBDA a : a <= Window)

Late == [c \in Calls |-> IF call[c] = "probe" THEN "out" ELSE call[c]]

-----------------------------------------------------------------------------
Init ==
    /\ state = "closed" /\ failureAges = <<>> /\ left = 0
    /\ call = [c \in Calls |-> "idle"]
    /\ healthy = FALSE /\ given = <<>>

Tick ==
    /\ LET older == [i \in 1..Len(failureAges) |->
                        IF failureAges[i] > Window THEN failureAges[i] ELSE failureAges[i] + 1]
       IN  failureAges' = older
    /\ given' = SelectSeq([i \in 1..Len(given) |-> given[i] + 1], LAMBDA a : a <= Window)
    /\ left' = IF left > 0 THEN left - 1 ELSE 0
    /\ UNCHANGED <<state, call, healthy>>

(* allowCall, and the call when it is allowed.                             *)
AllowCall(c) ==
    /\ call[c] = "idle"
    /\ state' = Seen
    /\ IF Seen = "open" THEN UNCHANGED call
       ELSE call' = [call EXCEPT ![c] = IF Seen = "half-open" THEN "probe" ELSE "out"]
    /\ UNCHANGED <<failureAges, left, healthy, given>>

(* recordSuccess, when a call has gone well.                               *)
RecordSuccess(c) ==
    /\ call[c] # "idle"
    /\ state' = IF Seen = "half-open" THEN "closed" ELSE Seen
    /\ failureAges' = CASE Seen = "half-open" -> <<>>
                        [] Seen = "closed"    -> Fresh(failureAges)
                        [] OTHER              -> failureAges
    /\ left' = IF Seen = "half-open" THEN 0 ELSE left
    /\ given' = IF Seen = "half-open" THEN <<>> ELSE given
    /\ call' = [IF Seen = "half-open" THEN Late ELSE call EXCEPT ![c] = "idle"]
    /\ UNCHANGED healthy

(* recordFailure, when a call has failed.                                  *)
RecordFailure(c) ==
    LET ages == Fresh(Append(failureAges, 0))
        opens == Seen = "half-open" \/ (Seen = "closed" /\ Len(ages) >= Threshold)
    IN  /\ call[c] # "idle" /\ ~healthy
        /\ failureAges' = IF Seen = "closed" THEN ages ELSE failureAges
        /\ given' = IF Seen = "closed" THEN Append(given, 0) ELSE given
        /\ state' = IF opens THEN "open" ELSE Seen
        /\ left' = IF opens THEN Cooldown ELSE left
        /\ call' = [IF opens THEN Late ELSE call EXCEPT ![c] = "idle"]
        /\ UNCHANGED healthy

(* remove, for a server that is released from quarantine or goes away.     *)
RemoveServer ==
    /\ state' = "closed" /\ failureAges' = <<>> /\ left' = 0 /\ given' = <<>>
    /\ call' = Late
    /\ UNCHANGED healthy

ServerRecovers ==
    /\ healthy' = TRUE
    /\ UNCHANGED <<state, failureAges, left, call, given>>

Next ==
    \/ Tick
    \/ \E c \in Calls : AllowCall(c) \/ RecordSuccess(c) \/ RecordFailure(c)
    \/ RemoveServer
    \/ ServerRecovers

Spec == Init /\ [][Next]_vars

(* Time passes.  Callers need not call, nor report.                        *)
Fairness == WF_vars(Tick)

FairSpec == Spec /\ Fairness

-----------------------------------------------------------------------------
(* The variables stay in their types.                                      *)
TypeOK ==
    /\ state \in {"closed", "open", "half-open"}
    /\ failureAges \in Seq(0..(Window + 1)) /\ Len(failureAges) <= Threshold
    /\ left \in 0..Cooldown
    /\ call \in [Calls -> {"idle", "out", "probe"}]
    /\ healthy \in BOOLEAN /\ given \in Seq(0..Window)

(* A closed breaker has seen fewer than Threshold failures in the window   *)
(* since it was closed, and it counts no other; with late failures of      *)
(* calls from before it opened, too.                                       *)
ClosedMeansBelow ==
    state = "closed" => Len(given) < Threshold /\ Fresh(failureAges) = given

(* A failure that opens the breaker, also that of a probe or of a call     *)
(* from before, starts a whole cooldown, and no call goes out in it.       *)
CooldownKept ==
    [][/\ call' # call /\ state' = "open" /\ Seen # "open" => left' = Cooldown
       /\ left > 0 /\ state = "open" => \A c \in Calls : call[c] = "idle" => call'[c] = "idle"]_vars

CallersGoOn ==
    /\ WF_vars(\E c \in Calls : AllowCall(c))
    /\ WF_vars(\E c \in Calls : RecordSuccess(c) \/ RecordFailure(c))

(* Once the server answers, the breaker ends up closed and stays so,       *)
(* provided that callers go on calling and report how their calls went.    *)
HealthyCloses == CallersGoOn => <>[](healthy => state = "closed")

-----------------------------------------------------------------------------
(* Expected to fail: what the repository says of the program.              *)

(* "Half-Open: allowed (one probe)" (mcp-circuit-breaker.ts:136).          *)
OneProbe == Cardinality({c \in Calls : call[c] = "probe"}) <= 1

(* "Half-Open -> Closed: on successful probe" (mcp-circuit-breaker.ts:21): *)
(* the success that closes the breaker is that of a probe.                 *)
ProbeCloses ==
    [][state # "closed" /\ state' = "closed" =>
         \/ \E c \in Calls : call[c] = "probe" /\ call'[c] = "idle"
         \/ \A c \in Calls : call[c] = "idle" <=> call'[c] = "idle"]_vars
=============================================================================
