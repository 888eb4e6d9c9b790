--------------------------- MODULE HubLocks_proofs ---------------------------
(***************************************************************************)
(* HubLocks for any agents, resources and calls, with and without the      *)
(* deadlock detector at work: what the run "coordination" checks of three  *)
(* agents and one or two locks.                                            *)
(*                                                                         *)
(* The invariant grows by parts.  The first holds whatever agents do: who  *)
(* believes to hold a lock holds it, unless it was taken from him.  The    *)
(* second needs agents that make no call while they wait for one: then the *)
(* calls that wait for a lock are just those in its line, each once, so    *)
(* that a hand-over always reaches one that still waits.                   *)
(*                                                                         *)
(* On it rests what the detector sees: each waitQueue names the calls in   *)
(* line, in their order, so that the circles it finds are the true ones,   *)
(* and none outlives the release that was made to break it.                *)
(***************************************************************************)
EXTENDS HubLocks, SequenceTheorems, FiniteSetTheorems, WellFoundedInduction, TLAPS

IsLock(l) ==
    /\ l = [holder |-> l.holder, queue |-> l.queue, expired |-> l.expired]
    /\ l.holder \in Agents \cup {NoAgent}

Held ==
    /\ DOMAIN lock = Resources
    /\ \A r \in Resources : IsLock(lock[r])
    /\ waiters \in [Resources -> Seq(Calls)]
    /\ \A r \in Resources : \A i \in 1..Len(waiters[r]) : waiters[r][i] \in On(r)
    /\ at \in [Calls -> {"idle", "waiting", "holding"}]
    /\ ousted \subseteq Calls /\ \A c \in ousted : at[c] = "holding"
    /\ OneHolder

InLine(r, c) == \E i \in 1..Len(waiters[r]) : waiters[r][i] = c

(* The calls in the lines are the waiting ones, each once.                 *)
Line ==
    /\ \A r \in Resources : \A c \in On(r) : at[c] = "waiting" <=> InLine(r, c)
    /\ \A r \in Resources : \A i, j \in 1..Len(waiters[r]) :
          waiters[r][i] = waiters[r][j] => i = j
    /\ \A c, d \in Calls : at[c] = "waiting" /\ at[d] = "waiting" /\ AgentOf(c) = AgentOf(d) => c = d

Lined ==
    /\ Line
    /\ HolderWasTold
    /\ NoneWaitsForFree

-----------------------------------------------------------------------------
LEMMA CallParts == \A c \in Calls : AgentOf(c) \in Agents /\ c[2] \in Resources /\ c \in On(c[2])
BY DEF Calls, AgentOf, On

LEMMA OnCalls == \A r : \A c \in On(r) : c \in Calls /\ c[2] = r
BY DEF On

LEMMA RemoveAtOK ==
  ASSUME NEW S, NEW q \in Seq(S), NEW i \in 1..Len(q)
  PROVE  /\ RemoveAt(q, i) \in Seq(S) /\ Len(RemoveAt(q, i)) = Len(q) - 1
         /\ \A k \in 1..(Len(q) - 1) : RemoveAt(q, i)[k] = IF k < i THEN q[k] ELSE q[k + 1]
<1> DEFINE p == SubSeq(q, 1, i - 1)
           s == SubSeq(q, i + 1, Len(q))
<1>1. p \in Seq(S) /\ Len(p) = i - 1 /\ \A k \in 1..(i - 1) : p[k] = q[k]
  BY SubSeqProperties
<1>2. s \in Seq(S) /\ Len(s) = Len(q) - i /\ \A k \in 1..(Len(q) - i) : s[k] = q[k + i]
  BY SubSeqProperties
<1>3. RemoveAt(q, i) = p \o s
  BY DEF RemoveAt
<1> HIDE DEF p, s
<1>4. p \o s \in Seq(S) /\ Len(p \o s) = Len(q) - 1
  BY <1>1, <1>2, ConcatProperties
<1>5. \A k \in 1..(Len(q) - 1) : (p \o s)[k] = IF k < i THEN q[k] ELSE q[k + 1]
  BY <1>1, <1>2, ConcatProperties
<1> QED BY <1>3, <1>4, <1>5

(* A set of places in a line has a first.                                  *)
LEMMA SmallestIndex ==
  ASSUME NEW T \in SUBSET Nat, T # {}
  PROVE  \E i \in T : \A j \in T : i <= j
<1> DEFINE R == {ss \in Nat \X Nat : ss[1] < ss[2]}
<1>1. IsWellFoundedOn(R, Nat)
  <2>1. R = OpToRel(<, Nat)
    BY Zenon DEF OpToRel
  <2> QED BY <2>1, NatLessThanWellFounded, Zenon
<1>2. \A x, y \in Nat : x < y => <<x, y>> \in R
  OBVIOUS
<1> HIDE DEF R
<1>3. PICK i \in T : \A j \in T : ~(<<j, i>> \in R)
  BY <1>1, WFMin
<1>4. ASSUME NEW j \in T PROVE i <= j
  <2>1. i \in Nat /\ j \in Nat /\ ~(j < i)
    BY <1>2, <1>3
  <2> QED BY <2>1
<1> QED BY <1>4

(* A lock whose line or expiry changes keeps its holder.                   *)
Amended(r, x) ==
    \/ lock' = [lock EXCEPT ![r].queue = x]
    \/ lock' = [lock EXCEPT ![r].expired = x]

LEMMA LockKept ==
  ASSUME DOMAIN lock = Resources, \A r \in Resources : IsLock(lock[r]),
         NEW r \in Resources, NEW x, Amended(r, x)
  PROVE  /\ DOMAIN lock' = Resources
         /\ \A q \in Resources : IsLock(lock'[q]) /\ lock'[q].holder = lock[q].holder
BY DEF IsLock, Amended

(* The waiter a timeout takes out of the line.                             *)
LEMMA OneRemoved ==
  ASSUME Held, NEW r \in Resources, NEW c, WaitTimesOut(r, c)
  PROVE  LET mine == {i \in 1..Len(waiters[r]) : AgentOf(waiters[r][i]) = AgentOf(c)} IN
         \/ mine = {} /\ waiters' = waiters
         \/ \E i \in mine : waiters' = [waiters EXCEPT ![r] = RemoveAt(waiters[r], i)]
<1> DEFINE mine == {i \in 1..Len(waiters[r]) : AgentOf(waiters[r][i]) = AgentOf(c)}
           i0   == CHOOSE i \in mine : \A j \in mine : i <= j
<1>1. DOMAIN waiters[r] = 1..Len(waiters[r])
  BY DEF Held
<1>2. waiters' = IF mine = {} THEN waiters
                 ELSE [waiters EXCEPT ![r] = RemoveAt(waiters[r], i0)]
  BY <1>1 DEF WaitTimesOut
<1>3. mine # {} => i0 \in mine
  <2>1. mine \in SUBSET Nat
    OBVIOUS
  <2> HIDE DEF mine
  <2>2. mine # {} => \E i \in mine : \A j \in mine : i <= j
    BY <2>1, SmallestIndex
  <2> QED BY <2>2
<1> QED BY <1>2, <1>3

(* The lock a call gets when it is free or its agent's own.                *)
LEMMA Acquired ==
  ASSUME LocksAssumption, Held, NEW r \in Resources, NEW c \in On(r), AcquireNow(r, c)
  PROVE  /\ DOMAIN lock' = Resources /\ \A q \in Resources : IsLock(lock'[q])
         /\ \A q \in Resources \ {r} : lock'[q].holder = lock[q].holder
         /\ lock'[r].holder = AgentOf(c)
<1>1. AgentOf(c) \in Agents /\ lock[r].holder \in {NoAgent, AgentOf(c)}
  BY OnCalls, CallParts DEF AcquireNow
<1>2. CASE Locked(r)
  BY <1>1, <1>2 DEF AcquireNow, Locked, Held, IsLock
<1>3. CASE ~Locked(r)
  <2>1. lock' = [lock EXCEPT ![r] = NewLock(AgentOf(c), <<>>)]
    BY <1>3 DEF AcquireNow
  <2>2. IsLock(NewLock(AgentOf(c), <<>>)) /\ NewLock(AgentOf(c), <<>>).holder = AgentOf(c)
    BY <1>1 DEF NewLock, IsLock
  <2> QED BY <2>1, <2>2 DEF Held, IsLock
<1> QED BY <1>2, <1>3

-----------------------------------------------------------------------------
(* Passing locks on.                                                       *)

(* What PassOn does to each lock, line and call.                           *)
Heirs(rs) == {Head(waiters[r]) : r \in {s \in rs : waiters[s] # <<>>}}

LEMMA PassedOn ==
  ASSUME Held, NEW rs \in SUBSET Resources, NEW done, NEW lost, PassOn(rs, done, lost)
  PROVE  /\ DOMAIN lock' = Resources
         /\ \A r \in rs : waiters[r] # <<>> =>
               IsLock(lock'[r]) /\ lock'[r].holder = AgentOf(Head(waiters[r]))
         /\ \A r \in rs : waiters[r] = <<>> => IsLock(lock'[r]) /\ lock'[r].holder = NoAgent
         /\ \A r \in Resources \ rs : lock'[r] = lock[r]
         /\ waiters' \in [Resources -> Seq(Calls)]
         /\ \A r \in rs : waiters[r] # <<>> => waiters'[r] = Tail(waiters[r])
         /\ \A r \in Resources : r \notin rs \/ waiters[r] = <<>> => waiters'[r] = waiters[r]
<1> DEFINE passed == {r \in rs : waiters[r] # <<>>}
           Heir(r) == AgentOf(Head(waiters[r]))
<1>1. /\ lock'    = [r \in Resources |->
                       IF r \in passed THEN NewLock(Heir(r), Without(lock[r].queue, Heir(r)))
                       ELSE IF r \in rs THEN NoLock
                       ELSE lock[r]]
      /\ waiters' = [r \in Resources |-> IF r \in passed THEN Tail(waiters[r]) ELSE waiters[r]]
  BY DEF PassOn
<1>2. \A r \in rs : waiters[r] # <<>> =>
          Head(waiters[r]) \in Calls /\ Tail(waiters[r]) \in Seq(Calls)
  BY HeadTailProperties DEF Held
<1>3. \A a \in Agents : \A q : IsLock(NewLock(a, q)) /\ NewLock(a, q).holder = a
  BY DEF NewLock, IsLock
<1>4. IsLock(NoLock) /\ NoLock.holder = NoAgent
  BY DEF NoLock, IsLock
<1>5. /\ \A r \in rs : waiters[r] # <<>> =>
            lock'[r] = NewLock(Heir(r), Without(lock[r].queue, Heir(r))) /\ Heir(r) \in Agents
      /\ \A r \in rs : waiters[r] = <<>> => lock'[r] = NoLock
      /\ \A r \in Resources \ rs : lock'[r] = lock[r]
      /\ DOMAIN lock' = Resources
  BY <1>1, <1>2, CallParts
<1>6. waiters' \in [Resources -> Seq(Calls)]
  BY <1>1, <1>2 DEF Held
<1> QED BY <1>1, <1>3, <1>4, <1>5, <1>6

LEMMA PassedOnCalls ==
  ASSUME Held, NEW rs, NEW done, NEW lost, PassOn(rs, done, lost)
  PROVE  /\ at' \in [Calls -> {"idle", "waiting", "holding"}]
         /\ \A c \in Calls :
               /\ c \in done => at'[c] = "idle"
               /\ c \notin done /\ c \in Heirs(rs) /\ at[c] = "waiting" => at'[c] = "holding"
               /\ c \notin done /\ ~(c \in Heirs(rs) /\ at[c] = "waiting") => at'[c] = at[c]
         /\ ousted' = (ousted \cup lost) \ done
<1>1. /\ at'      = [c \in Calls |-> IF c \in done THEN "idle"
                                     ELSE IF c \in Heirs(rs) /\ at[c] = "waiting" THEN "holding"
                                     ELSE at[c]]
      /\ ousted'  = (ousted \cup lost) \ done
  BY DEF PassOn, Heirs
<1> QED BY <1>1 DEF Held

(* The first in line is a call on that resource.                           *)
LEMMA HeadOnLine ==
  ASSUME Held, NEW r \in Resources, waiters[r] # <<>>
  PROVE  /\ Head(waiters[r]) = waiters[r][1] /\ Len(waiters[r]) \in Nat \ {0}
         /\ Head(waiters[r]) \in On(r)
         /\ Len(Tail(waiters[r])) = Len(waiters[r]) - 1
         /\ \A i \in 1..(Len(waiters[r]) - 1) : Tail(waiters[r])[i] = waiters[r][i + 1]
<1>1. waiters[r] \in Seq(Calls)
  BY DEF Held
<1>2. Len(waiters[r]) \in Nat \ {0} /\ Head(waiters[r]) = waiters[r][1]
  BY <1>1
<1>3. waiters[r][1] \in On(r)
  BY <1>2 DEF Held
<1> QED BY <1>1, <1>2, <1>3, HeadTailProperties

LEMMA PassOnHeld ==
  ASSUME Held, NEW rs \in SUBSET Resources, NEW done \in SUBSET Calls, NEW lost \in SUBSET Calls,
         \A c \in done \cup lost : at[c] = "holding" /\ c[2] \in rs,
         \A r \in rs : Holding(r) \ ousted \subseteq lost \cup done,
         PassOn(rs, done, lost)
  PROVE  Held'
<1>1. /\ DOMAIN lock' = Resources /\ \A r \in Resources : IsLock(lock[r])
      /\ \A r \in rs : waiters[r] # <<>> =>
            IsLock(lock'[r]) /\ lock'[r].holder = AgentOf(Head(waiters[r]))
      /\ \A r \in rs : waiters[r] = <<>> => IsLock(lock'[r]) /\ lock'[r].holder = NoAgent
      /\ \A r \in Resources \ rs : lock'[r] = lock[r]
  BY PassedOn DEF Held
<1>2. \A r \in Resources : IsLock(lock[r])'
  BY <1>1 DEF IsLock
<1>3. /\ waiters' \in [Resources -> Seq(Calls)]
      /\ \A r \in rs : waiters[r] # <<>> => waiters'[r] = Tail(waiters[r])
      /\ \A r \in Resources : r \notin rs \/ waiters[r] = <<>> => waiters'[r] = waiters[r]
  BY PassedOn
<1>4. \A r \in Resources : \A i \in 1..Len(waiters'[r]) : waiters'[r][i] \in On(r)
  <2> SUFFICES ASSUME NEW r \in Resources, NEW i \in 1..Len(waiters'[r])
               PROVE  waiters'[r][i] \in On(r)
    OBVIOUS
  <2>1. CASE r \in rs /\ waiters[r] # <<>>
    <3>1. /\ Len(waiters'[r]) = Len(waiters[r]) - 1 /\ Len(waiters[r]) \in Nat \ {0}
          /\ \A k \in 1..(Len(waiters[r]) - 1) : waiters'[r][k] = waiters[r][k + 1]
      BY <1>3, <2>1, HeadOnLine
    <3>2. i + 1 \in 1..Len(waiters[r]) /\ waiters'[r][i] = waiters[r][i + 1]
      BY <3>1
    <3> QED BY <3>2 DEF Held
  <2>2. CASE r \notin rs \/ waiters[r] = <<>>
    BY <1>3, <2>2 DEF Held
  <2> QED BY <2>1, <2>2
<1>5. /\ at' \in [Calls -> {"idle", "waiting", "holding"}]
      /\ \A c \in Calls :
            /\ c \in done => at'[c] = "idle"
            /\ c \notin done /\ c \in Heirs(rs) /\ at[c] = "waiting" => at'[c] = "holding"
            /\ c \notin done /\ ~(c \in Heirs(rs) /\ at[c] = "waiting") => at'[c] = at[c]
      /\ ousted' = (ousted \cup lost) \ done
  BY PassedOnCalls
<1>6. ousted' \subseteq Calls /\ \A c \in ousted' : at'[c] = "holding"
  BY <1>5 DEF Held
<1>7. OneHolder'
  <2> SUFFICES ASSUME NEW r \in Resources, NEW c \in On(r), at'[c] = "holding", c \notin ousted'
               PROVE  lock'[r].holder = AgentOf(c)
    BY DEF OneHolder, Holding
  <2>1. c \in Calls /\ c[2] = r /\ c \notin done
    BY <1>5, OnCalls
  <2>2. CASE c \in Heirs(rs) /\ at[c] = "waiting"
    <3>1. PICK s \in rs : waiters[s] # <<>> /\ c = Head(waiters[s])
      BY <2>2 DEF Heirs
    <3>2. s = r
      BY <2>1, <3>1, HeadOnLine, OnCalls
    <3> QED BY <1>1, <3>1, <3>2
  <2>3. CASE at[c] = "holding"
    <3>1. c \in Holding(r) \ ousted /\ c \notin lost
      BY <1>5, <2>1, <2>3 DEF Holding
    <3>2. r \notin rs
      BY <2>1, <3>1
    <3> QED BY <1>1, <3>1, <3>2 DEF Held, OneHolder
  <2> QED BY <1>5, <2>1, <2>2, <2>3
<1> QED BY <1>1, <1>2, <1>3, <1>4, <1>5, <1>6, <1>7 DEF Held, IsLock

LEMMA PassOnLined ==
  ASSUME LocksAssumption, Held, Lined, NEW rs \in SUBSET Resources,
         NEW done \in SUBSET Calls, NEW lost \in SUBSET Calls,
         \A c \in done \cup lost : at[c] = "holding" /\ c[2] \in rs,
         PassOn(rs, done, lost)
  PROVE  Lined'
<1>1. /\ \A r \in rs : waiters[r] # <<>> => lock'[r].holder = AgentOf(Head(waiters[r]))
      /\ \A r \in rs : waiters[r] = <<>> => lock'[r].holder = NoAgent
      /\ \A r \in Resources \ rs : lock'[r] = lock[r]
  BY PassedOn
<1>2. /\ \A r \in rs : waiters[r] # <<>> => waiters'[r] = Tail(waiters[r])
      /\ \A r \in Resources : r \notin rs \/ waiters[r] = <<>> => waiters'[r] = waiters[r]
  BY PassedOn
<1>3. /\ \A c \in Calls :
            /\ c \in done => at'[c] = "idle"
            /\ c \notin done /\ c \in Heirs(rs) /\ at[c] = "waiting" => at'[c] = "holding"
            /\ c \notin done /\ ~(c \in Heirs(rs) /\ at[c] = "waiting") => at'[c] = at[c]
      /\ ousted' = (ousted \cup lost) \ done
  BY PassedOnCalls
<1>4. \A r \in rs : waiters[r] # <<>> =>
          /\ Head(waiters[r]) \in On(r) /\ at[Head(waiters[r])] = "waiting"
          /\ \A c \in On(r) : c \in Heirs(rs) <=> c = Head(waiters[r])
  <2> SUFFICES ASSUME NEW r \in rs, waiters[r] # <<>>
               PROVE  /\ Head(waiters[r]) \in On(r) /\ at[Head(waiters[r])] = "waiting"
                      /\ \A c \in On(r) : c \in Heirs(rs) <=> c = Head(waiters[r])
    OBVIOUS
  <2>1. Head(waiters[r]) \in On(r) /\ InLine(r, Head(waiters[r]))
    BY HeadOnLine DEF InLine
  <2>2. at[Head(waiters[r])] = "waiting"
    BY <2>1 DEF Lined, Line
  <2>3. \A c \in On(r) : c \in Heirs(rs) <=> c = Head(waiters[r])
    BY HeadOnLine, OnCalls DEF Heirs
  <2> QED BY <2>1, <2>2, <2>3
<1>5. \A r \in Resources : r \notin rs \/ waiters[r] = <<>> => \A c \in On(r) : c \notin Heirs(rs)
  BY HeadOnLine, OnCalls DEF Heirs
<1>6. \A r \in Resources : \A c \in On(r) : at'[c] = "waiting" <=> InLine(r, c)'
  <2> SUFFICES ASSUME NEW r \in Resources, NEW c \in On(r)
               PROVE  at'[c] = "waiting" <=> InLine(r, c)'
    OBVIOUS
  <2>1. c \in Calls /\ (at[c] = "waiting" <=> InLine(r, c)) /\ (c \in done => at[c] # "waiting")
    BY OnCalls DEF Lined, Line
  <2>2. CASE r \in rs /\ waiters[r] # <<>>
    <3>1. at'[c] = "waiting" <=> at[c] = "waiting" /\ c # Head(waiters[r])
      BY <1>3, <1>4, <2>1, <2>2
    <3>2. InLine(r, c)' <=> InLine(r, c) /\ c # Head(waiters[r])
      <4> DEFINE n == Len(waiters[r])
      <4>1. /\ waiters'[r] = Tail(waiters[r]) /\ Len(waiters'[r]) = n - 1 /\ n \in Nat \ {0}
            /\ \A i \in 1..(n - 1) : waiters'[r][i] = waiters[r][i + 1]
            /\ Head(waiters[r]) = waiters[r][1]
        BY <1>2, <2>2, HeadOnLine
      <4>2. \A i, j \in 1..n : waiters[r][i] = waiters[r][j] => i = j
        BY DEF Lined, Line
      <4> HIDE DEF n
      <4>3. ASSUME InLine(r, c)' PROVE InLine(r, c) /\ c # Head(waiters[r])
        <5>1. PICK i \in 1..(n - 1) : waiters[r][i + 1] = c
          BY <4>1, <4>3 DEF InLine
        <5>2. i + 1 \in 1..n /\ 1 \in 1..n /\ i + 1 # 1
          BY <4>1
        <5> QED BY <4>1, <4>2, <5>1, <5>2 DEF InLine, n
      <4>4. ASSUME InLine(r, c), c # Head(waiters[r]) PROVE InLine(r, c)'
        <5>1. PICK i \in 1..n : waiters[r][i] = c
          BY <4>4 DEF InLine, n
        <5>2. i # 1
          BY <4>1, <4>4, <5>1
        <5>3. i - 1 \in 1..(n - 1) /\ (i - 1) + 1 = i
          BY <4>1, <5>2
        <5>4. waiters'[r][i - 1] = c
          BY <4>1, <5>1, <5>3
        <5> QED BY <4>1, <5>3, <5>4 DEF InLine
      <4> QED BY <4>3, <4>4
    <3> QED BY <2>1, <3>1, <3>2
  <2>3. CASE r \notin rs \/ waiters[r] = <<>>
    BY <1>2, <1>3, <1>5, <2>1, <2>3 DEF InLine
  <2> QED BY <2>2, <2>3
<1>7. \A r \in Resources : \A i, j \in 1..Len(waiters'[r]) : waiters'[r][i] = waiters'[r][j] => i = j
  <2> SUFFICES ASSUME NEW r \in Resources, NEW i \in 1..Len(waiters'[r]),
                      NEW j \in 1..Len(waiters'[r]), waiters'[r][i] = waiters'[r][j]
               PROVE  i = j
    OBVIOUS
  <2>1. CASE r \in rs /\ waiters[r] # <<>>
    <3>1. /\ Len(waiters'[r]) = Len(waiters[r]) - 1 /\ Len(waiters[r]) \in Nat \ {0}
          /\ \A k \in 1..(Len(waiters[r]) - 1) : waiters'[r][k] = waiters[r][k + 1]
      BY <1>2, <2>1, HeadOnLine
    <3>2. i + 1 \in 1..Len(waiters[r]) /\ j + 1 \in 1..Len(waiters[r])
          /\ waiters[r][i + 1] = waiters[r][j + 1]
      BY <3>1
    <3>3. i + 1 = j + 1
      BY <3>2 DEF Lined, Line
    <3> QED BY <3>3
  <2>2. CASE r \notin rs \/ waiters[r] = <<>>
    BY <1>2, <2>2 DEF Lined, Line
  <2> QED BY <2>1, <2>2
<1>8. \A c \in Calls : at'[c] = "waiting" => at[c] = "waiting"
  BY <1>3
<1>9. \A c, d \in Calls : at'[c] = "waiting" /\ at'[d] = "waiting" /\ AgentOf(c) = AgentOf(d) => c = d
  BY <1>8 DEF Lined, Line
<1>10. HolderWasTold'
  <2> SUFFICES ASSUME NEW r \in Resources, lock'[r].holder # NoAgent
               PROVE  \E c \in On(r) : at'[c] = "holding" /\ c \notin ousted'
    BY DEF HolderWasTold, Locked, Holding
  <2>1. CASE r \in rs
    <3>1. waiters[r] # <<>>
      BY <1>1, <2>1
    <3> DEFINE h == Head(waiters[r])
    <3>2. h \in On(r) /\ h \in Calls /\ at[h] = "waiting" /\ h \in Heirs(rs)
      BY <1>4, <2>1, <3>1, OnCalls
    <3>3. h \notin done /\ h \notin lost /\ h \notin ousted
      BY <3>2 DEF Held
    <3> QED BY <1>3, <3>2, <3>3
  <2>2. CASE r \notin rs
    <3>1. PICK c \in On(r) : at[c] = "holding" /\ c \notin ousted
      BY <1>1, <2>2 DEF Lined, Line, HolderWasTold, Locked, Holding
    <3>2. c \in Calls /\ c \notin done /\ c \notin lost
      BY <2>2, <3>1, OnCalls
    <3> QED BY <1>3, <3>1, <3>2
  <2> QED BY <2>1, <2>2
<1>11. NoneWaitsForFree'
  <2> SUFFICES ASSUME NEW r \in Resources, NEW c \in On(r), at'[c] = "waiting"
               PROVE  lock'[r].holder # NoAgent
    BY DEF NoneWaitsForFree, Waiting, Locked
  <2>1. at[c] = "waiting" /\ InLine(r, c) /\ c \in Waiting(r)
    BY <1>8, OnCalls DEF Lined, Line, Waiting
  <2>2. CASE r \in rs
    <3>1. waiters[r] # <<>>
      BY <2>1 DEF InLine
    <3>2. AgentOf(Head(waiters[r])) \in Agents
      BY <1>4, <2>2, <3>1, OnCalls, CallParts
    <3> QED BY <1>1, <2>2, <3>1, <3>2 DEF LocksAssumption
  <2>3. CASE r \notin rs
    BY <1>1, <2>1, <2>3 DEF Lined, Line, NoneWaitsForFree, Locked
  <2> QED BY <2>2, <2>3
<1> QED BY <1>6, <1>7, <1>9, <1>10, <1>11 DEF Lined, Line

-----------------------------------------------------------------------------
(* What each step does to the holders, whatever agents do.                 *)
LEMMA HeldStep ==
  ASSUME LocksAssumption, Held, [Next]_vars
  PROVE  Held'
<1>1. ASSUME NEW r \in Resources, NEW c \in On(r), AcquireNow(r, c) PROVE Held'
  <2>1. c \in Calls /\ c[2] = r /\ AgentOf(c) \in Agents /\ AgentOf(c) # NoAgent
    BY OnCalls, CallParts DEF LocksAssumption
  <2>2. /\ lock[r].holder \in {NoAgent, AgentOf(c)} /\ at[c] = "idle"
        /\ at' = [at EXCEPT ![c] = "holding"] /\ UNCHANGED <<waiters, ousted>>
    BY <1>1 DEF AcquireNow, Ready
  <2>3. /\ DOMAIN lock' = Resources /\ \A q \in Resources : IsLock(lock[q])'
        /\ \A q \in Resources \ {r} : lock'[q].holder = lock[q].holder
        /\ lock'[r].holder = AgentOf(c)
    BY <1>1, Acquired DEF IsLock
  <2>4. c \notin ousted /\ \A d \in Calls \ {c} : at'[d] = at[d]
    BY <2>1, <2>2 DEF Held
  <2>5. OneHolder'
    <3> SUFFICES ASSUME NEW q \in Resources, NEW d \in On(q), at'[d] = "holding", d \notin ousted
                 PROVE  lock'[q].holder = AgentOf(d)
      BY <2>2 DEF OneHolder, Holding
    <3>1. CASE d = c
      BY <2>1, <2>3, <3>1, OnCalls
    <3>2. CASE d # c
      <4>1. lock[q].holder = AgentOf(d) /\ AgentOf(d) # NoAgent
        BY <2>4, <3>2, OnCalls, CallParts DEF Held, OneHolder, Holding, LocksAssumption
      <4> QED BY <2>2, <2>3, <4>1
    <3> QED BY <3>1, <3>2
  <2> QED BY <2>1, <2>2, <2>3, <2>4, <2>5 DEF Held
<1>2. ASSUME NEW r \in Resources, NEW c \in On(r), AcquireWait(r, c) PROVE Held'
  <2>1. c \in Calls /\ at[c] = "idle" /\ c \notin ousted
    BY <1>2, OnCalls DEF AcquireWait, Ready, Held
  <2>2. /\ waiters' = [waiters EXCEPT ![r] = Append(waiters[r], c)]
        /\ Amended(r, Append(lock[r].queue, AgentOf(c)))
        /\ at' = [at EXCEPT ![c] = "waiting"] /\ UNCHANGED ousted
    BY <1>2, Zenon DEF AcquireWait, Amended
  <2>3. /\ DOMAIN lock' = Resources /\ \A q \in Resources : IsLock(lock'[q])
        /\ \A q \in Resources : lock'[q].holder = lock[q].holder
    BY <2>2, LockKept DEF Held
  <2>4. /\ Append(waiters[r], c) \in Seq(Calls)
        /\ \A i \in 1..Len(Append(waiters[r], c)) : Append(waiters[r], c)[i] \in On(r)
    <3>1. waiters[r] \in Seq(Calls) /\ Len(waiters[r]) \in Nat
      BY DEF Held
    <3> QED BY <2>1, <3>1, AppendProperties DEF Held
  <2>5. waiters' \in [Resources -> Seq(Calls)]
        /\ \A q \in Resources : \A i \in 1..Len(waiters'[q]) : waiters'[q][i] \in On(q)
    BY <2>2, <2>4 DEF Held
  <2>6. /\ at' \in [Calls -> {"idle", "waiting", "holding"}]
        /\ \A d \in Calls : at'[d] = "holding" <=> at[d] = "holding"
    BY <2>1, <2>2 DEF Held
  <2>7. OneHolder'
    BY <2>2, <2>3, <2>6, OnCalls DEF Held, OneHolder, Holding
  <2>8. \A q \in Resources : IsLock(lock[q])'
    BY <2>3 DEF IsLock
  <2> QED BY <2>2, <2>3, <2>5, <2>6, <2>7, <2>8 DEF Held
<1>3. ASSUME NEW r \in Resources, NEW c \in On(r), WaitTimesOut(r, c) PROVE Held'
  <2>1. c \in Calls /\ at[c] = "waiting"
    BY <1>3, OnCalls DEF WaitTimesOut, Waiting
  <2>2. /\ Amended(r, Without(lock[r].queue, AgentOf(c)))
        /\ at' = [at EXCEPT ![c] = "idle"] /\ UNCHANGED ousted
    BY <1>3, Zenon DEF WaitTimesOut, Amended
  <2>3. /\ DOMAIN lock' = Resources /\ \A q \in Resources : IsLock(lock'[q])
        /\ \A q \in Resources : lock'[q].holder = lock[q].holder
    BY <2>2, LockKept DEF Held
  <2>4. waiters' = waiters \/ \E i \in 1..Len(waiters[r]) :
                                 waiters' = [waiters EXCEPT ![r] = RemoveAt(waiters[r], i)]
    BY <1>3, OneRemoved DEF WaitTimesOut
  <2>5. waiters' \in [Resources -> Seq(Calls)]
        /\ \A q \in Resources : \A i \in 1..Len(waiters'[q]) : waiters'[q][i] \in On(q)
    <3>1. ASSUME NEW i \in 1..Len(waiters[r])
          PROVE  /\ RemoveAt(waiters[r], i) \in Seq(Calls)
                 /\ \A k \in 1..Len(RemoveAt(waiters[r], i)) : RemoveAt(waiters[r], i)[k] \in On(r)
      <4> DEFINE q == waiters[r]
                 p == RemoveAt(q, i)
      <4>1. q \in Seq(Calls) /\ Len(q) \in Nat /\ \A k \in 1..Len(q) : q[k] \in On(r)
        BY DEF Held
      <4>2. /\ p \in Seq(Calls) /\ Len(p) = Len(q) - 1
            /\ \A k \in 1..(Len(q) - 1) : p[k] = IF k < i THEN q[k] ELSE q[k + 1]
        BY <4>1, RemoveAtOK
      <4> HIDE DEF p, q
      <4>3. ASSUME NEW k \in 1..Len(p) PROVE p[k] \in On(r)
        <5>1. k \in 1..(Len(q) - 1) /\ k \in 1..Len(q) /\ k + 1 \in 1..Len(q)
          BY <4>1, <4>2
        <5> QED BY <4>1, <4>2, <5>1
      <4> QED BY <4>2, <4>3 DEF p, q
    <3> QED BY <2>4, <3>1 DEF Held
  <2>6. /\ at' \in [Calls -> {"idle", "waiting", "holding"}]
        /\ \A d \in Calls : at'[d] = "holding" <=> at[d] = "holding"
    BY <2>1, <2>2 DEF Held
  <2>7. OneHolder'
    BY <2>2, <2>3, <2>6, OnCalls DEF Held, OneHolder, Holding
  <2>8. \A q \in Resources : IsLock(lock[q])'
    BY <2>3 DEF IsLock
  <2> QED BY <2>2, <2>3, <2>5, <2>6, <2>7, <2>8 DEF Held
<1>4. ASSUME NEW r \in Resources, NEW c \in On(r), Release(r, c) PROVE Held'
  <2>1. c \in Calls /\ c[2] = r /\ at[c] = "holding"
    BY <1>4, OnCalls DEF Release, Holding
  <2>2. CASE lock[r].holder = AgentOf(c)
    <3>1. PassOn({r}, {c}, OwnCalls(r, c))
      BY <1>4, <2>2 DEF Release
    <3>2. /\ {r} \in SUBSET Resources /\ {c} \in SUBSET Calls
          /\ OwnCalls(r, c) \in SUBSET Calls
          /\ \A d \in {c} \cup OwnCalls(r, c) : at[d] = "holding" /\ d[2] \in {r}
      BY <2>1, OnCalls DEF OwnCalls, Holding
    <3>3. \A q \in {r} : Holding(q) \ ousted \subseteq OwnCalls(r, c) \cup {c}
      BY <2>2 DEF OwnCalls, Held, OneHolder
    <3> QED BY <3>1, <3>2, <3>3, PassOnHeld
  <2>3. CASE lock[r].holder # AgentOf(c)
    <3>1. at' = [at EXCEPT ![c] = "idle"] /\ ousted' = ousted \ {c} /\ UNCHANGED <<lock, waiters>>
      BY <1>4, <2>3 DEF Release
    <3>2. /\ at' \in [Calls -> {"idle", "waiting", "holding"}] /\ at'[c] = "idle"
          /\ \A d \in Calls \ {c} : at'[d] = at[d]
      BY <2>1, <3>1 DEF Held
    <3>3. OneHolder'
      <4> SUFFICES ASSUME NEW q \in Resources, NEW d \in On(q), at'[d] = "holding", d \notin ousted'
                   PROVE  lock[q].holder = AgentOf(d)
        BY <3>1 DEF OneHolder, Holding
      <4> QED BY <3>1, <3>2, OnCalls DEF Held, OneHolder, Holding
    <3>4. ousted' \subseteq Calls /\ \A d \in ousted' : at'[d] = "holding"
      BY <3>1, <3>2 DEF Held
    <3>5. \A q \in Resources : IsLock(lock[q])'
      BY <3>1 DEF Held, IsLock
    <3> QED BY <3>1, <3>2, <3>3, <3>4, <3>5 DEF Held
  <2> QED BY <2>2, <2>3
<1>5. ASSUME NEW r \in Resources, ForceRelease(r) PROVE Held'
  <2>1. PassOn({r}, {}, Holding(r)) /\ {r} \in SUBSET Resources /\ {} \in SUBSET Calls
    BY <1>5 DEF ForceRelease
  <2>2. Holding(r) \in SUBSET Calls
        /\ \A d \in {} \cup Holding(r) : at[d] = "holding" /\ d[2] \in {r}
    BY OnCalls DEF Holding
  <2>3. \A q \in {r} : Holding(q) \ ousted \subseteq Holding(r) \cup {}
    OBVIOUS
  <2> QED BY <2>1, <2>2, <2>3, PassOnHeld
<1>6. ASSUME NEW r \in Resources, Expires(r) PROVE Held'
  <2>1. Amended(r, TRUE) /\ UNCHANGED <<waiters, at, ousted>>
    BY <1>6, Zenon DEF Expires, Amended
  <2>2. /\ DOMAIN lock' = Resources /\ \A q \in Resources : IsLock(lock'[q])
        /\ \A q \in Resources : lock'[q].holder = lock[q].holder
    BY <2>1, LockKept DEF Held
  <2>3. \A q \in Resources : IsLock(lock[q])'
    BY <2>2 DEF IsLock
  <2>4. OneHolder'
    BY <2>1, <2>2 DEF Held, OneHolder, Holding
  <2> QED BY <2>1, <2>2, <2>3, <2>4 DEF Held
<1>7. ASSUME Cleanup PROVE Held'
  <2> DEFINE rs   == {r \in Resources : lock[r].expired}
             lost == UNION {Holding(r) : r \in rs}
  <2>1. PassOn(rs, {}, lost) /\ rs \in SUBSET Resources /\ {} \in SUBSET Calls
    BY <1>7 DEF Cleanup
  <2>2. lost \in SUBSET Calls /\ \A d \in {} \cup lost : at[d] = "holding" /\ d[2] \in rs
    BY OnCalls DEF Holding
  <2>3. \A q \in rs : Holding(q) \ ousted \subseteq lost \cup {}
    OBVIOUS
  <2> HIDE DEF rs, lost
  <2> QED BY <2>1, <2>2, <2>3, PassOnHeld
<1>8. ASSUME Destroy PROVE Held'
  <2>1. /\ lock' = [r \in Resources |-> NoLock] /\ waiters' = [r \in Resources |-> <<>>]
        /\ at' = [c \in Calls |-> IF at[c] = "waiting"
                                      /\ \E r \in Resources : c \in ToSet(waiters[r])
                                  THEN "idle" ELSE at[c]]
        /\ ousted' = ousted \cup UNION {Holding(r) : r \in Resources}
    BY <1>8 DEF Destroy
  <2>2. /\ at' \in [Calls -> {"idle", "waiting", "holding"}]
        /\ \A c \in Calls : at'[c] = "holding" <=> at[c] = "holding"
    BY <2>1 DEF Held
  <2>3. DOMAIN lock' = Resources /\ \A r \in Resources : IsLock(lock[r])'
    BY <2>1 DEF NoLock, IsLock
  <2>4. waiters' \in [Resources -> Seq(Calls)] /\ \A r \in Resources : Len(waiters'[r]) = 0
    BY <2>1
  <2>5. ousted' \subseteq Calls /\ \A c \in ousted' : at'[c] = "holding"
    BY <2>1, <2>2, OnCalls DEF Held, Holding
  <2>6. OneHolder'
    BY <2>1, <2>2, OnCalls DEF OneHolder, Holding
  <2> QED BY <2>2, <2>3, <2>4, <2>5, <2>6 DEF Held
<1>9. ASSUME UNCHANGED vars PROVE Held'
  BY <1>9 DEF vars, Held, OneHolder, Holding, IsLock
<1> QED BY <1>1, <1>2, <1>3, <1>4, <1>5, <1>6, <1>7, <1>8, <1>9 DEF Next, LockStep

-----------------------------------------------------------------------------
(* What each step does to the lines, when agents make one call at a time.  *)
LEMMA LinedAcquire ==
  ASSUME LocksAssumption, Held, Lined, NEW r \in Resources, NEW c \in On(r), AcquireNow(r, c)
  PROVE  Lined'
<1>1. /\ \A q \in Resources \ {r} : lock'[q].holder = lock[q].holder
      /\ lock'[r].holder = AgentOf(c) /\ AgentOf(c) # NoAgent
      /\ c \in Calls
  BY Acquired, OnCalls, CallParts DEF LocksAssumption
<1>2. at[c] = "idle" /\ at' = [at EXCEPT ![c] = "holding"] /\ UNCHANGED <<waiters, ousted>>
  BY DEF AcquireNow, Ready
<1>3. /\ \A d \in Calls : at'[d] = "waiting" <=> at[d] = "waiting"
      /\ \A d \in Calls : at[d] = "holding" => at'[d] = "holding"
      /\ at'[c] = "holding" /\ c \notin ousted
  BY <1>1, <1>2 DEF Held
<1>4. Line'
  BY <1>2, <1>3, OnCalls DEF Lined, Line, InLine
<1>5. HolderWasTold'
  <2> SUFFICES ASSUME NEW q \in Resources, lock'[q].holder # NoAgent
               PROVE  \E d \in On(q) : at'[d] = "holding" /\ d \notin ousted
    BY <1>2 DEF HolderWasTold, Locked, Holding
  <2>1. CASE q = r
    BY <1>3, <2>1
  <2>2. CASE q # r
    BY <1>1, <1>3, <2>2, OnCalls DEF Lined, HolderWasTold, Locked, Holding
  <2> QED BY <2>1, <2>2
<1>6. NoneWaitsForFree'
  BY <1>1, <1>3, OnCalls DEF Lined, NoneWaitsForFree, Waiting, Locked
<1> QED BY <1>4, <1>5, <1>6 DEF Lined

(* When neither the holders nor who holds change, only the line matters.   *)
LEMMA LinedFrame ==
  ASSUME Held, Lined, \A r \in Resources : lock'[r].holder = lock[r].holder,
         \A c \in Calls : at[c] = "holding" <=> at'[c] = "holding",
         \A r \in Resources : \A c \in On(r) :
             at'[c] = "waiting" => at[c] = "waiting" \/ lock[r].holder # NoAgent,
         UNCHANGED ousted, Line'
  PROVE  Lined'
<1>1. HolderWasTold'
  BY OnCalls DEF Lined, HolderWasTold, Locked, Holding
<1>2. NoneWaitsForFree'
  BY OnCalls DEF Lined, NoneWaitsForFree, Waiting, Locked
<1> QED BY <1>1, <1>2 DEF Lined

LEMMA LinedWait ==
  ASSUME Sequential, Held, Lined, NEW r \in Resources, NEW c \in On(r), AcquireWait(r, c)
  PROVE  Lined'
<1>1. /\ c \in Calls /\ c[2] = r /\ at[c] = "idle" /\ lock[r].holder # NoAgent
      /\ \A d \in Calls : AgentOf(d) = AgentOf(c) => at[d] # "waiting"
  BY OnCalls DEF AcquireWait, Ready
<1>2. /\ waiters' = [waiters EXCEPT ![r] = Append(waiters[r], c)]
      /\ Amended(r, Append(lock[r].queue, AgentOf(c)))
      /\ at' = [at EXCEPT ![c] = "waiting"] /\ UNCHANGED ousted
  BY Zenon DEF AcquireWait, Amended
<1>3. \A q \in Resources : lock'[q].holder = lock[q].holder
  BY <1>2, LockKept DEF Held
<1>4. /\ \A d \in Calls : at[d] = "holding" <=> at'[d] = "holding"
      /\ \A d \in Calls \ {c} : at'[d] = at[d]
      /\ at'[c] = "waiting"
  BY <1>1, <1>2 DEF Held
<1> DEFINE n == Len(waiters[r])
<1>5. /\ n \in Nat /\ Len(waiters'[r]) = n + 1 /\ waiters'[r][n + 1] = c
      /\ \A i \in 1..n : waiters'[r][i] = waiters[r][i]
      /\ \A q \in Resources \ {r} : waiters'[q] = waiters[q]
  <2>1. waiters[r] \in Seq(Calls) /\ waiters'[r] = Append(waiters[r], c)
    BY <1>2 DEF Held
  <2> QED BY <1>1, <1>2, <2>1, AppendProperties DEF Held
<1>6. \A i \in 1..n : waiters[r][i] # c
  BY <1>1 DEF Lined, Line, InLine
<1> HIDE DEF n
<1>7. ASSUME NEW q \in Resources, NEW d \in On(q)
      PROVE  at'[d] = "waiting" <=> InLine(q, d)'
  <2>1. d \in Calls /\ d[2] = q /\ (at[d] = "waiting" <=> InLine(q, d))
    BY OnCalls DEF Lined, Line
  <2>2. CASE q # r
    BY <1>1, <1>4, <1>5, <2>1, <2>2 DEF InLine
  <2>3. CASE q = r /\ d = c
    <3>1. n + 1 \in 1..(n + 1)
      BY <1>5
    <3> QED BY <1>4, <1>5, <2>3, <3>1 DEF InLine
  <2>4. CASE q = r /\ d # c
    <3>1. \A i \in 1..(n + 1) : i \in 1..n \/ i = n + 1
      BY <1>5
    <3>2. \A i \in 1..n : i \in 1..(n + 1)
      BY <1>5
    <3>3. InLine(r, d)' <=> InLine(r, d)
      BY <1>5, <2>4, <3>1, <3>2 DEF InLine, n
    <3> QED BY <1>4, <2>1, <2>4, <3>3
  <2> QED BY <2>2, <2>3, <2>4
<1>8. ASSUME NEW q \in Resources, NEW i \in 1..Len(waiters'[q]), NEW j \in 1..Len(waiters'[q]),
             waiters'[q][i] = waiters'[q][j]
      PROVE  i = j
  <2>1. CASE q # r
    BY <1>5, <1>8, <2>1 DEF Lined, Line
  <2>2. CASE q = r
    <3>1. (i \in 1..n \/ i = n + 1) /\ (j \in 1..n \/ j = n + 1)
      BY <1>5, <2>2
    <3>2. \A k, l \in 1..n : waiters[r][k] = waiters[r][l] => k = l
      BY DEF Lined, Line, n
    <3> QED BY <1>5, <1>6, <1>8, <2>2, <3>1, <3>2
  <2> QED BY <2>1, <2>2
<1>9. \A d, e \in Calls : at'[d] = "waiting" /\ at'[e] = "waiting" /\ AgentOf(d) = AgentOf(e) => d = e
  BY <1>1, <1>4 DEF Lined, Line
<1>10. Line'
  BY <1>7, <1>8, <1>9 DEF Line
<1>11. \A q \in Resources : \A d \in On(q) :
           at'[d] = "waiting" => at[d] = "waiting" \/ lock[q].holder # NoAgent
  BY <1>1, <1>4, OnCalls
<1> QED BY <1>2, <1>3, <1>4, <1>10, <1>11, LinedFrame

(* The timer takes out of the line the call that gives up, and no other.   *)
LEMMA LinedTimeout ==
  ASSUME Held, Lined, NEW r \in Resources, NEW c \in On(r), WaitTimesOut(r, c)
  PROVE  Lined'
<1>1. c \in Calls /\ c[2] = r /\ at[c] = "waiting" /\ InLine(r, c)
  BY OnCalls DEF WaitTimesOut, Waiting, Lined, Line
<1>2. /\ Amended(r, Without(lock[r].queue, AgentOf(c)))
      /\ at' = [at EXCEPT ![c] = "idle"] /\ UNCHANGED ousted
  BY Zenon DEF WaitTimesOut, Amended
<1>3. \A q \in Resources : lock'[q].holder = lock[q].holder
  BY <1>2, LockKept DEF Held
<1>4. /\ \A d \in Calls : at[d] = "holding" <=> at'[d] = "holding"
      /\ \A d \in Calls \ {c} : at'[d] = at[d]
      /\ at'[c] = "idle"
  BY <1>1, <1>2 DEF Held
<1>5. PICK k \in 1..Len(waiters[r]) :
          AgentOf(waiters[r][k]) = AgentOf(c) /\ waiters' = [waiters EXCEPT ![r] = RemoveAt(waiters[r], k)]
  <2>1. \E i \in 1..Len(waiters[r]) : AgentOf(waiters[r][i]) = AgentOf(c)
    BY <1>1 DEF InLine
  <2> QED BY <2>1, OneRemoved
<1>6. waiters[r][k] = c
  <2>1. waiters[r][k] \in On(r) /\ InLine(r, waiters[r][k])
    BY DEF Held, InLine
  <2>2. waiters[r][k] \in Calls /\ at[waiters[r][k]] = "waiting"
    BY <2>1, OnCalls DEF Lined, Line
  <2> QED BY <1>1, <1>5, <2>2 DEF Lined, Line
<1> DEFINE n == Len(waiters[r])
<1>7. /\ n \in Nat /\ Len(waiters'[r]) = n - 1
      /\ \A i \in 1..(n - 1) : waiters'[r][i] = IF i < k THEN waiters[r][i] ELSE waiters[r][i + 1]
      /\ \A q \in Resources \ {r} : waiters'[q] = waiters[q]
  <2>1. waiters[r] \in Seq(Calls) /\ waiters'[r] = RemoveAt(waiters[r], k)
    BY <1>5 DEF Held
  <2>2. \A q \in Resources \ {r} : waiters'[q] = waiters[q]
    BY <1>5 DEF Held
  <2> DEFINE q == waiters[r]
  <2>3. q \in Seq(Calls) /\ Len(q) \in Nat /\ k \in 1..Len(q)
    BY <2>1
  <2>4. /\ Len(RemoveAt(q, k)) = Len(q) - 1
        /\ \A i \in 1..(Len(q) - 1) : RemoveAt(q, k)[i] = IF i < k THEN q[i] ELSE q[i + 1]
    <3> HIDE DEF q
    <3> QED BY <2>3, RemoveAtOK
  <2> QED BY <2>1, <2>2, <2>3, <2>4
<1>8. \A i, j \in 1..n : waiters[r][i] = waiters[r][j] => i = j
  BY DEF Lined, Line
<1>9. k \in 1..n
  OBVIOUS
<1>10. InLine(r, c) /\ \A d : InLine(r, d) <=> \E i \in 1..n : waiters[r][i] = d
  BY <1>1 DEF InLine
<1>11. \A d : InLine(r, d)' <=> \E i \in 1..(n - 1) : waiters'[r][i] = d
  BY <1>7 DEF InLine
<1> HIDE DEF n
<1>12. ASSUME NEW i \in 1..(n - 1)
       PROVE  \/ i < k /\ i \in 1..n /\ waiters'[r][i] = waiters[r][i]
              \/ i >= k /\ i + 1 \in 1..n /\ waiters'[r][i] = waiters[r][i + 1]
  BY <1>7, <1>9
<1>13. \A d : InLine(r, d)' <=> InLine(r, d) /\ d # c
  <2>1. ASSUME NEW i \in 1..(n - 1) PROVE InLine(r, waiters'[r][i]) /\ waiters'[r][i] # c
    <3>1. PICK j \in 1..n : j # k /\ waiters'[r][i] = waiters[r][j]
      <4>1. CASE i < k /\ i \in 1..n /\ waiters'[r][i] = waiters[r][i]
        BY <1>9, <4>1
      <4>2. CASE i >= k /\ i + 1 \in 1..n /\ waiters'[r][i] = waiters[r][i + 1]
        <5>1. i + 1 # k
          BY <1>9, <4>2
        <5> QED BY <4>2, <5>1
      <4> QED BY <1>12, <4>1, <4>2
    <3> QED BY <1>6, <1>8, <1>9, <1>10, <3>1
  <2>2. ASSUME NEW j \in 1..n, waiters[r][j] # c
        PROVE  \E i \in 1..(n - 1) : waiters'[r][i] = waiters[r][j]
    <3>1. j # k
      BY <1>6, <2>2
    <3>2. CASE j < k
      <4>1. j \in 1..(n - 1)
        BY <1>7, <1>9, <3>2
      <4> QED BY <1>7, <3>2, <4>1
    <3>3. CASE j > k
      <4>1. j - 1 \in 1..(n - 1) /\ ~(j - 1 < k) /\ (j - 1) + 1 = j
        BY <1>7, <1>9, <3>3
      <4>2. waiters'[r][j - 1] = waiters[r][j]
        BY <1>7, <4>1
      <4> QED BY <4>1, <4>2
    <3> QED BY <1>9, <3>1, <3>2, <3>3
  <2> QED BY <1>10, <1>11, <2>1, <2>2
<1>14. ASSUME NEW q \in Resources, NEW d \in On(q)
       PROVE  at'[d] = "waiting" <=> InLine(q, d)'
  <2>1. d \in Calls /\ d[2] = q /\ (at[d] = "waiting" <=> InLine(q, d))
    BY OnCalls DEF Lined, Line
  <2>2. CASE q # r
    BY <1>1, <1>4, <1>7, <2>1, <2>2 DEF InLine
  <2>3. CASE q = r
    BY <1>4, <1>13, <2>1, <2>3
  <2> QED BY <2>2, <2>3
<1>15. ASSUME NEW q \in Resources, NEW i \in 1..Len(waiters'[q]), NEW j \in 1..Len(waiters'[q]),
              waiters'[q][i] = waiters'[q][j]
       PROVE  i = j
  <2>1. CASE q # r
    BY <1>7, <1>15, <2>1 DEF Lined, Line
  <2>2. CASE q = r
    <3>1. i \in 1..(n - 1) /\ j \in 1..(n - 1)
      BY <1>7, <2>2
    <3>2. \A l, m \in 1..n : waiters[r][l] = waiters[r][m] => l = m
      BY <1>8
    <3>3. CASE i < k /\ j < k
      BY <1>12, <1>15, <2>2, <3>1, <3>2, <3>3, <1>9
    <3>4. CASE i >= k /\ j >= k
      <4>1. i + 1 = j + 1
        BY <1>12, <1>15, <2>2, <3>1, <3>2, <3>4, <1>9
      <4> QED BY <3>1, <4>1
    <3>5. CASE i < k /\ j >= k
      <4>1. i = j + 1
        BY <1>12, <1>15, <2>2, <3>1, <3>2, <3>5, <1>9
      <4> QED BY <1>9, <3>1, <3>5, <4>1
    <3>6. CASE i >= k /\ j < k
      <4>1. i + 1 = j
        BY <1>12, <1>15, <2>2, <3>1, <3>2, <3>6, <1>9
      <4> QED BY <1>9, <3>1, <3>6, <4>1
    <3> QED BY <1>9, <3>1, <3>3, <3>4, <3>5, <3>6
  <2> QED BY <2>1, <2>2
<1>16. \A d, e \in Calls : at'[d] = "waiting" /\ at'[e] = "waiting" /\ AgentOf(d) = AgentOf(e) => d = e
  BY <1>1, <1>4 DEF Lined, Line
<1>17. Line'
  BY <1>14, <1>15, <1>16 DEF Line
<1>18. \A q \in Resources : \A d \in On(q) :
           at'[d] = "waiting" => at[d] = "waiting" \/ lock[q].holder # NoAgent
  BY <1>1, <1>4, OnCalls
<1> QED BY <1>2, <1>3, <1>4, <1>17, <1>18, LinedFrame

LEMMA LinedStep ==
  ASSUME LocksAssumption, Sequential, Held, Lined, [Next]_vars
  PROVE  Lined'
<1>1. ASSUME NEW r \in Resources, NEW c \in On(r), AcquireNow(r, c) PROVE Lined'
  BY <1>1, LinedAcquire
<1>2. ASSUME NEW r \in Resources, NEW c \in On(r), AcquireWait(r, c) PROVE Lined'
  BY <1>2, LinedWait
<1>3. ASSUME NEW r \in Resources, NEW c \in On(r), WaitTimesOut(r, c) PROVE Lined'
  BY <1>3, LinedTimeout
<1>4. ASSUME NEW r \in Resources, NEW c \in On(r), Release(r, c) PROVE Lined'
  <2>1. c \in Calls /\ c[2] = r /\ at[c] = "holding" /\ c \in Holding(r)
    BY <1>4, OnCalls DEF Release, Holding
  <2>2. CASE lock[r].holder = AgentOf(c)
    <3>1. PassOn({r}, {c}, OwnCalls(r, c))
      BY <1>4, <2>2 DEF Release
    <3>2. /\ {r} \in SUBSET Resources /\ {c} \in SUBSET Calls
          /\ OwnCalls(r, c) \in SUBSET Calls
          /\ \A d \in {c} \cup OwnCalls(r, c) : at[d] = "holding" /\ d[2] \in {r}
      BY <2>1, OnCalls DEF OwnCalls, Holding
    <3> QED BY <3>1, <3>2, PassOnLined
  <2>3. CASE lock[r].holder # AgentOf(c)
    <3>1. at' = [at EXCEPT ![c] = "idle"] /\ ousted' = ousted \ {c} /\ UNCHANGED <<lock, waiters>>
      BY <1>4, <2>3 DEF Release
    <3>2. /\ at'[c] = "idle" /\ c \in ousted
          /\ \A d \in Calls \ {c} : at'[d] = at[d]
      BY <2>1, <2>3, <3>1 DEF Held, OneHolder
    <3>3. Line'
      BY <2>1, <3>1, <3>2, OnCalls DEF Lined, Line, InLine
    <3>4. HolderWasTold'
      <4> SUFFICES ASSUME NEW q \in Resources, lock[q].holder # NoAgent
                   PROVE  \E d \in On(q) : at'[d] = "holding" /\ d \notin ousted'
        BY <3>1 DEF HolderWasTold, Locked, Holding
      <4>1. PICK d \in On(q) : at[d] = "holding" /\ d \notin ousted
        BY DEF Lined, HolderWasTold, Locked, Holding
      <4> QED BY <3>1, <3>2, <4>1, OnCalls
    <3>5. NoneWaitsForFree'
      BY <2>1, <3>1, <3>2, OnCalls DEF Lined, NoneWaitsForFree, Waiting, Locked
    <3> QED BY <3>3, <3>4, <3>5 DEF Lined
  <2> QED BY <2>2, <2>3
<1>5. ASSUME NEW r \in Resources, ForceRelease(r) PROVE Lined'
  <2>1. PassOn({r}, {}, Holding(r)) /\ {r} \in SUBSET Resources /\ {} \in SUBSET Calls
    BY <1>5 DEF ForceRelease
  <2>2. Holding(r) \in SUBSET Calls
        /\ \A d \in {} \cup Holding(r) : at[d] = "holding" /\ d[2] \in {r}
    BY OnCalls DEF Holding
  <2> QED BY <2>1, <2>2, PassOnLined
<1>6. ASSUME NEW r \in Resources, Expires(r) PROVE Lined'
  <2>1. Amended(r, TRUE) /\ UNCHANGED <<waiters, at, ousted>>
    BY <1>6, Zenon DEF Expires, Amended
  <2>2. \A q \in Resources : lock'[q].holder = lock[q].holder
    BY <2>1, LockKept DEF Held
  <2>3. Line'
    BY <2>1 DEF Lined, Line, InLine
  <2> QED BY <2>1, <2>2, <2>3, LinedFrame
<1>7. ASSUME Cleanup PROVE Lined'
  <2> DEFINE rs   == {r \in Resources : lock[r].expired}
             lost == UNION {Holding(r) : r \in rs}
  <2>1. PassOn(rs, {}, lost) /\ rs \in SUBSET Resources /\ {} \in SUBSET Calls
    BY <1>7 DEF Cleanup
  <2>2. lost \in SUBSET Calls /\ \A d \in {} \cup lost : at[d] = "holding" /\ d[2] \in rs
    BY OnCalls DEF Holding
  <2> HIDE DEF rs, lost
  <2> QED BY <2>1, <2>2, PassOnLined
<1>8. ASSUME Destroy PROVE Lined'
  <2>1. /\ lock' = [r \in Resources |-> NoLock] /\ waiters' = [r \in Resources |-> <<>>]
        /\ at' = [c \in Calls |-> IF at[c] = "waiting"
                                      /\ \E r \in Resources : c \in ToSet(waiters[r])
                                  THEN "idle" ELSE at[c]]
    BY <1>8 DEF Destroy
  <2>2. \A c \in Calls : at[c] = "waiting" => \E r \in Resources : c \in ToSet(waiters[r])
    <3> SUFFICES ASSUME NEW c \in Calls, at[c] = "waiting"
                 PROVE  \E r \in Resources : c \in ToSet(waiters[r])
      OBVIOUS
    <3>1. PICK r \in Resources : InLine(r, c)
      BY CallParts DEF Lined, Line
    <3>2. DOMAIN waiters[r] = 1..Len(waiters[r])
      BY DEF Held
    <3> QED BY <3>1, <3>2 DEF InLine, ToSet
  <2>3. \A c \in Calls : at'[c] # "waiting"
    BY <2>1, <2>2 DEF Held
  <2>4. \A r \in Resources : Len(waiters'[r]) = 0 /\ lock'[r].holder = NoAgent
    BY <2>1 DEF NoLock
  <2>5. Line'
    BY <2>3, <2>4, OnCalls DEF Line, InLine
  <2>6. HolderWasTold' /\ NoneWaitsForFree'
    BY <2>3, <2>4, OnCalls DEF HolderWasTold, NoneWaitsForFree, Waiting, Locked
  <2> QED BY <2>5, <2>6 DEF Lined
<1>9. ASSUME UNCHANGED vars PROVE Lined'
  BY <1>9 DEF vars, Lined, Line, InLine, HolderWasTold, NoneWaitsForFree, Waiting, Holding, Locked
<1> QED BY <1>1, <1>2, <1>3, <1>4, <1>5, <1>6, <1>7, <1>8, <1>9 DEF Next, LockStep

-----------------------------------------------------------------------------
LEMMA HeldInit == ASSUME Init PROVE Held
<1>1. lock = [r \in Resources |-> NoLock] /\ IsLock(NoLock) /\ NoLock.holder = NoAgent
  BY DEF Init, NoLock, IsLock
<1>2. waiters \in [Resources -> Seq(Calls)] /\ \A r \in Resources : Len(waiters[r]) = 0
  BY DEF Init
<1>3. OneHolder
  BY OnCalls DEF Init, OneHolder, Holding
<1> QED BY <1>1, <1>2, <1>3 DEF Init, Held

LEMMA LinedInit == ASSUME Init PROVE Lined
<1>1. \A r \in Resources : Len(waiters[r]) = 0 /\ lock[r].holder = NoAgent
  BY DEF Init, NoLock
<1>2. \A c \in Calls : at[c] = "idle"
  BY DEF Init
<1>3. Line
  BY <1>1, <1>2, OnCalls DEF Line, InLine
<1> QED BY <1>1, <1>2, <1>3, OnCalls DEF Lined, HolderWasTold, NoneWaitsForFree, Waiting, Locked

(* A resolution is one forced release.                                     *)
LEMMA ResolvedByForce == ASSUME [DeadlockNext]_vars PROVE [Next]_vars
BY DEF DeadlockNext, Next, Resolves, Resolve, ResourcesFor

LEMMA LinesMatch == ASSUME Held, Lined PROVE WaitersInLine
<1> SUFFICES ASSUME NEW r \in Resources, NEW c \in On(r), at[c] = "waiting"
             PROVE  c \in ToSet(waiters[r])
  BY DEF WaitersInLine, Waiting
<1>1. InLine(r, c)
  BY DEF Lined, Line
<1>2. DOMAIN waiters[r] = 1..Len(waiters[r])
  BY DEF Held
<1> QED BY <1>1, <1>2 DEF InLine, ToSet

(* Whatever agents do, and whatever expires or is released by force, those *)
(* who believe they hold a lock hold it, apart from those it was taken     *)
(* from (LockManager).                                                     *)
THEOREM LockHasOneHolder == ASSUME LocksAssumption PROVE Spec => []OneHolder
<1>1. Spec => []Held
  <2>1. Held /\ [Next]_vars => Held'
    BY HeldStep
  <2> QED BY <2>1, HeldInit, PTL DEF Spec
<1>2. Held => OneHolder
  BY DEF Held
<1> QED BY <1>1, <1>2, PTL

LEMMA AlwaysLined ==
  ASSUME LocksAssumption, Sequential
  PROVE  Spec => [](Held /\ Lined)
<1>1. Held /\ Lined /\ [Next]_vars => Held' /\ Lined'
  BY HeldStep, LinedStep
<1> QED BY <1>1, HeldInit, LinedInit, PTL DEF Spec

(* Among agents that make no call while they wait, a lock is never handed  *)
(* to a call that has been rejected (releaseLock against the timer), nobody*)
(* waits for a free lock, and every waiting call is in line.               *)
THEOREM LocksReachTheirHolders ==
  ASSUME LocksAssumption, Sequential
  PROVE  Spec => [](HolderWasTold /\ NoneWaitsForFree /\ WaitersInLine)
<1>1. Held /\ Lined => HolderWasTold /\ NoneWaitsForFree /\ WaitersInLine
  BY LinesMatch DEF Lined
<1> QED BY <1>1, AlwaysLined, PTL

(* The same with the detector at work, whose resolutions are forced        *)
(* releases: it never leaves a lock with a holder who was not told.        *)
THEOREM ResolvingKeepsLocks ==
  ASSUME LocksAssumption
  PROVE  DeadlockSpec => []OneHolder /\ (Sequential => [](HolderWasTold /\ NoneWaitsForFree))
<1>1. DeadlockSpec => Spec
  BY ResolvedByForce, PTL DEF DeadlockSpec, Spec
<1>2. CASE Sequential
  BY <1>1, <1>2, LockHasOneHolder, LocksReachTheirHolders, PTL
<1>3. CASE ~Sequential
  BY <1>1, <1>3, LockHasOneHolder, PTL
<1> QED BY <1>2, <1>3

-----------------------------------------------------------------------------
(* The waitQueues.                                                         *)

(* The rank of an index among those that are kept when one goes.           *)
LEMMA Rank ==
  ASSUME NEW m \in Nat, NEW k \in 1..m, NEW i \in (1..m) \ {k}
  PROVE  Cardinality({j \in (1..m) \ {k} : j <= i}) = IF i < k THEN i ELSE i - 1
<1>1. IsFiniteSet(1..i) /\ Cardinality(1..i) = i
  BY FS_Interval
<1>2. CASE i < k
  <2>1. {j \in (1..m) \ {k} : j <= i} = 1..i
    BY <1>2
  <2> QED BY <1>1, <1>2, <2>1
<1>3. CASE i > k
  <2>1. {j \in (1..m) \ {k} : j <= i} = (1..i) \ {k}
    BY <1>3
  <2>2. k \in 1..i
    BY <1>3
  <2>3. Cardinality((1..i) \ {k}) = i - 1
    BY <1>1, <2>2, FS_RemoveElement
  <2> QED BY <1>3, <2>1, <2>3
<1> QED BY <1>1, <1>3

(* Filtering away the one entry of an agent moves the later ones up.       *)
LEMMA WithoutOne ==
  ASSUME NEW q, Len(q) \in Nat, NEW k \in 1..Len(q), NEW a,
         \A i \in 1..Len(q) : q[i] = a <=> i = k
  PROVE  Without(q, a) = [n \in 1..(Len(q) - 1) |-> IF n < k THEN q[n] ELSE q[n + 1]]
<1> DEFINE m == Len(q)
           kept == (1..m) \ {k}
           nth(n) == CHOOSE i \in kept : Cardinality({j \in kept : j <= i}) = n
<1>1. Without(q, a) = [n \in 1..Cardinality(kept) |-> q[nth(n)]]
  <2> DEFINE others == {i \in 1..Len(q) : q[i] # a}
             Of(s) == [n \in 1..Cardinality(s) |->
                         q[CHOOSE i \in s : Cardinality({j \in s : j <= i}) = n]]
  <2>1. Without(q, a) = Of(others)
    BY Zenon DEF Without
  <2>2. others = kept
    OBVIOUS
  <2>3. Of(kept) = [n \in 1..Cardinality(kept) |-> q[nth(n)]]
    BY Zenon
  <2> HIDE DEF Of, others, kept, nth
  <2> QED BY <2>1, <2>2, <2>3
<1>3. Cardinality(kept) = m - 1
  <2>1. IsFiniteSet(1..m) /\ Cardinality(1..m) = m
    BY FS_Interval
  <2> QED BY <2>1, FS_RemoveElement
<1>4. ASSUME NEW n \in 1..(m - 1) PROVE nth(n) = IF n < k THEN n ELSE n + 1
  <2> DEFINE x == IF n < k THEN n ELSE n + 1
  <2>1. x \in kept
    OBVIOUS
  <2>2. \A i \in kept : Cardinality({j \in kept : j <= i}) = IF i < k THEN i ELSE i - 1
    BY Rank
  <2>3. \A i \in kept : (IF i < k THEN i ELSE i - 1) = n <=> i = x
    OBVIOUS
  <2> HIDE DEF kept, x
  <2>4. \A i \in kept : Cardinality({j \in kept : j <= i}) = n <=> i = x
    BY <2>2, <2>3
  <2>5. nth(n) = x
    BY <2>1, <2>4
  <2> QED BY <2>5 DEF x
<1> HIDE DEF nth, kept
<1>5. Without(q, a) = [n \in 1..(m - 1) |-> q[nth(n)]]
  BY <1>1, <1>3
<1>6. \A n \in 1..(m - 1) : q[nth(n)] = IF n < k THEN q[n] ELSE q[n + 1]
  BY <1>4
<1> HIDE DEF m
<1>7. Without(q, a) = [n \in 1..(m - 1) |-> IF n < k THEN q[n] ELSE q[n + 1]]
  BY <1>5, <1>6
<1> QED BY <1>7 DEF m

(* The agents of the calls in a line.                                      *)
Names(w) == [i \in DOMAIN w |-> AgentOf(w[i])]

(* What the detector reads of the locks is true.                           *)
Seen ==
    /\ lock = [r \in Resources |-> lock[r]]
    /\ \A r \in Resources : lock[r].queue = Names(waiters[r])
    /\ \A r \in Resources : \A c \in On(r) : at[c] = "waiting" => AgentOf(c) # lock[r].holder
    /\ \A r \in Resources : lock[r].expired \in BOOLEAN
    /\ destroyed \in BOOLEAN

LEMMA NamesOK ==
  ASSUME NEW w \in Seq(Calls)
  PROVE  /\ Len(w) \in Nat /\ DOMAIN w = 1..Len(w)
         /\ Names(w) \in Seq(Agents) /\ Len(Names(w)) = Len(w)
         /\ \A i \in 1..Len(w) : Names(w)[i] = AgentOf(w[i])
<1>1. Len(w) \in Nat /\ DOMAIN w = 1..Len(w) /\ \A i \in 1..Len(w) : w[i] \in Calls
  OBVIOUS
<1>2. Names(w) = [i \in 1..Len(w) |-> AgentOf(w[i])]
  BY <1>1 DEF Names
<1>3. \A i \in 1..Len(w) : AgentOf(w[i]) \in Agents
  BY <1>1, CallParts
<1>4. Names(w) \in [1..Len(w) -> Agents]
  BY <1>2, <1>3
<1>5. Names(w) \in Seq(Agents)
  BY <1>1, <1>4, SeqDef
<1>6. DOMAIN Names(w) = 1..Len(Names(w)) /\ Len(Names(w)) \in Nat
  BY <1>5
<1>7. Len(Names(w)) = Len(w)
  BY <1>1, <1>4, <1>6
<1> QED BY <1>1, <1>2, <1>5, <1>7

LEMMA OneEach ==
  ASSUME Held, Lined, NEW r \in Resources, NEW i \in 1..Len(waiters[r]),
         NEW j \in 1..Len(waiters[r]), AgentOf(waiters[r][i]) = AgentOf(waiters[r][j])
  PROVE  i = j
<1>1. /\ waiters[r][i] \in On(r) /\ InLine(r, waiters[r][i])
      /\ waiters[r][j] \in On(r) /\ InLine(r, waiters[r][j])
  BY DEF Held, InLine
<1>2. /\ waiters[r][i] \in Calls /\ at[waiters[r][i]] = "waiting"
      /\ waiters[r][j] \in Calls /\ at[waiters[r][j]] = "waiting"
  BY <1>1, OnCalls DEF Lined, Line
<1>3. waiters[r][i] = waiters[r][j]
  BY <1>2 DEF Lined, Line
<1> QED BY <1>3 DEF Lined, Line

(* A name is filtered out of a waitQueue as its call leaves the line.      *)
LEMMA NamesWithout ==
  ASSUME Held, Lined, Seen, NEW r \in Resources, NEW k \in 1..Len(waiters[r]),
         NEW w \in Seq(Calls), Len(w) = Len(waiters[r]) - 1,
         \A i \in 1..(Len(waiters[r]) - 1) :
            w[i] = IF i < k THEN waiters[r][i] ELSE waiters[r][i + 1]
  PROVE  Without(lock[r].queue, AgentOf(waiters[r][k])) = Names(w)
<1> DEFINE v == waiters[r]
           q == Names(v)
           n == Len(v)
<1>1. v \in Seq(Calls) /\ lock[r].queue = q
  BY DEF Held, Seen
<1>2. n \in Nat /\ Len(q) = n /\ \A i \in 1..n : q[i] = AgentOf(v[i])
  BY <1>1, NamesOK
<1>3. \A i \in 1..n : q[i] = AgentOf(v[k]) <=> i = k
  BY <1>2, OneEach
<1>4. \A i \in 1..(n - 1) : w[i] = IF i < k THEN v[i] ELSE v[i + 1]
  OBVIOUS
<1>5. Len(w) = n - 1 /\ k \in 1..n
  OBVIOUS
<1> HIDE DEF v, q, n
<1>6. Without(q, AgentOf(v[k])) = [i \in 1..(n - 1) |-> IF i < k THEN q[i] ELSE q[i + 1]]
  <2> DEFINE a == AgentOf(v[k])
  <2>1. Len(q) \in Nat /\ k \in 1..Len(q) /\ \A i \in 1..Len(q) : q[i] = a <=> i = k
    BY <1>2, <1>3, <1>5
  <2> HIDE DEF a
  <2>2. Without(q, a) = [i \in 1..(Len(q) - 1) |-> IF i < k THEN q[i] ELSE q[i + 1]]
    BY <2>1, WithoutOne, Zenon
  <2> QED BY <1>2, <2>2 DEF a
<1>7. \A i \in 1..(n - 1) : (IF i < k THEN q[i] ELSE q[i + 1]) = AgentOf(w[i])
  <2> SUFFICES ASSUME NEW i \in 1..(n - 1)
               PROVE  (IF i < k THEN q[i] ELSE q[i + 1]) = AgentOf(w[i])
    OBVIOUS
  <2>1. i \in 1..n /\ i + 1 \in 1..n
    BY <1>2
  <2> QED BY <1>2, <1>4, <2>1
<1>8. Names(w) = [i \in 1..(n - 1) |-> AgentOf(w[i])]
  BY <1>5, NamesOK DEF Names
<1>9. Without(q, AgentOf(v[k])) = Names(w)
  BY <1>6, <1>7, <1>8
<1> QED BY <1>1, <1>9 DEF v

LEMMA NoNames == Names(<<>>) = <<>>
<1>1. <<>> \in Seq(Calls) /\ Len(<<>>) = 0
  OBVIOUS
<1>2. Names(<<>>) \in Seq(Agents) /\ Len(Names(<<>>)) = 0
  BY <1>1, NamesOK
<1> QED BY <1>2, EmptySeq

(* Nobody is in line for a lock that nobody waits for.                     *)
LEMMA EmptyLine ==
  ASSUME Held, Lined, NEW r \in Resources, lock[r].holder = NoAgent
  PROVE  waiters[r] = <<>> /\ \A c \in On(r) : at[c] # "waiting"
<1>1. \A c \in On(r) : at[c] # "waiting"
  BY DEF Lined, NoneWaitsForFree, Waiting, Locked
<1>2. \A i \in 1..Len(waiters[r]) : FALSE
  BY <1>1 DEF Held, Lined, Line, InLine
<1>3. waiters[r] \in Seq(Calls)
  BY DEF Held
<1> QED BY <1>1, <1>2, <1>3, EmptySeq

LEMMA SeenFrame ==
  ASSUME Seen, UNCHANGED waiters, lock' = [r \in Resources |-> lock'[r]],
         \A r \in Resources : lock'[r].queue = lock[r].queue /\ lock'[r].expired \in BOOLEAN,
         \A r \in Resources : \A c \in On(r) :
            at'[c] = "waiting" => at[c] = "waiting" /\ lock'[r].holder = lock[r].holder,
         UNCHANGED destroyed
  PROVE  Seen'
BY DEF Seen

LEMMA SeenAcquire ==
  ASSUME LocksAssumption, Held, Lined, Seen, NEW r \in Resources, NEW c \in On(r),
         AcquireNow(r, c)
  PROVE  Seen'
<1>1. /\ UNCHANGED <<waiters, destroyed>> /\ at' = [at EXCEPT ![c] = "holding"]
      /\ c \in Calls
  BY OnCalls DEF AcquireNow
<1>2. \A d \in Calls : at'[d] = "waiting" => at[d] = "waiting"
  BY <1>1 DEF Held
<1>3. CASE Locked(r)
  <2>1. lock' = lock
    BY <1>3 DEF AcquireNow
  <2> QED BY <1>1, <1>2, <2>1, OnCalls, SeenFrame DEF Seen
<1>4. CASE ~Locked(r)
  <2>1. waiters[r] = <<>> /\ \A d \in On(r) : at[d] # "waiting"
    BY <1>4, EmptyLine DEF Locked
  <2>2. lock' = [lock EXCEPT ![r] = NewLock(AgentOf(c), <<>>)]
    BY <1>4 DEF AcquireNow
  <2>3. lock[r].queue = <<>>
    BY <2>1, NoNames DEF Seen
  <2>4. lock'[r].queue = <<>> /\ lock'[r].expired = FALSE
    BY <2>2 DEF Held, NewLock
  <2>5. \A q \in Resources \ {r} : lock'[q] = lock[q]
    BY <2>2 DEF Held
  <2>6. lock' = [q \in Resources |-> lock'[q]]
    BY <2>2 DEF Held
  <2> QED BY <1>1, <1>2, <2>1, <2>3, <2>4, <2>5, <2>6, OnCalls, SeenFrame DEF Seen
<1> QED BY <1>3, <1>4

LEMMA SeenWait ==
  ASSUME LocksAssumption, Held, Lined, Seen, NEW r \in Resources, NEW c \in On(r),
         AcquireWait(r, c)
  PROVE  Seen'
<1>1. /\ c \in Calls /\ lock[r].holder # AgentOf(c) /\ UNCHANGED destroyed
      /\ waiters' = [waiters EXCEPT ![r] = Append(waiters[r], c)]
      /\ at' = [at EXCEPT ![c] = "waiting"]
  BY OnCalls DEF AcquireWait
<1>2. lock' = [lock EXCEPT ![r].queue = Append(lock[r].queue, AgentOf(c))]
  BY DEF AcquireWait
<1>3. /\ \A q \in Resources \ {r} : lock'[q] = lock[q]
      /\ \A q \in Resources : lock'[q].holder = lock[q].holder /\ lock'[q].expired = lock[q].expired
      /\ lock'[r].queue = Append(lock[r].queue, AgentOf(c))
  BY <1>2 DEF Held, IsLock
<1>4. \A q \in Resources \ {r} : waiters'[q] = waiters[q]
  BY <1>1 DEF Held
<1>5. Names(Append(waiters[r], c)) = Append(Names(waiters[r]), AgentOf(c))
  <2> DEFINE v == waiters[r]
             w == Append(v, c)
             p == Names(v)
             n == Len(v)
  <2>1. v \in Seq(Calls) /\ c \in Calls /\ AgentOf(c) \in Agents
    BY <1>1, CallParts DEF Held
  <2> HIDE DEF v
  <2>2. w \in Seq(Calls) /\ Len(w) = n + 1 /\ n \in Nat /\ w[n + 1] = c
        /\ \A i \in 1..n : w[i] = v[i]
    BY <2>1, AppendProperties
  <2>3. p \in Seq(Agents) /\ Len(p) = n /\ \A i \in 1..n : p[i] = AgentOf(v[i])
    BY <2>1, NamesOK
  <2> HIDE DEF p, w
  <2>4. /\ Append(p, AgentOf(c)) \in Seq(Agents) /\ Len(Append(p, AgentOf(c))) = n + 1
        /\ Append(p, AgentOf(c))[n + 1] = AgentOf(c)
        /\ \A i \in 1..n : Append(p, AgentOf(c))[i] = p[i]
    BY <2>1, <2>3, AppendProperties
  <2>5. /\ Names(w) \in Seq(Agents) /\ Len(Names(w)) = n + 1
        /\ \A i \in 1..(n + 1) : Names(w)[i] = AgentOf(w[i])
    BY <2>2, NamesOK
  <2> DEFINE x == Names(w)
             y == Append(p, AgentOf(c))
  <2>6. \A i \in 1..(n + 1) : x[i] = y[i]
    BY <2>2, <2>3, <2>4, <2>5
  <2>7. x \in Seq(Agents) /\ y \in Seq(Agents) /\ Len(x) = n + 1 /\ Len(y) = n + 1
    BY <2>4, <2>5
  <2> HIDE DEF x, y
  <2>8. x = y
    BY <2>6, <2>7, SeqEqual
  <2> QED BY <2>8 DEF x, y, w, p, v
<1>6. \A q \in Resources : lock'[q].queue = Names(waiters'[q])
  <2>1. waiters'[r] = Append(waiters[r], c)
    BY <1>1 DEF Held
  <2> QED BY <1>3, <1>4, <1>5, <2>1 DEF Seen
<1>7. \A q \in Resources : \A d \in On(q) : at'[d] = "waiting" => AgentOf(d) # lock'[q].holder
  <2> SUFFICES ASSUME NEW q \in Resources, NEW d \in On(q), at'[d] = "waiting"
               PROVE  AgentOf(d) # lock[q].holder
    BY <1>3
  <2>1. d \in Calls /\ d[2] = q /\ c[2] = r
    BY OnCalls
  <2>2. CASE d = c
    BY <1>1, <2>1, <2>2
  <2>3. CASE d # c
    <3>1. at[d] = "waiting"
      BY <1>1, <2>1, <2>3 DEF Held
    <3> QED BY <3>1 DEF Seen
  <2> QED BY <2>2, <2>3
<1>8. lock' = [q \in Resources |-> lock'[q]]
  BY <1>2 DEF Held
<1> QED BY <1>1, <1>3, <1>6, <1>7, <1>8 DEF Seen

LEMMA SeenTimeout ==
  ASSUME LocksAssumption, Held, Lined, Seen, NEW r \in Resources, NEW c \in On(r),
         WaitTimesOut(r, c)
  PROVE  Seen'
<1>1. c \in Calls /\ c[2] = r /\ at[c] = "waiting" /\ InLine(r, c)
  BY OnCalls DEF WaitTimesOut, Waiting, Lined, Line
<1>2. PICK k \in 1..Len(waiters[r]) :
          AgentOf(waiters[r][k]) = AgentOf(c) /\ waiters' = [waiters EXCEPT ![r] = RemoveAt(waiters[r], k)]
  <2>1. \E i \in 1..Len(waiters[r]) : AgentOf(waiters[r][i]) = AgentOf(c)
    BY <1>1 DEF InLine
  <2> QED BY <2>1, OneRemoved
<1>3. /\ lock' = [lock EXCEPT ![r].queue = Without(lock[r].queue, AgentOf(c))]
      /\ at' = [at EXCEPT ![c] = "idle"] /\ UNCHANGED destroyed
  BY Zenon DEF WaitTimesOut
<1>4. /\ \A q \in Resources \ {r} : lock'[q] = lock[q] /\ waiters'[q] = waiters[q]
      /\ \A q \in Resources : lock'[q].holder = lock[q].holder /\ lock'[q].expired = lock[q].expired
      /\ lock'[r].queue = Without(lock[r].queue, AgentOf(c))
      /\ waiters'[r] = RemoveAt(waiters[r], k)
  BY <1>2, <1>3 DEF Held, IsLock
<1>5. Without(lock[r].queue, AgentOf(c)) = Names(RemoveAt(waiters[r], k))
  <2> DEFINE v == waiters[r]
             w == RemoveAt(v, k)
  <2>1. v \in Seq(Calls)
    BY DEF Held
  <2>2. /\ w \in Seq(Calls) /\ Len(w) = Len(v) - 1
        /\ \A i \in 1..(Len(v) - 1) : w[i] = IF i < k THEN v[i] ELSE v[i + 1]
    <3>1. k \in 1..Len(v)
      OBVIOUS
    <3> HIDE DEF v
    <3> QED BY <2>1, <3>1, RemoveAtOK
  <2> HIDE DEF w
  <2>3. Without(lock[r].queue, AgentOf(waiters[r][k])) = Names(w)
    BY <2>2, NamesWithout
  <2> QED BY <1>2, <2>3 DEF w
<1>6. \A q \in Resources : lock'[q].queue = Names(waiters'[q])
  BY <1>4, <1>5 DEF Seen
<1>7. \A d \in Calls : at'[d] = "waiting" => at[d] = "waiting"
  BY <1>3 DEF Held
<1> QED BY <1>3, <1>4, <1>6, <1>7, OnCalls DEF Seen

(* A hand-over takes the heir out of both lists, and no one left in line   *)
(* is the new holder.                                                      *)
LEMMA SeenPassOn ==
  ASSUME LocksAssumption, Held, Lined, Seen, NEW rs \in SUBSET Resources,
         NEW done \in SUBSET Calls, NEW lost, \A c \in done : at[c] = "holding",
         PassOn(rs, done, lost), UNCHANGED destroyed
  PROVE  Seen'
<1> DEFINE Heir(r) == AgentOf(Head(waiters[r]))
<1>1. /\ \A r \in rs : waiters[r] # <<>> =>
            lock'[r] = NewLock(Heir(r), Without(lock[r].queue, Heir(r)))
      /\ \A r \in rs : waiters[r] = <<>> => lock'[r] = NoLock
      /\ \A r \in Resources \ rs : lock'[r] = lock[r]
  BY DEF PassOn
<1>2. /\ \A r \in rs : waiters[r] # <<>> => waiters'[r] = Tail(waiters[r])
      /\ \A r \in Resources : r \notin rs \/ waiters[r] = <<>> => waiters'[r] = waiters[r]
  BY PassedOn
<1>3. ASSUME NEW r \in Resources
      PROVE  /\ lock'[r].queue = Names(waiters'[r]) /\ lock'[r].expired \in BOOLEAN
             /\ \A c \in On(r) : at'[c] = "waiting" => AgentOf(c) # lock'[r].holder
  <2>0. /\ \A c \in On(r) : at'[c] = "waiting" => at[c] = "waiting"
        /\ \A c \in On(r) : at'[c] = "waiting" => c \notin Heirs(rs)
    BY PassedOnCalls, OnCalls
  <2>1. CASE r \notin rs
    BY <1>1, <1>2, <2>0, <2>1 DEF Seen
  <2>2. CASE r \in rs /\ waiters[r] = <<>>
    <3>1. lock'[r] = NoLock /\ waiters'[r] = <<>>
      BY <1>1, <1>2, <2>2
    <3>2. \A c \in On(r) : AgentOf(c) # NoAgent
      BY OnCalls, CallParts DEF LocksAssumption
    <3> QED BY <3>1, <3>2, NoNames DEF NoLock
  <2>3. CASE r \in rs /\ waiters[r] # <<>>
    <3> DEFINE v == waiters[r]
               w == Tail(v)
    <3>1. /\ Head(v) = v[1] /\ Len(v) \in Nat \ {0} /\ Head(v) \in On(r)
          /\ Len(w) = Len(v) - 1 /\ \A i \in 1..(Len(v) - 1) : w[i] = v[i + 1]
      BY <2>3, HeadOnLine
    <3>2. w \in Seq(Calls)
      BY <2>3, HeadTailProperties DEF Held
    <3>3. 1 \in 1..Len(v) /\ \A i \in 1..(Len(v) - 1) : w[i] = IF i < 1 THEN v[i] ELSE v[i + 1]
      BY <3>1
    <3>4. lock'[r] = NewLock(Heir(r), Without(lock[r].queue, Heir(r))) /\ waiters'[r] = w
          /\ Heir(r) = AgentOf(v[1])
      BY <1>1, <1>2, <2>3, <3>1
    <3> HIDE DEF w
    <3>5. Without(lock[r].queue, AgentOf(waiters[r][1])) = Names(w)
      BY <3>1, <3>2, <3>3, NamesWithout
    <3>6. \A c \in On(r) : at'[c] = "waiting" => AgentOf(c) # Heir(r)
      <4> SUFFICES ASSUME NEW c \in On(r), at'[c] = "waiting", AgentOf(c) = Heir(r)
                   PROVE  FALSE
        OBVIOUS
      <4>1. c # Head(v) /\ at[c] = "waiting"
        BY <2>0, <2>3 DEF Heirs
      <4>2. at[Head(v)] = "waiting"
        BY <3>1, <3>3 DEF Lined, Line, InLine
      <4> QED BY <3>1, <4>1, <4>2, OnCalls DEF Lined, Line
    <3> QED BY <3>4, <3>5, <3>6 DEF NewLock
  <2> QED BY <2>1, <2>2, <2>3
<1>4. lock' = [r \in Resources |-> lock'[r]]
  BY DEF PassOn
<1> QED BY <1>3, <1>4 DEF Seen

LEMMA SeenStep ==
  ASSUME LocksAssumption, Sequential, Held, Lined, Seen, [Next]_vars
  PROVE  Seen'
<1>1. ASSUME NEW r \in Resources, NEW c \in On(r), AcquireNow(r, c) PROVE Seen'
  BY <1>1, SeenAcquire
<1>2. ASSUME NEW r \in Resources, NEW c \in On(r), AcquireWait(r, c) PROVE Seen'
  BY <1>2, SeenWait
<1>3. ASSUME NEW r \in Resources, NEW c \in On(r), WaitTimesOut(r, c) PROVE Seen'
  BY <1>3, SeenTimeout
<1>4. ASSUME NEW r \in Resources, NEW c \in On(r), Release(r, c) PROVE Seen'
  <2>1. c \in Calls /\ at[c] = "holding" /\ UNCHANGED destroyed
    BY <1>4, OnCalls DEF Release, Holding
  <2>2. CASE lock[r].holder = AgentOf(c)
    <3>1. PassOn({r}, {c}, OwnCalls(r, c))
      BY <1>4, <2>2 DEF Release
    <3>2. {r} \in SUBSET Resources /\ {c} \in SUBSET Calls /\ \A d \in {c} : at[d] = "holding"
      BY <2>1
    <3> QED BY <2>1, <3>1, <3>2, SeenPassOn
  <2>3. CASE lock[r].holder # AgentOf(c)
    <3>1. at' = [at EXCEPT ![c] = "idle"] /\ UNCHANGED <<lock, waiters>>
      BY <1>4, <2>3 DEF Release
    <3>2. \A d \in Calls : at'[d] = "waiting" => at[d] = "waiting"
      BY <2>1, <3>1 DEF Held
    <3> QED BY <2>1, <3>1, <3>2, OnCalls, SeenFrame DEF Seen
  <2> QED BY <2>2, <2>3
<1>5. ASSUME NEW r \in Resources, ForceRelease(r) PROVE Seen'
  <2>1. PassOn({r}, {}, Holding(r)) /\ {r} \in SUBSET Resources /\ {} \in SUBSET Calls
        /\ UNCHANGED destroyed
    BY <1>5 DEF ForceRelease
  <2> QED BY <2>1, SeenPassOn
<1>6. ASSUME NEW r \in Resources, Expires(r) PROVE Seen'
  <2>1. lock' = [lock EXCEPT ![r].expired = TRUE] /\ UNCHANGED <<waiters, at, destroyed>>
    BY <1>6 DEF Expires
  <2>2. \A q \in Resources : /\ lock'[q].queue = lock[q].queue /\ lock'[q].holder = lock[q].holder
                             /\ lock'[q].expired \in BOOLEAN
    <3>1. \A q \in Resources \ {r} : lock'[q] = lock[q]
      BY <2>1 DEF Held
    <3>2. lock'[r] = [lock[r] EXCEPT !.expired = TRUE]
      BY <2>1 DEF Held
    <3>3. lock[r] = [holder |-> lock[r].holder, queue |-> lock[r].queue, expired |-> lock[r].expired]
      BY DEF Held, IsLock
    <3>4. /\ lock'[r].queue = lock[r].queue /\ lock'[r].holder = lock[r].holder
          /\ lock'[r].expired = TRUE
      BY <3>2, <3>3
    <3> QED BY <3>1, <3>4 DEF Seen
  <2>3. lock' = [q \in Resources |-> lock'[q]]
    BY <2>1 DEF Held
  <2> QED BY <2>1, <2>2, <2>3, SeenFrame
<1>7. ASSUME Cleanup PROVE Seen'
  <2> DEFINE rs   == {r \in Resources : lock[r].expired}
             lost == UNION {Holding(r) : r \in rs}
  <2>1. PassOn(rs, {}, lost) /\ rs \in SUBSET Resources /\ {} \in SUBSET Calls
        /\ UNCHANGED destroyed
    BY <1>7 DEF Cleanup
  <2> HIDE DEF rs, lost
  <2> QED BY <2>1, SeenPassOn
<1>8. ASSUME Destroy PROVE Seen'
  <2>1. /\ lock' = [r \in Resources |-> NoLock] /\ waiters' = [r \in Resources |-> <<>>]
        /\ destroyed' = TRUE
    BY <1>8 DEF Destroy
  <2>2. \A r \in Resources : lock'[r] = NoLock /\ waiters'[r] = <<>>
    BY <2>1
  <2>3. \A r \in Resources : \A c \in On(r) : AgentOf(c) # NoAgent
    BY OnCalls, CallParts DEF LocksAssumption
  <2> QED BY <2>1, <2>2, <2>3, NoNames DEF Seen, NoLock
<1>9. ASSUME UNCHANGED vars PROVE Seen'
  BY <1>9 DEF vars, Seen
<1> QED BY <1>1, <1>2, <1>3, <1>4, <1>5, <1>6, <1>7, <1>8, <1>9 DEF Next, LockStep

LEMMA SeenInit == ASSUME LocksAssumption, Init PROVE Seen
<1>1. \A r \in Resources : lock[r] = NoLock /\ waiters[r] = <<>>
  BY DEF Init
<1>2. \A r \in Resources : \A c \in On(r) : at[c] = "idle"
  BY OnCalls DEF Init
<1> QED BY <1>1, <1>2, NoNames DEF Init, Seen, NoLock

-----------------------------------------------------------------------------
LEMMA AlwaysSeen ==
  ASSUME LocksAssumption, Sequential
  PROVE  Spec => [](Held /\ Lined /\ Seen)
<1>1. Init => Held /\ Lined /\ Seen
  BY HeldInit, LinedInit, SeenInit
<1>2. Held /\ Lined /\ Seen /\ [Next]_vars => Held' /\ Lined' /\ Seen'
  BY HeldStep, LinedStep, SeenStep
<1> QED BY <1>1, <1>2, PTL DEF Spec

LEMMA SeenTyped == ASSUME Held, Seen PROVE TypeOK /\ QueueMatchesWaiters
<1>1. ASSUME NEW r \in Resources
      PROVE  /\ lock[r] \in [holder : Agents \cup {NoAgent}, queue : Seq(Agents), expired : BOOLEAN]
             /\ lock[r].queue = [i \in DOMAIN waiters[r] |-> AgentOf(waiters[r][i])]
  <2>1. lock[r].queue = Names(waiters[r]) /\ waiters[r] \in Seq(Calls)
    BY DEF Held, Seen
  <2>2. lock[r].queue \in Seq(Agents) /\ lock[r].expired \in BOOLEAN
    BY <2>1, NamesOK DEF Seen
  <2>3. /\ lock[r] = [holder |-> lock[r].holder, queue |-> lock[r].queue, expired |-> lock[r].expired]
        /\ lock[r].holder \in Agents \cup {NoAgent}
    BY DEF Held, IsLock
  <2> QED BY <2>1, <2>2, <2>3 DEF Names
<1>2. QueueMatchesWaiters
  BY <1>1 DEF QueueMatchesWaiters
<1>3. TypeOK
  BY <1>1 DEF TypeOK, Held, Seen
<1> QED BY <1>2, <1>3

(* The names in a waitQueue are those of the calls that wait.              *)
LEMMA NamesWaiting ==
  ASSUME Held, Lined, Seen, NEW r \in Resources
  PROVE  /\ \A a \in ToSet(lock[r].queue) : \E c \in Waiting(r) : AgentOf(c) = a
         /\ \A c \in Waiting(r) : AgentOf(c) \in ToSet(lock[r].queue)
<1> DEFINE v == waiters[r]
           q == lock[r].queue
<1>1. v \in Seq(Calls) /\ q = Names(v)
  BY DEF Held, Seen
<1>2. Len(v) \in Nat /\ DOMAIN q = 1..Len(v) /\ \A i \in 1..Len(v) : q[i] = AgentOf(v[i])
  BY <1>1, NamesOK DEF Names
<1>3. ToSet(q) = {q[i] : i \in 1..Len(v)}
  BY <1>2 DEF ToSet
<1>4. \A c \in On(r) : c \in Waiting(r) <=> \E i \in 1..Len(v) : v[i] = c
  BY DEF Lined, Line, InLine, Waiting
<1>5. \A i \in 1..Len(v) : v[i] \in On(r)
  BY DEF Held
<1>6. Waiting(r) \subseteq On(r)
  BY DEF Waiting
<1> HIDE DEF v, q
<1>7. /\ \A a \in ToSet(q) : \E c \in Waiting(r) : AgentOf(c) = a
      /\ \A c \in Waiting(r) : AgentOf(c) \in ToSet(q)
  BY <1>2, <1>3, <1>4, <1>5, <1>6
<1> QED BY <1>7 DEF q

LEMMA EdgesTrue == ASSUME Held, Lined, Seen PROVE SeenEdges = TrueEdges
<1>1. ASSUME NEW r \in Resources
      PROVE  {<<a, lock[r].holder>> : a \in ToSet(lock[r].queue)} =
             {<<AgentOf(c), lock[r].holder>> : c \in {d \in Waiting(r) : AgentOf(d) # lock[r].holder}}
  <2>1. {d \in Waiting(r) : AgentOf(d) # lock[r].holder} = Waiting(r)
    BY DEF Seen, Waiting
  <2> QED BY <2>1, NamesWaiting
<1> QED BY <1>1 DEF SeenEdges, TrueEdges

(* An agent waits for the one lock only: the edge it had in the circle was *)
(* to the holder that lost that lock, and the new holder is another agent. *)
LEMMA CircleBroken ==
  ASSUME LocksAssumption, Held, Lined, Seen, NEW C \in Cycles(SeenEdges), Resolve(C)
  PROVE  C \notin Cycles(TrueEdges)'
<1> SUFFICES ASSUME C \in Cycles(TrueEdges)' PROVE FALSE
  OBVIOUS
<1>1. PICK r \in Resources : /\ lock[r].holder \in Nodes(C)
                             /\ ToSet(lock[r].queue) \cap Nodes(C) # {}
                             /\ ForceRelease(r)
  BY DEF Resolve, ResourcesFor
<1>2. C \subseteq TrueEdges /\ C \subseteq TrueEdges'
  BY EdgesTrue DEF Cycles, Rings
<1>3. PICK a \in ToSet(lock[r].queue) : a \in Nodes(C)
  BY <1>1
<1>4. PICK e \in C : e[1] = a
  BY <1>3 DEF Nodes
<1>5. PICK c \in Waiting(r) : AgentOf(c) = a
  BY <1>3, NamesWaiting
<1>6. c \in Calls /\ c \in On(r) /\ at[c] = "waiting"
  BY <1>5, OnCalls DEF Waiting
<1>7. \A d \in Calls : at[d] = "waiting" /\ AgentOf(d) = a => d = c
  BY <1>5, <1>6 DEF Lined, Line
<1>8. e[2] = lock[r].holder
  <2>1. PICK s \in Resources : \E d \in Waiting(s) : e = <<AgentOf(d), lock[s].holder>>
    BY <1>2, <1>4 DEF TrueEdges
  <2>2. PICK d \in Waiting(s) : e = <<AgentOf(d), lock[s].holder>>
    BY <2>1
  <2>3. d = c /\ s = r
    BY <1>4, <1>6, <1>7, <2>2, OnCalls DEF Waiting
  <2> QED BY <2>2, <2>3
<1>9. PassOn({r}, {}, Holding(r)) /\ {r} \in SUBSET Resources
  BY <1>1 DEF ForceRelease
<1>10. \A d \in Calls : at'[d] = "waiting" => at[d] = "waiting"
  BY <1>9, PassedOnCalls
<1>11. e[2] = lock'[r].holder
  <2>1. PICK s \in Resources : \E d \in On(s) : at'[d] = "waiting" /\ e = <<AgentOf(d), lock'[s].holder>>
    BY <1>2, <1>4 DEF TrueEdges, Waiting
  <2>2. PICK d \in On(s) : at'[d] = "waiting" /\ e = <<AgentOf(d), lock'[s].holder>>
    BY <2>1
  <2>3. d = c /\ s = r
    BY <1>4, <1>6, <1>7, <1>10, <2>2, OnCalls
  <2> QED BY <2>2, <2>3
<1>12. waiters[r] # <<>>
  BY <1>6 DEF Lined, Line, InLine
<1>13. lock'[r].holder = AgentOf(Head(waiters[r]))
  BY <1>9, <1>12, PassedOn
<1>14. Head(waiters[r]) \in On(r) /\ at[Head(waiters[r])] = "waiting"
  <2>1. Head(waiters[r]) \in On(r) /\ InLine(r, Head(waiters[r]))
    BY <1>12, HeadOnLine DEF InLine
  <2> QED BY <2>1 DEF Lined, Line
<1>15. AgentOf(Head(waiters[r])) # lock[r].holder
  BY <1>14 DEF Seen
<1> QED BY <1>8, <1>11, <1>13, <1>15

(* What the detector reads is true: each waitQueue names the agents of the *)
(* calls in line, in their order, so that it sees a circle just when there *)
(* is one (buildWaitForGraph over the lists that hub-sync.ts keeps).       *)
THEOREM DetectorReadsTheTruth ==
  ASSUME LocksAssumption, Sequential
  PROVE  Spec => [](TypeOK /\ QueueMatchesWaiters /\ DetectorSees)
<1>1. Held /\ Lined /\ Seen => TypeOK /\ QueueMatchesWaiters /\ DetectorSees
  BY SeenTyped, EdgesTrue DEF DetectorSees
<1> QED BY <1>1, AlwaysSeen, PTL

(* A resolution ends the circle it was made for, whichever lock is taken   *)
(* and whoever is next in its line (resolveDeadlock, deadlock.ts).         *)
THEOREM ResolvingBreaksTheCircle ==
  ASSUME LocksAssumption, Sequential
  PROVE  DeadlockSpec => [](TypeOK /\ QueueMatchesWaiters /\ DetectorSees) /\ ResolveBreaks
<1>1. DeadlockSpec => Spec
  BY ResolvedByForce, PTL DEF DeadlockSpec, Spec
<1>2. Held /\ Lined /\ Seen => \A C \in Cycles(SeenEdges) : Resolve(C) => C \notin Cycles(TrueEdges)'
  BY CircleBroken
<1>3. DeadlockSpec => ResolveBreaks
  BY <1>1, <1>2, AlwaysSeen, PTL DEF ResolveBreaks
<1> QED BY <1>1, <1>3, DetectorReadsTheTruth, PTL
==============================================================================
