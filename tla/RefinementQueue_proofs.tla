----------------------- MODULE RefinementQueue_proofs -----------------------
(***************************************************************************)
(* RefinementQueue for any scopes, work, budget of replays, requests and   *)
(* days: what the run "daemon_life" checks of two scopes and one replay a  *)
(* pass.                                                                   *)
(*                                                                         *)
(* A pass clears rows by what it read when it began and by what it         *)
(* repaired before.  The invariant says why no firm work is lost by it,    *)
(* work that is owed, was not asked for too late for the pass and was not  *)
(* left in debt by the repair of the day: the entries it has read still    *)
(* hold all firm work of their scopes, none of that work is among what was *)
(* selected, and no scope is on the list twice.                            *)
(***************************************************************************)
EXTENDS RefinementQueue, SequenceTheorems, TLAPS

Row  == [queued : BOOLEAN, work : SUBSET Items, exact : BOOLEAN]
Read == [key : Scopes, row : Row]

QueueOK ==
    /\ row \in [Scopes -> Row]
    /\ \A k \in Scopes : row[k].work # {} => row[k].queued
    /\ due \in Seq(Scopes) /\ IsInjective(due)
    /\ ToSet(due) \subseteq {k \in Scopes : row[k].queued}

(* A pass reads its list when the repair of the scope of the day is over,  *)
(* and nothing is selected between passes.                                 *)
PassOK ==
    /\ pass \in {"idle", "repairing selected", "listing", "draining", "replaying"}
    /\ selected \in [Scopes -> SUBSET Items]
    /\ pass = "idle" => selected = Nothing
    /\ \A k, l \in Scopes : selected[k] # {} /\ selected[l] # {} => k = l
    /\ limit \in {0, Budget} /\ drained \in 0 .. Budget /\ active \in BOOLEAN
    /\ requests \in 0 .. MaxRequests /\ days \in 0 .. MaxDays /\ spoiled \in 0 .. MaxSpoiled

(* No scope is on the list twice, and all of them are in the queue.        *)
ListOK ==
    /\ list \in Seq(Read)
    /\ \A n \in 1 .. Len(list) : list[n].row.queued /\ row[list[n].key].queued
    /\ \A m, n \in 1 .. Len(list) : list[m].key = list[n].key => m = n
    /\ pass = "replaying" => list # <<>>
    /\ pass \notin {"draining", "replaying"} => list = <<>>

DebtsOK ==
    /\ late \cup indebted \subseteq owed /\ owed \subseteq Scopes \X Items
    /\ KeptUntilRepaired
    (* an entry that was read holds what is firm of its scope, and none of  *)
    (* it was selected                                                      *)
    /\ \A n \in 1 .. Len(list) : \A pair \in Firm :
          pair[1] = list[n].key => pair[2] \in list[n].row.work /\ pair[2] \notin selected[pair[1]]
    (* what was selected is repaired, or in debt, before the list is read   *)
    /\ pass = "listing" => \A pair \in Firm : pair[2] \notin selected[pair[1]]

IInv == QueueOK /\ PassOK /\ ListOK /\ DebtsOK

-----------------------------------------------------------------------------
(* The two histories and the set of the work of a row.                     *)
LEMMA RowsAre ==
  ASSUME NEW k \in Scopes, NEW work \in SUBSET Items
  PROVE  /\ Rows(k, work) \subseteq Scopes \X Items
         /\ \A pair \in Scopes \X Items : pair \in Rows(k, work) <=> pair[1] = k /\ pair[2] \in work
BY DEF Rows

LEMMA Owing ==
  ASSUME late \cup indebted \subseteq owed, owed \subseteq Scopes \X Items,
         NEW k \in Scopes, NEW work \in SUBSET Items, Owe(k, work)
  PROVE  /\ late' \cup indebted' \subseteq owed' /\ owed' \subseteq Scopes \X Items
         /\ \A pair \in Firm' :
            pair \notin Firm => pair[1] = k /\ pair[2] \in work /\ pair[2] \notin TooLate(k)
<1> DEFINE unseen == work \cap TooLate(k)
<1>1. /\ owed' = owed \cup Rows(k, work)
      /\ late' = (late \ Rows(k, work)) \cup (Rows(k, unseen) \ Firm)
      /\ indebted' = indebted \ Rows(k, work)
  BY DEF Owe
<1>2. Rows(k, unseen) \subseteq Rows(k, work)
  BY DEF Rows
<1>3. late' \cup indebted' \subseteq owed' /\ owed' \subseteq Scopes \X Items
  BY <1>1, <1>2, RowsAre
<1>4. ASSUME NEW pair \in Firm', pair \notin Firm
      PROVE  pair[1] = k /\ pair[2] \in work /\ pair[2] \notin TooLate(k)
  <2>1. pair \in Scopes \X Items /\ pair \in Rows(k, work) /\ pair \notin Rows(k, unseen)
    BY <1>1, <1>3, <1>4 DEF Firm
  <2>2. unseen \in SUBSET Items
    OBVIOUS
  <2> HIDE DEF unseen
  <2>3. pair[1] = k /\ pair[2] \in work /\ pair[2] \notin unseen
    BY <2>1, <2>2, RowsAre
  <2> QED BY <2>3 DEF unseen
<1> QED BY <1>3, <1>4

LEMMA OwingInDebt ==
  ASSUME late \cup indebted \subseteq owed, owed \subseteq Scopes \X Items,
         NEW k \in Scopes, NEW work \in SUBSET Items, OweInDebt(k, work)
  PROVE  /\ late' \cup indebted' \subseteq owed' /\ owed' \subseteq Scopes \X Items
         /\ Firm' = Firm \ Rows(k, work)
BY RowsAre DEF OweInDebt, Firm

LEMMA Forgetting ==
  ASSUME late \cup indebted \subseteq owed, owed \subseteq Scopes \X Items, NEW items, Forget(items)
  PROVE  /\ late' \cup indebted' \subseteq owed' /\ owed' \subseteq Scopes \X Items
         /\ Firm' = Firm \ items
BY DEF Forget, Firm

-----------------------------------------------------------------------------
(* The order of the due rows.                                              *)
LEMMA RemoveAtOK ==
  ASSUME NEW S, NEW q \in Seq(S), NEW i \in 1..Len(q)
  PROVE  /\ RemoveAt(q, i) \in Seq(S) /\ Len(RemoveAt(q, i)) = Len(q) - 1
         /\ \A k \in 1..(Len(q) - 1) : RemoveAt(q, i)[k] = IF k < i THEN q[k] ELSE q[k + 1]
<1> DEFINE p == SubSeq(q, 1, i - 1)
           s == SubSeq(q, i + 1, Len(q))
<1>1. p \in Seq(S) /\ Len(p) = i - 1 /\ \A k \in 1..(i - 1) : p[k] = q[k]
  BY SubSeqProperties
<1>2. s \in Seq(S) /\ Len(s) = Len(q) - i /\ \A k \in 1..(Len(q) - i) : s[k] = q[k + i]
  BY SubSeqProperties
<1>3. RemoveAt(q, i) = p \o s
  BY DEF RemoveAt
<1> HIDE DEF p, s
<1>4. p \o s \in Seq(S) /\ Len(p \o s) = Len(q) - 1
  BY <1>1, <1>2, ConcatProperties
<1>5. \A k \in 1..(Len(q) - 1) : (p \o s)[k] = IF k < i THEN q[k] ELSE q[k + 1]
  BY <1>1, <1>2, ConcatProperties
<1> QED BY <1>3, <1>4, <1>5

LEMMA DueGrows ==
  ASSUME due \in Seq(Scopes), IsInjective(due), NEW k \in Scopes, k \notin ToSet(due)
  PROVE  /\ Append(due, k) \in Seq(Scopes) /\ IsInjective(Append(due, k))
         /\ ToSet(Append(due, k)) = ToSet(due) \cup {k}
<1> DEFINE q == Append(due, k)
<1>1. q \in Seq(Scopes) /\ Len(q) = Len(due) + 1 /\ q[Len(due) + 1] = k
      /\ \A n \in 1 .. Len(due) : q[n] = due[n]
  BY AppendProperties
<1> HIDE DEF q
<1>2. DOMAIN due = 1 .. Len(due) /\ DOMAIN q = 1 .. Len(q) /\ Len(due) \in Nat
  BY <1>1
<1>3. ToSet(q) = ToSet(due) \cup {k}
  BY <1>1, <1>2 DEF ToSet
<1>4. IsInjective(q)
  BY <1>1, <1>2 DEF ToSet, IsInjective
<1> QED BY <1>1, <1>3, <1>4 DEF q

LEMMA DueShrinks ==
  ASSUME due \in Seq(Scopes), IsInjective(due), NEW k \in Scopes, NoLongerDue(k)
  PROVE  /\ due' \in Seq(Scopes) /\ IsInjective(due')
         /\ ToSet(due') = ToSet(due) \ {k}
<1>1. CASE k \notin ToSet(due)
  BY <1>1 DEF NoLongerDue
<1>2. CASE k \in ToSet(due)
  <2> DEFINE n == CHOOSE n \in 1 .. Len(due) : due[n] = k
             q == RemoveAt(due, n)
  <2>1. DOMAIN due = 1 .. Len(due) /\ Len(due) \in Nat
    OBVIOUS
  <2>2. n \in 1 .. Len(due) /\ due[n] = k
    BY <1>2, <2>1 DEF ToSet
  <2>3. due' = q
    BY <1>2 DEF NoLongerDue
  <2> HIDE DEF n
  <2>4. /\ q \in Seq(Scopes) /\ Len(q) = Len(due) - 1
        /\ \A m \in 1 .. (Len(due) - 1) : q[m] = IF m < n THEN due[m] ELSE due[m + 1]
    BY <2>2, RemoveAtOK
  <2> HIDE DEF q
  <2>5. DOMAIN q = 1 .. Len(due) - 1
    BY <2>4
  <2>6. \A m \in 1 .. Len(due) : m # n => due[m] # k
    BY <2>1, <2>2 DEF IsInjective
  <2>7. \A l \in ToSet(q) : l \in ToSet(due) \ {k}
    BY <2>1, <2>2, <2>4, <2>5, <2>6 DEF ToSet
  <2>8. ASSUME NEW l \in ToSet(due) \ {k} PROVE l \in ToSet(q)
    <3>1. PICK m \in 1 .. Len(due) : due[m] = l
      BY <2>1, <2>8 DEF ToSet
    <3>2. CASE m < n
      <4>1. m \in 1 .. Len(due) - 1 /\ q[m] = l
        BY <2>1, <2>2, <2>4, <3>1, <3>2
      <4> QED BY <4>1, <2>5 DEF ToSet
    <3>3. CASE m > n
      <4>1. m - 1 \in 1 .. Len(due) - 1 /\ q[m - 1] = l
        BY <2>1, <2>2, <2>4, <3>1, <3>3
      <4> QED BY <4>1, <2>5 DEF ToSet
    <3> QED BY <2>1, <2>2, <2>8, <3>1, <3>2, <3>3
  <2>9. IsInjective(q)
    <3> DEFINE from(m) == IF m < n THEN m ELSE m + 1
    <3>1. \A m \in DOMAIN q : from(m) \in 1 .. Len(due) /\ q[m] = due[from(m)]
      BY <2>1, <2>2, <2>4, <2>5
    <3>2. \A a, b \in DOMAIN q : from(a) = from(b) => a = b
      BY <2>1, <2>2, <2>5
    <3> HIDE DEF from
    <3>3. \A a, b \in 1 .. Len(due) : due[a] = due[b] => a = b
      BY <2>1 DEF IsInjective
    <3>4. \A a, b \in DOMAIN q : q[a] = q[b] => a = b
      BY <3>1, <3>2, <3>3
    <3> QED BY <3>4, Zenon DEF IsInjective
  <2> QED BY <2>3, <2>4, <2>7, <2>8, <2>9
<1> QED BY <1>1, <1>2

-----------------------------------------------------------------------------
(* What becomes of the queue.                                              *)
LEMMA Widened ==
  ASSUME QueueOK, NEW k \in Scopes, NEW work \in (SUBSET Items) \ {{}}, NEW exact \in BOOLEAN,
         Upsert(k, work, exact)
  PROVE  /\ QueueOK'
         /\ row'[k].work = row[k].work \cup work /\ row'[k].queued
         /\ \A l \in Scopes : l # k => row'[l] = row[l]
<1> DEFINE r == [queued |-> TRUE, work |-> row[k].work \cup work, exact |-> row[k].exact \/ exact]
<1>1. row' = [row EXCEPT ![k] = r] /\ row \in [Scopes -> Row]
  BY DEF Upsert, Replaced, QueueOK
<1>2. r \in Row /\ r.queued /\ r.work = row[k].work \cup work /\ r.work # {}
  BY <1>1 DEF Row
<1> HIDE DEF r
<1>3. row' \in [Scopes -> Row] /\ row'[k] = r /\ \A l \in Scopes : l # k => row'[l] = row[l]
  BY <1>1, <1>2
<1>4. \A l \in Scopes : row'[l].work # {} => row'[l].queued
  BY <1>2, <1>3 DEF QueueOK
<1>5. due' \in Seq(Scopes) /\ IsInjective(due') /\ ToSet(due') \subseteq ToSet(due) \cup {k}
  BY DueGrows DEF Upsert, QueueOK
<1>6. ToSet(due') \subseteq {l \in Scopes : row'[l].queued}
  BY <1>2, <1>3, <1>5 DEF QueueOK
<1> QED BY <1>2, <1>3, <1>4, <1>5, <1>6 DEF QueueOK

LEMMA Cleared ==
  ASSUME QueueOK, NEW k \in Scopes, Clear(k)
  PROVE  QueueOK' /\ \A l \in Scopes : l # k => row'[l] = row[l]
<1>1. row' = [row EXCEPT ![k] = NoRow] /\ row \in [Scopes -> Row]
  BY DEF Clear, QueueOK
<1>2. NoRow \in Row /\ ~NoRow.queued /\ NoRow.work = {}
  BY DEF NoRow, Row
<1>3. row' \in [Scopes -> Row] /\ row'[k] = NoRow /\ \A l \in Scopes : l # k => row'[l] = row[l]
  BY <1>1, <1>2
<1>4. \A l \in Scopes : row'[l].work # {} => row'[l].queued
  BY <1>2, <1>3 DEF QueueOK
<1>5. due' \in Seq(Scopes) /\ IsInjective(due') /\ ToSet(due') = ToSet(due) \ {k}
  BY DueShrinks DEF Clear, QueueOK
<1>6. ToSet(due') \subseteq {l \in Scopes : row'[l].queued}
  BY <1>3, <1>5 DEF QueueOK
<1> QED BY <1>3, <1>4, <1>5, <1>6 DEF QueueOK

LEMMA Deferred ==
  ASSUME QueueOK, NEW k \in Scopes, Defer(k)
  PROVE  QueueOK' /\ row' = row
BY DueShrinks DEF Defer, QueueOK

(* The entry a pass is at, and the rest of its list.                       *)
LEMMA FirstOfList ==
  ASSUME ListOK, list # <<>>
  PROVE  /\ 1 \in 1 .. Len(list) /\ Entry = list[1]
         /\ Entry \in Read /\ Entry.key \in Scopes /\ Entry.row \in Row /\ Entry.row.work \subseteq Items
<1>1. list \in Seq(Read)
  BY DEF ListOK
<1>2. 1 \in 1 .. Len(list) /\ Entry = list[1]
  BY <1>1 DEF Entry
<1>3. Entry \in Read
  BY <1>1, <1>2
<1> QED BY <1>2, <1>3 DEF Read, Row

LEMMA RestOfList ==
  ASSUME ListOK, list # <<>>, Dealt
  PROVE  /\ list' \in Seq(Read)
         /\ \A n \in 1 .. Len(list') :
               n + 1 \in 1 .. Len(list) /\ list'[n] = list[n + 1] /\ list[n + 1].key # Entry.key
         /\ \A m, n \in 1 .. Len(list') : list'[m].key = list'[n].key => m = n
<1>1. list \in Seq(Read) /\ Len(list) \in Nat \ {0} /\ list' = Tail(list)
  BY DEF ListOK, Dealt
<1>2. list' \in Seq(Read) /\ Len(list') = Len(list) - 1
      /\ \A n \in 1 .. Len(list') : list'[n] = list[n + 1]
  BY <1>1, HeadTailProperties
<1>3. \A n \in 1 .. Len(list') : n + 1 \in 1 .. Len(list) /\ n + 1 # 1
  BY <1>1, <1>2
<1>4. \A n \in 1 .. Len(list') : list[n + 1].key # Entry.key
  BY <1>3, FirstOfList DEF ListOK
<1>5. \A m, n \in 1 .. Len(list') : list'[m].key = list'[n].key => m = n
  <2> SUFFICES ASSUME NEW m \in 1 .. Len(list'), NEW n \in 1 .. Len(list'), list'[m].key = list'[n].key
               PROVE  m = n
    OBVIOUS
  <2>1. m + 1 = n + 1
    BY <1>2, <1>3 DEF ListOK
  <2> QED BY <2>1
<1> QED BY <1>2, <1>3, <1>4, <1>5

-----------------------------------------------------------------------------
LEMMA Bounds ==
  ASSUME QueueAssumption
  PROVE  Budget \in Nat \ {0} /\ MaxRequests \in Nat /\ MaxDays \in Nat /\ MaxSpoiled \in Nat
BY DEF QueueAssumption

LEMMA Listed == ASSUME ListOK PROVE \A n \in 1 .. Len(list) : list[n].key \in Scopes
<1>1. \A n \in 1 .. Len(list) : list[n] \in Read
  BY DEF ListOK
<1> QED BY <1>1 DEF Read

(* There is none but while a pass drains.                                  *)
LEMMA NoList == ASSUME list' = <<>>, pass' \notin {"draining", "replaying"} PROVE ListOK'
BY DEF ListOK

LEMMA NoPlaces == ASSUME NEW s, s = <<>> PROVE \A n \in 1 .. Len(s) : FALSE
OBVIOUS

LEMMA DebtsWithoutList ==
  ASSUME list' = <<>>, late' \cup indebted' \subseteq owed', owed' \subseteq Scopes \X Items,
         KeptUntilRepaired',
         \/ pass' # "listing"
         \/ \A pair \in Firm' : pair[2] \notin selected'[pair[1]]
  PROVE  DebtsOK'
<1>1. \A n \in 1 .. Len(list') : FALSE
  BY NoPlaces
<1> QED BY <1>1 DEF DebtsOK

(* Rows that only widen keep the list in order.                            *)
LEMMA ListStays ==
  ASSUME ListOK, UNCHANGED list, pass' = pass, \A k \in Scopes : row[k].queued => row'[k].queued
  PROVE  ListOK'
BY Listed DEF ListOK

(* So do those that are gone once their entry is dealt with.               *)
LEMMA ListShrinks ==
  ASSUME ListOK, list # <<>>, Dealt, pass' = "draining",
         \A k \in Scopes : k # Entry.key => row'[k] = row[k]
  PROVE  ListOK'
<1>1. \A n \in 1 .. Len(list') : list'[n].row.queued /\ row'[list'[n].key].queued
  BY Listed, RestOfList DEF ListOK
<1> QED BY <1>1, RestOfList DEF ListOK

(* An entry is dealt with, and the row of its scope was left alone, or no  *)
(* firm work is owed of it.                                                *)
LEMMA DebtsStay ==
  ASSUME ListOK, DebtsOK, list # <<>>, Dealt, pass' = "draining", UNCHANGED selected,
         pass \in {"draining", "replaying"},
         late' \cup indebted' \subseteq owed', owed' \subseteq Scopes \X Items, Firm' \subseteq Firm,
         \A k \in Scopes : k # Entry.key => row'[k] = row[k],
         \/ row' = row
         \/ \A pair \in Firm' : pair[1] # Entry.key
  PROVE  DebtsOK'
<1>1. \A pair \in Firm' : pair \in Scopes \X Items /\ pair[1] \in Scopes
  BY DEF Firm
<1>2. KeptUntilRepaired'
  <2> SUFFICES ASSUME NEW pair \in Firm' PROVE pair[2] \in row'[pair[1]].work
    BY DEF KeptUntilRepaired, InQueue, Firm
  <2>1. pair[2] \in row[pair[1]].work
    BY DEF DebtsOK, KeptUntilRepaired, InQueue, Firm
  <2> QED BY <1>1, <2>1
<1>3. \A n \in 1 .. Len(list') : \A pair \in Firm' :
         pair[1] = list'[n].key => pair[2] \in list'[n].row.work /\ pair[2] \notin selected'[pair[1]]
  BY RestOfList DEF DebtsOK
<1> QED BY <1>2, <1>3 DEF DebtsOK

-----------------------------------------------------------------------------
(* Each step keeps the invariant.                                          *)
LEMMA InitOK == ASSUME QueueAssumption PROVE Init => IInv
<1> SUFFICES ASSUME Init PROVE IInv
  OBVIOUS
<1>1. QueueOK
  BY DEF Init, QueueOK, NoRow, Row, IsInjective, ToSet
<1>2. PassOK
  <2>1. limit \in {0, Budget} /\ drained \in 0 .. Budget /\ requests \in 0 .. MaxRequests
        /\ days \in 0 .. MaxDays /\ spoiled \in 0 .. MaxSpoiled
    BY Bounds DEF Init
  <2> QED BY <2>1 DEF Init, PassOK, Nothing
<1>3. ListOK
  BY DEF Init, ListOK
<1>4. DebtsOK
  BY DEF Init, DebtsOK, KeptUntilRepaired, Firm
<1> QED BY <1>1, <1>2, <1>3, <1>4 DEF IInv

(* Work is asked for, and the rest of the pass stands as it was.           *)
LEMMA RequestOK ==
  ASSUME QueueAssumption, IInv,
         NEW k \in Scopes, NEW work \in (SUBSET Items) \ {{}}, NEW exact \in BOOLEAN,
         Request(k, work, exact)
  PROVE  IInv'
<1>1. QueueOK /\ Upsert(k, work, exact)
  BY DEF IInv, Request
<1>2. /\ QueueOK'
      /\ row'[k].work = row[k].work \cup work /\ row'[k].queued
      /\ \A l \in Scopes : l # k => row'[l] = row[l]
  BY <1>1, Widened
<1>3. PassOK'
  <2>1. requests \in 0 .. MaxRequests /\ requests < MaxRequests /\ requests' = requests + 1
    BY DEF IInv, PassOK, Request
  <2>2. requests' \in 0 .. MaxRequests
    BY <2>1, Bounds
  <2> QED BY <2>2 DEF IInv, Request, drain, PassOK, Nothing
<1>4. ListOK'
  BY <1>2, ListStays DEF IInv, Request, drain
<1>5. /\ late' \cup indebted' \subseteq owed' /\ owed' \subseteq Scopes \X Items
      /\ \A pair \in Firm' :
            pair \notin Firm => pair[1] = k /\ pair[2] \in work /\ pair[2] \notin TooLate(k)
  BY Owing DEF IInv, DebtsOK, Request
<1>6. KeptUntilRepaired'
  <2> SUFFICES ASSUME NEW pair \in Firm' PROVE pair[2] \in row'[pair[1]].work
    BY DEF KeptUntilRepaired, InQueue, Firm
  <2>1. pair \in Scopes \X Items /\ pair[1] \in Scopes
    BY <1>5 DEF Firm
  <2>2. pair \in Firm => pair[2] \in row[pair[1]].work
    BY DEF IInv, DebtsOK, KeptUntilRepaired, InQueue, Firm
  <2>3. pair \notin Firm => pair[1] = k /\ pair[2] \in work
    BY <1>5
  <2> QED BY <1>2, <2>1, <2>2, <2>3
<1>7. DebtsOK'
  <2>1. pass' = pass /\ list' = list /\ selected' = selected
    BY DEF Request, drain
  <2>2. ASSUME NEW n \in 1 .. Len(list), NEW pair \in Firm', pair[1] = list[n].key
        PROVE  pair[2] \in list[n].row.work /\ pair[2] \notin selected[pair[1]]
    <3>1. CASE pair \in Firm
      BY <2>2, <3>1 DEF IInv, DebtsOK
    <3>2. CASE pair \notin Firm
      <4>1. pair[1] = k /\ pair[2] \in work /\ pair[2] \notin TooLate(k)
        BY <1>5, <3>2
      <4>2. OnList(k)
        BY <2>2, <4>1 DEF OnList
      <4> QED BY <4>1, <4>2 DEF TooLate
    <3> QED BY <3>1, <3>2
  <2>3. ASSUME pass = "listing", NEW pair \in Firm'
        PROVE  pair[2] \notin selected[pair[1]]
    <3>1. CASE pair \in Firm
      BY <2>3, <3>1 DEF IInv, DebtsOK
    <3>2. CASE pair \notin Firm
      <4>1. pair[1] = k /\ pair[2] \notin TooLate(k)
        BY <1>5, <3>2
      <4>2. list = <<>>
        BY <2>3 DEF IInv, ListOK
      <4>3. ~OnList(k)
        BY <4>2, NoPlaces DEF OnList
      <4> QED BY <2>3, <4>1, <4>3 DEF TooLate
    <3> QED BY <3>1, <3>2
  <2> QED BY <1>5, <1>6, <2>1, <2>2, <2>3 DEF DebtsOK
<1> QED BY <1>2, <1>3, <1>4, <1>7 DEF IInv

LEMMA BecomesDueOK ==
  ASSUME IInv, NEW k \in Scopes, BecomesDue(k)
  PROVE  IInv'
<1>1. QueueOK'
  BY DueGrows DEF IInv, QueueOK, BecomesDue
<1>2. PassOK'
  BY DEF IInv, PassOK, BecomesDue, drain, bounds, Nothing
<1>3. ListOK'
  BY ListStays DEF IInv, BecomesDue, drain
<1>4. DebtsOK'
  BY DEF IInv, DebtsOK, BecomesDue, drain, history, KeptUntilRepaired, InQueue, Firm
<1> QED BY <1>1, <1>2, <1>3, <1>4 DEF IInv

(* What is spoiled is owed no more.                                        *)
LEMMA SpoilOK ==
  ASSUME QueueAssumption, IInv, NEW k \in Scopes, Spoil(k)
  PROVE  IInv'
<1> DEFINE r == [queued |-> TRUE, work |-> {}, exact |-> FALSE]
<1>1. /\ QueueOK /\ row \in [Scopes -> Row] /\ row[k].queued
      /\ row' = [row EXCEPT ![k] = r] /\ due' = due
      /\ UNCHANGED <<drain, active, requests, days>>
  BY DEF IInv, QueueOK, Spoil, Replaced
<1>2. r \in Row /\ r.queued /\ r.work = {}
  BY DEF Row
<1> HIDE DEF r
<1>3. row' \in [Scopes -> Row] /\ row'[k] = r /\ \A l \in Scopes : l # k => row'[l] = row[l]
  BY <1>1, <1>2
<1>4. QueueOK'
  BY <1>1, <1>2, <1>3 DEF QueueOK
<1>5. PassOK'
  <2>1. spoiled \in 0 .. MaxSpoiled /\ spoiled < MaxSpoiled /\ spoiled' = spoiled + 1
    BY DEF IInv, PassOK, Spoil
  <2>2. spoiled' \in 0 .. MaxSpoiled
    BY <2>1, Bounds
  <2> QED BY <1>1, <2>2 DEF IInv, drain, PassOK, Nothing
<1>6. ListOK'
  <2>1. \A l \in Scopes : row[l].queued => row'[l].queued
    BY <1>2, <1>3
  <2> QED BY <1>1, <2>1, ListStays DEF IInv, drain
<1>7. /\ late' \cup indebted' \subseteq owed' /\ owed' \subseteq Scopes \X Items
      /\ Firm' = Firm \ Rows(k, row[k].work)
  BY Forgetting DEF IInv, DebtsOK, Spoil
<1>8. KeptUntilRepaired'
  <2> SUFFICES ASSUME NEW pair \in Firm' PROVE pair[2] \in row'[pair[1]].work
    BY DEF KeptUntilRepaired, InQueue
  <2>1. pair \in Scopes \X Items /\ pair[1] \in Scopes /\ pair \in Firm /\ pair \notin Rows(k, row[k].work)
    BY <1>7 DEF Firm
  <2>2. pair[2] \in row[pair[1]].work
    BY <2>1 DEF IInv, DebtsOK, KeptUntilRepaired, InQueue
  <2>3. row[k].work \in SUBSET Items
    BY <1>1 DEF Row
  <2>4. pair[1] # k
    BY <2>1, <2>2, <2>3, RowsAre
  <2> QED BY <1>3, <2>1, <2>2, <2>4
<1>9. DebtsOK'
  BY <1>1, <1>7, <1>8 DEF IInv, DebtsOK, drain
<1> QED BY <1>4, <1>5, <1>6, <1>9 DEF IInv

(* Budgets come and go.                                                    *)
LEMMA BudgetOK ==
  ASSUME IInv, active' \in BOOLEAN, UNCHANGED <<queue, drain, bounds, history>>
  PROVE  IInv'
<1>1. QueueOK'
  BY DEF IInv, QueueOK, queue
<1>2. PassOK'
  BY DEF IInv, PassOK, drain, bounds, Nothing
<1>3. ListOK'
  BY DEF IInv, ListOK, queue, drain
<1>4. DebtsOK'
  BY DEF IInv, DebtsOK, queue, drain, history, KeptUntilRepaired, InQueue, Firm
<1> QED BY <1>1, <1>2, <1>3, <1>4 DEF IInv

(* The day's scope is repaired, another one is queued.                     *)
LEMMA DailyOK ==
  ASSUME QueueAssumption, IInv,
         NEW k \in Scopes, NEW left \in Scopes, NEW work \in (SUBSET Items) \ {{}},
         NEW budget \in {0, Budget}, Daily(k, left, work, budget)
  PROVE  IInv'
<1>1. QueueOK /\ pass = "idle" /\ list = <<>>
  BY DEF IInv, ListOK, Daily
<1>2. left # k => Upsert(left, work, FALSE) /\ Owe(left, work)
  BY DEF Daily
<1>3. left = k => UNCHANGED <<row, due, owed, late, indebted>>
  BY DEF Daily, queue, history
<1>4. QueueOK'
  <2>1. CASE left = k
    BY <1>1, <1>3, <2>1 DEF QueueOK
  <2>2. CASE left # k
    BY <1>1, <1>2, <2>2, Widened
  <2> QED BY <2>1, <2>2
<1>5. PassOK'
  <2>1. days \in 0 .. MaxDays /\ days < MaxDays /\ days' = days + 1
    BY DEF IInv, PassOK, Daily
  <2>2. days' \in 0 .. MaxDays
    BY <2>1, Bounds
  <2>3. selected' = [Nothing EXCEPT ![k] = work] /\ Nothing \in [Scopes -> SUBSET Items]
    BY DEF Daily, Nothing
  <2>4. /\ selected' \in [Scopes -> SUBSET Items]
        /\ \A l \in Scopes : selected'[l] # {} => l = k
    BY <2>3 DEF Nothing
  <2> QED BY <2>2, <2>4 DEF IInv, Daily, PassOK
<1>6. list' = <<>> /\ pass' = "repairing selected"
  BY <1>1 DEF Daily
<1>7. late' \cup indebted' \subseteq owed' /\ owed' \subseteq Scopes \X Items
  <2>1. late \cup indebted \subseteq owed /\ owed \subseteq Scopes \X Items
    BY DEF IInv, DebtsOK
  <2> QED BY <1>2, <1>3, <2>1, Owing
<1>8. KeptUntilRepaired'
  <2> SUFFICES ASSUME NEW pair \in Firm' PROVE pair[2] \in row'[pair[1]].work
    BY DEF KeptUntilRepaired, InQueue, Firm
  <2>1. pair \in Scopes \X Items /\ pair[1] \in Scopes
    BY <1>7 DEF Firm
  <2>2. pair \in Firm => pair[2] \in row[pair[1]].work
    BY DEF IInv, DebtsOK, KeptUntilRepaired, InQueue, Firm
  <2>3. CASE left = k
    BY <1>3, <2>2, <2>3 DEF Firm
  <2>4. CASE left # k
    <3>1. row'[left].work = row[left].work \cup work /\ \A l \in Scopes : l # left => row'[l] = row[l]
      BY <1>1, <1>2, <2>4, Widened
    <3>2. pair \notin Firm => pair[1] = left /\ pair[2] \in work
      BY <1>2, <2>4, Owing DEF IInv, DebtsOK
    <3> QED BY <2>1, <2>2, <3>1, <3>2
  <2> QED BY <2>3, <2>4
<1> QED BY <1>4, <1>5, <1>6, <1>7, <1>8, NoList, DebtsWithoutList DEF IInv

(* A pass that only drains.                                                *)
LEMMA OnlyDrains ==
  ASSUME IInv, pass = "idle", pass' = "listing", limit' = Budget, active' \in BOOLEAN,
         UNCHANGED <<queue, selected, list, drained, bounds, history>>
  PROVE  IInv'
<1>1. QueueOK'
  BY DEF IInv, QueueOK, queue
<1>2. PassOK'
  BY DEF IInv, PassOK, bounds, Nothing
<1>3. ListOK'
  BY DEF IInv, ListOK, queue
<1>4. \A pair \in Firm : pair[2] \notin selected[pair[1]]
  BY DEF IInv, PassOK, DebtsOK, Firm, Nothing
<1>5. DebtsOK'
  BY <1>4 DEF IInv, DebtsOK, queue, history, KeptUntilRepaired, InQueue, Firm
<1> QED BY <1>1, <1>2, <1>3, <1>5 DEF IInv

(* The repair of the day's scope ends.                                     *)
LEMMA SelectedRepairedOK == ASSUME IInv, SelectedRepaired PROVE IInv'
<1> DEFINE done == UNION {Rows(k, selected[k]) : k \in Scopes}
<1>1. /\ late' \cup indebted' \subseteq owed' /\ owed' \subseteq Scopes \X Items
      /\ Firm' = Firm \ done
  BY Forgetting DEF IInv, DebtsOK, SelectedRepaired
<1>2. QueueOK'
  BY DEF IInv, QueueOK, queue, SelectedRepaired
<1>3. PassOK'
  BY DEF IInv, PassOK, bounds, Nothing, SelectedRepaired
<1>4. ListOK'
  BY DEF IInv, ListOK, queue, SelectedRepaired
<1>5. KeptUntilRepaired'
  BY <1>1 DEF IInv, DebtsOK, KeptUntilRepaired, InQueue, queue, SelectedRepaired, Firm
<1>6. ASSUME NEW pair \in Firm' PROVE pair[2] \notin selected[pair[1]]
  <2>1. pair \in Scopes \X Items /\ pair[1] \in Scopes /\ pair \notin done
    BY <1>1 DEF Firm
  <2>2. pair \notin Rows(pair[1], selected[pair[1]])
    BY <2>1
  <2>3. selected[pair[1]] \in SUBSET Items
    BY <2>1 DEF IInv, PassOK
  <2> QED BY <2>1, <2>2, <2>3, RowsAre
<1>7. list' = <<>> /\ selected' = selected
  BY DEF IInv, ListOK, SelectedRepaired
<1> QED BY <1>1, <1>2, <1>3, <1>4, <1>5, <1>6, <1>7, DebtsWithoutList DEF IInv

LEMMA SelectedInDebtOK == ASSUME IInv, SelectedInDebt PROVE IInv'
<1>1. PICK k \in Scopes : /\ selected[k] # {} /\ Upsert(k, selected[k], FALSE)
                          /\ OweInDebt(k, selected[k])
  BY DEF SelectedInDebt
<1>2. QueueOK /\ selected[k] \in (SUBSET Items) \ {{}} /\ list = <<>> /\ UNCHANGED <<list, selected>>
  BY <1>1 DEF IInv, PassOK, ListOK, SelectedInDebt
<1>3. /\ QueueOK'
      /\ row'[k].work = row[k].work \cup selected[k]
      /\ \A l \in Scopes : l # k => row'[l] = row[l]
  BY <1>1, <1>2, Widened
<1>4. /\ late' \cup indebted' \subseteq owed' /\ owed' \subseteq Scopes \X Items
      /\ Firm' = Firm \ Rows(k, selected[k])
  BY <1>1, <1>2, OwingInDebt DEF IInv, DebtsOK
<1>5. PassOK'
  BY DEF IInv, PassOK, bounds, Nothing, SelectedInDebt
<1>6. list' = <<>> /\ pass' = "listing" /\ selected' = selected
  BY <1>2 DEF SelectedInDebt
<1>7. ASSUME NEW pair \in Firm'
      PROVE  /\ pair[1] \in Scopes /\ pair[2] \in row[pair[1]].work
             /\ ~(pair[1] = k /\ pair[2] \in selected[k])
  <2>1. pair \in Scopes \X Items /\ pair[1] \in Scopes /\ pair \in Firm /\ pair \notin Rows(k, selected[k])
    BY <1>4 DEF Firm
  <2>2. pair[2] \in row[pair[1]].work
    BY <2>1 DEF IInv, DebtsOK, KeptUntilRepaired, InQueue
  <2>3. ~(pair[1] = k /\ pair[2] \in selected[k])
    BY <1>2, <2>1, RowsAre
  <2> QED BY <2>1, <2>2, <2>3
<1>8. KeptUntilRepaired'
  BY <1>3, <1>7 DEF KeptUntilRepaired, InQueue
<1>9. ASSUME NEW pair \in Firm' PROVE pair[2] \notin selected[pair[1]]
  <2>1. CASE pair[1] = k
    BY <1>7, <2>1
  <2>2. CASE pair[1] # k
    <3>1. selected[pair[1]] = {}
      BY <1>1, <1>7, <2>2 DEF IInv, PassOK
    <3> QED BY <3>1
  <2> QED BY <2>1, <2>2
<1> QED BY <1>3, <1>4, <1>5, <1>6, <1>8, <1>9, NoList, DebtsWithoutList DEF IInv

LEMMA SelectedFailsOK == ASSUME IInv, SelectedFails PROVE IInv'
<1>1. QueueOK'
  BY DEF IInv, QueueOK, queue, SelectedFails
<1>2. PassOK'
  BY DEF IInv, PassOK, bounds, Nothing, SelectedFails
<1>3. ListOK'
  BY DEF IInv, ListOK, queue, SelectedFails
<1>4. list' = <<>> /\ pass' = "idle"
  BY DEF IInv, ListOK, SelectedFails
<1>5. late' \cup indebted' \subseteq owed' /\ owed' \subseteq Scopes \X Items /\ KeptUntilRepaired'
  BY DEF IInv, DebtsOK, SelectedFails, queue, history, KeptUntilRepaired, InQueue, Firm
<1> QED BY <1>1, <1>2, <1>3, <1>4, <1>5, DebtsWithoutList DEF IInv

-----------------------------------------------------------------------------
(* The drain reads the due rows, which hold what is owed, and deals with   *)
(* them one by one.                                                        *)
LEMMA DrainBeginsOK == ASSUME QueueAssumption, IInv, DrainBegins PROVE IInv'
<1> DEFINE entry(n) == [key |-> due[n], row |-> row[due[n]]]
<1>1. /\ due \in Seq(Scopes) /\ Len(due) \in Nat /\ row \in [Scopes -> Row]
      /\ \A n \in 1 .. Len(due) : due[n] \in Scopes /\ row[due[n]].queued
      /\ \A m, n \in 1 .. Len(due) : due[m] = due[n] => m = n
  <2>1. due \in Seq(Scopes) /\ DOMAIN due = 1 .. Len(due) /\ Len(due) \in Nat
    BY DEF IInv, QueueOK
  <2>2. \A n \in 1 .. Len(due) : due[n] \in ToSet(due)
    BY <2>1 DEF ToSet
  <2>3. \A m, n \in 1 .. Len(due) : due[m] = due[n] => m = n
    BY <2>1 DEF IInv, QueueOK, IsInjective
  <2> QED BY <2>1, <2>2, <2>3 DEF IInv, QueueOK
<1>2. list' = [n \in 1 .. Len(due) |-> entry(n)] /\ pass = "listing" /\ pass' = "draining" /\ drained' = 0
      /\ UNCHANGED <<queue, selected, limit, active, bounds, history>>
  BY DEF DrainBegins
<1>3. \A n \in 1 .. Len(due) : entry(n) \in Read /\ entry(n).key = due[n] /\ entry(n).row = row[due[n]]
  BY <1>1 DEF Read
<1> HIDE DEF entry
<1>4. /\ list' \in Seq(Read) /\ Len(list') = Len(due)
      /\ \A n \in 1 .. Len(list') : list'[n].key = due[n] /\ list'[n].row = row[due[n]]
  BY <1>1, <1>2, <1>3
<1>5. QueueOK'
  BY <1>2 DEF IInv, QueueOK, queue
<1>6. PassOK'
  BY <1>2, Bounds DEF IInv, PassOK, bounds, Nothing
<1>7. ListOK'
  <2>1. \A n \in 1 .. Len(list') : list'[n].row.queued /\ row'[list'[n].key].queued
    BY <1>1, <1>2, <1>4 DEF queue
  <2>2. \A m, n \in 1 .. Len(list') : list'[m].key = list'[n].key => m = n
    BY <1>1, <1>4
  <2> QED BY <1>2, <1>4, <2>1, <2>2 DEF ListOK
<1>8. DebtsOK'
  <2>1. /\ Firm' = Firm
        /\ \A pair \in Firm : pair[2] \in row[pair[1]].work /\ pair[2] \notin selected[pair[1]]
    BY <1>2 DEF IInv, DebtsOK, history, KeptUntilRepaired, InQueue, Firm
  <2>2. \A n \in 1 .. Len(list') : \A pair \in Firm' :
           pair[1] = list'[n].key => pair[2] \in list'[n].row.work /\ pair[2] \notin selected'[pair[1]]
    <3>1. selected' = selected
      BY <1>2
    <3>2. ASSUME NEW n \in 1 .. Len(list'), NEW pair \in Firm', pair[1] = list'[n].key
          PROVE  pair[2] \in list'[n].row.work
      <4>1. list'[n].row = row[pair[1]]
        BY <1>4, <3>2
      <4> QED BY <2>1, <4>1
    <3> QED BY <2>1, <3>1, <3>2
  <2>3. KeptUntilRepaired'
    BY <1>2, <2>1 DEF KeptUntilRepaired, InQueue, Firm, queue
  <2> QED BY <1>2, <2>1, <2>2, <2>3 DEF IInv, DebtsOK, history
<1> QED BY <1>5, <1>6, <1>7, <1>8 DEF IInv

(* A row is cleared only when nothing firm is owed of its scope: what was  *)
(* selected covers the entry, and the entry holds all that is firm.        *)
LEMMA ClearsCoveredOK == ASSUME IInv, ClearsCovered PROVE IInv'
<1>1. /\ list # <<>> /\ pass = "draining" /\ Clear(Entry.key) /\ Dealt
      /\ Entry.row.work \subseteq selected[Entry.key]
      /\ UNCHANGED <<pass, selected, limit, drained, active, bounds, history>>
  BY DEF ClearsCovered, Skip
<1>2. 1 \in 1 .. Len(list) /\ Entry = list[1] /\ Entry.key \in Scopes
  BY <1>1, FirstOfList DEF IInv
<1>3. QueueOK' /\ \A k \in Scopes : k # Entry.key => row'[k] = row[k]
  BY <1>1, <1>2, Cleared DEF IInv
<1>4. PassOK'
  BY <1>1 DEF IInv, PassOK, bounds, Nothing
<1>5. ListOK'
  BY <1>1, <1>3, ListShrinks DEF IInv
<1>6. Firm' = Firm /\ late' \cup indebted' \subseteq owed' /\ owed' \subseteq Scopes \X Items
  BY <1>1 DEF Firm, history, IInv, DebtsOK
<1>7. \A pair \in Firm : pair[1] # Entry.key
  BY <1>1, <1>2 DEF IInv, DebtsOK
<1>8. DebtsOK'
  BY <1>1, <1>3, <1>6, <1>7, DebtsStay DEF IInv
<1> QED BY <1>3, <1>4, <1>5, <1>8 DEF IInv

(* Whoever keeps a row, deferred or as it is, keeps all.                   *)
LEMMA KeepingOK ==
  ASSUME IInv, list # <<>>, pass \in {"draining", "replaying"}, pass' = "draining", Dealt,
         \/ Defer(Entry.key)
         \/ UNCHANGED queue,
         UNCHANGED <<selected, limit, drained, active, bounds, history>>
  PROVE  IInv'
<1>1. Entry.key \in Scopes
  BY FirstOfList DEF IInv
<1>2. QueueOK' /\ row' = row
  <2>1. CASE Defer(Entry.key)
    BY <1>1, <2>1, Deferred DEF IInv
  <2>2. CASE UNCHANGED queue
    BY <2>2 DEF IInv, QueueOK, queue
  <2> QED BY <2>1, <2>2
<1>3. PassOK'
  BY DEF IInv, PassOK, bounds, Nothing
<1>4. ListOK'
  BY <1>2, ListShrinks DEF IInv
<1>5. Firm' = Firm /\ late' \cup indebted' \subseteq owed' /\ owed' \subseteq Scopes \X Items
  BY DEF Firm, history, IInv, DebtsOK
<1>6. DebtsOK'
  BY <1>2, <1>5, DebtsStay DEF IInv
<1> QED BY <1>2, <1>3, <1>4, <1>6 DEF IInv

LEMMA ReplaysOK == ASSUME QueueAssumption, IInv, Replays PROVE IInv'
<1>1. drained' \in 0 .. Budget
  <2>1. drained \in 0 .. Budget /\ limit \in {0, Budget} /\ drained < limit /\ drained' = drained + 1
    BY DEF IInv, PassOK, Replays
  <2> QED BY <2>1, Bounds
<1>2. QueueOK'
  BY DEF IInv, QueueOK, queue, Replays
<1>3. PassOK'
  BY <1>1 DEF IInv, PassOK, bounds, Nothing, Replays
<1>4. ListOK'
  BY DEF IInv, ListOK, queue, Replays
<1>5. DebtsOK'
  BY DEF IInv, DebtsOK, Replays, queue, history, KeptUntilRepaired, InQueue, Firm
<1> QED BY <1>2, <1>3, <1>4, <1>5 DEF IInv

(* A replay that succeeds clears the row: it did all that is firm of it.   *)
LEMMA ReplaySucceedsOK == ASSUME IInv, ReplaySucceeds PROVE IInv'
<1>1. /\ pass = "replaying" /\ pass' = "draining" /\ Clear(Entry.key) /\ Dealt
      /\ Forget(Rows(Entry.key, Entry.row.work))
      /\ UNCHANGED <<selected, limit, drained, active, bounds>>
  BY DEF ReplaySucceeds
<1>2. list # <<>>
  BY <1>1 DEF IInv, ListOK
<1>3. 1 \in 1 .. Len(list) /\ Entry = list[1] /\ Entry.key \in Scopes /\ Entry.row.work \in SUBSET Items
  BY <1>2, FirstOfList DEF IInv
<1>4. QueueOK' /\ \A k \in Scopes : k # Entry.key => row'[k] = row[k]
  BY <1>1, <1>3, Cleared DEF IInv
<1>5. PassOK'
  BY <1>1 DEF IInv, PassOK, bounds, Nothing
<1>6. ListOK'
  BY <1>1, <1>2, <1>4, ListShrinks DEF IInv
<1>7. /\ late' \cup indebted' \subseteq owed' /\ owed' \subseteq Scopes \X Items
      /\ Firm' = Firm \ Rows(Entry.key, Entry.row.work)
  BY <1>1, Forgetting DEF IInv, DebtsOK
<1>8. ASSUME NEW pair \in Firm' PROVE pair[1] # Entry.key
  <2>1. pair \in Scopes \X Items /\ pair \in Firm /\ pair \notin Rows(Entry.key, Entry.row.work)
    BY <1>7 DEF Firm
  <2>2. ~(pair[1] = Entry.key /\ pair[2] \in Entry.row.work)
    BY <1>3, <2>1, RowsAre
  <2>3. pair[1] = Entry.key => pair[2] \in Entry.row.work
    BY <1>3, <2>1 DEF IInv, DebtsOK
  <2> QED BY <2>2, <2>3
<1>9. DebtsOK'
  BY <1>1, <1>2, <1>4, <1>7, <1>8, DebtsStay DEF IInv
<1> QED BY <1>4, <1>5, <1>6, <1>9 DEF IInv

LEMMA DrainEndsOK == ASSUME IInv, DrainEnds PROVE IInv'
<1>1. QueueOK'
  BY DEF IInv, QueueOK, queue, DrainEnds
<1>2. PassOK'
  BY DEF IInv, PassOK, bounds, Nothing, DrainEnds
<1>3. list' = <<>> /\ pass' = "idle"
  BY DEF DrainEnds
<1>4. late' \cup indebted' \subseteq owed' /\ owed' \subseteq Scopes \X Items /\ KeptUntilRepaired'
  BY DEF IInv, DebtsOK, DrainEnds, queue, history, KeptUntilRepaired, InQueue, Firm
<1> QED BY <1>1, <1>2, <1>3, <1>4, NoList, DebtsWithoutList DEF IInv

-----------------------------------------------------------------------------
LEMMA PassStepOK == ASSUME QueueAssumption, IInv, PassStep PROVE IInv'
<1>1. CASE SelectedRepaired \/ SelectedInDebt \/ SelectedFails
  BY <1>1, SelectedRepairedOK, SelectedInDebtOK, SelectedFailsOK
<1>2. CASE DrainBegins \/ ClearsCovered \/ Replays \/ ReplaySucceeds \/ DrainEnds
  BY <1>2, DrainBeginsOK, ClearsCoveredOK, ReplaysOK, ReplaySucceedsOK, DrainEndsOK
<1>3. CASE DefersUnreadable \/ KeepsExact
  BY <1>3, KeepingOK DEF DefersUnreadable, KeepsExact
<1>4. CASE LeavesForLater
  BY <1>4, KeepingOK DEF LeavesForLater, queue
<1>5. CASE ReplayFails
  <2>1. list # <<>>
    BY <1>5 DEF ReplayFails, IInv, ListOK
  <2> QED BY <1>5, <2>1, KeepingOK DEF ReplayFails
<1> QED BY <1>1, <1>2, <1>3, <1>4, <1>5 DEF PassStep

LEMMA StepOK == ASSUME QueueAssumption, IInv, [Next]_vars PROVE IInv'
<1>1. ASSUME NEW k \in Scopes, NEW work \in (SUBSET Items) \ {{}}, NEW exact \in BOOLEAN,
             Request(k, work, exact)
      PROVE  IInv'
  BY <1>1, RequestOK
<1>2. ASSUME NEW k \in Scopes, BecomesDue(k) PROVE IInv'
  BY <1>2, BecomesDueOK
<1>3. ASSUME NEW k \in Scopes, NEW left \in Scopes, NEW work \in (SUBSET Items) \ {{}},
             NEW budget \in {0, Budget}, Daily(k, left, work, budget)
      PROVE  IInv'
  BY <1>3, DailyOK
<1>4. ASSUME NEW research \in BOOLEAN, DailyWithoutScopes(research) PROVE IInv'
  <2>1. active \in BOOLEAN
    BY DEF IInv, PassOK
  <2>2. active' \in BOOLEAN
    BY <1>4, <2>1 DEF DailyWithoutScopes
  <2> QED BY <1>4, <2>2, OnlyDrains DEF DailyWithoutScopes
<1>5. CASE Refresh
  BY <1>5, OnlyDrains DEF Refresh, IInv, PassOK
<1>6. CASE PassStep
  BY <1>6, PassStepOK
<1>7. CASE UNCHANGED vars
  BY <1>7 DEF vars, queue, drain, bounds, history, IInv, QueueOK, PassOK, ListOK, DebtsOK, Nothing,
              KeptUntilRepaired, InQueue, Firm
<1>8. ASSUME NEW k \in Scopes, Spoil(k) PROVE IInv'
  BY <1>8, SpoilOK
<1>9. CASE BudgetRecorded \/ BudgetExpires
  BY <1>9, BudgetOK DEF BudgetRecorded, BudgetExpires
<1> QED BY <1>1, <1>2, <1>3, <1>4, <1>5, <1>6, <1>7, <1>8, <1>9 DEF Next

LEMMA IInvAlways == ASSUME QueueAssumption PROVE Spec => []IInv
BY InitOK, StepOK, PTL DEF Spec

(* Work that was asked for stays queued until it has been repaired or its  *)
(* row spoiled, with all types and the order of the queue: for any scopes, *)
(* any work, any budget, and any number of requests and days.  Left out    *)
(* are the two kinds of work the code loses (Firm, RemovedOnceRepaired):   *)
(* what is asked for after the pass has read its row or repaired the same, *)
(* and what the repair of the day itself leaves in debt.                   *)
THEOREM QueueKeepsWork == ASSUME QueueAssumption PROVE Spec => []WorkKept
<1>1. ASSUME IInv PROVE WorkKept
  <2>1. TypeOK
    BY <1>1 DEF IInv, QueueOK, PassOK, ListOK, DebtsOK, TypeOK, Row
  <2> QED BY <1>1, <2>1 DEF IInv, DebtsOK, WorkKept
<1> QED BY <1>1, IInvAlways, PTL
=============================================================================
