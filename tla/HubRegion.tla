----------------------------- MODULE HubRegion -----------------------------
(***************************************************************************)
(* One entry of a shared memory region of the communication hub, the       *)
(* agents that read and write it, and the watchers that are told.          *)
(*                                                                         *)
(* The code is SharedMemoryManager in packages/sutra/src/hub-memory.ts.    *)
(* Each method is synchronous.  write runs the handlers of the watchers,   *)
(* and a handler may itself write: the handlers that come after it in the  *)
(* outer loop run when the inner write is over.  Each write stores a value *)
(* of its own, named by the version it produced.                           *)
(***************************************************************************)
EXTENDS Integers, Sequences, SequencesExt

CONSTANTS
    Writers,        \* agents that read the entry and write it back
    Watchers,       \* handlers registered by watchRegion, in this order
    Reacting,       \* those that answer a notification with one write
    Allowed,        \* the writers in the access list
    MaxVersion,     \* bound on the writes
    None

RegionAssumption ==
    /\ IsInjective(Watchers)
    /\ Reacting \subseteq ToSet(Watchers)
    /\ Allowed \subseteq Writers
    /\ MaxVersion \in Nat
    /\ None \notin Nat

VARIABLES
    data, version,  \* what the entry holds, and the region's version
    readAt,         \* per writer, the version it last read, None if it must read
    watching,       \* handlers registered, in order
    frames,         \* write calls that are running, innermost first
    told,           \* per watcher, the value and version it was last called with
    reacted         \* reacting watchers that have written

vars == <<data, version, readAt, watching, frames, told, reacted>>

Quiet == frames = <<>>

-----------------------------------------------------------------------------
Init ==
    /\ data = 0 /\ version = 0
    /\ readAt = [a \in Writers |-> None]
    /\ watching = <<>>
    /\ frames = <<>>
    /\ told = [w \in ToSet(Watchers) |-> <<0, 0>>]
    /\ reacted = {}

(* watchRegion; what a watcher knows starts with what the entry holds.     *)
WatchRegion(w) ==
    /\ Quiet
    /\ w \notin ToSet(watching)
    /\ watching' = Append(watching, w)
    /\ told' = [told EXCEPT ![w] = <<data, version>>]
    /\ UNCHANGED <<data, version, readAt, frames, reacted>>

(* The function watchRegion returned.                                      *)
Unwatch(w) ==
    /\ Quiet
    /\ w \in ToSet(watching)
    /\ watching' = SelectSeq(watching, LAMBDA u : u # w)
    /\ UNCHANGED <<data, version, readAt, frames, told, reacted>>

Read(a) ==
    /\ Quiet
    /\ readAt[a] = None
    /\ readAt' = [readAt EXCEPT ![a] = version]
    /\ UNCHANGED <<data, version, watching, frames, told, reacted>>

(* The assignments of write, and the loop over the watchers it starts.     *)
Store ==
    /\ version < MaxVersion
    /\ version' = version + 1
    /\ data' = version'
    /\ frames' = <<[value |-> version', rest |-> watching]>> \o frames

(* write by an agent, after it read and thought about it; write compares   *)
(* no version.  An agent that is not in the access list gets an error.     *)
Write(a) ==
    /\ Quiet
    /\ readAt[a] # None
    /\ readAt' = [readAt EXCEPT ![a] = None]
    /\ IF a \in Allowed THEN Store ELSE UNCHANGED <<data, version, frames>>
    /\ UNCHANGED <<watching, told, reacted>>

(* The next handler is called with the value of its write and with the     *)
(* version the region has by now; it may write itself.                     *)
Notify ==
    /\ ~Quiet
    /\ frames[1].rest # <<>>
    /\ LET w   == Head(frames[1].rest)
           now == <<frames[1].value, version>>
           on  == <<[frames[1] EXCEPT !.rest = Tail(@)]>> \o Tail(frames)
       IN  /\ told' = [told EXCEPT ![w] = now]
           /\ IF w \in Reacting \ reacted /\ version < MaxVersion
              THEN /\ reacted' = reacted \cup {w}
                   /\ version' = version + 1
                   /\ data' = version'
                   /\ frames' = <<[value |-> version', rest |-> watching]>> \o on
              ELSE /\ frames' = on
                   /\ UNCHANGED <<data, version, reacted>>
    /\ UNCHANGED <<readAt, watching>>

(* The loop of the innermost write is through.                             *)
Return ==
    /\ ~Quiet
    /\ frames[1].rest = <<>>
    /\ frames' = Tail(frames)
    /\ UNCHANGED <<data, version, readAt, watching, told, reacted>>

Next ==
    \/ \E w \in ToSet(Watchers) : WatchRegion(w) \/ Unwatch(w)
    \/ \E a \in Writers : Read(a) \/ Write(a)
    \/ Notify
    \/ Return

Spec == Init /\ [][Next]_vars

-----------------------------------------------------------------------------
(* The variables stay in their types.                                      *)
TypeOK ==
    /\ data \in 0..MaxVersion /\ version \in 0..MaxVersion
    /\ readAt \in [Writers -> (0..MaxVersion) \cup {None}]
    /\ watching \in Seq(ToSet(Watchers)) /\ IsInjective(watching)
    /\ frames \in Seq([value : 0..MaxVersion, rest : Seq(ToSet(Watchers))])
    /\ told \in [ToSet(Watchers) -> (0..MaxVersion) \X (0..MaxVersion)]
    /\ reacted \subseteq Reacting

(* Between writes every watcher has been called since the version is what  *)
(* it is: none was left out of a loop, whatever other watchers came, went  *)
(* or wrote.                                                               *)
WatchersCurrent ==
    Quiet => \A w \in ToSet(watching) : told[w][2] = version

-----------------------------------------------------------------------------
(* Expected to fail: what the repository says of the program.              *)

(* "Write a value to a region with optimistic CAS semantics"               *)
(* (hub-memory.ts:74): a write that is based on an old version does not    *)
(* take effect.                                                            *)
NoLostUpdate ==
    [][\A a \in Writers :
          (readAt[a] # None /\ readAt'[a] = None /\ version' # version) => readAt[a] = version]_vars

(* A watcher is called with a value and the version of the write that      *)
(* stored it (sutra/test/hub-memory.test.ts:261).                          *)
ValueHasItsVersion == \A w \in ToSet(Watchers) : told[w][1] = told[w][2]
=============================================================================
