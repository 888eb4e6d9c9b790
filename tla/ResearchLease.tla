---------------------------- MODULE ResearchLease ----------------------------
(***************************************************************************)
(* What the durable schedule row promises about one loop: work that was    *)
(* submitted waits, at most one owner at a time holds its lease, a held    *)
(* lease is renewed only by its holder and taken over only once it lapsed, *)
(* and a cancellation, once asked for, is never taken back.                *)
(***************************************************************************)
EXTENDS Naturals

CONSTANTS Owners, NoOwner, TTL

VARIABLES
    state,      \* "absent", "waiting", "held" or "ended"
    holder,     \* the owner a held lease was last given to
    left,       \* ticks until that lease lapses
    cancel      \* a cancellation was asked for

vars == <<state, holder, left, cancel>>

Init ==
    /\ state = "absent" /\ holder = NoOwner
    /\ left = 0         /\ cancel = FALSE

(* The loop is queued, for the first time or again: whoever held it does   *)
(* not any more.                                                           *)
Submit ==
    /\ state'  = "waiting"
    /\ holder' = NoOwner
    /\ left'   = 0
    /\ UNCHANGED cancel

(* First claim, takeover of a lapsed lease, or renewal by the holder.      *)
Acquire(o) ==
    /\ state \in {"waiting", "held"}
    /\ left > 0 => holder = o
    /\ state'  = "held"
    /\ holder' = o
    /\ left'   = TTL
    /\ UNCHANGED cancel

End ==
    /\ state # "absent"
    /\ state'  = "ended"
    /\ holder' = NoOwner
    /\ left'   = 0
    /\ UNCHANGED cancel

AskCancel ==
    /\ state \in {"waiting", "held"}
    /\ cancel' = TRUE
    /\ UNCHANGED <<state, holder, left>>

Lapse ==
    /\ left > 0
    /\ left' = left - 1
    /\ UNCHANGED <<state, holder, cancel>>

Next == Submit \/ (\E o \in Owners : Acquire(o)) \/ End \/ AskCancel \/ Lapse

Spec == Init /\ [][Next]_vars
=============================================================================
