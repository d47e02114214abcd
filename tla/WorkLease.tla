------------------------------ MODULE WorkLease ------------------------------
(***************************************************************************)
(* What the control plane promises about a piece of work, whatever the     *)
(* tables that implement it: an attempt is begun once, is live while       *)
(* nothing is known of its end, and ends once; while an attempt of a work  *)
(* item is live no other attempt of that item begins.  DeliveryStore is    *)
(* shown to implement this specification.                                  *)
(***************************************************************************)
CONSTANTS
    Executions,   \* identities of attempts
    Items,        \* work items (one lease key each)
    None          \* "no item": an attempt that was never begun

VARIABLES
    attempt,      \* attempt[e]: "none", "live" or "over"
    target        \* target[e]: the item attempt e works on

WL_vars == <<attempt, target>>

LiveOn(w) == {e \in Executions : attempt[e] = "live" /\ target[e] = w}

WL_TypeOK ==
    /\ attempt \in [Executions -> {"none", "live", "over"}]
    /\ target \in [Executions -> Items \union {None}]

WL_Init ==
    /\ attempt = [e \in Executions |-> "none"]
    /\ target = [e \in Executions |-> None]

Begin(e, w) ==
    /\ attempt[e] = "none"
    /\ LiveOn(w) = {}
    /\ attempt' = [attempt EXCEPT ![e] = "live"]
    /\ target' = [target EXCEPT ![e] = w]

End(e) ==
    /\ attempt[e] = "live"
    /\ attempt' = [attempt EXCEPT ![e] = "over"]
    /\ UNCHANGED target

WL_Next == \E e \in Executions : End(e) \/ \E w \in Items : Begin(e, w)

WL_Spec == WL_Init /\ [][WL_Next]_WL_vars

-----------------------------------------------------------------------------
=============================================================================
