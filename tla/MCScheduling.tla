---------------------------- MODULE MCScheduling ----------------------------
(* Two projects of equal rank; the first has a second, less urgent issue, *)
(* which the first one's completion lets go.                               *)
EXTENDS Scheduling

OwnerOf == (1 :> 1) @@ (2 :> 1) @@ (3 :> 2)
PriorityOf == (1 :> 50) @@ (2 :> 40) @@ (3 :> 50)
DependsOnOf == (1 :> {}) @@ (2 :> {1}) @@ (3 :> {})

OutcomesOf == (1 :> {"succeeded", "cancelled", "unknown"})
              @@ (2 :> {"succeeded", "failed"}) @@ (3 :> {"succeeded"})

Interchangeable == Permutations(Operators)
=============================================================================
