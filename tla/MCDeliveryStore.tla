--------------------------- MODULE MCDeliveryStore ---------------------------
(* Three executions over two issues: enough for a second attempt at an     *)
(* issue whose first attempt was orphaned, beside an attempt at another.   *)
EXTENDS DeliveryStore, TLC

CONSTANTS e1, e2, e3, i1, i2, attempted

MCExecutions == {e1, e2, e3}
MCItems == {i1, i2}
MCSummaries == {attempted}

\* No action or property tells one execution, or one issue, from another.
Interchangeable == Permutations(MCExecutions) \union Permutations(MCItems)
=============================================================================
