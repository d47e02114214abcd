-------------------------- MODULE MCGithubDelivery ---------------------------
(* Instances of GithubDelivery and its views for TLC: one issue, or two of one project.  *)
EXTENDS WorkView

CONSTANTS e1, e2, p1

\* No scheduled revision and no decision goes beyond these within the bounds.
MCSummaries == [rev : 1..3, decision : Items \X {1, 2} \union {None}]

TwoExecutions == {e1, e2}

OneIssue == {1}
TwoIssues == {1, 2}

OneProject == {p1}
SameProject == [i \in Items |-> p1]

SamePriority == [i \in Items |-> 50]
NoDependency == [i \in Items |-> {}]
SecondNeedsFirst == [i \in Items |-> IF i = 2 THEN {1} ELSE {}]
=============================================================================
