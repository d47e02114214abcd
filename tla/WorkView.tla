------------------------------- MODULE WorkView --------------------------------
(* What the dashboard tells an operator about a delivered issue: the list of *)
(* the task page, the issue's own page and the overview each correlate the   *)
(* projection, the executions, the workflows and the decisions again, in     *)
(* reads of their own.  They are functions of the state of GithubDelivery.   *)
EXTENDS GithubDelivery

IssueExecutions(i) == {e \in Executions : execWork[e] = i}

(* ORDER BY requested_at DESC: an execution in flight is the newest of its  *)
(* issue; which of the ended ones is newest is not told apart.               *)
Newest(S) ==
    LET live == {e \in S : IsInFlight(e)}
    IN IF live # {} THEN CHOOSE e \in live : TRUE
       ELSE IF S # {} THEN CHOOSE e \in S : TRUE
       ELSE None

StatusOf(e) == IF e = None THEN None ELSE execStatus[e]
Live(e) == e # None /\ IsInFlight(e)

-----------------------------------------------------------------------------
(* The list of the task page.                                              *)

\* githubWorkListItem: the execution the marker names, if it names one.
ListedExecution(i) ==
    IF projected[i].exec # None THEN projected[i].exec ELSE Newest(IssueExecutions(i))

GithubWorkRank(i) ==
    IF Live(ListedExecution(i)) THEN 0
    ELSE IF projected[i].state = "running" THEN 1
    ELSE IF projected[i].state = "ready" THEN 2
    ELSE IF projected[i].state = "waiting-human" THEN 3
    ELSE 4

\* The items of which the page presents the first as what occupies the worker.
ActiveGithubWork == {i \in Items : GithubWorkRank(i) <= 1}

-----------------------------------------------------------------------------
(* The page of an issue: buildGithubWorkDetail.                            *)

\* The rule of the list, under which a page follows the marker's execution.
MarkedExecution(i) == ListedExecution(i)

\* The execution in flight, else the newest, else the one the marker names.
DetailExecution(i) ==
    LET newest == Newest(IssueExecutions(i))
    IN IF newest # None THEN newest ELSE projected[i].exec

DetailWorkflow(i) ==
    IF projected[i].exec = None THEN None ELSE workflow[projected[i].exec]

\* The workflow's decision, which no later transition clears, before the marker's.
DetailDecision(i) ==
    IF DetailWorkflow(i) # None /\ DetailWorkflow(i).decision # None
    THEN DetailWorkflow(i).decision ELSE projected[i].decision

\* A decision that is not stored is shown as none at all.
ShowsOpenDecision(i) == DetailDecision(i) \in openDecisions

\* No transition of the worker sets the workflow's reconciliation flag.
CurrentStage(i) ==
    LET status == StatusOf(DetailExecution(i))
    IN IF status = "cancelled" \/ projected[i].state = "cancelled" THEN "cancelled"
       ELSE IF status = "unknown" THEN "reconciling"
       ELSE IF DetailWorkflow(i) # None THEN DetailWorkflow(i).stage
       ELSE projected[i].state

ProgressState(i) ==
    IF ~Live(DetailExecution(i))
       \/ CurrentStage(i) \in {"waiting-human", "completed", "failed", "blocked", "cancelled"}
    THEN "inactive"
    ELSE IF leaseExpired[DetailExecution(i)] THEN "stale" ELSE "live"

BlockingReason(i) ==
    IF ProgressState(i) = "stale" THEN "no-lease"
    ELSE IF ShowsOpenDecision(i) THEN "decision"
    ELSE IF CurrentStage(i) \in {"blocked", "failed", "reconciling"} THEN "failure"
    ELSE IF CurrentStage(i) = "waiting-human" THEN "human"
    ELSE "none"

NextAction(i) ==
    LET e == DetailExecution(i)
        stage == CurrentStage(i)
    IN IF stage = "cancelled" THEN "retry"
       ELSE IF ShowsOpenDecision(i) THEN "decide"
       ELSE IF stage = "reconciling" THEN "reconcile"
       ELSE IF stage = "waiting-human" THEN "review-block"
       ELSE IF stage = "completed" THEN "review-pull-request"
       ELSE IF e # None /\ cancelRequested[e] THEN "wait-for-stop"
       ELSE "wait-for-worker"

\* The page's control: the execution it would cancel.
OffersCancel(i, e) == e = DetailExecution(i) /\ Live(e)

\* The page's human gate: a button for each option of the open decision.
OffersDecision(i, d) == d = DetailDecision(i) /\ ShowsOpenDecision(i)

-----------------------------------------------------------------------------
(* Properties.                                                             *)

\* The provider is at work or its result is being published.
ProviderWorks ==
    pc \in {"implementing", "validating", "reviewing", "publishing", "pushed", "published"}

(* The dashboard shows the run there is.  While the worker drives an        *)
(* execution, the page of its issue offers to cancel that one and no other, *)
(* also when the marker still names an earlier one, which is all the list   *)
(* looks at; and from the moment the provider works the issue is among those *)
(* shown to occupy the slot, as soon as the projection has caught up.        *)
RunIsShown ==
    slot # None /\ IsInFlight(slot) =>
        LET i == execWork[slot]
        IN /\ \A e \in Executions : OffersCancel(i, e) <=> e = slot
           /\ ProviderWorks /\ edits = 0 /\ projected[i] = issue[i] => i \in ActiveGithubWork

(* The operator is asked for an answer only where one is awaited: as long   *)
(* as nobody edits the issue, the decision its page offers, or gives as the *)
(* reason of the block, is the one the issue waits for, through crashes,    *)
(* stale projections and a workflow that keeps its last decision for good.  *)
OfferedDecisionIsAwaited ==
    \A i \in Items : \A d \in openDecisions :
        /\ edits = 0 /\ OffersDecision(i, d)
        /\ NextAction(i) = "decide" \/ BlockingReason(i) = "decision"
        => issue[i].state = "waiting-human" /\ issue[i].decision = d
=============================================================================
