--------------------------- MODULE GithubDelivery ----------------------------
(***************************************************************************)
(* The GitHub-first delivery path: GithubWorkOrchestrator schedules an     *)
(* issue, GithubWorkCodexExecutor delivers it, ReconcilingGithubWorkReader *)
(* and the dashboard's pull-request webhook follow the pull request to its *)
(* end, and DeliveryStore holds the executions and leases of it all.       *)
(*                                                                         *)
(* One worker process runs at most one job.  Its progress is "pc"; what    *)
(* the code keeps in local variables across awaits is "job", among them    *)
(* the issue body read early and written back late.  GitHub, the operator, *)
(* the webhook and the clock act between any two steps; the process may    *)
(* die between any two steps and loses pc and job only.                    *)
(***************************************************************************)
EXTENDS DeliveryStore, Integers, FiniteSets

CONSTANTS
    Projects,     \* registered projects (one repository each)
    ProjectOf,    \* ProjectOf[i]: the project of issue i
    Priority,     \* Priority[i]: the marker's priority
    DependsOn,    \* DependsOn[i]: the marker's dependsOn, issues of the project
    MaxEdits,     \* bound: operator actions on issues and branches
    MaxCancels,   \* bound: executions the operator cancels
    MaxCrashes,   \* bound: deaths of the worker process
    MaxOutages    \* bound: PostgreSQL or GitHub calls that fail on the way out

ASSUME IssuesAssumption ==
    /\ Items \subseteq Nat \ {0}
    /\ DependsOn \in [Items -> SUBSET Items]
    /\ MaxEdits \in Nat /\ MaxCrashes \in Nat /\ MaxOutages \in Nat

VARIABLES
    \* PostgreSQL, beside the tables of DeliveryStore
    projected,          \* github_work_items: the last reconciled marker
    workflow,           \* ade_delivery_workflows by execution
    openDecisions, resolvedDecisions,   \* ade_decisions
    \* GitHub
    issue,              \* the issue's marker and its updated_at
    pull,               \* the pull request an execution opened
    ahead,              \* the issue's branch holds commits the base lacks
    webhookDue,         \* closed pull requests whose webhook is on its way
    \* the worker process
    pc, job,
    \* history, read by properties only
    claims,             \* executions that started the provider
    \* counters of the bounded events
    edits, crashes, outages

githubVars == <<issue, pull, ahead, webhookDue>>
decisionVars == <<openDecisions, resolvedDecisions>>
workerVars == <<pc, job>>
counters == <<edits, crashes, outages>>
vars == <<storeVars, projected, workflow, decisionVars, githubVars, workerVars,
          claims, counters>>

-----------------------------------------------------------------------------
(* Data.                                                                   *)

States == {"ready", "running", "waiting-human", "blocked", "completed", "cancelled"}
Stages == {"admitted", "planning", "enriching", "ready-for-dev", "implementing",
           "validating", "reviewing", "publishing", "waiting-human", "completed"}

(* A decision is named after its issue and the updated_at it was asked at; *)
(* revision 0 stands for the webhook's "pr-<n>-reconciliation".            *)
Decisions == Items \X Nat
PullRequestDecision(i) == <<i, 0>>

Markers == [rev : Nat, state : States, exec : Executions \union {None},
            decision : Decisions \union {None}, pr : Executions \union {None}]
Workflows == [stage : Stages, decision : Decisions \union {None},
              pr : Executions \union {None}, head : Executions \union {None},
              resumed : SUBSET Decisions]

\* Neither a decision nor a workflow is the absence of one.
ASSUME RowsAreSomething == None \notin Decisions /\ None \notin Workflows

DefaultMarker(rev) ==
    [rev |-> rev, state |-> "ready", exec |-> None, decision |-> None, pr |-> None]

NoJob == [item |-> None, seen |-> 0, ref |-> None, resume |-> None, wf |-> None,
          body |-> None, ckpt |-> None, pr |-> None, stop |-> "no", result |-> None]

(* The steps of execute, named for the workflow stage or for what was just *)
(* done.  AbortPoints are those whose next call looks at the abort signal  *)
(* before it takes effect.                                                 *)
AbortPoints == {"begin", "deciding", "planning", "reading", "lifecycle", "enriching",
                "enriched", "asking",
                "claiming", "implementing", "validating", "reviewing",
                "publishing", "pushed", "published"}
Executing == AbortPoints \union {"asked", "ready-for-dev", "claimed", "recorded", "cancelling"}
Positions == Executing \union
    {"down", "starting", "idle", "leased", "started", "dispatched", "returned", "catching"}

TypeOK ==
    /\ StoreTypeOK
    /\ projected \in [Items -> Markers]
    /\ workflow \in [Executions -> Workflows \union {None}]
    /\ openDecisions \in SUBSET Decisions /\ resolvedDecisions \in SUBSET Decisions
    /\ issue \in [Items -> Markers]
    /\ pull \in [Executions -> {"none", "open", "merged", "closed"}]
    /\ ahead \in [Items -> BOOLEAN]
    /\ webhookDue \subseteq Executions
    /\ pc \in Positions
    /\ job \in [item : Items \union {None}, seen : Nat, ref : Executions \union {None},
                resume : Decisions \union {None}, wf : Executions \union {None},
                body : Markers \union {None}, ckpt : Stages \union {None},
                pr : Executions \union {None}, stop : {"no", "cancel", "lease", "timeout"},
                result : Terminal \union {None}]
    /\ slot = None <=> pc \in {"down", "starting", "idle"}
    /\ claims \subseteq Executions
    /\ edits \in 0..MaxEdits /\ crashes \in 0..MaxCrashes /\ outages \in 0..MaxOutages

(* Every issue was admitted and reconciled once before the worker started. *)
Init ==
    /\ StoreInit
    /\ issue = [i \in Items |-> DefaultMarker(1)]
    /\ projected = issue
    /\ workflow = [e \in Executions |-> None]
    /\ openDecisions = {} /\ resolvedDecisions = {}
    /\ pull = [e \in Executions |-> "none"]
    /\ ahead = [i \in Items |-> FALSE]
    /\ webhookDue = {}
    /\ pc = "starting" /\ job = NoJob
    /\ claims = {}
    /\ edits = 0 /\ crashes = 0 /\ outages = 0

ItemsOf(p) == {i \in Items : ProjectOf[i] = p}

(* An abnormal outcome of a call to PostgreSQL or GitHub.                  *)
Outage == outages < MaxOutages /\ outages' = outages + 1
NoOutage == UNCHANGED outages

(* Any body write moves the issue's updated_at.                            *)
WriteIssue(i, marker) ==
    issue' = [issue EXCEPT ![i] = [marker EXCEPT !.rev = issue[i].rev + 1]]

-----------------------------------------------------------------------------
(* Starting up: main.ts reconciles executions once, then enters the loop.  *)

ReconcileCandidate(e) ==
    /\ pc = "starting"
    /\ e \in ReconciliationCandidates
    /\ ReconcilerCompletes(e)
    /\ UNCHANGED <<projected, workflow, decisionVars, githubVars, workerVars, claims, counters>>

(* reconcileMissingWorkflowStarts, at startup and before each cycle: an    *)
(* execution past the start deadline with no workflow, neither its own nor *)
(* that of the execution its issue is projected to, becomes unknown.       *)
HasWorkflowEvidence(e) ==
    \/ workflow[e] # None
    \/ /\ projected[execWork[e]].exec # None
       /\ workflow[projected[execWork[e]].exec] # None

ReconcileMissingWorkflowStart(e) ==
    /\ pc \in {"starting", "idle"}
    /\ e \in StartedExecutions
    /\ ~HasWorkflowEvidence(e)
    /\ ReconcilerCompletes(e)
    /\ UNCHANGED <<projected, workflow, decisionVars, githubVars, workerVars, claims, counters>>

EnterLoop ==
    /\ pc = "starting"
    /\ ReconciliationCandidates = {}
    /\ pc' = "idle"
    /\ UNCHANGED <<storeVars, projected, workflow, decisionVars, githubVars, job, claims, counters>>

-----------------------------------------------------------------------------
(* Reconciling the projection.                                             *)

(* reconcileProject of the worker, reconcileGithubWork of the webhook: all *)
(* markers of the repository replace the project's projection.             *)
ReconcileProject(p) ==
    /\ projected' = [i \in Items |-> IF ProjectOf[i] = p THEN issue[i] ELSE projected[i]]
    /\ projected' # projected
    /\ UNCHANGED <<storeVars, workflow, decisionVars, githubVars, workerVars, claims, counters>>

\* A reader that completes an issue on any closed pull request.
CorrelatedClosedPull(i) ==
    /\ issue[i].pr # None /\ issue[i].exec # None
    /\ pull[issue[i].pr] \in {"merged", "closed"}

\* A reader that only looks at issues with a decision to make.
CorrelatedAskingPull(i) ==
    /\ issue[i].pr # None /\ issue[i].exec # None /\ issue[i].decision # None
    /\ pull[issue[i].pr] = "merged"

(* The reader's view of a merged, correlated pull request.                 *)
CorrelatedMergedPull(i) ==
    /\ issue[i].pr # None /\ issue[i].exec # None
    /\ pull[issue[i].pr] = "merged"

WorkflowAwaitsMerge(e, pr) ==
    workflow[e] # None /\ workflow[e].stage = "waiting-human" /\ workflow[e].pr = pr

(* ReconcilingGithubWorkReader.reconcileItem: the missed-webhook recovery. *)
(* The workflow transition follows the GitHub writes and may not happen.   *)
ReconcileItem(i) ==
    /\ pc = "idle"
    /\ issue[i].state \in {"waiting-human", "blocked", "completed"}
    /\ CorrelatedMergedPull(i)
    /\ LET e == issue[i].exec
           completed == [issue[i] EXCEPT !.state = "completed", !.decision = None]
           closes == WorkflowAwaitsMerge(e, issue[i].pr)
       IN /\ issue[i].state = "completed" => closes
          /\ IF completed = issue[i] THEN UNCHANGED issue ELSE WriteIssue(i, completed)
          /\ \/ /\ closes
                /\ workflow' = [workflow EXCEPT ![e].stage = "completed"]
                /\ NoOutage
             \/ ~closes /\ UNCHANGED workflow /\ NoOutage
             \/ closes /\ UNCHANGED workflow /\ Outage
    /\ UNCHANGED <<storeVars, projected, decisionVars, pull, ahead, webhookDue, workerVars,
                   claims, edits, crashes>>

-----------------------------------------------------------------------------
(* Scheduling: the snapshot, selectGithubWork, evaluateSchedule and        *)
(* scheduleWithLease of runCycle.  The gates that are not modelled (mode,  *)
(* quota, runners, pauses) can only leave an eligible project out.         *)

Precedes(i, j) ==
    Priority[i] > Priority[j] \/ (Priority[i] = Priority[j] /\ i < j)
First(S) == CHOOSE i \in S : \A j \in S \ {i} : Precedes(i, j)

(* Issues are finitely many and the order is total, so First means         *)
(* something of any of their sets.                                         *)
ASSUME SomeIssueIsFirst ==
    \A S \in (SUBSET Items) \ {{}} : \E i \in S : \A j \in S \ {i} : Precedes(i, j)

\* Ready issues, whatever they depend on.
ReadyIgnoringDependencies(p) ==
    {i \in ItemsOf(p) : projected[i].state = "ready"}

ReadyItems(p) ==
    {i \in ItemsOf(p) : /\ projected[i].state = "ready"
                        /\ \A d \in DependsOn[i] : projected[d].state = "completed"}
WaitingItems(p) == {i \in ItemsOf(p) : projected[i].state = "waiting-human"}
AskingItems(p) == {i \in WaitingItems(p) : projected[i].decision # None}

(* The item selectGithubWork returns when it returns a ready or a waiting  *)
(* one.                                                                    *)
SelectedItem(p) == First(IF ReadyItems(p) # {} THEN ReadyItems(p) ELSE WaitingItems(p))

HistoryOf(p) == {e \in Executions : IsTerminal(e) /\ execWork[e] \in ItemsOf(p)}

AlreadyResumed(p, d) ==
    \E e \in HistoryOf(p) : resultSummary[e] # None /\ resultSummary[e].decision = d

(* The resolved decision of the project's first asking item, or None.      *)
ResumeDecision(p) ==
    LET d == projected[First(AskingItems(p))].decision
    IN IF AskingItems(p) # {} /\ d \in resolvedDecisions /\ ~AlreadyResumed(p, d)
       THEN d ELSE None

(* toCandidate's reconcile-first: this revision was attempted before.      *)
SameRevisionAttempt(i) ==
    \E e \in Executions : /\ IsTerminal(e) /\ execWork[e] = i
                          /\ resultSummary[e] # None
                          /\ resultSummary[e].rev = projected[i].rev

Eligible(p) ==
    /\ \A e \in Executions : IsInFlight(e) => execWork[e] \notin ItemsOf(p)
    /\ \/ ResumeDecision(p) # None
       \/ ReadyItems(p) # {} /\ ~SameRevisionAttempt(SelectedItem(p))

FreshExecution == CHOOSE e \in Executions : execStatus[e] = "absent"

RunCycle(p) ==
    /\ pc = "idle"
    /\ \E e \in Executions : execStatus[e] = "absent"
    /\ Eligible(p)
    /\ LET i == SelectedItem(p)
           e == FreshExecution
       IN /\ WorkerSchedules(e, i)
          /\ job' = [NoJob EXCEPT !.item = i, !.seen = projected[i].rev,
                                  !.ref = projected[i].exec, !.resume = ResumeDecision(p)]
    /\ pc' = "leased"
    /\ UNCHANGED <<projected, workflow, decisionVars, githubVars, claims, counters>>

-----------------------------------------------------------------------------
(* From the lease to the executor (runCycle's try block).                  *)

KeepsDelivery == UNCHANGED <<projected, decisionVars, githubVars, claims, counters>>

(* workflows.start for a fresh delivery; a resumed one continues the       *)
(* workflow of the execution its issue was projected to.                   *)
StartWorkflow ==
    /\ pc = "leased" /\ pc' = "started"
    /\ IF job.resume = None
       THEN /\ workflow' = [workflow EXCEPT ![slot] =
                   [stage |-> "admitted", decision |-> None, pr |-> None,
                    head |-> None, resumed |-> {}]]
            /\ job' = [job EXCEPT !.wf = slot]
       ELSE /\ job.ref # None
            /\ workflow[job.ref] # None
            /\ execWork[job.ref] = job.item
            /\ UNCHANGED workflow
            /\ job' = [job EXCEPT !.wf = job.ref]
    /\ UNCHANGED storeVars
    /\ KeepsDelivery

MarkStarted ==
    /\ \/ pc = "started" /\ pc' = "dispatched"
       \/ pc = "dispatched" /\ pc' = "begin"
    /\ WorkerMarks(slot)
    /\ UNCHANGED <<workflow, job>>
    /\ KeepsDelivery

(* The try block throws before the executor runs: the resumed workflow is  *)
(* not there, or a write is refused.                                       *)
StartThrows ==
    /\ \/ /\ pc = "leased" /\ job.resume # None
          /\ job.ref # None => workflow[job.ref] = None \/ execWork[job.ref] # job.item
          /\ NoOutage
       \/ pc \in {"leased", "started", "dispatched", "begin"} /\ Outage
    /\ pc' = "catching"
    /\ UNCHANGED <<storeVars, projected, workflow, decisionVars, githubVars, job,
                   claims, edits, crashes>>

-----------------------------------------------------------------------------
(* The executor.                                                           *)

(* One await of execute: the worker moves on unless the next call is one   *)
(* that notices the abort signal.                                          *)
Step(from, to) ==
    /\ pc = from
    /\ from \in AbortPoints => job.stop = "no"
    /\ pc' = to
    /\ UNCHANGED <<storeVars, counters>>

NoUpdates == [decision |-> None, pr |-> None, head |-> None]
Coalesce(new, old) == IF new = None THEN old ELSE new

\* transition: the stage, and the fields that come with it.
Transition(row, stage, updates) ==
    [row EXCEPT !.stage = stage,
                !.decision = Coalesce(updates.decision, row.decision),
                !.pr = Coalesce(updates.pr, row.pr),
                !.head = Coalesce(updates.head, row.head)]

(* checkpoint: nothing at all when the executor is at that stage already,  *)
(* else a transition from the stage the executor believes it is at.        *)
Checkpoint(stage, updates) ==
    IF job.ckpt = stage THEN UNCHANGED <<workflow, job>>
    ELSE /\ workflow[job.wf].stage = job.ckpt
         /\ workflow' = [workflow EXCEPT ![job.wf] = Transition(@, stage, updates)]
         /\ job' = [job EXCEPT !.ckpt = stage]

(* updateLifecycle: the whole body, as it was read, with a few fields of   *)
(* its marker replaced.                                                    *)
UpdateLifecycle(marker) == WriteIssue(job.item, marker)

(* A fresh delivery starts from its own workflow's stage.  A resumed one   *)
(* must find its workflow waiting for exactly this decision; the           *)
(* transition to planning is keyed by the decision and happens once.       *)
Begin ==
    \/ /\ job.resume = None
       /\ Step("begin", "planning")
       /\ job' = [job EXCEPT !.ckpt = "admitted"]
       /\ UNCHANGED <<workflow, projected, decisionVars, githubVars, claims>>
    \/ /\ job.resume # None
       /\ Step("begin", "deciding")
       /\ workflow[job.wf].stage = "waiting-human"
       /\ workflow[job.wf].decision = job.resume
       /\ workflow' =
             IF job.resume \in workflow[job.wf].resumed THEN workflow
             ELSE [workflow EXCEPT ![job.wf].stage = "planning",
                                   ![job.wf].resumed = @ \union {job.resume}]
       /\ UNCHANGED <<job, projected, decisionVars, githubVars, claims>>

(* applyHumanDecision: ADE is told the decision.                           *)
ApplyHumanDecision ==
    /\ Step("deciding", "planning")
    /\ job' = [job EXCEPT !.ckpt = "planning"]
    /\ UNCHANGED <<workflow, projected, decisionVars, githubVars, claims>>

(* checkpoint("planning") of a fresh delivery; a resumed one is believed   *)
(* to be there, and its first progress report checks it.                   *)
PrepareCheckout ==
    /\ Step("planning", "reading")
    /\ Checkpoint("planning", NoUpdates)
    /\ workflow'[job.wf].stage = "planning"
    /\ UNCHANGED <<projected, decisionVars, githubVars, claims>>

\* The issue as it is now, whatever revision was scheduled.
ReadIssueAnyRevision ==
    /\ Step("reading", "lifecycle")
    /\ job' = [job EXCEPT !.body = issue[job.item]]
    /\ UNCHANGED <<workflow, projected, decisionVars, githubVars, claims>>

(* The issue as it is now; a revision other than the scheduled one is      *)
(* GITHUB_ISSUE_STALE.                                                     *)
ReadIssue ==
    /\ Step("reading", "lifecycle")
    /\ issue[job.item].rev = job.seen
    /\ job' = [job EXCEPT !.body = issue[job.item]]
    /\ UNCHANGED <<workflow, projected, decisionVars, githubVars, claims>>

(* ADE plans the issue: "enrich".                                          *)
PlanEnrichment ==
    /\ Step("lifecycle", "enriching")
    /\ Checkpoint("enriching", NoUpdates)
    /\ UNCHANGED <<projected, decisionVars, githubVars, claims>>

(* The enriched body is written with the marker read before.               *)
Enrich ==
    /\ Step("enriching", "enriched")
    /\ WriteIssue(job.item, job.body)
    /\ job' = [job EXCEPT !.body = issue'[job.item]]
    /\ UNCHANGED <<workflow, projected, decisionVars, pull, ahead, webhookDue, claims>>

(* ADE plans "develop", at once or after enrichment, with a handoff.       *)
PlanDevelopment ==
    /\ \E from \in {"lifecycle", "enriched"} : Step(from, "ready-for-dev")
    /\ Checkpoint("ready-for-dev", NoUpdates)
    /\ UNCHANGED <<projected, decisionVars, githubVars, claims>>

AskedDecision == <<job.item, job.body.rev>>

\* The marker written before the decision it names.
AskWithoutDecision ==
    /\ Step("lifecycle", "asking")
    /\ UNCHANGED <<workflow, job, decisionVars, projected, githubVars, claims>>

(* ADE plans "wait" or "none": the decision first, then the marker that    *)
(* names it, then the workflow.                                            *)
AskForDecision ==
    /\ Step("lifecycle", "asking")
    /\ openDecisions' = openDecisions \union ({AskedDecision} \ resolvedDecisions)
    /\ UNCHANGED <<workflow, job, resolvedDecisions, projected, githubVars, claims>>

MarkWaitingForDecision ==
    /\ Step("asking", "asked")
    /\ UpdateLifecycle([job.body EXCEPT !.state = "waiting-human", !.exec = job.wf,
                                        !.decision = AskedDecision])
    /\ UNCHANGED <<workflow, job, projected, decisionVars, pull, ahead, webhookDue, claims>>

CheckpointDecision ==
    /\ pc = "asked" /\ pc' = "returned"
    /\ workflow[job.wf].stage = job.ckpt
    /\ workflow' = [workflow EXCEPT ![job.wf] =
            [@ EXCEPT !.stage = "waiting-human", !.decision = AskedDecision]]
    /\ job' = [job EXCEPT !.result = "succeeded"]
    /\ UNCHANGED storeVars
    /\ KeepsDelivery

(* The handoff is valid for this revision only: a second read.             *)
ReReadIssue ==
    /\ Step("ready-for-dev", "claiming")
    /\ issue[job.item].rev = job.body.rev
    /\ job' = [job EXCEPT !.body = issue[job.item]]
    /\ UNCHANGED <<workflow, projected, decisionVars, githubVars, claims>>

\* The provider started on an issue whose marker still says "ready".
ClaimNothing ==
    /\ Step("claiming", "claimed")
    /\ UNCHANGED <<workflow, job, projected, decisionVars, githubVars, claims>>

(* Ownership is written to GitHub before the provider runs.                *)
ClaimIssue ==
    /\ Step("claiming", "claimed")
    /\ UpdateLifecycle([job.body EXCEPT !.state = "running", !.exec = job.wf])
    /\ UNCHANGED <<workflow, job, projected, decisionVars, pull, ahead, webhookDue, claims>>

CheckpointClaim ==
    /\ Step("claimed", "implementing")
    /\ Checkpoint("implementing", NoUpdates)
    /\ claims' = claims \union {slot}
    /\ UNCHANGED <<projected, decisionVars, githubVars>>

(* The provider returned with exit code 0; validation, the review gates    *)
(* and the publication gate follow.                                        *)
Advance ==
    /\ \/ Step("implementing", "validating") /\ Checkpoint("validating", NoUpdates)
       \/ Step("validating", "reviewing") /\ Checkpoint("reviewing", NoUpdates)
       \/ Step("reviewing", "publishing") /\ Checkpoint("publishing", NoUpdates)
    /\ UNCHANGED <<projected, decisionVars, githubVars, claims>>

(* git push without force: refused while the remote branch holds commits   *)
(* the base does not have, for the branch was recreated from the base.     *)
Push ==
    /\ Step("publishing", "pushed")
    /\ ~ahead[job.item]
    /\ ahead' = [ahead EXCEPT ![job.item] = TRUE]
    /\ Checkpoint("publishing", [NoUpdates EXCEPT !.head = slot])
    /\ UNCHANGED <<projected, decisionVars, issue, pull, webhookDue, claims>>

OpenPulls(i) == {e \in Executions : execWork[e] = i /\ pull[e] = "open"}

(* findPullRequest ?? createPullRequest.                                   *)
OpenPullRequest ==
    /\ Step("pushed", "published")
    /\ \/ \E e \in OpenPulls(job.item) : job' = [job EXCEPT !.pr = e] /\ UNCHANGED pull
       \/ /\ OpenPulls(job.item) = {}
          /\ pull' = [pull EXCEPT ![slot] = "open"]
          /\ job' = [job EXCEPT !.pr = slot]
    /\ UNCHANGED <<workflow, projected, decisionVars, issue, ahead, webhookDue, claims>>

(* The pull request goes into the body as it was read before the provider  *)
(* ran.                                                                    *)
MarkWaitingForMerge ==
    /\ Step("published", "recorded")
    /\ UpdateLifecycle([job.body EXCEPT !.state = "waiting-human", !.exec = job.wf,
                                        !.pr = job.pr])
    /\ UNCHANGED <<workflow, job, projected, decisionVars, pull, ahead, webhookDue, claims>>

CheckpointPullRequest ==
    /\ pc = "recorded" /\ pc' = "returned"
    /\ workflow[job.wf].stage = job.ckpt
    /\ workflow' = [workflow EXCEPT ![job.wf] =
            [@ EXCEPT !.stage = "waiting-human", !.pr = job.pr]]
    /\ job' = [job EXCEPT !.result = "succeeded"]
    /\ UNCHANGED storeVars
    /\ KeepsDelivery

-----------------------------------------------------------------------------
(* What interrupts a run: dispatchWithCancellation's timers and the abort  *)
(* signal they raise.                                                      *)

StopsFor(reason) ==
    /\ pc \in Executing
    /\ job' = [job EXCEPT !.stop = reason]
    /\ UNCHANGED <<storeVars, pc, workflow, projected, decisionVars, githubVars, claims>>

(* The stage or the workflow deadline: wins over every other reason.       *)
DeadlineElapses == StopsFor("timeout") /\ job.stop # "timeout" /\ UNCHANGED counters

(* The poll of cancel_requested.                                           *)
CancelObserved ==
    StopsFor("cancel") /\ job.stop = "no" /\ cancelRequested[slot] /\ UNCHANGED counters

(* The heartbeat throws: no renewal starts after a stop, but one that was  *)
(* under way may fail after the cancellation was seen, and outweighs it.   *)
HeartbeatFails ==
    StopsFor("lease") /\ job.stop \in {"no", "cancel"} /\ Outage /\ UNCHANGED <<edits, crashes>>

\* A signal that only a cancellation raises.
AbortOnCancel ==
    /\ pc \in AbortPoints
    /\ job.stop = "cancel"
    /\ pc' = "cancelling"
    /\ UNCHANGED <<storeVars, job, workflow>>
    /\ KeepsDelivery

(* A call notices the signal; the executor's catch block cleans up.        *)
Abort ==
    /\ pc \in AbortPoints
    /\ job.stop # "no"
    /\ pc' = "cancelling"
    /\ UNCHANGED <<storeVars, job, workflow>>
    /\ KeepsDelivery

(* Anything else that goes wrong in execute: provider, gates, Git, a stale *)
(* issue, a stale decision, a refused transition.                          *)
StepFails ==
    /\ pc \in Executing \ {"cancelling"}
    /\ IF job.stop = "no"
       THEN pc' = "returned" /\ job' = [job EXCEPT !.result = "failed"]
       ELSE pc' = "cancelling" /\ UNCHANGED job
    /\ UNCHANGED <<storeVars, workflow>>
    /\ KeepsDelivery

(* cancelLifecycle: only a marker that is still this workflow's, or nobody *)
(* else's, becomes "cancelled".  A failure here is swallowed for good.     *)
CancelLifecycle ==
    /\ pc = "cancelling" /\ pc' = "returned"
    /\ job' = [job EXCEPT !.result = "cancelled"]
    /\ LET owner == Coalesce(job.ref, slot)
           current == issue[job.item]
           cancelled == [current EXCEPT !.state = "cancelled", !.exec = owner, !.decision = None]
           owned == /\ current.state \in {"ready", "running", "cancelled"}
                    /\ current.exec \in {None, owner}
       IN \/ /\ owned
             /\ IF current.state = "cancelled" /\ current.exec = owner
                THEN UNCHANGED issue ELSE WriteIssue(job.item, cancelled)
             /\ NoOutage
          \/ ~owned /\ UNCHANGED issue /\ NoOutage
          \/ owned /\ UNCHANGED issue /\ Outage
    /\ UNCHANGED <<storeVars, workflow, projected, decisionVars, pull, ahead, webhookDue,
                   claims, edits, crashes>>

-----------------------------------------------------------------------------
(* Settling: the rest of dispatchWithCancellation and of runCycle.         *)

(* A run that was stopped ends as an exception, unless it reports itself   *)
(* cancelled for a cancellation.                                           *)
Throws ==
    \/ job.stop \in {"timeout", "lease"}
    \/ job.stop = "cancel" /\ job.result # "cancelled"

Outcome ==
    IF job.stop \in {"timeout", "lease"} THEN "unknown"
    ELSE IF job.stop = "cancel" THEN "cancelled"
    ELSE job.result

(* The catch block records no summary.                                     *)
OutcomeSummary ==
    IF Throws THEN None ELSE [rev |-> job.seen, decision |-> job.resume]

EndsCycle == pc' = "idle" /\ job' = NoJob

\* A completion on the normal path only: what a stop throws is not caught.
SettleResult ==
    /\ pc = "returned"
    /\ IF Throws THEN UNCHANGED rowVars ELSE WorkerCompletes(slot, Outcome, OutcomeSummary)
    /\ slot' = None
    /\ EndsCycle
    /\ UNCHANGED <<workflow>>
    /\ KeepsDelivery

Settle ==
    /\ pc = "returned"
    /\ WorkerCompletes(slot, Outcome, OutcomeSummary)
    /\ slot' = None
    /\ EndsCycle
    /\ UNCHANGED <<workflow>>
    /\ KeepsDelivery

(* The completion fails, after its commit or before it.  In the try block  *)
(* the catch block takes over; in the catch block the cycle throws.        *)
SettleFails ==
    /\ pc = "returned" /\ Outage
    /\ \/ ~Throws /\ pc' = "catching" /\ UNCHANGED job
       \/ Throws /\ EndsCycle
    /\ \/ WorkerCompletes(slot, Outcome, OutcomeSummary)
       \/ UNCHANGED rowVars
    /\ slot' = IF Throws THEN None ELSE slot
    /\ UNCHANGED <<projected, workflow, decisionVars, githubVars, claims, edits, crashes>>

\* A catch block whose completion replaces what the lost answer was about.
CatchOverwrites ==
    /\ pc = "catching"
    /\ execStatus' = [execStatus EXCEPT ![slot] = "failed"]
    /\ lease' = [lease EXCEPT ![slot] = "released"]
    /\ UNCHANGED <<execWork, cancelRequested, resultSummary, leaseExpired>>
    /\ slot' = None
    /\ EndsCycle
    /\ UNCHANGED workflow
    /\ KeepsDelivery

(* The catch block completes the execution as failed, which is a conflict  *)
(* when the first completion had committed.                                *)
CatchCompletes ==
    /\ pc = "catching"
    /\ IF IsTerminal(slot) THEN UNCHANGED rowVars ELSE Complete(slot, "failed", None)
    /\ slot' = None
    /\ EndsCycle
    /\ UNCHANGED workflow
    /\ KeepsDelivery

(* That completion fails as well: the cycle throws and drops the slot.     *)
CatchFails ==
    /\ pc = "catching" /\ Outage
    /\ slot' = None /\ UNCHANGED rowVars
    /\ EndsCycle
    /\ UNCHANGED <<projected, workflow, decisionVars, githubVars, claims, edits, crashes>>

-----------------------------------------------------------------------------
(* Around the worker.                                                      *)

Crash ==
    /\ pc # "down" /\ crashes < MaxCrashes
    /\ crashes' = crashes + 1
    /\ pc' = "down" /\ job' = NoJob
    /\ slot' = None /\ UNCHANGED rowVars
    /\ UNCHANGED <<projected, workflow, decisionVars, githubVars, claims, edits, outages>>

Restart ==
    /\ pc = "down" /\ pc' = "starting"
    /\ UNCHANGED <<storeVars, job, workflow>>
    /\ KeepsDelivery

(* The live worker renews the lease of its own execution in time; that of  *)
(* an abandoned one runs out, which nothing notices but a startup.         *)
LeaseRunsOut(e) ==
    /\ pc = "starting" /\ ~leaseExpired[e]
    /\ TimePasses(e)
    /\ UNCHANGED <<workerVars, workflow>>
    /\ KeepsDelivery

RequestExecutionCancel(e) ==
    /\ ~cancelRequested[e]
    /\ Cardinality({f \in Executions : cancelRequested[f]}) < MaxCancels
    /\ DashboardCancels(e)
    /\ UNCHANGED <<workerVars, workflow>>
    /\ KeepsDelivery

ResolveDecision(d) ==
    /\ d \in openDecisions
    /\ openDecisions' = openDecisions \ {d}
    /\ resolvedDecisions' = resolvedDecisions \union {d}
    /\ UNCHANGED <<storeVars, projected, workflow, githubVars, workerVars, claims, counters>>

(* The operator edits the issue: its text, its marker back to "ready" (the *)
(* documented retry), or a fresh marker.  Or the operator deletes a branch  *)
(* that has no open pull request.                                          *)
Edit == edits < MaxEdits /\ edits' = edits + 1

OperatorActs(i) ==
    /\ Edit
    /\ \/ WriteIssue(i, issue[i]) /\ UNCHANGED ahead
       \/ WriteIssue(i, [issue[i] EXCEPT !.state = "ready"]) /\ UNCHANGED ahead
       \/ WriteIssue(i, DefaultMarker(0)) /\ UNCHANGED ahead
       \/ /\ ahead[i] /\ OpenPulls(i) = {}
          /\ ahead' = [ahead EXCEPT ![i] = FALSE] /\ UNCHANGED issue
    /\ UNCHANGED <<storeVars, projected, workflow, decisionVars, pull, webhookDue, workerVars,
                   claims, crashes, outages>>

ClosePullRequest(e) ==
    /\ pull[e] = "open"
    /\ \/ /\ pull' = [pull EXCEPT ![e] = "merged"]
          /\ ahead' = [ahead EXCEPT ![execWork[e]] = FALSE]
       \/ pull' = [pull EXCEPT ![e] = "closed"] /\ UNCHANGED ahead
    /\ webhookDue' = webhookDue \union {e}
    /\ UNCHANGED <<storeVars, projected, workflow, decisionVars, issue, workerVars,
                   claims, counters>>

(* reconcilePullRequestLifecycle of the dashboard: the projection says     *)
(* which issue, GitHub's marker says whether it is still correlated.       *)
PullRequestEvent(e, i, closed) ==
    /\ projected[i].pr = e
    /\ LET now == issue[i]
           correlated == now.pr = e /\ now.exec = projected[i].exec
           completes == correlated /\ closed /\ pull[e] = "merged"
           next == [now EXCEPT !.state = IF completes THEN "completed" ELSE "blocked",
                               !.decision = IF completes THEN None ELSE PullRequestDecision(i)]
           owner == projected[i].exec
       IN /\ IF next = now THEN UNCHANGED issue ELSE WriteIssue(i, next)
          /\ \/ /\ IF completes /\ owner # None /\ WorkflowAwaitsMerge(owner, e)
                   THEN workflow' = [workflow EXCEPT ![owner].stage = "completed"]
                   ELSE UNCHANGED workflow
                /\ projected' = [j \in Items |->
                        IF ProjectOf[j] = ProjectOf[i] THEN issue'[j] ELSE projected[j]]
                /\ NoOutage
             \/ UNCHANGED <<workflow, projected>> /\ Outage
    /\ UNCHANGED <<storeVars, decisionVars, pull, ahead, workerVars, claims, crashes>>

(* Its delivery comes once, late or never; an unknown number is ignored.   *)
PullRequestClosedWebhook(e) ==
    /\ e \in webhookDue /\ webhookDue' = webhookDue \ {e}
    /\ \/ \E i \in Items : PullRequestEvent(e, i, TRUE)
       \/ /\ \A i \in Items : projected[i].pr # e
          /\ UNCHANGED <<storeVars, projected, workflow, decisionVars, issue, pull, ahead,
                         workerVars, claims, crashes, outages>>
    /\ UNCHANGED edits

(* Somebody pushes to the branch of the open pull request.                 *)
PullRequestSynchronizedWebhook(e) ==
    /\ pull[e] = "open" /\ Edit
    /\ \E i \in Items : PullRequestEvent(e, i, FALSE)
    /\ UNCHANGED webhookDue

-----------------------------------------------------------------------------
Start == \E e \in Executions : ReconcileCandidate(e) \/ ReconcileMissingWorkflowStart(e)

Dispatch == StartWorkflow \/ MarkStarted \/ StartThrows

Deliver ==
    \/ Begin \/ ApplyHumanDecision \/ PrepareCheckout \/ ReadIssue
    \/ PlanEnrichment \/ Enrich \/ PlanDevelopment
    \/ AskForDecision \/ MarkWaitingForDecision \/ CheckpointDecision
    \/ ReReadIssue \/ ClaimIssue \/ CheckpointClaim \/ Advance
    \/ Push \/ OpenPullRequest \/ MarkWaitingForMerge \/ CheckpointPullRequest

Interrupt == DeadlineElapses \/ CancelObserved \/ HeartbeatFails \/ Abort \/ StepFails

Finish == CancelLifecycle \/ Settle \/ SettleFails \/ CatchCompletes \/ CatchFails

Surroundings ==
    \/ Crash \/ Restart
    \/ \E e \in Executions :
          \/ LeaseRunsOut(e) \/ RequestExecutionCancel(e) \/ ClosePullRequest(e)
          \/ PullRequestClosedWebhook(e) \/ PullRequestSynchronizedWebhook(e)
    \/ \E d \in openDecisions : ResolveDecision(d)
    \/ \E i \in Items : OperatorActs(i)

Next ==
    \/ Start \/ EnterLoop
    \/ \E p \in Projects : ReconcileProject(p) \/ RunCycle(p)
    \/ \E i \in Items : ReconcileItem(i)
    \/ Dispatch \/ Deliver \/ Interrupt \/ Finish \/ Surroundings

(* Timers fire, calls to PostgreSQL and GitHub return, one way or another; *)
(* nothing makes the provider, ADE or Git return.  Compose restarts the    *)
(* worker.  Every cycle reads all issues before it schedules, and cycles   *)
(* recur.                                                                  *)
Fairness ==
    /\ WF_vars(Restart) /\ WF_vars(Start) /\ WF_vars(EnterLoop)
    /\ WF_vars(Dispatch) /\ WF_vars(DeadlineElapses) /\ WF_vars(Abort)
    /\ WF_vars(pc \in Executing \ AbortPoints /\ (Deliver \/ StepFails))
    /\ WF_vars(Finish)
    /\ \A i \in Items : SF_vars(ReconcileItem(i))

SafetySpec == Init /\ [][Next]_vars

Spec == SafetySpec /\ Fairness

-----------------------------------------------------------------------------
(* Properties.                                                             *)

(* The worker, its crashes and its failing calls stay within the           *)
(* discipline DeliveryStore is proved under: no execution is marked or     *)
(* completed but by its driver or by a reconciliation nobody races.        *)
KeepsStoreDiscipline == StoreSpec

(* The provider runs on an issue once, plus once for each operator action  *)
(* or resolved decision, through crashes, deadlines, lost completions and  *)
(* stale projections: the marker is claimed before the provider starts and *)
(* every later dispatch reads it again.                                    *)
ProviderRunsNeedAHuman ==
    \A i \in Items :
        Cardinality({e \in claims : execWork[e] = i})
            <= 1 + edits + Cardinality({d \in resolvedDecisions : d[1] = i})

(* Neither the issue nor its workflow is completed while its pull request  *)
(* is not merged ("Review and merge remain explicit human actions").       *)
CompletedOnlyAfterMerge ==
    /\ \A i \in Items : issue[i].state = "completed" =>
            issue[i].pr # None /\ pull[issue[i].pr] = "merged"
    /\ \A e \in Executions : workflow[e] # None /\ workflow[e].stage = "completed" =>
            workflow[e].pr # None /\ pull[workflow[e].pr] = "merged"

(* Every way out of a cycle ends its execution: one left in flight with no *)
(* driver is the trace of a crash or of a failing call, never of a         *)
(* cancellation, a deadline or a failing step.                             *)
NoOrphanWithoutFault ==
    crashes + outages = 0 => \A e \in Executions : IsInFlight(e) => slot = e

(* An issue that waits for a decision can be answered: the decision its    *)
(* marker names is stored, wherever the worker stopped after writing it.   *)
(* Only the webhook names a decision that nobody stores, on an issue that  *)
(* is blocked, and only an operator's edit makes that issue wait.          *)
WaitingIssueIsAnswerable ==
    \A i \in Items :
        /\ issue[i].state = "waiting-human" /\ issue[i].decision # None
        /\ edits = 0 \/ issue[i].decision # PullRequestDecision(i)
        => issue[i].decision \in openDecisions \union resolvedDecisions

(* The deadlines end every run, also one whose provider never returns: the *)
(* slot is free again.                                                     *)
EveryRunEnds == (slot # None) ~> (slot = None)

(* An issue whose pull request was merged is completed even when the       *)
(* webhook never comes, unless its correlation is taken away.              *)
MergedIssueCompletes ==
    \A i \in Items, e \in Executions :
        issue[i].pr = e /\ pull[e] = "merged"
            ~> issue[i].state = "completed" \/ issue[i].pr # e

(* The provider never runs on an issue before the pull requests of the     *)
(* issues it depends on are merged, however old the projection it was      *)
(* selected from.                                                          *)
DependenciesMergedFirst ==
    \A e \in claims : \A d \in DependsOn[execWork[e]] :
        \E f \in Executions : execWork[f] = d /\ pull[f] = "merged"
=============================================================================
