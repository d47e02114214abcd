# TLA+ verification of ade-control-plane

TLA+ modules, TLC configurations and TLAPS proofs for the control plane that turns GitHub issues
into pull requests with a coding provider. `PROJECT.json` traces every definition that stands for
code to the lines it models, and lists the runs, the mutants that show each property can fail, the
theorems, the hazards and the disagreement found between the code and its own message.

## 1. The system

Three processes share one PostgreSQL database: the dashboard (Next.js: pages, HTTP API, GitHub
webhook), the worker (one process, one execution slot) and, in deployments that use it, the host
runner. GitHub is the second store: an issue's body carries a machine-readable *marker* (state,
priority, dependencies, owning execution, human decision, pull request).

| Component | Source | State | Operations | Hard behaviours | What makes it correct |
|---|---|---|---|---|---|
| Delivery store | `PostgresControlPlaneStore.ts`, `migrations/001_initial.sql` | executions, leases | scheduleWithLease, markDispatched, markRunning, heartbeat, complete, requestCancel, listReconciliationCandidates | completion races reconciliation and cancellation; a commit whose answer is lost; expiry | one live execution per issue; lease held iff in flight; terminal is final |
| Delivery workflows | same, `transition` | stage, decision, pull request, head of an execution | start, transition, reportStep | stale executors, late webhooks | `completed` only after the merge |
| GitHub orchestrator | `GithubWorkOrchestrator.ts` | the slot and what it keeps across awaits | reconcileExecutions, reconcileMissingWorkflowStarts, runCycle, dispatchWithCancellation | crashes, deadlines, cancellation, failed completion | no orphan without a fault; no rerun without a human |
| GitHub executor | `GithubWorkCodexExecutor.ts` | body read early and written late, workflow, pull request | execute (about twenty awaited steps), cancelLifecycle | crash between any two writes; edits meanwhile | waiting issues are answerable |
| Issue reader and PR webhook | `ReconcilingGithubWorkReader.ts`, `githubWebhook.ts` | GitHub marker, projection | complete after a merge; block on a foreign push or an unmerged close | lost, late, reordered webhooks | completed only after the merge; a merge is never missed |
| Scheduler, issue selection, queue | `packages/core/src/index.ts`, queue routes, removals | projection, preferences, removals | selectGithubWork, evaluateSchedule, setQueuePreference, reorderQueue, remove, readmit | stale projections; writes between fetch, choice and lease | removed stays removed; fair among equals; the overview hides no project that runs, but for its own quota and resumed decisions |
| Wake coordinator, production loop | `WorkerWakeCoordinator.ts`, `UnifiedProductionWorker.ts`, `github/main.ts` | pending event, waiter, timers | wake, wait, flush, runOnce | bursts, pauses, lost notifications | every change is looked at, every task run |
| Quota | `packages/quota` | snapshots | refresh, policy | staleness, failing reads and appends | nothing starts after a refusal that was stored |
| Manual tasks | `V0TaskWorker.ts`, `V0TaskExecutor.ts`, `tasks.ts`, `migrations/004_v0_tasks.sql` | v0_tasks, branches and pull requests | create, claimPending, cancel, complete, retry pull request, archive, recover | cancellation against every step of the execution, restart in the middle, lost answers of the database and of GitHub | one agent run per task; no outcome is replaced; every accepted task ends |
| Task log and page | `V0TaskExecutor.ts`, `taskReadModel.ts` | v0_task_logs, audit events | appendLog, enrichment loop; buildTaskDetail | full logs, lost writes, order of messages | a failure is explained, its cause named |
| Control commands, webhook intake | `commands.ts`, `control.ts`, `githubWebhook.ts` | control_commands, github_deliveries | recordReceipt, apply, updateStatus, acknowledge | replays, overlapping handlers, failures between two writes | the rows change once per key while no call fails at the wrong place and no two handlers overlap there; "applied" and "processed" mean that something changed or nothing was left to do |
| Projects | `ProjectDeletionProcessor.ts`, `ProjectProvisioner.ts`, `ExecutionWorkspaces.ts` | rows, checkouts, deletion requests | register, provision, delete, reclaim | overlapping passes; deletion against a clone; a removal that is refused | only a deleted project's own checkout is removed |
| Project setup | `projectSetup.ts`, `projectActivation.ts`, `completeReadySetup` of the executor | labels, files, setup pull requests, profile row | prepare, activate, initialize, refresh | repeated requests, lost proofs, foreign changes | one setup pull request; the page's advice leads to a ready project |
| Delivery session | `AdeDeliveryRuntime.ts`, `AgentExecutor.ts`, `CommandRunner.ts` | checkout, attempts, findings | implement, review, correct, commit | shared checkout, hanging children, limits | what is committed was reviewed |
| Notifier | `GithubWorkNotifier.ts`, `notifications.ts` | bot comments | upsertBotComment | crash between create and remember | one comment per purpose, and one more per unrecorded creation |
| Host runner | `packages/runner-protocol`, `packages/host-runner`, `CrashSafeWorker.ts`, `DurableExecutionCoordinator.ts` | runs, replay window, executions | start, reconcile, cancel, recover | copies, late answers, restarts of either side | only an end of ADE is recorded; every process ends |
| Work pages | `readModel.ts`, `taskReadModel.ts` | none of their own | correlate rows read one after the other | stale markers, decisions that stay | the page shows and offers what there is |
| Session, migrations, connection | `session.ts`, `migrations.ts` | cookie; schema | sign; migrate | - | not modelled, section 5 |

How they interact: the dashboard writes commands, cancellations, decisions and tasks into the
database and signals the worker with PostgreSQL `NOTIFY`; the worker polls the rest. The worker
alone schedules, leases and completes. The dashboard's webhook writes the GitHub marker, the
workflow and the projection of an issue when its pull request changes, and so races the worker.

## 2. Modules

| Module | Builds on | Checked in |
|---|---|---|
| `WorkLease` abstract lease | - | by refinement |
| `DeliveryStore` | implements `WorkLease` | `MCDeliveryStore`, proved in `GithubDeliveryProofs` |
| `GithubDelivery` | extends `DeliveryStore`, keeps `StoreSpec` | `MCGithubDelivery`, proved in `GithubDeliveryProofs` |
| `WorkView` pages of delivered issues | extends `GithubDelivery` | `MCGithubDelivery`, proved in `GithubDeliveryProofs` |
| `ManualTasks` | - | `MCManualTasks`, proved in `ManualTasksProofs` |
| `TaskHistory` log and page of a task | - | `MCManualTasks`, as a part of its own; proved in `ManualTasksProofs` |
| `WebhookRouting` what a webhook delivery asks for | - | with `ControlCommands` |
| `ControlCommands` | extends `WebhookRouting` | `MCControlCommands`, proved in `ControlCommandsProofs` |
| `ProductionLoop` | - | itself, proved in `ProductionLoopProofs` |
| `DeliveryPipeline` abstract gates of `packages/core` | - | by refinement |
| `DeliveryStages` | implements `DeliveryPipeline` | itself, proved in `DeliveryStagesProofs` |
| `HostRunner` | - | itself, proved in `HostRunnerProofs` |
| `ProjectLifecycle`, `ProjectSetup` | - | `MCProjects`, each as a part of its own; proved in `ProjectsProofs` |
| `Scheduling` | - | `MCScheduling`, proved in `SchedulingProofs` |

`MCManualTasks` and `MCProjects` join two modules that share no state: a variable `part` says which
of the two moves in a behaviour while the other rests, so the state space is the sum of the two and
every property of either is checked in one run.

**`WorkLease`** is the abstract promise: an attempt at a work item begins once, is live, ends once,
and no other attempt of the item begins while it is live.

**`DeliveryStore`** has two layers. The repository layer has an action per transaction with exactly
the guards of the SQL: `ScheduleWithLease` (execution, lease and status in one transaction, refused
by the partial unique index `execution_leases_active_lease_key_idx`, here `Held(w) = {}`),
`UpdateInFlightStatus` (which the code does *not* guard by the present status), `Complete` (a
completion of a terminal row changes nothing), `RequestCancel`, `Heartbeat`, `LeaseExpires`. The
client layer is the discipline of the callers: the worker marks, renews and completes only the
execution in its `slot`; reconciliation completes only executions while the slot is empty; a worker
may leave a slot at any moment. Timestamps become `leaseExpired`. Execution ids are never reused
because the code takes a random UUID.

**`GithubDelivery`** extends it with the whole delivery path. `pc` is the place of the worker in
`runCycle`, `dispatchWithCancellation` and `execute`, one value per awaited call that matters; `job`
is what the code keeps in local variables across those calls (`body` is the issue as read *before*
the provider ran, `ckpt` the last stage recorded, `stop` the abort reason). Every call may fail
(`StepFails`, `StartThrows`, `SettleFails`, `CatchFails`) and the process may die between any two
(`Crash`), which loses `pc` and `job` and nothing else. GitHub is `issue`, `pull` and `ahead` (the
branch has commits); the database is `projected`, `workflow`, `openDecisions`, `resolvedDecisions`
and the store. `claims` is a history variable only properties read.

| Code | Actions |
|---|---|
| `reconcileExecutions`, `reconcileMissingWorkflowStarts` | `ReconcileCandidate`, `ReconcileMissingWorkflowStart`, `EnterLoop` |
| `reconcileProject` with `ReconcilingGithubWorkReader` | `ReconcileProject`, `ReconcileItem` |
| `runCycle` up to the dispatch | `RunCycle`, `StartWorkflow`, `MarkStarted`, `StartThrows` |
| `execute` | `Begin`, `ApplyHumanDecision`, `PrepareCheckout`, `ReadIssue`, `PlanEnrichment`, `Enrich`, `PlanDevelopment`, `AskForDecision`, `MarkWaitingForDecision`, `CheckpointDecision`, `ReReadIssue`, `ClaimIssue`, `CheckpointClaim`, `Advance`, `Push`, `OpenPullRequest`, `MarkWaitingForMerge`, `CheckpointPullRequest` |
| `dispatchWithCancellation`, catch of `execute` | `DeadlineElapses`, `CancelObserved`, `HeartbeatFails`, `Abort`, `StepFails`, `CancelLifecycle` |
| completion in `runCycle` and its catch, `github/main.ts` | `Settle`, `SettleFails`, `CatchCompletes`, `CatchFails` |
| process, database clock | `Crash`, `Restart`, `LeaseRunsOut` |
| dashboard, humans, GitHub | `RequestExecutionCancel`, `ResolveDecision`, `OperatorActs`, `ClosePullRequest`, `PullRequestClosedWebhook`, `PullRequestSynchronizedWebhook` |

Abstractions: an issue body is its marker and a revision that every write moves (`updated_at`, taken
as strictly growing; GitHub's has a resolution of one second); pull requests are named by the
execution that opened them; labels, prompts and usage are absent. The provider's answer is a
nondeterministic outcome; the session that produces it is `DeliveryStages`.

**`WorkView`** adds no state: it is what the list of the task page (`ListedExecution`,
`GithubWorkRank`, `ActiveGithubWork`) and the page of an issue (`DetailExecution`, `DetailDecision`,
`CurrentStage`, `ProgressState`, `BlockingReason`, `NextAction`) make of the rows of
`GithubDelivery`, each by its own rule. Which of several ended executions is the newest is not told
apart, and the workflow's reconciliation flag, which no transition of the worker sets, is absent.

**`ManualTasks`** models the second kind of work the same worker does: tasks entered by hand. It
meets `GithubDelivery` only in the worker's single slot, which a cycle gives first to a deletion
request, then to a requested pull-request retry, then to a pending task, and only then to GitHub
work. `task` is the table `v0_tasks`; `admitted` stands for create requests between their check of
the project and their insert, which are two statements; `deletions` is the queue of project
deletions; `branch` and `pull` are what GitHub has. `pc` and `job` are the worker's position and its
local variables and die with a crash. Every call whose answer may be lost has an alternative in
which the effect may or may not have happened, counted by `MaxFaults`.

| Code | Actions |
|---|---|
| `recoverInterruptedTask` | `FindInterruptedTask`, `CompleteInterruptedTask` |
| `runOnce` of the v0 worker | `ProcessDeletion`, `RetryPullRequest`, `NothingBeforeClaim`, `ClaimPending` |
| `executeTask` | `Prepare`, `ReadyWithoutChanges`, `StartAgent`, `AgentEnds`, `Push`, `MarkPushed`, `FindPullRequest`, `CreatePullRequest`, `ReconcilePullRequest`, `RecordSuccess` |
| `retryPullRequestTask` | `RetryPullRequest`, then the same three pull-request actions and `RecordSuccess` with `job.retry` |
| poll, timeout and shutdown; a step that throws | `Abort`, `StepThrows` |
| the catch blocks | `CatchExecution`, `CatchRetry`, `RecordFailure` |
| dashboard API | `CheckCreation`, `InsertTask`, `RequestCancel`, `RequestPrRetry`, `Archive`, `RequestDeletion` |
| process, users of GitHub | `Crash`, `MoveBranch` |

**`TaskHistory`** is what one task leaves for its reader. `logs` is the bounded sequence of messages
(`Write` drops what no longer fits, as `appendLog` does), `row` the task's row, `audited` whether the
audit record of its failure is still among those the page reads, `run` the executor's place. The
executor's actions write exactly the messages and workflow states of `executeTask`, in its order, for
each of the three sources, with the enrichment loop of an issue (`EnrichIssue`, `ReviseIssue`,
`RevalidateIssue`), the diagnostic (`PersistDiagnostic`), the completion and the retries of the pull
request. The page's functions are `Timeline` (`Chronology`, `GroupSetupEvents`, `PairSteps`,
`RootFailure`, `CollapseTimeline`), `SummaryStatus` and `ShowsDiagnostic`. A timeline is a function from
the places of the page's events to the events, so that what the code drops from its array is a place
outside the domain and what it keeps stays at its place. Messages are told apart by
the event the page makes of them. Any step may end early; when a cancellation is noticed and what
GitHub has are `ManualTasks`' part.

**`WebhookRouting`** is a function of what GitHub delivers: `Accepted` (the signature matches, the
event is subscribed to and carries its fields), `Directive` (the first directive of a new comment
outside quotations and code blocks, within the scanned lines), `Admitted` (installation, actor and
verb against the policy) and `Kind`, what the handler does with it. `Delivery` collects these for
`ControlCommands`, which starts no handler for a delivery that is not accepted (`Refused`).

**`ControlCommands`** gives every HTTP request a handler of its own (`pc[r]`, `job[r]`), one step per
call to the database or GitHub, so that handlers interleave between calls. `commands` is the status
by idempotency key, `deliveries` the receipts of webhook deliveries, `control` the rows commands are
about. `applications` counts how often a command changed its row or sent the signal it consists of; an
application that writes nothing (the decision has its answer, the execution has ended, a safe retry)
is not counted, and `Settled` names those cases. `disturbed` is a history variable of the keys whose
receipt lost track of an application: a call failed at one of the places `Forgetful`, the server died
at one of `Unrecorded`, or a handler read the receipt while another of the same key was between
receipt and application (`Window`, set by `Enter`). A fault anywhere else disturbs nothing.

| Code | Actions |
|---|---|
| control route and session | `Submit` |
| `submitControlCommand` | `Validate`, `RecordRejected`, `MarkRejected`, `AuditRejected`, `Record` (`Enter`), `AuditAuthorized`, `MarkAuthorized`, `Apply`, `SignalWake`, `MarkApplied`, `AuditApplied`, `MarkFailed`, `AuditFailed` |
| `handleGithubDelivery`, `dispatch` | `Deliver`, `Refused`, `Route`, `RouteFails`, `Serve`, `Processed`, `Acknowledge`, `Wake`, `Refuse`, `Explain`, `AuditDenied`, `Deny` |
| process, worker | `Crash`, `Worker` |

**`ProductionLoop`** has the wake coordinator (`pending`, `waiter`, `flush`: `Merged`, `Wait`,
`Flush`, `Timeout`, `Notified`), the main loop (`Start`, `Loop`, `ReadMode`, `Crash`, `CycleFails`),
the quota refresh before every dispatch (`Refresh`, `Read`, `Store`, `Prune`, `FallBack`) and the
choice between `Manual` and `Cycle`. Snapshots have a level and an age: `stored` is the latest row,
`cached` what the process holds. The append (`Store`) and the deletion of old rows (`Prune`) are two
calls, and only after the second is the answer cached and evaluated; a failure at either falls back to
what the process holds. Two history variables tell the outcomes apart: `dropped`, the last answer is in
no row, and `behind`, it is, but the process holds an older one. `stale[p]` says that GitHub changed and
no cycle has looked yet.

**`DeliveryPipeline`** states the gates of `packages/core` ("an agent may implement the work, but
only ADE gates can move it towards a pull request"), which no production path calls.
**`DeliveryStages`** is the session that replaced it: every command is a child process (`Spawn`,
`CommandExits`, `CommandKilled`, `Abort`, `ForceKill`), the checkout is three version numbers (files,
index, commit), any agent or reviewer may edit the files (`AgentEdits`), and `Validates`, `Reviews`,
`Corrects` are the loop of `runPostAgentGates`. `StageOf` and `CorrectionsOf` map it to the pipeline.
A session that fails is announced on its issue (`Announce`), a touched issue that failed or waits for
a human is announced by a reconciliation (`AnnounceChange`). Either posts about one of the `Purposes`
(`Post`), and each purpose has its comment (`FindComment`, `UpdateComment`, `CreateComment`,
`RememberComment`). `unrecorded` counts, for each purpose, the comments that were created and whose
record failed; a failing lookup or update adds none.

**`HostRunner`** joins the worker's side of the runner socket (`CrashSafeWorker`,
`DurableExecutionCoordinator`, the client's time limit `ClientGivesUp`), the runner (`Check`,
`StartJob`, `StartFails`, `ProcessEnds`, `GivesUp`, `LimitReached`, `NoisyProcess`, `StopRunner`,
`RunnerExits`, `StartRunner`) and ADE's own record. `active` is the runner's map from an execution to
the process that may be cancelled: a second request overwrites the entry of the first, and a
process that ends deletes the entry only when it is its own. The production worker does not use this path; the runner is deployed.

**`ProjectLifecycle`** follows a project's checkout: `Register` and `RequestDeletion` of the
dashboard, provisioning passes, and the deletion in the worker's loop (`FindRequest`,
`VerifyCheckout`, `RemoveCheckout`, `EraseProject`). The timer of `github/main.ts:137` starts a pass
every 30 seconds without waiting for the one before, and an executor that finds no checkout
provisions its project itself; so each of the `Passes` may be at any project at any time, two of them
at one (`StartVisit`, `Look`, `Authorize`, `StartClone`, `EndClone`; `visit[p]` holds the row the pass
read). `checkout[s].by` is the pass whose clone is at work in the directory: git creates it and refuses
one that is not empty, and a clone that fails removes what is at its path. `contended` is a history
variable: the projects whose deletion took an unfinished clone for the checkout, until what it removed
and every clone there are gone. A list of projects is visited one project at a time in the code; here
a pass takes up any registered one, which allows more orders.

**`ProjectSetup`** follows a repository from its registration to the state in which ADE may work on
it: the setup request (`InspectBefore`, `CreateLabel`, `FindSetupPull`, `CreateSetupPull`,
`OpenUnlooked`, `Recheck`, `Activate`), the worker's initialization (`CheckOut`, `InspectSetup`,
`RecordReadiness`, `Repair`, `CompleteInitialization`), the orchestrator's refreshes and
`Advice`, what the project page tells the operator to do next. An inspection of the repository is
one read.

**`Scheduling`** asks which issue of which project runs next. The worker fetches, reconciles, chooses
and leases in four steps (`Fetch`, `Reconcile`, `Choose`, `ScheduleWithLease`) and ends a run with or
without having written the issue (`RunEndsWritten`, `RunEndsUnwritten`); between any two of these,
operators and humans act. `Choice` is `selectGithubWork` with its dependency filter and every branch,
`Selection(p, reader)` what the worker or the overview makes of it, `Exclusion(p, reader)` is
`candidateExclusion` for either reading of the rows, `GoesBefore` is `compareSchedulerCandidates`. Only
the worker resumes (`Resumed`, `Resumes`): the resolved decision of the first issue that waits and
names one makes its project ready again, whatever item was selected, as long as no recorded run has
resumed it. Time is reduced to what the scheduler compares.

| Code | Actions |
|---|---|
| project reconciliation | `Fetch`, `Reconcile`, `ReconciliationFails`, `BackoffEnds`, `ProjectionExpires` |
| `runCycle` | `Choose`, `ScheduleWithLease`, `RunEndsWritten`, `RunEndsUnwritten` |
| `POST /api/tasks`, removal | `AdmitIssue`, `Readmit`, `RemoveIssue` |
| `PATCH` of the issue queue | `SetQueuePreference`, `AdmitQueued` (then `Readmit`), `StorePreference` |
| `PUT` of the issue queue | `ReorderQueue`, then for each issue of the page `ReadPreferences` and `StorePreference`, then `StoreOrder` |
| `PUT` of the recommendation | `ApplyRecommendation`, one `ReadPreferences`, a `StorePreference` for each issue that differs, `StoreOrder` |
| a request that throws or a dashboard that stops | `RequestFails`, what it stored stays |
| commands, quota, runner, readiness | `ResolveDecision`, `ChangeSettings`, `RecordAdeReadiness` |
| humans and webhooks on GitHub | `EditMarker`, `CloseIssue`, `BlockIssue` |

A request of the queue page loads the page in one step and then makes one transaction per step, as the
routes await one after the other; `requests[o]` is what it still has to do, and any other request,
removal, cycle or reconciliation may come between.

## 3. Runs

Each passing property has a mutant in `PROJECT.json`: a plausible bug of the code that makes TLC
find it violated under the same configuration.

| Run | Instance | Shows |
|---|---|---|
| `delivery_store` | 3 executions, 2 issues, symmetric | a lease is held iff its execution is in flight; the store implements `WorkLease` |
| `delivery_faults` | 2 executions, 1 issue, 2 failing calls, 1 cancellation | without a fault no execution is left in flight; `StoreSpec` is kept also when the completion and its repetition both fail |
| `delivery_operator` | 2 executions, 2 issues of which the second depends on the first, 1 crash, 1 operator action or foreign push | the provider runs again only after a human acted; completed only after the merge; dependencies merged first |
| `delivery_live` | 2 executions, 1 issue, 1 crash, 1 cancellation | waiting issues are answerable, their page asks for nothing else and offers to cancel the run there is; every run ends; a merged pull request completes its issue with or without webhook |
| `manual_tasks` | 2 tasks of 2 projects, 1 fault, 1 retry; apart from them one task's log with 2 enrichments, 1 retry of its pull request, 1 lost write | one agent run per task, no outcome replaced, a success is published and a cancelled task is not, every task ends and every retry is answered; a failure is explained and its cause named |
| `commands` | 3 requests, 2 operator commands, 6 deliveries: one comment twice, an answer to the decision, a changed issue, a stranger's comment, a bad signature; 1 fault | a command changes the rows once, a failing call or crash that costs its receipt the application and an overlap of two handlers excepted; applied and processed are said only of a command that changed something or had nothing left to do |
| `production_loop` | 2 projects, 3 turns of the environment | a refusal of the provider is obeyed, unless it is in no row or the process holds an older answer after a failing deletion of old rows; every change is seen, every task run; no deadlock |
| `host_runner` | 1 execution, 3 requests, 2 faults | only ADE's own end is recorded; every process ends |
| `delivery_stages` | 2 profiles, correction limits 0 to 3, 3 edits, 2 sessions, 1 fault | what is committed was reviewed; every session ends; one comment per purpose, plus one per creation that was not recorded; `DeliveryPipeline` is implemented |
| `projects` | 2 slugs, 2 repositories, 2 passes, 1 fault; apart from them 2 setup requests, 1 label, 1 foreign change, 1 fault | only its checkout is removed, deletions are carried out, projects provisioned, each but for a deletion that took an unfinished clone for the checkout; one setup pull request while no two setup requests overlap, and the page's advice leads to a ready project |
| `scheduling` | 2 projects, 3 issues of which one depends on another, 2 requests of the queue page at a time, 2 disturbances | removed stays removed, positions distinct, equals overtake each other once, the overview hides nothing that runs but for its own quota and projects a resolved decision resumes |
| `scheduling_order` | the same | violated, see below |

`scheduling_order` expects a violation. The queue route says "Queue order must include every
enabled, open issue exactly once"; the store demands an order of *every* enabled issue. Nothing
withdraws the preference of an issue that is closed, so after the first enabled issue closes no
order satisfies both and every reorder of the project fails.

Observed while modelling, and listed as hazards with a note or named in the property instead of
a run:

* delivery: a completion as `unknown` stores no summary, so the revision is scheduled again
  (`GithubWorkOrchestrator.ts:627`); a resolved decision is attached to the item that is selected,
  which may be another; the second `checkpoint("publishing")` returns at once, so the pushed head is
  never stored; after an operator retry the cleanup of a cancelled run looks for the previous owner;
  an issue that a push to its pull request blocked keeps `pr-<n>-reconciliation` when an operator
  makes it ready, so its next run leaves it waiting for a decision nobody stored
  (`githubWebhook.ts:214`; this is why `WaitingIssueIsAnswerable` excepts that decision once somebody
  has edited: without the exception TLC finds it violated with `MaxEdits = 2`);
  the body read before the provider ran is written back (`GithubWorkCodexExecutor.ts:398`); an
  execution whose lease has not expired is no candidate of the startup reconciliation, which looks
  once; a restart puts a drained runner online (`github/main.ts:195`);
* manual tasks: a deletion whose checkout may not be removed, and a retry whose branch has moved,
  make every later cycle throw before it claims a task;
* task page: a finished task still shows "Execution started" and "Create pull request" as running
  where `docs/DASHBOARD.md:182` expects pairs; a command that throws leaves its start running; a
  setup finding that was repaired is called the first failure of a success; a cancelled pending task
  keeps the workflow state `queued`;
* control commands: when the audit record of an applied command fails, its receipt is turned to
  failed (`commands.ts:156`); a rejected replay updates the receipt of the first command
  (`commands.ts:183`); the handler that reports a refusal "already persisted as a rejected
  command" (`githubWebhook.ts:311`) also catches a failing outcome or acknowledgement of a command
  that was applied; two handlers of one key that both read a receipt not yet applied
  (`commands.ts:136`) apply the command twice without any failure; `execution.safe-retry` writes no
  row and nothing of the worker reads `control_commands`, where `commands.ts:315` says the worker
  picks it up; a command is reported applied when another answer had resolved the decision or the
  execution had ended (`commands.ts:331`, `commands.ts:351`);
* loop: a forced refresh (`quota/refresh/route.ts:41`) is lost when its notification is merged into
  another event; when the deletion of old rows throws after the append, the coordinator goes by the
  older permission it holds although the refusal is stored, until the process restarts or reads again
  (`quota/src/index.ts:354`);
* host runner: a process that ignores SIGTERM has no further bound;
* delivery session: `plan.maximumCorrectionAttempts` of 1 allows no correction
  (`AdeDeliveryRuntime.ts:266`), which is how `DeliveryStages` maps it to the pipeline;
* projects: a pass that clones beside a deletion can leave the clone of a project that is gone
  (`docs/DASHBOARD.md:533` promises its removal); a deletion that finds a clone at work takes it for
  the checkout and removes its directory, that clone fails, and its cleanup may remove the complete
  checkout another pass made there since; with clones longer than the 30 seconds of the timer two
  passes can go on removing each other's directories for ever;
* scheduling: a hold or an enabling that is stored between the read and the store of a preference
  which a reorder materialises is overwritten (`issue-queue/route.ts:81`); the overview shows
  waiting-human or reconcile-first for a project that the worker resumes; a resolved decision is
  attached to whatever item was selected, and where that is another issue which was never run its cycle
  throws for want of a workflow, records neither revision nor decision, and is repeated until the issue
  is held or finished otherwise (`GithubWorkOrchestrator.ts:195`).

### Bounds

* Two executions are one attempt and its successor, which is what every fault property of the
  delivery relates; the store's own properties are checked with three, and proved for any number.
* `MaxCrashes`, `MaxOutages`, `MaxEdits`, `MaxCancels`, `MaxFaults`, `MaxLosses`, `MaxActs` bound how
  often the process dies, a call fails, an operator or a foreign push acts, an execution is cancelled.
  A crash may come at every position of an actor, a fault at every call; one or two of them reach
  every pair of (position, recovery path). The outage run needs two because the catch block repeats
  the completion.
* A lease runs out only while the worker is starting (`LeaseRunsOut`): no other step looks at it.
* Revisions of an issue are bounded by the executions and edits; `MCSummaries` lists what they allow.
* `ManualTasks` has two tasks because the hazards relate a task to the next one (a claim, a retry or
  a deletion of one while the other waits), and two projects because only one can be deleted:
  `Unremovable` holds the second, whose removal is refused.
* `TaskHistory`: the code keeps 1 MiB of a task's log and the page reads 2000 messages; the complete
  history of a prompt task has 21 messages, so `LogRoom = 23` and `PageLimit = 22` put the limits where one more
  message, or two, decide what is kept and shown.
* `ControlCommands`: three requests are two that overlap and one that comes later. Operator requests
  are interchangeable, which is the symmetry of the run. One
  command comes as a comment that is delivered twice, and the decision is answered by the dashboard and
  by a comment. `VIEW Seen` leaves out the audit records and signals, which nothing reads.
* `ProductionLoop`: two projects, since the merged event keeps one; a turn is a change, a task, a
  pause, an exhausted quota, a failing call or a crash.
* `HostRunner`: three requests are a query, an advance and a copy of either.
* `DeliveryStages`: two profiles make the order of the reviewers matter; limits above 3 add loops of the
  same kind; three edits put one after each review.
* `ProjectLifecycle`: two passes are a timer's pass and the next one, or a pass and an executor; a
  third waits for either. `Offered` registers either repository at one path and one at the other,
  which are all the ways two projects can meet.
* `Scheduling`: two requests at a time are two that interleave, and interchangeable, which is the
  symmetry of the run; a request loads its page in one step, and the theorems do not rely on what it
  read there. `Outcomes` names how the runs of each issue may end, every way being possible for one of
  them. `MaxActs = 2` makes two requests, or one and whatever gets between its transactions.
  `MaxPosition` bounds queue positions; the store's limit of 100 summaries of a project
  is far above what the instance produces and is absent.
* Deadlock is checked in `production_loop`, whose loop never ends. Elsewhere an instance rests when its
  executions, tasks, requests or sessions are used up, and `CHECK_DEADLOCK FALSE` says so.

### Fairness

Weak fairness stands for what timers and awaited calls guarantee; no operator, human or foreign
action is fair, and nothing is assumed of the provider, ADE or Git, which may hang.

* `GithubDelivery`: the timers of `dispatchWithCancellation` fire, a call to PostgreSQL or GitHub
  returns or throws, the abort signal reaches an awaiting call, Compose restarts the worker, startup
  goes on. `ReconcileItem` is strongly fair because every periodic cycle lists all open issues,
  whatever the webhook did; a cycle may be busy in between.
* `ManualTasks`: the worker as a whole (`TasksWorker` in the instance): its timeout ends any command,
  calls return or throw, and the loop is woken at least by its periodic timer. `EveryTaskEnds` and
  `RetryIsAnswered` name their exceptions: `CycleBlocked` and a lost answer.
* `ProductionLoop`: Node goes on, timers fire, time passes; and two assumptions about people and the
  provider, without which nothing is promised: a paused scheduler is resumed and an exhausted window
  is reset.
* `HostRunner`: worker and runner go on, the timer of a request fires, and a process that was sent
  SIGTERM ends. The last is an assumption: the runner has no SIGKILL.
* `DeliveryStages`: the worker goes on, the deadline of the session passes, the grace period ends, a
  killed child is reported. No command is assumed to end by itself.
* `ProjectLifecycle`: the loop and every visit under way go on (weakly fair), and every project is
  visited again and again (strongly fair), because the timer waits for no pass and a restart begins
  with one. Fairness of the loop passes over an operator's pause or safe mode, in which
  `github/main.ts:159` skips the cycle and with it every deletion: the liveness of deletions is
  promised for a running scheduler.
* `ProjectSetup`: handlers and the initialization go on, the orchestrator refreshes, and the operator
  does what the page advises (which is what `AdviceSuffices` is about). Where the page's own
  inspection or its lookup of the setup pull request fails it only advises to try again
  (`projectDetailPresentation.ts:25`, `:38`); such a page is not modelled, and the liveness is promised
  for an operator whose retries succeed in the end.

## 4. Proofs

Eight modules of theorems, checked by `tlapm`; every theorem holds for every value of the constants
that meets the assumptions named. TLC checked each conjunct of an inductive invariant on the
instance of its run first.

**`GithubDeliveryProofs`, the store** (assumption: `None` is no execution, issue or summary).

* `TypeInvariant`: `StoreSpec => []StoreTypeOK`.
* `LeaseFollowsExecution` and `Exclusion`: a lease is held iff its execution is in flight, and two
  executions of one issue are never in flight together. Exclusion alone is not inductive:
  `ScheduleWithLease` looks at held leases, not at statuses. The inductive invariant `StoreInv`
  joins the type invariant, `LeaseHeldIffInFlight` and `OneLiveExecutionPerItem`: by the second the
  index's refusal means that no execution of the issue is in flight, which gives the third after a
  schedule; all other actions only shrink the set in flight. `UpdateInFlightStatus` has no guard in
  the code, so the argument needs the clients' discipline (only the slot's execution is marked, and
  only while it is in flight), which is why `GithubDelivery` is shown to keep `StoreSpec`.
* `Finality`: an action property that follows from the same invariant.
* `Refinement`: the store implements `WorkLease`; initial states map to initial states, a schedule
  to `Begin`, a completion to `End`, everything else to a stutter.

**`GithubDeliveryProofs`, the delivery** (`IssuesAssumption`: issues are positive numbers, dependencies are issues,
bounds are naturals; `RowsAreSomething`: `None` is neither a decision nor a workflow;
`SomeIssueIsFirst`: a total order has a first element, which a finite set of issues gives; and, as a hypothesis of each theorem, `SummariesSuffice`: a completion may record any
revision and decision, where the instance's `MCSummaries` lists those its bounds allow).

* `DeliveryTypes`: `[]TypeOK`.
* `Discipline`: `SafetySpec => KeepsStoreDiscipline`, the worker, the dashboard and the clock take
  only steps of `StoreSpec`; hence `DeliveryExcludes`, the exclusion and finality of
  the store for the whole delivery.
* `NothingIsAbandoned`: `[]NoOrphanWithoutFault`.
* `CompletionsFollowMerges`, `ProviderRunsAfterDependencies`: `[]CompletedOnlyAfterMerge` and
  `[]DependenciesMergedFirst`.
* `StartsAreAccountedFor`: `[]ProviderRunsNeedAHuman`.
* `WaitingIssuesAreAnswerable`, `OfferedDecisionsAreAwaited`, `TheRunIsShown`:
  `[]WaitingIssueIsAnswerable` and, of `WorkView`, `[]OfferedDecisionIsAwaited` and `[]RunIsShown`.
* `DeliveriesGetOn`: `SafetySpec => DeliveriesMoveForward`, every step of a run ends it, brings it to a
  place from which fewer are left (`PlacesToCome`), or stops it for a weightier reason; nobody else moves
  a run but a crash, which ends it.

`WorkInv` joins the types with `JobFits`, what a run holds at each place: an issue from the lease on,
a workflow from its start on, a body from the first read on, a pull request once one is open. It is
needed because a checkpoint or a write of the marker has its type only where these exist. The proof
divides `Next` by actor (`Deliver`, `Around`, `Outside`) for the types and by what it does to the
store (`LeavesStore`, `MovesStore`) for the discipline. `NoOrphanWithoutFault` is inductive with it:
a cycle starts with no driver, hence with nothing in flight, and gives up its execution only by
completing it, except where a crash or an outage is counted.

The two merge theorems have a second invariant, `PullInv` and `MergeInv`. `CompletedOnlyAfterMerge`
is not inductive because the worker writes back bodies it read before the provider ran, and the
dependency theorem speaks about a projection that may be old. So the same must hold of every copy of
a marker: the issue's, the run's `body` and the projection's. `PullInv` says that an execution that
was never scheduled is on no issue and has opened nothing, and that the run has opened none before
its place says so: a merged pull request then stays merged (`Kept`). `MarkersFit` and `RunFits`: a
marker names a pull request of its own issue, a merged one when it says completed. `StateFits`:
only an issue whose dependencies are merged can be `waiting-human`, which is what a resumed run
relies on. Old copies remain true because merges are for good (`MergedStays`). `IssueWrites`,
`WorkflowMoves` and `BodyMoves` state once what the steps write.

`StartsAreAccountedFor` counts, and what it counts has to be told apart first. `RunInv` says what a
run has read and what of it is still true: revisions only grow, and two readings of one revision are
the same (`RevisionsGrow`); a decision is named only on its own issue, after the revision it was asked
at (`MarkersNamed`); a workflow's decisions are its own and nobody else's (`WorkflowsOwn`); a run was
scheduled at a `ready` revision or resumes a resolved decision (`AsScheduled`, `RunRemembers`). `Credit`
is the account: starts on an issue, plus the rights to start that are still out (`Tokens`: one while the
issue is `ready`, one while a run on its way to the claim holds what it was scheduled by, which for a
fresh delivery is that same `ready`), never exceed one, plus the edits, plus the resolved decisions a
workflow was resumed with (`Used`). `TokenStep` carries it: a right appears only with an edit or with the
first resumption by a decision, and a start spends one. It rests on `RightMove`, no step but an operator's
makes an issue `ready` that was not, save the enrichment's write over the issue its fresh run read as
ready, and on `ResumptionIsFirst` and `ResumptionUses`, a decision adds to `Used` once although a crash
may repeat the cycle that takes it up. Without `RunInv` the account is not inductive: a stale
projection would seem to grant a second start.

The other three rest on `QuietInv`, which adds to `RunInv` what is stored and what an issue is that
nobody edits. `StoredFirst`: a decision is stored before a marker or a body names it, open or resolved
and not both; only the webhook's is stored nowhere. `ResumptionRecorded`: a resumed run has recorded its
decision before it reads the issue. `Undisturbed`, claimed only while `edits = 0`: an issue is in the
state its run, its event or its cancellation wrote last, place by place, so that it says "running" from
the claim on and "waiting-human" between the question and the answer. `Awaited`: an open decision that a
marker, old or new, or a workflow carries is the one its issue waits for. It is needed in this form
because a page shows the workflow's decision, which no later transition clears, or a projected marker
that is behind: such copies are harmless only because a decision stops being open when it is answered,
before anything else happens to its issue. `TheRunIsShown` combines this with the exclusion of the store,
by which the newest execution in flight of an issue is the only one.

**`ManualTasksProofs`** (any tasks and projects, any number of crashes, lost answers, retries and
moved branches; task numbers are naturals, each has a project, `None` is no task, code or abort reason).

* `TypeCorrectness`, `ActiveTaskIsUnique`, `AgentStartsOnce`, `NoRunningTaskIsLost`: `[]TypeOK`, at
  most one task is pending or running, `[]AgentRunsOnce`, `[]RunningHasAWorker`.
* `OutcomesAreFinal`, `EndedTasksStayQuiet`: the two action properties of the run.
* `SuccessesArePublished`, `CancellationsHold`: `[]SuccessIsPublished`, `[]CancelledIsNotPublished`.
* `TasksGetOn`, `RunsGetOn`: a task's status only moves along `TasksMoveForward`'s order (absent,
  pending, running, ended, deleted; and from failed to success), and every step of the worker at a task
  ends its cycle, comes to a later place, or notes an abort once.
* `FailuresAreExplained`, `CausesAreNamed`: `HistorySpec => []FailureIsExplained` and `[]CauseIsNamed` of
  `TaskHistory` (`HistoryAssumption`: its limits are naturals).

The inductive invariant `IInv` joins the type invariant with `OneActiveTask`, `AgentNotStarted` (the
agent has not run for a task that is not claimed, nor for the one the worker still prepares),
`RunningHasAWorker` and `JobFitsTask`. The last carries the argument: while the worker is at a task
its row is *workable*, running or failed with a requested retry, whatever the dashboard does, except
that it is already a success where a completion committed and its answer was lost. So a completion
changes only the row it should; what it finds final it leaves. `OneActiveTask` is needed because a
recovery and a claim look for *a* running or pending task: without it another could be left behind.
`AgentRunsOnce` alone is not inductive because a claim has to know that no agent has run. The proof
goes action by action; `OperatorStep`, `CompletionStep` and `ClaimStep` state once what each kind of
transaction does to the rows.

The two publication theorems have a second invariant on top of `IInv`: `PublicationInv` joins
`RowsTrue` (a recorded pull request exists; a task cancelled at its push still carries its
cancellation, has not failed with the one code that offers a retry, and has no retry requested) and
`JobTrue` (what the worker believes is published is; on the way from the push to the creation the
task was not cancelled at its push). The middle conjuncts close the only way back in: a retry needs
`GITHUB_PR_CREATE_FAILED`, which only a failed creation sets, which only an uncancelled task reaches.

`FailureIsExplained` speaks of a failed row; what explains it was written two steps before. `LossesExplain`
therefore starts where a run records its failure (`HasToTell`) and says what each missing piece of
evidence cost: the audit event one loss, the diagnostic in the log one loss or a full log, both two.
`WriteKeeps` and `WriteTells` say of the bounded log that a message is never taken back and that a
diagnostic which is not there found no room; `PersistTells` accounts for the two writes, `TellingMoves` for
all other steps.

`CauseIsNamed` is about the page more than about the log: the theorem needs of the executor only
`EndedRows`, that a row which failed says so with a finish time, so that its page has a closing event. The
rest is said of the page's functions for *any* events: the places are numbers, so a set of them that is
not empty has an earliest (`EarliestIsThere`, from the well-foundedness of `Nat`); grouping the setup
events keeps a failure among them and turns it into a cause (`PhasesAreCauses`, `GroupingKeepsFailures`);
pairing drops only events that are still running (`PairingKeepsFailures`); hence what remains after
collapsing has a failure, and one that only passes on another stands alone and without a cause
(`CollapsingNamesACause`). `ChronologyTells` carries this from the messages to the timeline.

**`ControlCommandsProofs`** (`ControlAssumption`: what the constants of an instance are; any number
of requests, deliveries, commands and faults).

* `CommandTypesHold`, `CommandsApplyOnce` (`[]AppliedOnce`), `ReportsAreTrue`
  (`[]AppliedOrSettled`).

`CommandInv` has three parts. `TypeInv` adds to the types what a handler holds where it stands
(`HandlersHave`). `Told` says that reports are true: a handler that goes on to report has an
application behind it, or its command is settled (`HandlersTrue`), and what is about to be applied, or
was, passed a validation that nothing takes back (`AppliedWasValid`). It needs `DecidedOnce`, a decision
that was answered stays so, because a second answer reports as applied without writing. `Settled` is
stable: an ended execution never runs again and an answer is never withdrawn. `Quiet` carries the
counting: an undisturbed key has one handler at a time between receipt and application (`Alone`), one
that is about to apply finds no application or nothing left to do (`HandlersQuiet`), and an application
the receipt does not show is just being reported by that handler, or nothing can follow it
(`LedgerKept`). Only the overlap that `Enter` sees and the failures of `Forgetful` and `Unrecorded`
places put a key into `disturbed`, where `AppliedOnce` claims nothing; every other call of every handler
may fail and the claim stands. `Frame` and `Owned` state once what a call leaves alone and what it
owns.

**`ProductionLoopProofs`** (any projects and bounds; `ProjectsAssumption`, `NothingIsSomething`: `None`
is no project, event, snapshot or level, `MaxTurns` is a natural).

* `GateIsObeyed`: `Spec => []BlockIsObeyed`: nothing is dispatched after the provider refused work,
  unless the refusal is in no row (`dropped`), or it is, but the call after its append failed and this
  process still holds an older observation (`behind`). The second is what the code does, and shows that
  the gate is not as durable as its rows.
* `LoopTypesHold`: `[]TypeOK`.
* `WakeupsReachTheLoop`: `[]NoWakeupIsLost`, the loop never sleeps over a pending wakeup, unless the
  microtask that hands it over is queued: the safety half of `ChangesAreSeen` and `TasksRun`, over every
  order of `notify`, `wait`, the timer and the microtask.
* `FullReconcilesReachTheLoop`: `Spec => FullReconcileIsKept`, a full reconciliation that was asked for
  survives every merge until the loop takes it (`MergingKeepsFull`).

The invariant of the gate joins the types of the quota part (`QuotaTypes`), `WaiterWaits` (a waiter exists only
while the loop waits, so nothing else is at the gate), `AnswerRead` and `ObservationsAgree`: the stored
snapshot carries the level of the last answer unless that was dropped, and what the process holds does
so too unless it fell behind. A call that is cut off leaves either the old row or the answer in it
(`CutOffAgrees`), a snapshot ages without changing its level (`OlderSnapshot`), and staleness only ever
blocks (`DecideObeys`).

**`HostRunnerProofs`** (any executions, requests and faults).

* `RunnerTypesHold`: `TypeInv`, the types and `Numbered`, requests are used in order: an entry of the
  runner's table of cancellable processes is a started request of that very execution.
* `OnlyAdesEndIsRecorded`: `[]RecordedEndIsAdes`. The property speaks about rows; an answer may be
  recorded long after it was given, on the wire, in a copy or in the worker's hands. `RecordInv`
  therefore says of every answer that carries an end, wherever it is, that it is ADE's
  (`AnsweredEndIsAdes`), which is stable because ADE never changes an end.
* `ProcessesAreWatched`: `[]NoProcessIsUnwatched`, a process that is alive has a handler with its timer,
  was sent SIGTERM, or has outlived the runner that started it; this is what `EveryProcessEnds` needs of
  every state, and the last case is the exception it names.

**`DeliveryStagesProofs`** (any reviewers, correction limits, edits, sessions and faults).

* `SessionTypesHold`, `OnlyReviewedIsCommitted` (`[]CommittedIsReviewed`), `CommentsAreReused`
  (`[]OneComment`).
* `RuntimeKeepsThePipeline`: `Spec => KeepsPipeline`: the runtime implements `DeliveryPipeline`, with
  the initial states and every step mapped to a step or a stutter.
* `SessionsGetOn`: `Spec => SessionsMoveForward`, every step of a session but an agent's edit lowers a
  measure: the attempts that are left, then the places of the attempt, then its reviewers, then their
  child process, then the deadline (`ComesCloser`), whose parts are naturals. The correction loop
  therefore ends, whatever fails in it.

`SessionInv` joins the types with `AttemptsCounted` (the attempts stay within the limit), `GatesPassed`
(at each stage the gates before it hold *for the present attempt and content*, with `ReviewedSoFar`
for the reviewers in the middle of their loop), `CommittedIsReviewed` and `CommentsPaid` (the comments of a
purpose are exactly those whose record failed, counted where it failed, and the one that is recorded or
just being recorded; a comment is created only where none is known). Edits are the hard part: agents and
reviewers share the checkout and a reviewer may change what the gates already passed; a passed gate
survives that because it and the commit look at what is *staged*, which only `stage` changes, and
every `stage` starts a new attempt that no profile has approved.

**`SchedulingProofs`** (`SchedulingAssumption`: a finite set of numbered issues, each of a project and
with a priority from 0 to 100; any projects, positions and disturbances).

* `SchedulingTypes` (`[]TypeOK`), `RemovalHolds` (`[]RemovedStaysRemoved`), `QueueStaysOrderly`
  (`[]PositionsDistinct`), `OverviewSeesWhatRuns` (`[]NothingRunsUnseen`).
* `AgingIsFair`: `Spec => OvertakenOnce`, among projects of equal priority a waiting one is overtaken
  by each other once.

`SchedulingInv` joins the types, `PositionsDistinct` and `RemovedAreGone`: the row of a removed issue is
neither present nor chosen. It is needed because a projection writes its rows from older ones, and
because a choice outlives the step that makes it.

The queue is proved transaction by transaction, for any number of requests: `QueueStep` says that each
finds an orderly queue and leaves one, whatever was stored since the page it works from was loaded. An
issue that is enabled goes behind all others of its project (`LastIsLast`, `WithPreferenceIsOrderly`),
and an order is stored only when it names every enabled issue once (`ReorderedIsOrderly`); what the
request believes is nowhere used.

`OverviewSeesWhatRuns` rests on `EligibleMeans`, what the worker has found when it dispatches a project:
an issue that is ready and not attempted, or a decision that resumes it, and on `ChoiceOf`, what
`selectGithubWork` then names. In the first case the overview, which reads the same rows, finds the same
issue; in the second it finds the issue that waits, or an attempted one, and these are the exceptions of
`NothingRunsUnseen` besides the quota. `ItemIsFirst` and `FirstIsThere` show that the orders of a
project's issues are total, so that each `CHOOSE` has a value.

`OvertakenOnce` needs `OvertakenLater`: whoever overtook a project that stays eligible has a success
later than that project's own, and `RecordKeepsOrder` shows that recording a success, which removes an
older one from the sequence, keeps the order of the rest.

**`ProjectsProofs`** (any slugs, repositories, setup requests and faults).

* `CheckoutTypesHold`, `RemovalsAreTheProjectsOwn`: `Spec => OnlyItsCheckoutIsRemoved` of
  `ProjectLifecycle`, for any number of passes at one project. Verification and removal are two steps,
  between which clones may end, vanish and be made again. `VerifiedIsItsOwn` says that what was verified
  rests at its path and stays the registered repository's; it needs `ServesOldest` (the row cannot
  change, because the request that is served is still in the queue, and a project with a request is not
  registered anew). A clone's cleanup is the other way to lose a checkout: `ClonesAreAlone` says that a
  clone at work has its path to itself, because git refuses a directory that is not empty, and
  `CompleteIsDone` that a complete checkout is no clone's any more; so no cleanup finds one. All of this
  holds outside `contended`: where a deletion removed the directory under a clone at work, another pass
  may clone there before the first notices, and its cleanup then takes that checkout.
* `DeletionsAreServedInOrder`: `Spec => DeletionsAreInOrder`, a registered row changes only by the erasure
  of the project whose request is the oldest, with its request; no request is lost otherwise.
* `SetupTypesHold`, `ReviewersAreAskedOnce`: `SetupSpec => []OneSetupPullRequest` of `ProjectSetup`,
  with `OneAtATime` (no overlap, one handler) and `CreatesTheFirst` (a handler that creates a pull
  request has found none, and nobody else opens one).

Every safety invariant, every action property and both refinements of the passing runs are theorems.
Liveness is out of the prover's reach, with everything else that needs fairness or ENABLED, and stays
with TLC: `EveryRunEnds`, `MergedIssueCompletes`, `EveryTaskEnds`, `RetryIsAnswered`, `ChangesAreSeen`,
`TasksRun`, `EveryProcessEnds`, `EverySessionEnds`, `DeletionIsCarriedOut`, `ProjectIsProvisioned`,
`AdviceSuffices`. For seven of them the half that needs no fairness is proved: the steps that remain are
finitely many (`DeliveriesGetOn` for `EveryRunEnds`, `RunsGetOn` and `TasksGetOn` for `EveryTaskEnds`,
`SessionsGetOn` for `EverySessionEnds`), the one who will act is there (`ProcessesAreWatched` for
`EveryProcessEnds`, `WakeupsReachTheLoop` for `ChangesAreSeen` and `TasksRun`), or the queue moves only
forward (`DeletionsAreServedInOrder` for `DeletionIsCarriedOut`). The invariants and action properties
of these theorems are stated in the modules of proofs; TLC found them to hold on the instances of the
runs before they were proved.

## 5. Not modelled, and why

* The recovery of an interrupted publication and the already-published branch of `execute`
  (`GithubWorkCodexExecutor.ts:133`-155): every dispatch has a fresh execution id or resumes from
  `waiting-human`, so their guards never hold.
* Labels of issues, GitHub's one-second `updated_at`, two readers of one project whose projections
  are written in the wrong order, and the marker changing between the check and the write of
  `cancelLifecycle`: one read and its write are a step of `GithubDelivery`.
* The gates of a cycle (mode, quota, pauses, runners) inside `GithubDelivery`: they only take
  candidates away there and are `Scheduling`'s and `ProductionLoop`'s subject.
* Workspaces of executions and the files a deletion removes; what two setup requests do inside one
  inspection of a repository, which is one read in `ProjectSetup`.
* Of manual tasks: the quota gate before a claim and pull requests closed by humans on GitHub (a
  retry would then open a second one).
* The limits and the pagination of the work pages; usage and cost, parsing, formatting and
  sessions, and how an HMAC signature is computed: no state of theirs decides what the system does next.
* Migrations and the connection: `migrations.ts` runs once per deployment and takes no lock; two
  processes that start together are outside the model.

The components that are `not_modelled` in `PROJECT.json` carry their reasons.

## 6. Plan

Done: all modules of section 2 with their runs; the theorems of section 4. Left, in this order:

1. The quota gate of manual tasks as a composition of `ManualTasks` and `ProductionLoop`.
2. The readers and writers of one project's projection as separate steps of `GithubDelivery`, with the
   proofs of the views repeated for projections that are written in the wrong order.
