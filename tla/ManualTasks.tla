----------------------------- MODULE ManualTasks ------------------------------
(* Manual tasks: the v0_tasks table and its API, the worker that claims and *)
(* executes them (V0TaskWorker, V0TaskExecutor), the pull-request-only      *)
(* retry, and the project deletions the same worker cycle processes first.  *)
(*                                                                         *)
(* One worker process owns the execution slot.  What it remembers dies with *)
(* a crash; the tables, the pushed branches and the pull requests stay.     *)
EXTENDS Naturals, Sequences, FiniteSets

CONSTANTS
    Tasks,              \* 1..n, in the order they are created
    Projects,
    ProjectOf,          \* the project of each task
    Initializations,    \* tasks whose source is ade-initialize
    Unremovable,        \* projects whose checkout removal is refused
    None,
    MaxRetries,         \* bound of the runs: accepted requests to retry a pull request
    MaxFaults           \* bound of the runs: crashes, lost answers and moved branches

ASSUME ManualAssumption ==
    /\ Tasks \subseteq Nat
    /\ ProjectOf \in [Tasks -> Projects]
    /\ None \notin Tasks /\ None \notin {"GITHUB_PR_CREATE_FAILED", "cancel", "timeout"}

VARIABLES
    task,               \* v0_tasks
    admitted,           \* projects a create request found not being deleted
    deletions,          \* project_deletion_requests, oldest first
    deleted,            \* projects removed
    branch, pull,       \* what GitHub has of each task
    pc, job,            \* the worker process
    agentRuns,          \* history: how often the agent was started
    cancelledAtPush,    \* history: tasks cancelled when their branch was pushed
    crashes, outages, retries, pushes

tableVars == <<task, admitted, deletions, deleted>>
githubVars == <<branch, pull>>
workerVars == <<pc, job>>
historyVars == <<agentRuns, cancelledAtPush>>
counters == <<crashes, outages, retries, pushes>>
vars == <<tableVars, githubVars, workerVars, historyVars, counters>>

Terminal == {"SUCCESS", "FAILED", "CANCELLED"}
Active == {"PENDING", "RUNNING"}
Errors == {"GITHUB_PR_CREATE_FAILED", "WORKER_RESTARTED", "EXECUTION_FAILED"}

NewTask == [status |-> "absent", cancelRequested |-> FALSE, prRetryRequested |-> FALSE,
            archived |-> FALSE, error |-> None, pullRecorded |-> FALSE]

NoJob == [task |-> None, retry |-> FALSE, stop |-> None, error |-> None,
          published |-> FALSE, cancelled |-> FALSE]

Places == {"starting", "recovering", "idle", "claiming", "preparing", "starting agent",
           "agent", "pushing", "pushed", "finding", "creating", "reconciling",
           "completing", "catching", "failing"}

Rows == [status : {"absent", "deleted"} \union Active \union Terminal,
         cancelRequested : BOOLEAN, prRetryRequested : BOOLEAN, archived : BOOLEAN,
         error : Errors \union {None}, pullRecorded : BOOLEAN]

Jobs == [task : Tasks \union {None}, retry : BOOLEAN, stop : {None, "cancel", "timeout"},
         error : Errors \union {None}, published : BOOLEAN, cancelled : BOOLEAN]

TypeOK ==
    /\ task \in [Tasks -> Rows]
    /\ admitted \subseteq Projects /\ deleted \subseteq Projects
    /\ deletions \in Seq(Projects)
    /\ branch \in [Tasks -> {None, "reviewed", "moved"}] /\ pull \in [Tasks -> BOOLEAN]
    /\ pc \in Places /\ job \in Jobs
    /\ agentRuns \in [Tasks -> Nat] /\ cancelledAtPush \subseteq Tasks
    /\ crashes \in Nat /\ outages \in Nat /\ retries \in Nat /\ pushes \in Nat

Init ==
    /\ task = [t \in Tasks |-> NewTask]
    /\ admitted = {} /\ deletions = <<>> /\ deleted = {}
    /\ branch = [t \in Tasks |-> None] /\ pull = [t \in Tasks |-> FALSE]
    /\ pc = "starting" /\ job = NoJob
    /\ agentRuns = [t \in Tasks |-> 0] /\ cancelledAtPush = {}
    /\ crashes = 0 /\ outages = 0 /\ retries = 0 /\ pushes = 0

Budget == crashes + outages + pushes < MaxFaults

NoOutage == UNCHANGED counters
\* A call whose answer is lost: it may or may not have taken effect.
Outage ==
    /\ Budget /\ outages' = outages + 1
    /\ UNCHANGED <<crashes, retries, pushes>>

-----------------------------------------------------------------------------
(* The repository.                                                         *)

IsActive(t) == task[t].status \in Active
Listed(t) == task[t].status \notin {"absent", "deleted"} /\ ~task[t].archived

\* A completion that does not look at the present status.
CompleteAnyStatus(t, status, error, published) ==
    task' = [task EXCEPT ![t].status = status, ![t].error = error,
                         ![t].pullRecorded = @ \/ published,
                         ![t].prRetryRequested = FALSE]

\* A failed retry that stays requested.
CompleteKeepingRetry(t, status, error, published) ==
    IF \/ task[t].status = "RUNNING"
       \/ task[t].status = "FAILED" /\ task[t].prRetryRequested
    THEN task' = [task EXCEPT ![t].status = status, ![t].error = error,
                              ![t].pullRecorded = @ \/ published]
    ELSE UNCHANGED task

(* complete: only a running task, or a failed one whose retry was asked    *)
(* for, changes; a conflict changes nothing.                               *)
Complete(t, status, error, published) ==
    IF \/ task[t].status = "RUNNING"
       \/ task[t].status = "FAILED" /\ task[t].prRetryRequested
    THEN task' = [task EXCEPT ![t].status = status, ![t].error = error,
                              ![t].pullRecorded = @ \/ published,
                              ![t].prRetryRequested = FALSE]
    ELSE UNCHANGED task

KeepsTables == UNCHANGED <<admitted, deletions, deleted>>

-----------------------------------------------------------------------------
(* The dashboard.                                                          *)

Dashboard == UNCHANGED <<githubVars, workerVars, historyVars, crashes, outages, pushes>>

BeingDeleted(p) == \E k \in DOMAIN deletions : deletions[k] = p

IsNext(t) == \A u \in Tasks : task[u].status = "absent" <=> u >= t

(* createTask checks the project and its deletion requests first ...       *)
CheckCreation(p) ==
    /\ \E t \in Tasks : IsNext(t) /\ ProjectOf[t] = p
    /\ p \notin deleted /\ ~BeingDeleted(p)
    /\ admitted' = admitted \union {p}
    /\ UNCHANGED <<task, deletions, deleted, retries>> /\ Dashboard

(* ... and inserts then, which the index of active tasks refuses while     *)
(* another task is active, and the foreign key once the project is gone.   *)
InsertTask(t) ==
    /\ ProjectOf[t] \in admitted
    /\ IsNext(t)
    /\ admitted' = admitted \ {ProjectOf[t]}
    /\ IF ProjectOf[t] \in deleted \/ \E u \in Tasks : IsActive(u)
       THEN UNCHANGED task
       ELSE task' = [task EXCEPT ![t].status = "PENDING"]
    /\ UNCHANGED <<deletions, deleted, retries>> /\ Dashboard

(* A pending task is cancelled at once, a running one by its worker.       *)
RequestCancel(t) ==
    /\ IsActive(t) /\ ~task[t].cancelRequested
    /\ task' = [task EXCEPT ![t].cancelRequested = TRUE,
                            ![t].status = IF @ = "PENDING" THEN "CANCELLED" ELSE @]
    /\ KeepsTables /\ UNCHANGED retries /\ Dashboard

RequestPrRetry(t) ==
    /\ task[t].status = "FAILED" /\ task[t].error = "GITHUB_PR_CREATE_FAILED"
    /\ ~task[t].archived
    /\ retries < MaxRetries /\ retries' = retries + 1
    /\ task' = [task EXCEPT ![t].prRetryRequested = TRUE]
    /\ KeepsTables /\ Dashboard

Archive(t) ==
    /\ task[t].status \in Terminal /\ ~task[t].archived
    /\ task' = [task EXCEPT ![t].archived = TRUE]
    /\ KeepsTables /\ UNCHANGED retries /\ Dashboard

RequestDeletion(p) ==
    /\ p \notin deleted /\ ~BeingDeleted(p)
    /\ deletions' = Append(deletions, p)
    /\ UNCHANGED <<task, admitted, deleted, retries>> /\ Dashboard

(* Somebody moves or deletes a pushed branch on GitHub.                    *)
MoveBranch(t) ==
    /\ branch[t] = "reviewed"
    /\ Budget /\ pushes' = pushes + 1
    /\ branch' = [branch EXCEPT ![t] = "moved"]
    /\ UNCHANGED <<tableVars, pull, workerVars, historyVars, crashes, outages, retries>>

-----------------------------------------------------------------------------
(* Startup: recoverInterruptedTask.                                        *)

\* A recovery that puts the interrupted task back into the queue.
RequeueInterruptedTask ==
    /\ pc = "recovering"
    /\ task' = [task EXCEPT ![job.task].status = "PENDING"]
    /\ pc' = "idle" /\ job' = NoJob
    /\ KeepsTables /\ UNCHANGED <<githubVars, historyVars>> /\ NoOutage

\* A start that does not look for an interrupted task.
StartWithoutRecovery ==
    /\ pc = "starting" /\ pc' = "idle"
    /\ UNCHANGED <<tableVars, githubVars, job, historyVars>> /\ NoOutage

FindInterruptedTask ==
    /\ pc = "starting"
    /\ \/ \E t \in Tasks :
            /\ Listed(t) /\ task[t].status = "RUNNING"
            /\ pc' = "recovering"
            /\ job' = [NoJob EXCEPT !.task = t, !.cancelled = task[t].cancelRequested]
       \/ /\ \A t \in Tasks : task[t].status # "RUNNING"
          /\ pc' = "idle" /\ UNCHANGED job
    /\ UNCHANGED <<tableVars, githubVars, historyVars, counters>>

(* Its completion uses the cancellation as it was read; when it throws the *)
(* process ends and is started again.                                      *)
CompleteInterruptedTask ==
    /\ pc = "recovering"
    /\ \/ /\ Complete(job.task, IF job.cancelled THEN "CANCELLED" ELSE "FAILED",
                      IF job.cancelled THEN None ELSE "WORKER_RESTARTED", FALSE)
          /\ pc' = "idle" /\ NoOutage
       \/ /\ \/ Complete(job.task, IF job.cancelled THEN "CANCELLED" ELSE "FAILED",
                         IF job.cancelled THEN None ELSE "WORKER_RESTARTED", FALSE)
             \/ UNCHANGED task
          /\ pc' = "starting" /\ Outage
    /\ job' = NoJob
    /\ KeepsTables /\ UNCHANGED <<githubVars, historyVars>>

-----------------------------------------------------------------------------
(* runOnce: a deletion request, else a requested retry, else a claim.      *)

Gone(p) == [t \in Tasks |-> IF ProjectOf[t] = p /\ task[t].status # "absent"
                            THEN [NewTask EXCEPT !.status = "deleted"] ELSE task[t]]

(* processPending: the oldest request.  A checkout that may not be removed *)
(* makes every cycle throw here.                                           *)
ProcessDeletion ==
    /\ pc = "idle" /\ deletions # <<>>
    /\ LET p == Head(deletions)
       IN /\ p \notin Unremovable
          /\ task' = Gone(p)
          /\ deletions' = Tail(deletions) /\ deleted' = deleted \union {p}
    /\ UNCHANGED <<admitted, githubVars, workerVars, historyVars, counters>>

AwaitingRetry(t) == Listed(t) /\ task[t].status = "FAILED" /\ task[t].prRetryRequested

RetryCandidates == {t \in Tasks : AwaitingRetry(t)}
NewestRetry(t) == t \in RetryCandidates /\ \A u \in RetryCandidates : u <= t

(* retryPullRequestTask up to its try block: when the branch is not what   *)
(* the task pushed it throws, in this cycle and in every later one.        *)
RetryPullRequest ==
    /\ pc = "idle" /\ deletions = <<>>
    /\ \E t \in Tasks :
          /\ NewestRetry(t) /\ branch[t] = "reviewed"
          /\ pc' = "finding" /\ job' = [NoJob EXCEPT !.task = t, !.retry = TRUE]
    /\ UNCHANGED <<tableVars, githubVars, historyVars, counters>>

NothingBeforeClaim ==
    /\ pc = "idle" /\ deletions = <<>> /\ RetryCandidates = {}
    /\ pc' = "claiming"
    /\ UNCHANGED <<tableVars, githubVars, job, historyVars, counters>>

(* claimPending; without a task the cycle goes on with the GitHub work.    *)
ClaimPending ==
    /\ pc = "claiming"
    /\ \/ \E t \in Tasks :
            /\ task[t].status = "PENDING"
            /\ task' = [task EXCEPT ![t].status = "RUNNING"]
            /\ \/ pc' = "preparing" /\ job' = [NoJob EXCEPT !.task = t] /\ NoOutage
               \/ pc' = "idle" /\ UNCHANGED job /\ Outage
       \/ /\ \A t \in Tasks : task[t].status # "PENDING"
          /\ pc' = "idle" /\ UNCHANGED <<task, job>> /\ NoOutage
    /\ KeepsTables /\ UNCHANGED <<githubVars, historyVars>>

-----------------------------------------------------------------------------
(* executeTask.                                                            *)

Step(from, to) == pc = from /\ pc' = to /\ job.stop = None

\* assertNotCancelled throws once the cancellation is in the table.
NotCancelled == ~task[job.task].cancelRequested

\* The initialization of a project that turns out to be ready.
ReadyWithoutChanges ==
    /\ Step("preparing", "completing") \/ Step("agent", "completing")
    /\ job.task \in Initializations /\ NotCancelled
    /\ UNCHANGED <<tableVars, githubVars, job, historyVars>> /\ NoOutage

Prepare ==
    /\ Step("preparing", "starting agent") /\ NotCancelled
    /\ UNCHANGED <<tableVars, githubVars, job, historyVars>> /\ NoOutage

StartAgent ==
    /\ Step("starting agent", "agent")
    /\ agentRuns' = [agentRuns EXCEPT ![job.task] = @ + 1]
    /\ UNCHANGED <<tableVars, githubVars, job, cancelledAtPush>> /\ NoOutage

(* The agent, the gates and the commit, with the last check of the         *)
(* cancellation before the push.                                           *)
AgentEnds ==
    /\ Step("agent", "pushing") /\ NotCancelled
    /\ UNCHANGED <<tableVars, githubVars, job, historyVars>> /\ NoOutage

(* A push that fails or is killed may have got through all the same.       *)
Push ==
    /\ pc = "pushing" /\ pc' \in {"pushed", "catching"}
    /\ branch' = [branch EXCEPT ![job.task] = "reviewed"]
    /\ cancelledAtPush' = IF NotCancelled THEN cancelledAtPush
                          ELSE cancelledAtPush \union {job.task}
    /\ UNCHANGED <<tableVars, pull, job, agentRuns>> /\ NoOutage

\* A publication that does not ask again after its push.
MarkPushedUnchecked ==
    /\ pc = "pushed" /\ pc' = "finding"
    /\ UNCHANGED <<tableVars, githubVars, job, historyVars>> /\ NoOutage

(* The check after the push, then markPushed.                              *)
MarkPushed ==
    /\ pc = "pushed" /\ pc' = "finding" /\ NotCancelled
    /\ UNCHANGED <<tableVars, githubVars, job, historyVars>> /\ NoOutage

(* createOrReconcilePullRequest: find, create, and find again when either  *)
(* failed.  GitHub refuses a second open pull request for a branch, and    *)
(* may refuse for its own reasons.                                         *)
FindPullRequest ==
    /\ pc = "finding"
    /\ \/ pull[job.task] /\ pc' = "completing" /\ NoOutage
       \/ ~pull[job.task] /\ pc' = "creating" /\ NoOutage
       \/ pc' = "reconciling" /\ Outage
    /\ job' = IF pc' = "completing" THEN [job EXCEPT !.published = TRUE] ELSE job
    /\ UNCHANGED <<tableVars, githubVars, historyVars>>

CreatePullRequest ==
    /\ pc = "creating"
    /\ \/ /\ branch[job.task] # None /\ pull' = [pull EXCEPT ![job.task] = TRUE]
          /\ \/ pc' = "completing" /\ NoOutage
             \/ pc' = "reconciling" /\ Outage
       \/ pc' = "reconciling" /\ UNCHANGED pull /\ NoOutage
    /\ job' = IF pc' = "completing" THEN [job EXCEPT !.published = TRUE] ELSE job
    /\ UNCHANGED <<tableVars, branch, historyVars>>

\* A reconciliation that takes a failed creation for one that got through.
TrustCreation ==
    /\ pc = "reconciling" /\ pc' = "completing"
    /\ job' = [job EXCEPT !.published = TRUE]
    /\ UNCHANGED <<tableVars, githubVars, historyVars>> /\ NoOutage

(* The second search fails as a failed creation, the log of what it found  *)
(* as any other failure.                                                   *)
ReconcilePullRequest ==
    /\ pc = "reconciling"
    /\ \/ /\ pull[job.task] /\ pc' = "completing" /\ NoOutage
          /\ job' = [job EXCEPT !.published = TRUE]
       \/ /\ pc' = "catching" /\ IF pull[job.task] THEN Outage ELSE NoOutage
          /\ job' = [job EXCEPT !.error = "GITHUB_PR_CREATE_FAILED"]
       \/ /\ pull[job.task] /\ pc' = "catching" /\ Outage
          /\ UNCHANGED job
    /\ UNCHANGED <<tableVars, githubVars, historyVars>>

RecordSuccess ==
    /\ pc = "completing"
    /\ \/ /\ Complete(job.task, "SUCCESS", None, job.published)
          /\ pc' = "idle" /\ job' = NoJob /\ NoOutage
       \/ /\ \/ Complete(job.task, "SUCCESS", None, job.published)
             \/ UNCHANGED task
          /\ pc' = "catching" /\ UNCHANGED job /\ Outage
    /\ KeepsTables /\ UNCHANGED <<githubVars, historyVars>>

-----------------------------------------------------------------------------
(* What ends an execution early, and its catch blocks.                     *)

Interruptible == {"preparing", "starting agent", "agent", "pushing"}
Executing == Interruptible \union {"pushed", "finding", "creating", "reconciling", "completing"}

(* The cancellation poll, the timeout and a shutdown abort the commands    *)
(* that run under the signal; the calls to GitHub and to the database that *)
(* follow a push go on.                                                    *)
Abort ==
    /\ pc \in Executing /\ ~job.retry /\ job.stop = None
    /\ job' = [job EXCEPT !.stop = IF NotCancelled THEN "timeout" ELSE "cancel"]
    /\ pc' = IF pc \in Interruptible THEN "catching" ELSE pc
    /\ UNCHANGED <<tableVars, githubVars, historyVars, counters>>

(* A step of its own fails: a gate, a command, a check of the cancellation. *)
StepThrows ==
    /\ pc \in Interruptible \union {"pushed"} /\ pc' = "catching"
    /\ UNCHANGED <<tableVars, githubVars, job, historyVars, counters>>

(* The catch block of executeTask: the cancellation is read again; without *)
(* an answer only the abort reason is known.                               *)
CatchExecution ==
    /\ pc = "catching" /\ ~job.retry /\ pc' = "failing"
    /\ \/ job' = [job EXCEPT !.cancelled = job.stop = "cancel" \/ ~NotCancelled] /\ NoOutage
       \/ job' = [job EXCEPT !.cancelled = job.stop = "cancel"] /\ Outage
    /\ UNCHANGED <<tableVars, githubVars, historyVars>>

CatchRetry ==
    /\ pc = "catching" /\ job.retry /\ pc' = "failing"
    /\ UNCHANGED <<tableVars, githubVars, job, historyVars, counters>>

FailureCode ==
    IF job.error # None /\ job.stop = None THEN job.error ELSE "EXECUTION_FAILED"

(* Its completion is the last word of the cycle, whether it is refused, it *)
(* throws or it commits.                                                   *)
RecordFailure ==
    /\ pc = "failing"
    /\ LET Recorded == IF job.cancelled THEN Complete(job.task, "CANCELLED", None, FALSE)
                       ELSE Complete(job.task, "FAILED", FailureCode, FALSE)
       IN \/ Recorded /\ NoOutage
          \/ (Recorded \/ UNCHANGED task) /\ Outage
    /\ pc' = "idle" /\ job' = NoJob
    /\ KeepsTables /\ UNCHANGED <<githubVars, historyVars>>

(* The process dies anywhere and is started again.                         *)
Crash ==
    /\ pc # "starting"
    /\ Budget /\ crashes' = crashes + 1
    /\ pc' = "starting" /\ job' = NoJob
    /\ UNCHANGED <<tableVars, githubVars, historyVars, outages, retries, pushes>>

-----------------------------------------------------------------------------
Recover == FindInterruptedTask \/ CompleteInterruptedTask

RunOnce == ProcessDeletion \/ RetryPullRequest \/ NothingBeforeClaim \/ ClaimPending

Execute ==
    \/ Prepare \/ ReadyWithoutChanges \/ StartAgent \/ AgentEnds \/ Push \/ MarkPushed
    \/ FindPullRequest \/ CreatePullRequest \/ ReconcilePullRequest \/ RecordSuccess
    \/ Abort \/ StepThrows \/ CatchExecution \/ CatchRetry \/ RecordFailure

Worker == Recover \/ RunOnce \/ Execute

Operator ==
    \/ \E p \in Projects : CheckCreation(p) \/ RequestDeletion(p)
    \/ \E t \in Tasks : \/ InsertTask(t) \/ RequestCancel(t) \/ RequestPrRetry(t)
                        \/ Archive(t) \/ MoveBranch(t)

Next == Worker \/ Operator \/ Crash

(* The timeout bounds the commands, PostgreSQL and GitHub answer or throw, *)
(* and the loop is woken at least by its periodic timer: the worker always *)
(* goes on.                                                                *)
Spec == Init /\ [][Next]_vars /\ WF_vars(Worker)

-----------------------------------------------------------------------------
(* Properties that hold.                                                   *)

(* The agent runs at most once on a task, whatever is recovered, retried   *)
(* or answered late ("Unknown completion state must not be retried         *)
(* implicitly").                                                           *)
AgentRunsOnce == \A t \in Tasks : agentRuns[t] <= 1

(* Nothing is run, pushed or opened for a task that has ended: only for a  *)
(* running one, and for a failed one whose pull-request retry was asked    *)
(* for, although operators cancel, archive and delete meanwhile.           *)
EndedTasksAreQuiet ==
    [][\A t \in Tasks :
          \/ agentRuns'[t] # agentRuns[t] \/ pull'[t] # pull[t]
          \/ branch'[t] = "reviewed" /\ branch[t] # "reviewed"
          => \/ task[t].status = "RUNNING"
             \/ task[t].status = "FAILED" /\ task[t].prRetryRequested]_vars

(* A lost answer, a late completion or a recovery never turns one outcome  *)
(* into another: only a requested retry makes a failed task successful.    *)
OutcomeIsKept ==
    [][\A t \in Tasks :
          task[t].status \in Terminal /\ task'[t].status # task[t].status =>
             \/ task'[t].status = "deleted"
             \/ /\ task[t].status = "FAILED" /\ task[t].prRetryRequested
                /\ task'[t].status = "SUCCESS"]_vars

(* A pull request is recorded only if GitHub has it, and a task succeeds   *)
(* without one only if it was an initialization, whatever answers of       *)
(* GitHub were lost.                                                       *)
SuccessIsPublished ==
    \A t \in Tasks :
        /\ task[t].pullRecorded => pull[t]
        /\ task[t].status = "SUCCESS" => task[t].pullRecorded \/ t \in Initializations

(* A task cancelled before its branch was pushed gets no pull request, not *)
(* even through a crash and a retry.                                       *)
CancelledIsNotPublished == \A t \in cancelledAtPush : ~pull[t]

(* Every way out of an execution completes its task: a running task nobody *)
(* works on is the trace of a lost answer, until the next start.           *)
RunningHasAWorker ==
    outages = 0 /\ pc \notin {"starting", "recovering"} =>
        \A t \in Tasks : task[t].status = "RUNNING" => job.task = t

\* What every cycle throws at: a refused removal, a retry without its branch.
CycleBlocked ==
    IF deletions # <<>> THEN Head(deletions) \in Unremovable
    ELSE \E t \in Tasks : NewestRetry(t) /\ branch[t] # "reviewed"

(* A task that was accepted ends, or goes with its project, unless answers *)
(* were lost or a deletion or a retry that can never be done stands before *)
(* it.                                                                     *)
EveryTaskEnds ==
    \A t \in Tasks : IsActive(t) ~>
        task[t].status \in Terminal \union {"deleted"} \/ outages > 0 \/ CycleBlocked

(* A requested retry is answered, through crashes and lost answers, unless *)
(* the operator archives the task or something blocks every cycle.         *)
RetryIsAnswered ==
    \A t \in Tasks : AwaitingRetry(t) ~> ~AwaitingRetry(t) \/ CycleBlocked

=============================================================================
