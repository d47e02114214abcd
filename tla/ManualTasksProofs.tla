--------------------------- MODULE ManualTasksProofs ---------------------------
(* Theorems about ManualTasks, for any tasks and projects and any number of *)
(* crashes, lost answers, retries and moved branches, and about what        *)
(* TaskHistory keeps of a task.                                             *)
EXTENDS ManualTasks, TaskHistory, SequenceTheorems, WellFoundedInduction, TLAPS

-----------------------------------------------------------------------------
(* What each transaction does to the rows of v0_tasks.                     *)

Recoverable(r) == r.status = "FAILED" /\ r.prRetryRequested

(* Nothing but the row of task t changes, and that one becomes r.          *)
UpdatesRow(t, r) ==
    /\ task' \in [Tasks -> Rows]
    /\ task'[t] = r
    /\ \A u \in Tasks \ {t} : task'[u] = task[u]

LEMMA RowUpdate ==
  ASSUME TypeOK, NEW t \in Tasks, NEW r \in Rows, task' = [task EXCEPT ![t] = r]
  PROVE  UpdatesRow(t, r)
BY DEF TypeOK, UpdatesRow

(* A completion ends a running task or a requested retry, or does nothing. *)
LEMMA CompleteStep ==
  ASSUME TypeOK, NEW t \in Tasks, NEW s \in Terminal, NEW e \in Errors \union {None},
         NEW b \in BOOLEAN, Complete(t, s, e, b)
  PROVE  \/ task' = task /\ task[t].status # "RUNNING" /\ ~Recoverable(task[t])
         \/ /\ task[t].status = "RUNNING" \/ Recoverable(task[t])
            /\ \E r \in Rows : UpdatesRow(t, r) /\ r.status = s
<1>1. task[t] \in Rows
  BY DEF TypeOK
<1>2. CASE ~(task[t].status = "RUNNING" \/ Recoverable(task[t]))
  BY <1>2 DEF Complete, Recoverable
<1>3. CASE task[t].status = "RUNNING" \/ Recoverable(task[t])
  <2> DEFINE r == [task[t] EXCEPT !.status = s, !.error = e,
                                  !.pullRecorded = @ \/ b, !.prRetryRequested = FALSE]
  <2>1. r \in Rows /\ r.status = s
    BY <1>1 DEF Rows, Terminal
  <2>2. task' = [task EXCEPT ![t] = r]
    BY <1>3 DEF Complete, Recoverable
  <2> HIDE DEF r
  <2> QED
    BY <1>3, <2>1, <2>2, RowUpdate
<1> QED
  BY <1>2, <1>3

(* A claim makes a pending task running.                                   *)
LEMMA ClaimStep ==
  ASSUME TypeOK, NEW t \in Tasks, task' = [task EXCEPT ![t].status = "RUNNING"]
  PROVE  \E r \in Rows : UpdatesRow(t, r) /\ r.status = "RUNNING"
<1>1. task[t] \in Rows
  BY DEF TypeOK
<1> DEFINE r == [task[t] EXCEPT !.status = "RUNNING"]
<1>2. r \in Rows /\ r.status = "RUNNING"
  BY <1>1 DEF Rows, Active
<1>3. task' = [task EXCEPT ![t] = r]
  OBVIOUS
<1> HIDE DEF r
<1> QED
  BY <1>2, <1>3, RowUpdate

(* A deletion of a project takes the tasks with it.                        *)
LEMMA DeletionStep ==
  ASSUME TypeOK, NEW p, task' = Gone(p)
  PROVE  /\ task' \in [Tasks -> Rows]
         /\ \A u \in Tasks : task'[u] = task[u] \/ task'[u].status = "deleted"
<1>1. [NewTask EXCEPT !.status = "deleted"] \in Rows
      /\ [NewTask EXCEPT !.status = "deleted"].status = "deleted"
  BY DEF NewTask, Rows
<1> QED
  BY <1>1 DEF Gone, TypeOK

-----------------------------------------------------------------------------
(* What the dashboard and the users of GitHub do to the rows: a task       *)
(* becomes active only where none is, and where a worker may be at work,   *)
(* on a running task or a requested retry, the status stays.               *)
OperatorLeaves ==
    /\ task' \in [Tasks -> Rows]
    /\ \A u \in Tasks :
          /\ task'[u].status \in Active =>
                task[u].status \in Active \/ \A v \in Tasks : v # u => ~IsActive(v)' /\ ~IsActive(v)
          /\ task'[u].status \in {"absent", "PENDING"} => task[u].status \in {"absent", "PENDING"}
          /\ task'[u].status = "RUNNING" <=> task[u].status = "RUNNING"
          /\ Recoverable(task[u]) => Recoverable(task'[u])
          /\ task[u].status \in Terminal => task'[u].status = task[u].status
    /\ UNCHANGED <<pc, job, agentRuns, cancelledAtPush, crashes, outages>>
    /\ pull' = pull
    /\ branch' = branch \/ \E t \in Tasks : branch' = [branch EXCEPT ![t] = "moved"]

LEMMA OperatorStep ==
  ASSUME TypeOK, Operator
  PROVE  OperatorLeaves
<1> USE DEF Dashboard, githubVars, workerVars, historyVars, tableVars, counters, Active, Terminal
<1>1. CASE task' = task
  <2>1. UNCHANGED <<pc, job, agentRuns, cancelledAtPush, crashes, outages, pull>>
        /\ (branch' = branch \/ \E t \in Tasks : branch' = [branch EXCEPT ![t] = "moved"])
    BY DEF Operator, CheckCreation, RequestDeletion, InsertTask, RequestCancel,
           RequestPrRetry, Archive, MoveBranch
  <2> QED
    BY <1>1, <2>1 DEF OperatorLeaves, TypeOK, IsActive, Recoverable
<1>2. ASSUME NEW t \in Tasks, InsertTask(t), task' # task
      PROVE  OperatorLeaves
  <2> DEFINE r == [task[t] EXCEPT !.status = "PENDING"]
  <2>1. task[t] \in Rows
    BY DEF TypeOK
  <2>2. r \in Rows /\ r.status = "PENDING"
    BY <2>1 DEF Rows
  <2>3. task' = [task EXCEPT ![t] = r]
    BY <1>2 DEF InsertTask
  <2>4. task[t].status = "absent" /\ \A u \in Tasks : ~IsActive(u)
    BY <1>2, ManualAssumption DEF InsertTask, IsNext
  <2>5. UNCHANGED <<branch, pc, job, agentRuns, cancelledAtPush, crashes, outages, pull>>
    BY <1>2 DEF InsertTask
  <2> HIDE DEF r
  <2>6. UpdatesRow(t, r)
    BY <2>2, <2>3, RowUpdate
  <2> QED
    BY <2>2, <2>4, <2>5, <2>6 DEF OperatorLeaves, UpdatesRow, IsActive, Recoverable
<1>3. ASSUME NEW t \in Tasks, RequestCancel(t)
      PROVE  OperatorLeaves
  <2> DEFINE r == [task[t] EXCEPT !.cancelRequested = TRUE,
                                  !.status = IF @ = "PENDING" THEN "CANCELLED" ELSE @]
  <2>1. task[t] \in Rows
    BY DEF TypeOK
  <2>2. /\ r \in Rows
        /\ r.status = IF task[t].status = "PENDING" THEN "CANCELLED" ELSE task[t].status
    BY <2>1 DEF Rows
  <2>3. task' = [task EXCEPT ![t] = r] /\ IsActive(t)
    BY <1>3 DEF RequestCancel
  <2>4. UNCHANGED <<branch, pc, job, agentRuns, cancelledAtPush, crashes, outages, pull>>
    BY <1>3 DEF RequestCancel
  <2> HIDE DEF r
  <2>5. UpdatesRow(t, r)
    BY <2>2, <2>3, RowUpdate
  <2> QED
    BY <2>2, <2>3, <2>4, <2>5 DEF OperatorLeaves, UpdatesRow, IsActive, Recoverable
<1>4. ASSUME NEW t \in Tasks, RequestPrRetry(t)
      PROVE  OperatorLeaves
  <2> DEFINE r == [task[t] EXCEPT !.prRetryRequested = TRUE]
  <2>1. task[t] \in Rows
    BY DEF TypeOK
  <2>2. r \in Rows /\ r.status = task[t].status /\ r.prRetryRequested
    BY <2>1 DEF Rows
  <2>3. task' = [task EXCEPT ![t] = r]
    BY <1>4 DEF RequestPrRetry
  <2>4. UNCHANGED <<branch, pc, job, agentRuns, cancelledAtPush, crashes, outages, pull>>
    BY <1>4 DEF RequestPrRetry
  <2> HIDE DEF r
  <2>5. UpdatesRow(t, r)
    BY <2>2, <2>3, RowUpdate
  <2> QED
    BY <2>2, <2>4, <2>5 DEF OperatorLeaves, UpdatesRow, IsActive, Recoverable
<1>5. ASSUME NEW t \in Tasks, Archive(t)
      PROVE  OperatorLeaves
  <2> DEFINE r == [task[t] EXCEPT !.archived = TRUE]
  <2>1. task[t] \in Rows
    BY DEF TypeOK
  <2>2. r \in Rows /\ r.status = task[t].status /\ r.prRetryRequested = task[t].prRetryRequested
    BY <2>1 DEF Rows
  <2>3. task' = [task EXCEPT ![t] = r]
    BY <1>5 DEF Archive
  <2>4. UNCHANGED <<branch, pc, job, agentRuns, cancelledAtPush, crashes, outages, pull>>
    BY <1>5 DEF Archive
  <2> HIDE DEF r
  <2>5. UpdatesRow(t, r)
    BY <2>2, <2>3, RowUpdate
  <2> QED
    BY <2>2, <2>4, <2>5 DEF OperatorLeaves, UpdatesRow, IsActive, Recoverable
<1> QED
  BY <1>1, <1>2, <1>3, <1>4, <1>5 DEF Operator, CheckCreation, RequestDeletion, MoveBranch

-----------------------------------------------------------------------------
(* Type correctness, table by table.                                       *)

LEMMA InitTypes == Init => TypeOK
<1> SUFFICES ASSUME Init PROVE TypeOK
  OBVIOUS
<1>1. NewTask \in Rows
  BY DEF NewTask, Rows
<1>2. task \in [Tasks -> Rows]
  BY <1>1 DEF Init
<1>3. pc \in Places /\ job \in Jobs
  BY DEF Init, Places, NoJob, Jobs
<1>4. QED
  BY <1>2, <1>3 DEF Init, TypeOK

LEMMA SuccessLeaves ==
  ASSUME RecordSuccess
  PROVE  \/ pc' = "idle" /\ job' = NoJob
         \/ pc' = "catching" /\ job' = job
BY DEF RecordSuccess

(* The local variables of the worker.                                      *)
LEMMA WorkerTypes ==
  ASSUME TypeOK, Worker \/ Crash
  PROVE  pc' \in Places /\ job' \in Jobs
<1> USE ManualAssumption DEF TypeOK, Places, Jobs, NoJob, Errors, workerVars, counters, Outage,
       NoOutage
<1>1. CASE FindInterruptedTask
  <2>1. ASSUME NEW t \in Tasks, pc' = "recovering",
               job' = [NoJob EXCEPT !.task = t, !.cancelled = task[t].cancelRequested]
        PROVE  pc' \in Places /\ job' \in Jobs
    <3>1. task[t].cancelRequested \in BOOLEAN
      BY DEF Rows
    <3> QED
      BY <2>1, <3>1
  <2> QED
    BY <1>1, <2>1 DEF FindInterruptedTask
<1>2. CASE CompleteInterruptedTask
  BY <1>2 DEF CompleteInterruptedTask
<1>3. CASE ProcessDeletion
  BY <1>3 DEF ProcessDeletion
<1>4. CASE RetryPullRequest
  BY <1>4 DEF RetryPullRequest
<1>5. CASE NothingBeforeClaim
  BY <1>5 DEF NothingBeforeClaim
<1>6. CASE ClaimPending
  BY <1>6 DEF ClaimPending
<1>7. CASE Prepare
  BY <1>7 DEF Prepare, Step
<1>8. CASE ReadyWithoutChanges
  BY <1>8 DEF ReadyWithoutChanges, Step
<1>9. CASE StartAgent
  BY <1>9 DEF StartAgent, Step
<1>10. CASE AgentEnds
  BY <1>10 DEF AgentEnds, Step
<1>11. CASE Push
  BY <1>11 DEF Push
<1>12. CASE MarkPushed
  BY <1>12 DEF MarkPushed
<1>13. CASE FindPullRequest
  BY <1>13 DEF FindPullRequest
<1>14. CASE CreatePullRequest
  BY <1>14 DEF CreatePullRequest
<1>15. CASE ReconcilePullRequest
  BY <1>15 DEF ReconcilePullRequest
<1>16. CASE RecordSuccess
  <2>1. CASE pc' = "idle" /\ job' = NoJob
    BY <2>1
  <2>2. CASE pc' = "catching" /\ job' = job
    BY <2>2
  <2> QED
    BY <1>16, <2>1, <2>2, SuccessLeaves
<1>17. CASE Abort
  <2>1. \E r \in {"cancel", "timeout"} : job' = [job EXCEPT !.stop = r]
    <3>1. CASE NotCancelled
      BY <1>17, <3>1 DEF Abort
    <3>2. CASE ~NotCancelled
      BY <1>17, <3>2 DEF Abort
    <3> QED
      BY <3>1, <3>2
  <2>2. job' \in Jobs
    BY <2>1
  <2>3. pc' \in Places
    BY <1>17 DEF Abort
  <2> QED
    BY <2>2, <2>3
<1>18. CASE StepThrows
  BY <1>18 DEF StepThrows
<1>19. CASE CatchExecution
  BY <1>19 DEF CatchExecution, Rows, NotCancelled
<1>20. CASE CatchRetry
  BY <1>20 DEF CatchRetry
<1>21. CASE RecordFailure
  BY <1>21 DEF RecordFailure
<1>22. CASE Crash
  BY <1>22 DEF Crash
<1> QED
  BY <1>1, <1>2, <1>3, <1>4, <1>5, <1>6, <1>7, <1>8, <1>9, <1>10, <1>11, <1>12, <1>13, <1>14,
     <1>15, <1>16, <1>17, <1>18, <1>19, <1>20, <1>21, <1>22 DEF Worker, Recover, RunOnce, Execute

-----------------------------------------------------------------------------
(* The inductive invariant.                                                *)

(* The unique index over active tasks. *)
OneActiveTask ==
    \A t, u \in Tasks : IsActive(t) /\ IsActive(u) => t = u

(* A task that has not been claimed has seen no agent, and neither has the *)
(* one the worker is preparing.                                            *)
AgentNotStarted ==
    /\ \A t \in Tasks : agentRuns[t] \in {0, 1}
    /\ \A t \in Tasks : task[t].status \in {"absent", "PENDING"} => agentRuns[t] = 0
    /\ pc \in {"preparing", "starting agent"} => agentRuns[job.task] = 0

Busy == Executing \union {"catching", "failing"}

(* The row the worker works on: running, or a failed one with its retry    *)
(* requested.                                                              *)
Workable == IF job.retry THEN Recoverable(task[job.task]) ELSE task[job.task].status = "RUNNING"

(* The row stays workable while the worker is at it, except that a         *)
(* completion whose answer was lost may have made it a success.            *)
JobFitsTask ==
    /\ pc \in Busy \union {"recovering"} => job.task \in Tasks
    /\ pc \notin Busy \union {"recovering"} => job = NoJob
    /\ pc = "recovering" => ~job.retry
    /\ pc \in Interruptible \union {"pushed"} => ~job.retry
    /\ job.retry => ~job.cancelled
    /\ pc \in Executing \union {"recovering"} => Workable
    /\ pc \in {"catching", "failing"} => Workable \/ task[job.task].status = "SUCCESS"

IInv ==
    TypeOK /\ OneActiveTask /\ AgentNotStarted /\ JobFitsTask /\ RunningHasAWorker

LEMMA InitInv == Init => IInv
<1> SUFFICES ASSUME Init PROVE IInv
  OBVIOUS
<1>1. TypeOK
  BY InitTypes
<1>2. \A t \in Tasks : task[t].status = "absent" /\ agentRuns[t] = 0
  BY DEF Init, NewTask
<1>3. pc = "starting" /\ job = NoJob /\ ~job.retry /\ ~job.cancelled
  BY DEF Init, NoJob
<1> QED
  BY <1>1, <1>2, <1>3 DEF IInv, OneActiveTask, IsActive, Active, AgentNotStarted, JobFitsTask,
     RunningHasAWorker, Busy, Executing, Interruptible

-----------------------------------------------------------------------------
(* The completions.                                                        *)

(* What the three calls of complete have in common: they change at most    *)
(* the row the worker works on, to a terminal status, and a requested      *)
(* retry never to a cancellation; without an outage the row is final.      *)
EndsItsTask ==
    \/ task' = task
    \/ /\ Workable
       /\ \E r \in Rows : /\ UpdatesRow(job.task, r) /\ r.status \in Terminal
                          /\ job.retry => r.status \in {"FAILED", "SUCCESS"}
                          /\ pc = "completing" => r.status = "SUCCESS"

Completes ==
    /\ EndsItsTask
    /\ \/ pc' \in {"idle", "starting"} /\ job' = NoJob
       \/ pc = "completing" /\ pc' = "catching" /\ job' = job /\ outages' > 0
    /\ outages' = 0 => outages = 0 /\ task'[job.task].status # "RUNNING"
    /\ UNCHANGED <<agentRuns, cancelledAtPush, branch, pull>>
    /\ UNCHANGED <<admitted, deletions, deleted, crashes, retries, pushes>>
    /\ outages' \in {outages, outages + 1}

LEMMA CompletionStep ==
  ASSUME IInv, CompleteInterruptedTask \/ RecordSuccess \/ RecordFailure
  PROVE  Completes
<1> USE DEF Outage, NoOutage, counters, githubVars, historyVars, KeepsTables
<1>1. /\ TypeOK /\ job.task \in Tasks
      /\ job.published \in BOOLEAN /\ job.error \in Errors \union {None}
      /\ job.retry \in BOOLEAN
  BY DEF IInv, TypeOK, Jobs, JobFitsTask, Busy, Executing, Interruptible,
         CompleteInterruptedTask, RecordSuccess, RecordFailure
<1>2. /\ outages \in Nat
      /\ NoOutage => outages' = outages
      /\ Outage => outages' > 0
  BY <1>1 DEF TypeOK
<1>3. ASSUME NEW s \in Terminal, NEW e \in Errors \union {None}, NEW b \in BOOLEAN,
             Complete(job.task, s, e, b),
             job.retry => s \in {"FAILED", "SUCCESS"},
             pc = "completing" => s = "SUCCESS",
             Workable \/ task[job.task].status = "SUCCESS"
      PROVE  task'[job.task].status # "RUNNING" /\ EndsItsTask
  <2>1. CASE task' = task /\ task[job.task].status # "RUNNING" /\ ~Recoverable(task[job.task])
    BY <2>1 DEF EndsItsTask
  <2>2. ASSUME NEW r \in Rows, UpdatesRow(job.task, r), r.status = s,
               task[job.task].status = "RUNNING" \/ Recoverable(task[job.task])
        PROVE  /\ task'[job.task].status # "RUNNING"
               /\ Workable
               /\ r.status \in Terminal
               /\ job.retry => r.status \in {"FAILED", "SUCCESS"}
               /\ pc = "completing" => r.status = "SUCCESS"
    <3>1. task'[job.task].status # "RUNNING"
      BY <2>2 DEF UpdatesRow, Terminal
    <3>2. Workable
      BY <2>2, <1>3 DEF Workable, Recoverable
    <3> QED
      BY <3>1, <3>2, <2>2, <1>3
  <2> QED
    BY <1>1, <1>3, <2>1, <2>2, CompleteStep DEF EndsItsTask
<1>4. CASE CompleteInterruptedTask
  <2>1. pc = "recovering" /\ ~job.retry /\ Workable
    BY <1>4 DEF CompleteInterruptedTask, IInv, JobFitsTask
  <2> DEFINE s == IF job.cancelled THEN "CANCELLED" ELSE "FAILED"
             e == IF job.cancelled THEN None ELSE "WORKER_RESTARTED"
             Done == Complete(job.task, s, e, FALSE)
  <2>2. s \in Terminal /\ e \in Errors \union {None}
    BY DEF Terminal, Errors
  <2>3. /\ \/ Done /\ pc' = "idle" /\ NoOutage
           \/ (Done \/ task' = task) /\ pc' = "starting" /\ Outage
        /\ job' = NoJob /\ UNCHANGED <<agentRuns, cancelledAtPush, branch, pull>>
        /\ UNCHANGED <<admitted, deletions, deleted>>
    BY <1>4 DEF CompleteInterruptedTask
  <2> HIDE DEF s, e
  <2>4. Done =>
           task'[job.task].status # "RUNNING" /\ EndsItsTask
    BY <1>3, <2>1, <2>2
  <2> HIDE DEF Done
  <2>5. outages' = 0 => outages = 0 /\ task'[job.task].status # "RUNNING"
    BY <1>2, <2>3, <2>4
  <2>6. task' = task \/ Done
    BY <2>3
  <2> QED
    BY <2>3, <2>4, <2>5, <2>6 DEF Completes, EndsItsTask
<1>5. CASE RecordSuccess
  <2>1. pc = "completing" /\ Workable
    BY <1>5 DEF RecordSuccess, IInv, JobFitsTask, Executing
  <2>2. /\ \/ /\ Complete(job.task, "SUCCESS", None, job.published)
              /\ pc' = "idle" /\ job' = NoJob /\ NoOutage
           \/ /\ Complete(job.task, "SUCCESS", None, job.published) \/ task' = task
              /\ pc' = "catching" /\ job' = job /\ Outage
        /\ UNCHANGED <<agentRuns, cancelledAtPush, branch, pull>>
        /\ UNCHANGED <<admitted, deletions, deleted>>
    BY <1>5 DEF RecordSuccess
  <2>3. "SUCCESS" \in Terminal
    BY DEF Terminal
  <2>4. Complete(job.task, "SUCCESS", None, job.published) =>
           task'[job.task].status # "RUNNING" /\ EndsItsTask
    BY <1>1, <1>3, <2>1, <2>3
  <2> QED
    BY <1>2, <2>1, <2>2, <2>4 DEF Completes, EndsItsTask
<1>6. CASE RecordFailure
  <2>1. pc = "failing" /\ (Workable \/ task[job.task].status = "SUCCESS")
        /\ (job.retry => ~job.cancelled)
    BY <1>6 DEF RecordFailure, IInv, JobFitsTask
  <2> DEFINE s == IF job.cancelled THEN "CANCELLED" ELSE "FAILED"
             e == IF job.cancelled THEN None ELSE FailureCode
             Done == Complete(job.task, s, e, FALSE)
  <2>2. s \in Terminal /\ e \in Errors \union {None} /\ (job.retry => s = "FAILED")
    BY <1>1, <2>1 DEF Terminal, Errors, FailureCode
  <2>3. /\ \/ Done /\ NoOutage
           \/ (Done \/ task' = task) /\ Outage
        /\ pc' = "idle" /\ job' = NoJob /\ UNCHANGED <<agentRuns, cancelledAtPush, branch, pull>>
        /\ UNCHANGED <<admitted, deletions, deleted>>
    <3>1. CASE job.cancelled
      BY <1>6, <3>1 DEF RecordFailure
    <3>2. CASE ~job.cancelled
      BY <1>6, <3>2 DEF RecordFailure
    <3> QED
      BY <3>1, <3>2
  <2> HIDE DEF s, e
  <2>4. Done =>
           task'[job.task].status # "RUNNING" /\ EndsItsTask
    BY <1>3, <2>1, <2>2
  <2> HIDE DEF Done
  <2>5. outages' = 0 => outages = 0 /\ task'[job.task].status # "RUNNING"
    BY <1>2, <2>3, <2>4
  <2>6. task' = task \/ Done
    BY <2>3
  <2> QED
    BY <2>3, <2>4, <2>5, <2>6 DEF Completes, EndsItsTask
<1> QED
  BY <1>4, <1>5, <1>6

-----------------------------------------------------------------------------
(* The remaining types: projects, GitHub, history and counters.            *)
OtherTypes ==
    /\ admitted \subseteq Projects /\ deleted \subseteq Projects
    /\ deletions \in Seq(Projects)
    /\ branch \in [Tasks -> {None, "reviewed", "moved"}] /\ pull \in [Tasks -> BOOLEAN]
    /\ agentRuns \in [Tasks -> Nat] /\ cancelledAtPush \subseteq Tasks
    /\ crashes \in Nat /\ outages \in Nat /\ retries \in Nat /\ pushes \in Nat

LEMMA OtherTypesStep ==
  ASSUME IInv, [Next]_vars
  PROVE  OtherTypes'
<1>0. OtherTypes /\ (pc \in Busy => job.task \in Tasks)
  BY DEF IInv, TypeOK, OtherTypes, JobFitsTask
<1> USE <1>0, ManualAssumption DEF OtherTypes, Dashboard, KeepsTables, tableVars, githubVars,
       workerVars,
        historyVars, counters, Outage, NoOutage
<1>1. ASSUME NEW p \in Projects, CheckCreation(p) \/ RequestDeletion(p)
      PROVE  OtherTypes'
  <2>1. CASE CheckCreation(p)
    BY <2>1 DEF CheckCreation
  <2>2. CASE RequestDeletion(p)
    BY <2>2 DEF RequestDeletion
  <2> QED
    BY <1>1, <2>1, <2>2
<1>2. ASSUME NEW t \in Tasks, InsertTask(t)
      PROVE  OtherTypes'
  BY <1>2 DEF InsertTask
<1>3. ASSUME NEW t \in Tasks, RequestCancel(t) \/ RequestPrRetry(t) \/ Archive(t)
      PROVE  OtherTypes'
  BY <1>3 DEF RequestCancel, RequestPrRetry, Archive
<1>4. ASSUME NEW t \in Tasks, MoveBranch(t)
      PROVE  OtherTypes'
  BY <1>4 DEF MoveBranch
<1>5. CASE ProcessDeletion
  BY <1>5 DEF ProcessDeletion
<1>6. CASE StartAgent
  <2>1. job.task \in Tasks
    BY <1>6 DEF StartAgent, Step, Busy, Executing, Interruptible
  <2>2. /\ UNCHANGED <<admitted, deleted, deletions, branch, pull, cancelledAtPush>>
        /\ UNCHANGED counters
        /\ agentRuns' = [agentRuns EXCEPT ![job.task] = agentRuns[job.task] + 1]
    BY <1>6 DEF StartAgent
  <2>3. \A n \in Nat : n + 1 \in Nat
    OBVIOUS
  <2>4. agentRuns[job.task] + 1 \in Nat
    <3>1. agentRuns \in [Tasks -> Nat]
      BY <1>0 DEF OtherTypes
    <3> QED
      BY ONLY <2>1, <2>3, <3>1
  <2> QED
    BY <2>1, <2>2, <2>4
<1>7. CASE Push
  BY <1>7 DEF Push, Busy, Executing, Interruptible
<1>8. CASE CreatePullRequest
  <2>1. pull' = pull \/ pull' = [pull EXCEPT ![job.task] = TRUE]
    BY <1>8 DEF CreatePullRequest
  <2>2. pull' \in [Tasks -> BOOLEAN]
    BY <2>1
  <2>3. UNCHANGED <<admitted, deleted, deletions, branch, agentRuns, cancelledAtPush>>
    BY <1>8 DEF CreatePullRequest
  <2>4. outages' \in {outages, outages + 1} /\ UNCHANGED <<crashes, retries, pushes>>
    BY <1>8 DEF CreatePullRequest
  <2> QED
    BY <2>2, <2>3, <2>4
<1>9. CASE FindInterruptedTask
  BY <1>9 DEF FindInterruptedTask
<1>10. CASE CompleteInterruptedTask \/ RecordSuccess \/ RecordFailure
  <2>1. Completes
    BY <1>10, CompletionStep
  <2> QED
    BY <2>1 DEF Completes
<1>11. CASE RetryPullRequest
  BY <1>11 DEF RetryPullRequest
<1>12. CASE NothingBeforeClaim
  BY <1>12 DEF NothingBeforeClaim
<1>13. CASE ClaimPending
  BY <1>13 DEF ClaimPending
<1>14. CASE Prepare
  BY <1>14 DEF Prepare, Step
<1>15. CASE ReadyWithoutChanges
  BY <1>15 DEF ReadyWithoutChanges, Step
<1>16. CASE AgentEnds
  BY <1>16 DEF AgentEnds, Step
<1>17. CASE MarkPushed
  BY <1>17 DEF MarkPushed
<1>18. CASE FindPullRequest
  BY <1>18 DEF FindPullRequest
<1>19. CASE ReconcilePullRequest
  BY <1>19 DEF ReconcilePullRequest
<1>21. CASE Abort
  BY <1>21 DEF Abort
<1>22. CASE StepThrows
  BY <1>22 DEF StepThrows
<1>23. CASE CatchExecution
  BY <1>23 DEF CatchExecution
<1>24. CASE CatchRetry
  BY <1>24 DEF CatchRetry
<1>26. CASE Crash
  BY <1>26 DEF Crash
<1>27. CASE UNCHANGED vars
  BY <1>27 DEF vars
<1> QED
  BY <1>0, <1>1, <1>2, <1>3, <1>4, <1>5, <1>6, <1>7, <1>8, <1>9, <1>10, <1>11, <1>12, <1>13,
     <1>14, <1>15, <1>16, <1>17, <1>18, <1>19, <1>21, <1>22, <1>23, <1>24, <1>26, <1>27
     DEF Next, Worker, Recover, RunOnce, Execute, Operator

-----------------------------------------------------------------------------
(* The invariant is inductive.                                             *)

Invariants == OneActiveTask /\ AgentNotStarted /\ JobFitsTask /\ RunningHasAWorker

(* The dashboard leaves the task the worker is at as it needs it.          *)
LEMMA OperatorInv ==
  ASSUME IInv, Operator
  PROVE  task' \in [Tasks -> Rows] /\ UNCHANGED <<pc, job>> /\ Invariants'
<1>1. OperatorLeaves
  BY OperatorStep DEF IInv
<1>2. task' \in [Tasks -> Rows] /\ UNCHANGED <<pc, job, agentRuns, outages>>
  BY <1>1 DEF OperatorLeaves
<1>3. OneActiveTask'
  BY <1>1 DEF IInv, OneActiveTask, OperatorLeaves, IsActive
<1>4. AgentNotStarted'
  BY <1>1, <1>2 DEF IInv, AgentNotStarted, OperatorLeaves
<1>5. JobFitsTask'
  <2>1. Workable /\ job.task \in Tasks => Workable'
    BY <1>1, <1>2 DEF Workable, OperatorLeaves
  <2>2. job.task \in Tasks /\ task[job.task].status = "SUCCESS" => task'[job.task].status = "SUCCESS"
    BY <1>1 DEF OperatorLeaves, Terminal
  <2> QED
    BY <1>2, <2>1, <2>2 DEF IInv, JobFitsTask, Busy
<1>6. RunningHasAWorker'
  BY <1>1, <1>2 DEF IInv, RunningHasAWorker, OperatorLeaves
<1> QED
  BY <1>2, <1>3, <1>4, <1>5, <1>6 DEF Invariants

(* A completion ends the work on the only active task.                     *)
LEMMA CompletionInv ==
  ASSUME IInv, CompleteInterruptedTask \/ RecordSuccess \/ RecordFailure
  PROVE  task' \in [Tasks -> Rows] /\ Invariants'
<1>1. Completes
  BY CompletionStep
<1>2. TypeOK /\ job.task \in Tasks /\ OneActiveTask /\ JobFitsTask
  BY DEF IInv, JobFitsTask, Busy, Executing, CompleteInterruptedTask, RecordSuccess, RecordFailure
<1>3. /\ task' \in [Tasks -> Rows]
      /\ \A u \in Tasks : task'[u] = task[u] \/ (u = job.task /\ task'[u].status \in Terminal)
      /\ task' = task \/ (Workable /\ task'[job.task].status \in Terminal
                          /\ (pc = "completing" => task'[job.task].status = "SUCCESS"))
  BY <1>1, <1>2 DEF Completes, EndsItsTask, UpdatesRow, TypeOK
<1>4. OneActiveTask'
  BY <1>2, <1>3 DEF OneActiveTask, IsActive, Active, Terminal
<1>5. AgentNotStarted'
  <2>1. agentRuns' = agentRuns /\ pc' \notin {"preparing", "starting agent"}
    BY <1>1 DEF Completes
  <2> QED
    BY <1>3, <2>1 DEF IInv, AgentNotStarted, Terminal
<1>6. JobFitsTask'
  <2>1. CASE pc' \in {"idle", "starting"} /\ job' = NoJob
    BY <2>1 DEF JobFitsTask, NoJob, Busy, Executing, Interruptible
  <2>2. CASE pc = "completing" /\ pc' = "catching" /\ job' = job
    <3>1. Workable' \/ task'[job.task].status = "SUCCESS"
      BY <1>2, <1>3, <2>2 DEF JobFitsTask, Executing, Workable
    <3> QED
      BY <1>2, <2>2, <3>1 DEF JobFitsTask, Busy, Executing, Interruptible
  <2> QED
    BY <1>1, <2>1, <2>2 DEF Completes
<1>7. RunningHasAWorker'
  <2> SUFFICES ASSUME outages' = 0, pc' \notin {"starting", "recovering"},
                      NEW t \in Tasks, task'[t].status = "RUNNING"
               PROVE  job'.task = t
    BY DEF RunningHasAWorker
  <2>1. outages = 0 /\ task'[job.task].status # "RUNNING"
    BY <1>1 DEF Completes
  <2>2. t # job.task /\ task[t].status = "RUNNING"
    BY <1>3, <2>1 DEF Terminal
  <2>3. CASE pc = "recovering"
    BY <1>2, <2>2, <2>3 DEF JobFitsTask, Workable, OneActiveTask, IsActive, Active
  <2>4. CASE pc # "recovering"
    BY <2>1, <2>2, <2>4 DEF IInv, RunningHasAWorker, CompleteInterruptedTask, RecordSuccess,
       RecordFailure
  <2> QED
    BY <2>3, <2>4
<1> QED
  BY <1>3, <1>4, <1>5, <1>6, <1>7 DEF Invariants

(* A claim takes the pending task, the only active one.                    *)
LEMMA ClaimInv ==
  ASSUME IInv, ClaimPending
  PROVE  task' \in [Tasks -> Rows] /\ Invariants'
<1> USE DEF Outage, NoOutage, historyVars, counters
<1>1. TypeOK /\ OneActiveTask /\ JobFitsTask /\ AgentNotStarted /\ RunningHasAWorker /\ pc = "claiming"
  BY DEF IInv, ClaimPending
<1>2. job = NoJob /\ agentRuns' = agentRuns
  BY <1>1 DEF JobFitsTask, Busy, Executing, Interruptible, ClaimPending
<1>3. CASE task' = task /\ pc' = "idle" /\ job' = job /\ outages' = outages
  BY <1>1, <1>2, <1>3 DEF TypeOK, Invariants, OneActiveTask, IsActive, AgentNotStarted, JobFitsTask,
     RunningHasAWorker, Busy, Executing, Interruptible, NoJob
<1>4. ASSUME NEW t \in Tasks, task[t].status = "PENDING",
             task' = [task EXCEPT ![t].status = "RUNNING"],
             \/ pc' = "preparing" /\ job' = [NoJob EXCEPT !.task = t]
             \/ pc' = "idle" /\ job' = job /\ outages' = outages + 1
      PROVE  task' \in [Tasks -> Rows] /\ Invariants'
  <2>1. /\ task' \in [Tasks -> Rows]
        /\ task'[t].status = "RUNNING"
        /\ \A u \in Tasks : u # t => task'[u] = task[u] /\ ~IsActive(u)
    <3>1. PICK r \in Rows : UpdatesRow(t, r) /\ r.status = "RUNNING"
      BY <1>1, <1>4, ClaimStep
    <3>2. \A u \in Tasks : u # t => ~IsActive(u)
      BY <1>1, <1>4 DEF OneActiveTask, IsActive, Active
    <3> QED
      BY <3>1, <3>2 DEF UpdatesRow
  <2>2. OneActiveTask'
    BY <2>1 DEF OneActiveTask, IsActive
  <2>3. agentRuns[t] = 0
    BY <1>1, <1>4 DEF AgentNotStarted
  <2>4. outages' = outages + 1 => outages' # 0
    BY <1>1 DEF TypeOK
  <2>5. CASE pc' = "preparing" /\ job' = [NoJob EXCEPT !.task = t]
    <3>1. job'.task = t /\ ~job'.retry /\ ~job'.cancelled
      BY <2>5 DEF NoJob
    <3>2. AgentNotStarted'
      BY <1>1, <1>2, <2>1, <2>3, <3>1 DEF AgentNotStarted
    <3>3. JobFitsTask'
      BY <2>1, <2>5, <3>1 DEF JobFitsTask, Workable, Busy, Executing, Interruptible
    <3>4. RunningHasAWorker'
      BY <2>1, <3>1 DEF RunningHasAWorker, IsActive, Active
    <3> QED
      BY <2>1, <2>2, <3>2, <3>3, <3>4 DEF Invariants
  <2>6. CASE pc' = "idle" /\ job' = job /\ outages' = outages + 1
    <3>1. AgentNotStarted'
      BY <1>1, <1>2, <2>1, <2>6 DEF AgentNotStarted
    <3>2. JobFitsTask'
      BY <1>2, <2>6 DEF JobFitsTask, Busy, Executing, Interruptible, NoJob
    <3>3. RunningHasAWorker'
      BY <2>4, <2>6 DEF RunningHasAWorker
    <3> QED
      BY <2>1, <2>2, <3>1, <3>2, <3>3 DEF Invariants
  <2> QED
    BY <1>4, <2>5, <2>6
<1> QED
  BY <1>3, <1>4 DEF ClaimPending

(* A deletion happens between two tasks.                                   *)
LEMMA DeletionInv ==
  ASSUME IInv, ProcessDeletion
  PROVE  task' \in [Tasks -> Rows] /\ Invariants'
<1>1. TypeOK /\ UNCHANGED <<pc, job, agentRuns, outages>> /\ pc = "idle" /\ job = NoJob
  BY DEF IInv, ProcessDeletion, workerVars, historyVars, counters, JobFitsTask, Busy, Executing,
         Interruptible
<1>2. /\ task' \in [Tasks -> Rows]
      /\ \A u \in Tasks : task'[u] = task[u] \/ task'[u].status = "deleted"
  BY <1>1, DeletionStep DEF ProcessDeletion
<1>3. OneActiveTask' /\ AgentNotStarted'
  BY <1>1, <1>2 DEF IInv, OneActiveTask, IsActive, Active, AgentNotStarted
<1>4. JobFitsTask'
  BY <1>1 DEF IInv, JobFitsTask, Busy, Executing, Interruptible
<1>5. RunningHasAWorker'
  BY <1>1, <1>2 DEF IInv, RunningHasAWorker
<1> QED
  BY <1>2, <1>3, <1>4, <1>5 DEF Invariants

(* The agent starts on a task that has seen none.                          *)
LEMMA AgentInv ==
  ASSUME IInv, StartAgent
  PROVE  task' = task /\ Invariants'
<1>1. /\ TypeOK /\ AgentNotStarted /\ JobFitsTask /\ OneActiveTask /\ RunningHasAWorker
      /\ pc = "starting agent" /\ pc' = "agent" /\ UNCHANGED <<task, job, outages>>
      /\ agentRuns' = [agentRuns EXCEPT ![job.task] = agentRuns[job.task] + 1]
  BY DEF IInv, StartAgent, Step, tableVars, NoOutage, counters
<1>2. job.task \in Tasks /\ agentRuns[job.task] = 0 /\ task[job.task].status = "RUNNING"
  BY <1>1 DEF JobFitsTask, Workable, Busy, Executing, Interruptible, AgentNotStarted
<1>3. \A t \in Tasks : agentRuns'[t] = IF t = job.task THEN 1 ELSE agentRuns[t]
  <2>1. agentRuns[job.task] + 1 = 1
    BY ONLY <1>2
  <2>2. agentRuns' = [agentRuns EXCEPT ![job.task] = 1]
    BY <1>1, <2>1
  <2> QED
    BY <1>1, <1>2, <2>2 DEF TypeOK
<1>4. AgentNotStarted'
  BY <1>1, <1>2, <1>3 DEF AgentNotStarted
<1>5. JobFitsTask' /\ OneActiveTask' /\ RunningHasAWorker'
  BY <1>1 DEF JobFitsTask, Workable, Busy, Executing, Interruptible, OneActiveTask, IsActive,
     RunningHasAWorker
<1> QED
  BY <1>1, <1>4, <1>5 DEF Invariants

(* The steps that leave the tasks alone: it is enough that the worker      *)
(* keeps to its task, or takes one up that it may work on.                 *)
LEMMA OtherStepsInv ==
  ASSUME IInv, UNCHANGED <<task, agentRuns>>, job' \in Jobs,
         JobFitsTask', pc' \in {"preparing", "starting agent"} => pc = "preparing" /\ job' = job,
         \/ outages' # 0 \/ pc' \in {"starting", "recovering"}
         \/ outages' = outages /\ job'.task = job.task /\ pc \notin {"starting", "recovering"}
         \/ \A t \in Tasks : task[t].status # "RUNNING"
  PROVE  task' \in [Tasks -> Rows] /\ Invariants'
<1>1. task' \in [Tasks -> Rows] /\ OneActiveTask'
  BY DEF IInv, TypeOK, OneActiveTask, IsActive
<1>2. AgentNotStarted'
  BY DEF IInv, AgentNotStarted
<1>3. RunningHasAWorker'
  BY DEF IInv, RunningHasAWorker
<1> QED
  BY <1>1, <1>2, <1>3 DEF Invariants

(* The steps that keep to the task.                                        *)
Continues ==
    \/ Prepare \/ ReadyWithoutChanges \/ AgentEnds \/ Push \/ MarkPushed
    \/ FindPullRequest \/ CreatePullRequest \/ ReconcilePullRequest
    \/ Abort \/ StepThrows \/ CatchExecution \/ CatchRetry

LEMMA ContinuesInv ==
  ASSUME IInv, Continues, job' \in Jobs
  PROVE  task' \in [Tasks -> Rows] /\ Invariants'
<1> USE DEF tableVars, githubVars, historyVars, workerVars, counters, Step, Interruptible,
       Executing, Busy
<1>1. UNCHANGED <<task, agentRuns>> /\ pc \in Busy
  BY DEF Continues, Prepare, ReadyWithoutChanges, AgentEnds, Push, MarkPushed, FindPullRequest,
         CreatePullRequest, ReconcilePullRequest, Abort, StepThrows, CatchExecution, CatchRetry
<1>2. outages' # 0 \/ outages' = outages
  <2>1. Outage \/ outages' = outages
    BY DEF Continues, Prepare, ReadyWithoutChanges, AgentEnds, Push, MarkPushed, FindPullRequest,
           CreatePullRequest, ReconcilePullRequest, Abort, StepThrows, CatchExecution, CatchRetry,
           NoOutage
  <2>2. Outage => outages' # 0
    BY DEF IInv, TypeOK, Outage
  <2> QED
    BY <2>1, <2>2
<1>3. job'.task = job.task /\ job'.retry = job.retry
  BY DEF IInv, TypeOK, Jobs, Continues, Prepare, ReadyWithoutChanges, AgentEnds, Push, MarkPushed,
         FindPullRequest, CreatePullRequest, ReconcilePullRequest, Abort, StepThrows,
         CatchExecution, CatchRetry
<1>4. job'.cancelled = job.cancelled \/ ~job.retry
  BY DEF IInv, TypeOK, Jobs, Continues, Prepare, ReadyWithoutChanges, AgentEnds, Push, MarkPushed,
         FindPullRequest, CreatePullRequest, ReconcilePullRequest, Abort, StepThrows,
         CatchExecution, CatchRetry
<1>5. /\ pc' \in Busy
      /\ pc' \in Executing => pc \in Executing
      /\ pc' \in Interruptible \union {"pushed"} => pc \in Interruptible \union {"pushed"}
      /\ pc' \in {"preparing", "starting agent"} => pc = "preparing" /\ job' = job
  BY DEF Continues, Prepare, ReadyWithoutChanges, AgentEnds, Push, MarkPushed, FindPullRequest,
         CreatePullRequest, ReconcilePullRequest, Abort, StepThrows, CatchExecution, CatchRetry
<1>6. JobFitsTask'
  BY <1>1, <1>3, <1>4, <1>5 DEF IInv, JobFitsTask, Workable
<1> QED
  BY <1>1, <1>2, <1>3, <1>5, <1>6, OtherStepsInv

(* The steps that take up a task or leave it, by a death of the process.   *)
LEMMA TakesUpInv ==
  ASSUME IInv, FindInterruptedTask \/ RetryPullRequest \/ NothingBeforeClaim \/ Crash, job' \in Jobs
  PROVE  task' \in [Tasks -> Rows] /\ Invariants'
<1> USE DEF tableVars, githubVars, historyVars, workerVars, counters, Interruptible, Executing, Busy
<1>1. /\ UNCHANGED <<task, agentRuns, outages>>
      /\ pc \in {"starting", "idle"} \/ pc' = "starting"
      /\ pc' \in {"starting", "recovering", "idle", "finding", "claiming"}
  BY DEF FindInterruptedTask, RetryPullRequest, NothingBeforeClaim, Crash
<1>2. CASE pc' = "starting" \/ pc' = "idle" \/ pc' = "claiming"
  <2>1. job' = NoJob
    BY <1>2 DEF IInv, JobFitsTask, FindInterruptedTask, RetryPullRequest, NothingBeforeClaim, Crash
  <2>2. JobFitsTask'
    BY <1>2, <2>1 DEF JobFitsTask, NoJob
  <2>3. \/ pc' = "starting"
        \/ \A t \in Tasks : task[t].status # "RUNNING"
        \/ job'.task = job.task /\ pc \notin {"starting", "recovering"}
    BY <1>2 DEF FindInterruptedTask, RetryPullRequest, NothingBeforeClaim, Crash
  <2> QED
    BY <1>1, <1>2, <2>2, <2>3, OtherStepsInv
<1>3. CASE pc' = "recovering"
  <2>1. PICK t \in Tasks : /\ task[t].status = "RUNNING"
                           /\ job' = [NoJob EXCEPT !.task = t, !.cancelled = task[t].cancelRequested]
    BY <1>3 DEF FindInterruptedTask, RetryPullRequest, NothingBeforeClaim, Crash
  <2>2. job'.task = t /\ ~job'.retry
    BY <2>1 DEF NoJob
  <2>3. JobFitsTask'
    BY <1>1, <1>3, <2>1, <2>2 DEF JobFitsTask, Workable
  <2> QED
    BY <1>1, <1>3, <2>3, OtherStepsInv
<1>4. CASE pc' = "finding"
  <2>1. /\ pc = "idle"
        /\ \E t \in Tasks : NewestRetry(t) /\ job' = [NoJob EXCEPT !.task = t, !.retry = TRUE]
    BY <1>1, <1>4 DEF FindInterruptedTask, RetryPullRequest, NothingBeforeClaim, Crash
  <2>2. PICK t \in Tasks : NewestRetry(t) /\ job' = [NoJob EXCEPT !.task = t, !.retry = TRUE]
    BY <2>1
  <2>3. job'.task = t /\ job'.retry /\ ~job'.cancelled /\ Recoverable(task[t])
    BY <2>2 DEF NoJob, NewestRetry, RetryCandidates, AwaitingRetry, Recoverable
  <2>4. JobFitsTask'
    BY <1>1, <1>4, <2>3 DEF JobFitsTask, Workable
  <2>5. outages # 0 \/ \A u \in Tasks : task[u].status # "RUNNING"
    BY <2>1, ManualAssumption DEF IInv, JobFitsTask, RunningHasAWorker, NoJob
  <2> QED
    BY <1>1, <1>4, <2>4, <2>5, OtherStepsInv
<1> QED
  BY <1>1, <1>2, <1>3, <1>4

LEMMA StepInv ==
  ASSUME IInv, [Next]_vars
  PROVE  IInv'
<1>1. OtherTypes'
  BY OtherTypesStep DEF IInv, TypeOK, OtherTypes
<1>2. Worker \/ Crash => pc' \in Places /\ job' \in Jobs
  BY WorkerTypes DEF IInv
<1>3. CASE Operator
  BY <1>1, <1>3, OperatorInv DEF IInv, TypeOK, OtherTypes, Invariants
<1>4. CASE CompleteInterruptedTask \/ RecordSuccess \/ RecordFailure
  BY <1>1, <1>2, <1>4, CompletionInv DEF IInv, TypeOK, OtherTypes, Invariants,
     Worker, Recover, Execute
<1>5. CASE ClaimPending
  BY <1>1, <1>2, <1>5, ClaimInv DEF IInv, TypeOK, OtherTypes, Invariants, Worker, RunOnce
<1>6. CASE ProcessDeletion
  BY <1>1, <1>2, <1>6, DeletionInv DEF IInv, TypeOK, OtherTypes, Invariants, Worker, RunOnce
<1>7. CASE StartAgent
  BY <1>1, <1>2, <1>7, AgentInv DEF IInv, TypeOK, OtherTypes, Invariants, Worker, Execute
<1>8. CASE Continues
  BY <1>1, <1>2, <1>8, ContinuesInv DEF IInv, TypeOK, OtherTypes, Invariants, Worker, Execute,
     Continues
<1>9. CASE FindInterruptedTask \/ RetryPullRequest \/ NothingBeforeClaim \/ Crash
  BY <1>1, <1>2, <1>9, TakesUpInv DEF IInv, TypeOK, OtherTypes, Invariants, Worker, Recover, RunOnce
<1>10. CASE UNCHANGED vars
  BY <1>10 DEF vars, tableVars, githubVars, workerVars, historyVars, counters, IInv, TypeOK,
     OneActiveTask, IsActive, AgentNotStarted, JobFitsTask, Workable, RunningHasAWorker
<1> QED
  BY <1>3, <1>4, <1>5, <1>6, <1>7, <1>8, <1>9, <1>10
  DEF Next, Worker, Recover, RunOnce, Execute, Continues

(* The invariant holds in every reachable state.                           *)
LEMMA Invariance == Spec => []IInv
BY InitInv, StepInv, PTL DEF Spec

-----------------------------------------------------------------------------
(* The theorems.                                                           *)

(* Every variable keeps its type.                                          *)
THEOREM TypeCorrectness == Spec => []TypeOK
<1>1. IInv => TypeOK
  BY DEF IInv
<1> QED
  BY <1>1, Invariance, PTL

(* At most one task is pending or running, and it is the one every         *)
(* completion ends: createTask's insert is the only way to become active.  *)
THEOREM ActiveTaskIsUnique == Spec => []OneActiveTask
<1>1. IInv => OneActiveTask
  BY DEF IInv
<1> QED
  BY <1>1, Invariance, PTL

(* The agent is started at most once for a task, through any number of     *)
(* crashes, recoveries, retries and lost answers.                          *)
THEOREM AgentStartsOnce == Spec => []AgentRunsOnce
<1>1. \A n : n \in {0, 1} => n <= 1
  OBVIOUS
<1>2. IInv => AgentRunsOnce
  BY <1>1 DEF IInv, AgentNotStarted, AgentRunsOnce
<1> QED
  BY <1>2, Invariance, PTL

(* As long as no answer is lost, a running task is the one in the worker's *)
(* hands, wherever the process died before.                                *)
THEOREM NoRunningTaskIsLost == Spec => []RunningHasAWorker
<1>1. IInv => RunningHasAWorker
  BY DEF IInv
<1> QED
  BY <1>1, Invariance, PTL

(* The outcome of a task is never replaced by another, except that a       *)
(* requested retry makes a failed task a success.                          *)
THEOREM OutcomesAreFinal == Spec => OutcomeIsKept
<1> DEFINE Kept == \A t \in Tasks :
          task[t].status \in Terminal /\ task'[t].status # task[t].status =>
             \/ task'[t].status = "deleted"
             \/ /\ task[t].status = "FAILED" /\ task[t].prRetryRequested
                /\ task'[t].status = "SUCCESS"
<1>1. ASSUME IInv, [Next]_vars PROVE Kept
  <2>1. CASE Operator
    <3>1. OperatorLeaves
      BY <1>1, <2>1, OperatorStep DEF IInv
    <3> QED
      BY <3>1 DEF OperatorLeaves
  <2>2. CASE CompleteInterruptedTask \/ RecordSuccess \/ RecordFailure
    <3>1. Completes /\ job.task \in Tasks
      BY <1>1, <2>2, CompletionStep DEF IInv, JobFitsTask, Busy, Executing,
         CompleteInterruptedTask, RecordSuccess, RecordFailure
    <3>2. \A t \in Tasks : task'[t] # task[t] =>
             /\ t = job.task /\ Workable /\ task'[t].status \in Terminal
             /\ job.retry => task'[t].status \in {"FAILED", "SUCCESS"}
      BY <3>1 DEF Completes, EndsItsTask, UpdatesRow
    <3> QED
      BY <3>2 DEF Workable, Recoverable, Terminal
  <2>3. CASE ClaimPending
    <3>1. \/ task' = task
          \/ \E t \in Tasks : /\ task[t].status = "PENDING"
                              /\ task' = [task EXCEPT ![t].status = "RUNNING"]
      BY <2>3 DEF ClaimPending
    <3>2. ASSUME NEW t \in Tasks, task[t].status = "PENDING",
                 task' = [task EXCEPT ![t].status = "RUNNING"]
          PROVE  Kept
      <4>1. \A u \in Tasks \ {t} : task'[u] = task[u]
        BY <1>1, <3>2, ClaimStep DEF IInv, UpdatesRow
      <4> QED
        BY <3>2, <4>1 DEF Terminal
    <3> QED
      BY <3>1, <3>2
  <2>4. CASE ProcessDeletion
    <3>1. \A u \in Tasks : task'[u] = task[u] \/ task'[u].status = "deleted"
      BY <1>1, <2>4, DeletionStep DEF IInv, ProcessDeletion
    <3> QED
      BY <3>1
  <2>5. CASE task' = task
    BY <2>5
  <2>6. Next => \/ Operator \/ CompleteInterruptedTask \/ RecordSuccess \/ RecordFailure
                \/ ClaimPending \/ ProcessDeletion \/ task' = task
    BY DEF Next, Worker, Recover, RunOnce, Execute, tableVars, FindInterruptedTask,
       RetryPullRequest,
           NothingBeforeClaim, Prepare, ReadyWithoutChanges, StartAgent, AgentEnds, Push,
           MarkPushed,
           FindPullRequest, CreatePullRequest, ReconcilePullRequest, Abort, StepThrows,
           CatchExecution, CatchRetry, Crash
  <2>7. UNCHANGED vars => task' = task
    BY DEF vars, tableVars
  <2> QED
    BY <1>1, <2>1, <2>2, <2>3, <2>4, <2>5, <2>6, <2>7
<1>2. IInv /\ [Next]_vars => [Kept]_vars
  BY <1>1
<1> QED
  BY <1>2, Invariance, PTL DEF Spec, OutcomeIsKept

(* The agent is started, a branch pushed and a pull request opened only    *)
(* for a running task or a failed one whose retry was requested.           *)
THEOREM EndedTasksStayQuiet == Spec => EndedTasksAreQuiet
<1> DEFINE Touched(t) == \/ agentRuns'[t] # agentRuns[t] \/ pull'[t] # pull[t]
                         \/ branch'[t] = "reviewed" /\ branch[t] # "reviewed"
           Quiet == \A t \in Tasks : Touched(t) => task[t].status = "RUNNING" \/ Recoverable(task[t])
<1>1. ASSUME IInv, [Next]_vars PROVE Quiet
  <2>1. CASE StartAgent \/ Push \/ CreatePullRequest
    <3>1. job.task \in Tasks /\ (task[job.task].status = "RUNNING" \/ Recoverable(task[job.task]))
      BY <1>1, <2>1 DEF IInv, JobFitsTask, Workable, Busy, Executing, Interruptible,
         StartAgent, Step, Push, CreatePullRequest
    <3>2. ASSUME NEW t \in Tasks, t # job.task PROVE ~Touched(t)
      <4>1. /\ agentRuns' = agentRuns \/ \E n : agentRuns' = [agentRuns EXCEPT ![job.task] = n]
            /\ pull' = pull \/ pull' = [pull EXCEPT ![job.task] = TRUE]
            /\ branch' = branch \/ branch' = [branch EXCEPT ![job.task] = "reviewed"]
        BY <2>1 DEF StartAgent, Push, CreatePullRequest, githubVars, historyVars
      <4> QED
        BY <1>1, <3>2, <4>1 DEF IInv, TypeOK
    <3> QED
      BY <3>1, <3>2
  <2>2. CASE Operator
    <3>1. OperatorLeaves
      BY <1>1, <2>2, OperatorStep DEF IInv
    <3>2. ASSUME NEW t \in Tasks PROVE ~Touched(t)
      BY <1>1, <3>1 DEF OperatorLeaves, IInv, TypeOK
    <3> QED
      BY <3>2
  <2>3. CASE UNCHANGED <<agentRuns, pull, branch>>
    BY <2>3
  <2>4. CASE CompleteInterruptedTask \/ RecordSuccess \/ RecordFailure
    BY <1>1, <2>4, CompletionStep DEF Completes
  <2>5. Next => \/ StartAgent \/ Push \/ CreatePullRequest \/ Operator
                \/ CompleteInterruptedTask \/ RecordSuccess \/ RecordFailure
                \/ UNCHANGED <<agentRuns, pull, branch>>
    BY DEF Next, Worker, Recover, RunOnce, Execute, githubVars, historyVars, FindInterruptedTask,
           ProcessDeletion, ClaimPending, RetryPullRequest, NothingBeforeClaim, Prepare,
           ReadyWithoutChanges, AgentEnds, MarkPushed, FindPullRequest, ReconcilePullRequest,
           Abort, StepThrows, CatchExecution, CatchRetry, Crash
  <2>6. UNCHANGED vars => UNCHANGED <<agentRuns, pull, branch>>
    BY DEF vars, githubVars, historyVars
  <2> QED
    BY <1>1, <2>1, <2>2, <2>3, <2>4, <2>5, <2>6
<1>2. IInv /\ [Next]_vars =>
        [\A t \in Tasks :
          \/ agentRuns'[t] # agentRuns[t] \/ pull'[t] # pull[t]
          \/ branch'[t] = "reviewed" /\ branch[t] # "reviewed"
          => \/ task[t].status = "RUNNING"
             \/ task[t].status = "FAILED" /\ task[t].prRetryRequested]_vars
  BY <1>1 DEF Recoverable
<1> QED
  BY <1>2, Invariance, PTL DEF Spec, EndedTasksAreQuiet

-----------------------------------------------------------------------------
(* The way of a task and of a run.                                         *)

\* What a task's status may become; nothing brings a task back into the queue.
Follows(s) ==
    CASE s = "absent" -> {"PENDING"}
      [] s = "PENDING" -> {"RUNNING", "CANCELLED", "deleted"}
      [] s = "RUNNING" -> Terminal \union {"deleted"}
      [] s = "FAILED" -> {"SUCCESS", "deleted"}
      [] s \in {"SUCCESS", "CANCELLED"} -> {"deleted"}
      [] s = "deleted" -> {}

(* The life of a task, over all that is recovered, completed twice, retried *)
(* and deleted: a status once left does not come back.                      *)
TasksMoveForward ==
    [][\A t \in Tasks :
          task'[t].status # task[t].status => task'[t].status \in Follows(task[t].status)]_vars

\* How many places of a run are still to come.
PlacesAhead(p) ==
    CASE p = "preparing" -> 10 [] p = "starting agent" -> 9 [] p = "agent" -> 8
      [] p = "pushing" -> 7 [] p = "pushed" -> 6 [] p = "finding" -> 5 [] p = "creating" -> 4
      [] p = "reconciling" -> 3 [] p = "completing" -> 2 [] p = "catching" -> 1
      [] p = "failing" -> 0

(* A step of the worker at a task ends its cycle, comes closer to that, or  *)
(* notes, once, why the run is aborted.                                     *)
RunsMoveForward ==
    [][\/ pc \notin Executing \union {"catching", "failing"} \/ pc' \in {"idle", "starting"}
       \/ PlacesAhead(pc') < PlacesAhead(pc)
       \/ pc' = pc /\ job.stop = None /\ job'.stop # None
       \/ Operator]_vars

(* A creation queues a task, a cancellation takes a pending one out of the *)
(* queue; what else the dashboard does leaves the status.                  *)
LEMMA OperatorMovesForward ==
  ASSUME TypeOK, Operator, NEW t \in Tasks, task'[t].status # task[t].status
  PROVE  task'[t].status \in Follows(task[t].status)
<1>1. ASSUME NEW u \in Tasks, InsertTask(u)
      PROVE  task[t].status = "absent" /\ task'[t].status = "PENDING"
  <2>1. task' = [task EXCEPT ![u].status = "PENDING"] /\ task[u].status = "absent" /\ u <= u
    BY <1>1, ManualAssumption DEF InsertTask, IsNext
  <2>2. t = u
    BY <2>1 DEF TypeOK
  <2> QED
    BY <2>1, <2>2 DEF TypeOK, Rows
<1>2. ASSUME NEW u \in Tasks, RequestCancel(u)
      PROVE  task[t].status = "PENDING" /\ task'[t].status = "CANCELLED"
  <2>1. /\ u = t
        /\ task' = [task EXCEPT ![u].cancelRequested = TRUE,
                                ![u].status = IF @ = "PENDING" THEN "CANCELLED" ELSE @]
    BY <1>2 DEF RequestCancel, TypeOK
  <2>2. task'[t].status = IF task[t].status = "PENDING" THEN "CANCELLED" ELSE task[t].status
    BY <2>1 DEF TypeOK, Rows
  <2> QED
    BY <2>2
<1>3. ASSUME NEW u \in Tasks, RequestPrRetry(u) \/ Archive(u)
      PROVE  FALSE
  <2>1. CASE RequestPrRetry(u)
    <3>1. task' = [task EXCEPT ![u] = [task[u] EXCEPT !.prRetryRequested = TRUE]]
      BY <2>1 DEF RequestPrRetry
    <3>2. task'[t].status = task[t].status
      BY <3>1 DEF TypeOK, Rows
    <3> QED
      BY <3>2
  <2>2. CASE Archive(u)
    <3>1. task' = [task EXCEPT ![u] = [task[u] EXCEPT !.archived = TRUE]]
      BY <2>2 DEF Archive
    <3>2. task'[t].status = task[t].status
      BY <3>1 DEF TypeOK, Rows
    <3> QED
      BY <3>2
  <2> QED
    BY <1>3, <2>1, <2>2
<1>4. ASSUME \/ \E p \in Projects : CheckCreation(p) \/ RequestDeletion(p)
             \/ \E u \in Tasks : MoveBranch(u)
      PROVE  FALSE
  BY <1>4 DEF CheckCreation, RequestDeletion, MoveBranch, tableVars
<1> QED
  BY <1>1, <1>2, <1>3, <1>4 DEF Operator, Follows

(* v0_tasks: a task is queued once, claimed once and ended, and changes its *)
(* status five times at most, whatever is recovered, lost or retried.       *)
THEOREM TasksGetOn == Spec => TasksMoveForward
<1> DEFINE Forward == \A t \in Tasks :
              task'[t].status # task[t].status => task'[t].status \in Follows(task[t].status)
<1>1. ASSUME IInv, [Next]_vars PROVE Forward
  <2>1. CASE Operator
    BY <1>1, <2>1, OperatorMovesForward DEF IInv
  <2>2. CASE CompleteInterruptedTask \/ RecordSuccess \/ RecordFailure
    <3>1. Completes /\ job.task \in Tasks
      BY <1>1, <2>2, CompletionStep DEF IInv, JobFitsTask, Busy, Executing,
         CompleteInterruptedTask, RecordSuccess, RecordFailure
    <3>2. \A t \in Tasks : task'[t] # task[t] =>
             /\ t = job.task /\ Workable /\ task'[t].status \in Terminal
             /\ job.retry => task'[t].status \in {"FAILED", "SUCCESS"}
      BY <3>1 DEF Completes, EndsItsTask, UpdatesRow
    <3>3. ASSUME NEW t \in Tasks, task'[t].status # task[t].status
          PROVE  \/ task[t].status = "RUNNING" /\ task'[t].status \in Terminal
                 \/ task[t].status = "FAILED" /\ task'[t].status = "SUCCESS"
      BY <3>2, <3>3 DEF Workable, Recoverable
    <3> QED
      BY <3>3 DEF Follows
  <2>3. CASE ClaimPending
    <3>1. \/ task' = task
          \/ \E t \in Tasks : /\ task[t].status = "PENDING"
                              /\ task' = [task EXCEPT ![t].status = "RUNNING"]
      BY <2>3 DEF ClaimPending
    <3>2. ASSUME NEW t \in Tasks, task[t].status = "PENDING",
                 task' = [task EXCEPT ![t].status = "RUNNING"]
          PROVE  Forward
      <4>1. task'[t].status = "RUNNING" /\ \A u \in Tasks \ {t} : task'[u] = task[u]
        BY <1>1, <3>2, ClaimStep DEF IInv, UpdatesRow
      <4> QED
        BY <3>2, <4>1 DEF Follows
    <3> QED
      BY <3>1, <3>2
  <2>4. CASE ProcessDeletion
    <3>1. PICK p : task' = Gone(p)
      BY <2>4 DEF ProcessDeletion
    <3>2. ASSUME NEW t \in Tasks, task'[t].status # task[t].status
          PROVE  task'[t].status = "deleted" /\ task[t].status # "absent"
      BY <3>1, <3>2 DEF Gone, NewTask
    <3>3. ASSUME NEW t \in Tasks
          PROVE  task[t].status \in {"absent", "deleted"} \union Active \union Terminal
      BY <1>1 DEF IInv, TypeOK, Rows
    <3>4. ASSUME NEW s \in {"deleted"} \union Active \union Terminal, s # "deleted"
          PROVE  "deleted" \in Follows(s)
      BY <3>4 DEF Follows, Active, Terminal
    <3> QED
      BY <3>2, <3>3, <3>4
  <2>5. CASE task' = task
    BY <2>5
  <2>6. Next => \/ Operator \/ CompleteInterruptedTask \/ RecordSuccess \/ RecordFailure
                \/ ClaimPending \/ ProcessDeletion \/ task' = task
    BY DEF Next, Worker, Recover, RunOnce, Execute, tableVars, FindInterruptedTask,
       RetryPullRequest, NothingBeforeClaim, Prepare, ReadyWithoutChanges, StartAgent, AgentEnds,
       Push, MarkPushed, FindPullRequest, CreatePullRequest, ReconcilePullRequest, Abort,
       StepThrows, CatchExecution, CatchRetry, Crash
  <2>7. UNCHANGED vars => task' = task
    BY DEF vars, tableVars
  <2> QED
    BY <1>1, <2>1, <2>2, <2>3, <2>4, <2>5, <2>6, <2>7
<1>2. IInv /\ [Next]_vars => [Forward]_vars
  BY <1>1
<1> QED
  BY <1>2, Invariance, PTL DEF Spec, TasksMoveForward

(* The numbers of the places. *)
LEMMA PlacesAreOrdered ==
    /\ PlacesAhead("preparing") = 10 /\ PlacesAhead("agent") = 8
    /\ PlacesAhead("pushing") = 7 /\ PlacesAhead("pushed") = 6 /\ PlacesAhead("finding") = 5
    /\ PlacesAhead("creating") = 4 /\ PlacesAhead("reconciling") = 3
    /\ PlacesAhead("completing") = 2 /\ PlacesAhead("catching") = 1
    /\ PlacesAhead("failing") = 0
  BY DEF PlacesAhead

(* The same of the place whose name has a blank, which the SMT solver cannot   *)
(* read: it keeps a lemma of its own.                                      *)
LEMMA AgentStartIsOrdered == PlacesAhead("starting agent") = 9
  BY DEF PlacesAhead

(* From a place to the next, or to the catch blocks. *)
LEMMA NextPlaceIsCloser ==
  ASSUME \/ pc = "preparing" /\ pc' \in {"starting agent", "completing", "catching"}
         \/ pc = "starting agent" /\ pc' \in {"agent", "catching"}
         \/ pc = "agent" /\ pc' \in {"pushing", "completing", "catching"}
         \/ pc = "pushing" /\ pc' \in {"pushed", "catching"}
         \/ pc = "pushed" /\ pc' \in {"finding", "catching"}
         \/ pc = "finding" /\ pc' \in {"completing", "creating", "reconciling"}
         \/ pc = "creating" /\ pc' \in {"completing", "reconciling"}
         \/ pc = "reconciling" /\ pc' \in {"completing", "catching"}
         \/ pc = "completing" /\ pc' = "catching"
         \/ pc = "catching" /\ pc' = "failing"
  PROVE  PlacesAhead(pc') < PlacesAhead(pc)
<1>1. CASE pc = "preparing" /\ pc' = "starting agent"
  <2>1. PlacesAhead(pc) = 10 /\ PlacesAhead(pc') = 9
    BY <1>1, PlacesAreOrdered, AgentStartIsOrdered
  <2> QED
    BY ONLY <2>1
<1>2. CASE pc = "starting agent"
  <2>1. PlacesAhead(pc) = 9 /\ (PlacesAhead(pc') = 8 \/ PlacesAhead(pc') = 1)
    BY <1>2, PlacesAreOrdered, AgentStartIsOrdered
  <2> QED
    BY ONLY <2>1
<1>3. CASE /\ pc \in {"preparing", "agent", "pushing", "pushed"}
           /\ pc' \in {"pushing", "pushed", "finding", "completing", "catching"}
           /\ pc = "pushing" => pc' # "pushing"
           /\ pc = "pushed" => pc' \notin {"pushing", "pushed"}
  BY ONLY <1>3, PlacesAreOrdered
<1>4. CASE \/ pc = "finding" /\ pc' \in {"completing", "creating", "reconciling"}
           \/ pc = "creating" /\ pc' \in {"completing", "reconciling"}
           \/ pc = "reconciling" /\ pc' \in {"completing", "catching"}
           \/ pc = "completing" /\ pc' = "catching"
           \/ pc = "catching" /\ pc' = "failing"
  BY ONLY <1>4, PlacesAreOrdered
<1> QED
  BY <1>1, <1>2, <1>3, <1>4

(* executeTask and retryPullRequestTask: a run has finitely many steps; it  *)
(* does not return to a place it has left. What EveryTaskEnds adds is that  *)
(* the worker goes on, and that its cycles reach the task.                  *)
THEOREM RunsGetOn == Spec => RunsMoveForward
<1> DEFINE Forward ==
       \/ pc \notin Executing \union {"catching", "failing"} \/ pc' \in {"idle", "starting"}
       \/ PlacesAhead(pc') < PlacesAhead(pc)
       \/ pc' = pc /\ job.stop = None /\ job'.stop # None
       \/ Operator
<1>1. ASSUME IInv, Next PROVE Forward
  <2>1. CASE \/ Prepare \/ ReadyWithoutChanges \/ StartAgent \/ AgentEnds \/ Push \/ MarkPushed
             \/ FindPullRequest \/ CreatePullRequest \/ ReconcilePullRequest \/ CatchExecution
             \/ CatchRetry
    <3>1. \/ pc = "preparing" /\ pc' \in {"starting agent", "completing"}
          \/ pc = "starting agent" /\ pc' = "agent"
          \/ pc = "agent" /\ pc' \in {"pushing", "completing"}
          \/ pc = "pushing" /\ pc' \in {"pushed", "catching"}
          \/ pc = "pushed" /\ pc' = "finding"
          \/ pc = "finding" /\ pc' \in {"completing", "creating", "reconciling"}
          \/ pc = "creating" /\ pc' \in {"completing", "reconciling"}
          \/ pc = "reconciling" /\ pc' \in {"completing", "catching"}
          \/ pc = "catching" /\ pc' = "failing"
      BY <2>1 DEF Prepare, ReadyWithoutChanges, StartAgent, AgentEnds, Push, MarkPushed, Step,
         FindPullRequest, CreatePullRequest, ReconcilePullRequest, CatchExecution, CatchRetry
    <3>2. PlacesAhead(pc') < PlacesAhead(pc)
      BY <3>1, NextPlaceIsCloser
    <3> QED
      BY <3>2
  <2>2. CASE RecordSuccess \/ RecordFailure
    <3>1. pc' = "idle" \/ (pc = "completing" /\ pc' = "catching")
      BY <2>2 DEF RecordSuccess, RecordFailure
    <3> QED
      BY <3>1, NextPlaceIsCloser
  <2>3. CASE Abort
    <3>1. /\ pc \in Executing /\ job.stop = None /\ job'.stop \in {"timeout", "cancel"}
          /\ pc' = pc \/ (pc \in Interruptible /\ pc' = "catching")
      BY <2>3, <1>1 DEF Abort, IInv, TypeOK, Jobs
    <3>2. pc \in Interruptible /\ pc' = "catching" => PlacesAhead(pc') < PlacesAhead(pc)
      BY NextPlaceIsCloser DEF Interruptible
    <3>3. job'.stop # None
      BY <3>1, ManualAssumption
    <3> QED
      BY <3>1, <3>2, <3>3
  <2>4. CASE StepThrows
    <3>1. pc \in Interruptible \union {"pushed"} /\ pc' = "catching"
      BY <2>4 DEF StepThrows
    <3>2. PlacesAhead(pc') < PlacesAhead(pc)
      BY <3>1, NextPlaceIsCloser DEF Interruptible
    <3> QED
      BY <3>2
  <2>5. CASE Crash \/ Operator
    BY <2>5 DEF Crash
  <2>6. CASE Recover \/ RunOnce
    <3>1. pc \in {"starting", "recovering", "idle", "claiming"}
      BY <2>6 DEF Recover, RunOnce, FindInterruptedTask, CompleteInterruptedTask, ProcessDeletion,
         RetryPullRequest, NothingBeforeClaim, ClaimPending
    <3> QED
      BY <3>1 DEF Executing, Interruptible
  <2> QED
    BY <1>1, <2>1, <2>2, <2>3, <2>4, <2>5, <2>6 DEF Next, Worker, Execute
<1>2. IInv /\ [Next]_vars => [Forward]_vars
  BY <1>1
<1> QED
  BY <1>2, Invariance, PTL DEF Spec, RunsMoveForward

-----------------------------------------------------------------------------
(* What is published.                                                      *)

\* A row r of task t, given whether t has a pull request and was cancelled at its push.
RowTrue(t, r, opened, cancelled) ==
    /\ r.pullRecorded => opened
    /\ r.status = "SUCCESS" => r.pullRecorded \/ t \in Initializations
    /\ r.status \in {"absent", "PENDING", "RUNNING"} => r.error = None /\ ~r.prRetryRequested
    /\ r.status \in {"absent", "PENDING"} => ~opened
    /\ cancelled => /\ ~opened /\ r.error # "GITHUB_PR_CREATE_FAILED" /\ ~r.prRetryRequested
                    /\ r.status = "deleted" \/ r.cancelRequested

RowsTrue == \A t \in Tasks : RowTrue(t, task[t], pull[t], t \in cancelledAtPush)

\* What the worker believes and does about the pull request of its task.
JobTrue ==
    /\ job.published => pull[job.task]
    /\ pc = "completing" => job.published \/ job.task \in Initializations
    /\ pc \in Interruptible \union {"pushed"} => ~pull[job.task] /\ job.error = None
    /\ job.task \in cancelledAtPush =>
          pc \notin {"finding", "creating", "reconciling"} /\ job.error = None

PublicationInv == RowsTrue /\ JobTrue

(* Nothing is published at the start. *)
LEMMA PublicationInit == Init => PublicationInv
<1> SUFFICES ASSUME Init PROVE PublicationInv
  OBVIOUS
<1>1. cancelledAtPush = {} /\ \A t \in Tasks : task[t] = NewTask /\ ~pull[t]
  BY DEF Init
<1>2. RowsTrue
  BY <1>1 DEF RowsTrue, RowTrue, NewTask
<1>3. JobTrue
  BY <1>1 DEF Init, JobTrue, NoJob, Interruptible
<1> QED
  BY <1>2, <1>3 DEF PublicationInv

(* What the dashboard changes of a row says nothing new about publication. *)
LEMMA OperatorPublishes ==
  ASSUME IInv, PublicationInv, Operator
  PROVE  PublicationInv'
<1>t. task \in [Tasks -> Rows]
  BY DEF IInv, TypeOK
<1>u. UNCHANGED <<pc, job>> /\ UNCHANGED <<pull, cancelledAtPush>>
  BY DEF Operator, CheckCreation, RequestDeletion, InsertTask, RequestCancel, RequestPrRetry,
         Archive, MoveBranch, Dashboard, githubVars, workerVars, historyVars
<1>1. JobTrue'
  BY <1>u DEF PublicationInv, JobTrue
<1>2. ASSUME NEW t \in Tasks, NEW r, task' = [task EXCEPT ![t] = r],
             RowTrue(t, r, pull[t], t \in cancelledAtPush)
      PROVE  RowsTrue'
  BY <1>2, <1>t, <1>u DEF PublicationInv, RowsTrue
<1>3. ASSUME task' = task PROVE RowsTrue'
  BY <1>3, <1>u DEF PublicationInv, RowsTrue
<1>4. ASSUME NEW t \in Tasks, InsertTask(t) PROVE RowsTrue'
  <2> DEFINE r == [task[t] EXCEPT !.status = "PENDING"]
  <2>1. task[t].status = "absent"
    BY <1>4, ManualAssumption DEF InsertTask, IsNext
  <2>2. RowTrue(t, task[t], pull[t], t \in cancelledAtPush) /\ task[t] \in Rows
    BY <1>t DEF PublicationInv, RowsTrue
  <2>3. RowTrue(t, r, pull[t], t \in cancelledAtPush)
    BY <2>1, <2>2 DEF RowTrue, Rows
  <2>4. task' = task \/ task' = [task EXCEPT ![t] = r]
    BY <1>4 DEF InsertTask
  <2> HIDE DEF r
  <2>5. CASE task' = task
    BY <2>5, <1>3
  <2>6. CASE task' = [task EXCEPT ![t] = r]
    BY <2>6, <2>3, <1>2
  <2> QED
    BY <2>4, <2>5, <2>6
<1>5. ASSUME NEW t \in Tasks, RequestCancel(t) PROVE RowsTrue'
  <2> DEFINE r == [task[t] EXCEPT !.cancelRequested = TRUE,
                                  !.status = IF @ = "PENDING" THEN "CANCELLED" ELSE @]
  <2>2. RowTrue(t, task[t], pull[t], t \in cancelledAtPush) /\ task[t] \in Rows
    BY <1>t DEF PublicationInv, RowsTrue
  <2>3. RowTrue(t, r, pull[t], t \in cancelledAtPush)
    BY <2>2 DEF RowTrue, Rows
  <2>4. task' = [task EXCEPT ![t] = r]
    BY <1>5 DEF RequestCancel
  <2> HIDE DEF r
  <2> QED
    BY <2>3, <2>4, <1>2
<1>6. ASSUME NEW t \in Tasks, RequestPrRetry(t) PROVE RowsTrue'
  <2> DEFINE r == [task[t] EXCEPT !.prRetryRequested = TRUE]
  <2>1. task[t].status = "FAILED" /\ task[t].error = "GITHUB_PR_CREATE_FAILED"
    BY <1>6 DEF RequestPrRetry
  <2>2. RowTrue(t, task[t], pull[t], t \in cancelledAtPush) /\ task[t] \in Rows
    BY <1>t DEF PublicationInv, RowsTrue
  <2>3. RowTrue(t, r, pull[t], t \in cancelledAtPush)
    BY <2>1, <2>2 DEF RowTrue, Rows
  <2>4. task' = [task EXCEPT ![t] = r]
    BY <1>6 DEF RequestPrRetry
  <2> HIDE DEF r
  <2> QED
    BY <2>3, <2>4, <1>2
<1>7. ASSUME NEW t \in Tasks, Archive(t) PROVE RowsTrue'
  <2> DEFINE r == [task[t] EXCEPT !.archived = TRUE]
  <2>2. RowTrue(t, task[t], pull[t], t \in cancelledAtPush) /\ task[t] \in Rows
    BY <1>t DEF PublicationInv, RowsTrue
  <2>3. RowTrue(t, r, pull[t], t \in cancelledAtPush)
    BY <2>2 DEF RowTrue, Rows
  <2>4. task' = [task EXCEPT ![t] = r]
    BY <1>7 DEF Archive
  <2> HIDE DEF r
  <2> QED
    BY <2>3, <2>4, <1>2
<1>8. \/ task' = task
      \/ \E t \in Tasks : \/ InsertTask(t) \/ RequestCancel(t) \/ RequestPrRetry(t)
                          \/ Archive(t)
  BY DEF Operator, CheckCreation, RequestDeletion, MoveBranch, tableVars
<1>9. RowsTrue'
  BY <1>3, <1>4, <1>5, <1>6, <1>7, <1>8
<1> QED
  BY <1>1, <1>9 DEF PublicationInv

(* A completion records a pull request only if there is one, and a failure  *)
(* that offers a retry only for a task that was not cancelled at its push.  *)
LEMMA CompletionPublishes ==
  ASSUME IInv, PublicationInv, UNCHANGED <<pull, cancelledAtPush>>,
         NEW t \in Tasks, NEW s \in Terminal, NEW e \in Errors \union {None}, NEW b \in BOOLEAN,
         Complete(t, s, e, b),
         b => pull[t], s = "SUCCESS" => b \/ t \in Initializations,
         t \in cancelledAtPush => e # "GITHUB_PR_CREATE_FAILED"
  PROVE  RowsTrue'
<1> DEFINE r == [task[t] EXCEPT !.status = s, !.error = e,
                                !.pullRecorded = @ \/ b, !.prRetryRequested = FALSE]
<1>1. task[t] \in Rows /\ task \in [Tasks -> Rows]
  BY DEF IInv, TypeOK
<1>2. RowTrue(t, task[t], pull[t], t \in cancelledAtPush)
  BY DEF PublicationInv, RowsTrue
<1>3. CASE task' = task
  BY <1>3 DEF PublicationInv, RowsTrue
<1>4. CASE task' = [task EXCEPT ![t] = r] /\ task[t].status \in {"RUNNING", "FAILED"}
  <2>1. RowTrue(t, r, pull[t], t \in cancelledAtPush)
    BY <1>1, <1>2, <1>4 DEF RowTrue, Rows, Terminal
  <2>2. task'[t] = r /\ \A u \in Tasks \ {t} : task'[u] = task[u]
    BY <1>1, <1>4
  <2> HIDE DEF r
  <2> QED
    BY <2>1, <2>2 DEF PublicationInv, RowsTrue
<1> QED
  BY <1>3, <1>4 DEF Complete

(* The three calls of complete.                                            *)
LEMMA CompletionsPublish ==
  ASSUME IInv, PublicationInv, CompleteInterruptedTask \/ RecordSuccess \/ RecordFailure
  PROVE  PublicationInv'
<1>t. /\ task \in [Tasks -> Rows] /\ job \in Jobs /\ cancelledAtPush \subseteq Tasks
      /\ job.task \in Tasks /\ job.published \in BOOLEAN /\ job.error \in Errors \union {None}
  BY DEF IInv, TypeOK, Jobs, JobFitsTask, Busy, Executing, Interruptible,
         CompleteInterruptedTask, RecordSuccess, RecordFailure
<1>u. UNCHANGED <<pull, cancelledAtPush>>
  BY DEF CompleteInterruptedTask, RecordSuccess, RecordFailure, githubVars, historyVars
<1>k. task' = task => RowsTrue'
  BY <1>u DEF PublicationInv, RowsTrue
<1>n. job' = NoJob /\ pc' \in {"idle", "starting"} => JobTrue'
  <2>1. ~NoJob.published /\ NoJob.error = None /\ NoJob.task = None
    BY DEF NoJob
  <2>2. None \notin cancelledAtPush'
    BY <1>t, <1>u, ManualAssumption
  <2> QED
    BY <2>1, <2>2 DEF JobTrue, Interruptible
<1> USE DEF Terminal, Errors
<1>1. CASE CompleteInterruptedTask
  <2>1. JobTrue'
    BY <1>1, <1>n DEF CompleteInterruptedTask
  <2>2. CASE job.cancelled
    <3>1. task' = task \/ Complete(job.task, "CANCELLED", None, FALSE)
      BY <1>1, <2>2 DEF CompleteInterruptedTask
    <3> QED
      BY <2>1, <3>1, <1>t, <1>u, <1>k, CompletionPublishes, ManualAssumption DEF PublicationInv
  <2>3. CASE ~job.cancelled
    <3>1. task' = task \/ Complete(job.task, "FAILED", "WORKER_RESTARTED", FALSE)
      BY <1>1, <2>3 DEF CompleteInterruptedTask
    <3> QED
      BY <2>1, <3>1, <1>t, <1>u, <1>k, CompletionPublishes DEF PublicationInv
  <2> QED
    BY <2>2, <2>3
<1>2. CASE RecordSuccess
  <2>1. task' = task \/ Complete(job.task, "SUCCESS", None, job.published)
    BY <1>2 DEF RecordSuccess
  <2>2. /\ job.published => pull[job.task]
        /\ job.published \/ job.task \in Initializations
    BY <1>2 DEF PublicationInv, JobTrue, RecordSuccess
  <2>3. RowsTrue'
    BY <2>1, <2>2, <1>t, <1>u, <1>k, CompletionPublishes, ManualAssumption
  <2>4. JobTrue'
    <3>1. CASE pc' = "catching" /\ job' = job
      BY <3>1, <1>2, <1>u DEF PublicationInv, JobTrue, Interruptible, RecordSuccess
    <3> QED
      BY <3>1, <1>2, <1>n, SuccessLeaves
  <2> QED
    BY <2>3, <2>4 DEF PublicationInv
<1>3. CASE RecordFailure
  <2>1. JobTrue'
    BY <1>3, <1>n DEF RecordFailure
  <2>2. CASE job.cancelled
    <3>1. task' = task \/ Complete(job.task, "CANCELLED", None, FALSE)
      BY <1>3, <2>2 DEF RecordFailure
    <3> QED
      BY <2>1, <3>1, <1>t, <1>u, <1>k, CompletionPublishes, ManualAssumption DEF PublicationInv
  <2>3. CASE ~job.cancelled
    <3>1. task' = task \/ Complete(job.task, "FAILED", FailureCode, FALSE)
      BY <1>3, <2>3 DEF RecordFailure
    <3>2. FailureCode \in Errors
      BY <1>t DEF FailureCode
    <3>3. job.task \in cancelledAtPush => FailureCode # "GITHUB_PR_CREATE_FAILED"
      BY DEF FailureCode, PublicationInv, JobTrue
    <3> QED
      BY <2>1, <3>1, <3>2, <3>3, <1>t, <1>u, <1>k, CompletionPublishes DEF PublicationInv
  <2> QED
    BY <2>2, <2>3
<1> QED
  BY <1>1, <1>2, <1>3

(* Claims and deletions leave what is published as it is.                  *)
LEMMA ClaimPublishes ==
  ASSUME IInv, PublicationInv, ClaimPending \/ ProcessDeletion
  PROVE  PublicationInv'
<1>t. task \in [Tasks -> Rows] /\ cancelledAtPush \subseteq Tasks
  BY DEF IInv, TypeOK
<1>u. UNCHANGED <<pull, cancelledAtPush>>
  BY DEF ClaimPending, ProcessDeletion, githubVars, historyVars
<1>j. job = NoJob
  BY DEF IInv, JobFitsTask, Busy, Executing, Interruptible, ClaimPending, ProcessDeletion
<1>n. job' = NoJob /\ pc' = "idle" => JobTrue'
  BY <1>t, <1>u, ManualAssumption DEF JobTrue, NoJob, Interruptible
<1>1. CASE ProcessDeletion
  <2>1. JobTrue'
    BY <1>1, <1>n, <1>j DEF ProcessDeletion, workerVars
  <2>2. \A t \in Tasks : \/ task'[t] = task[t]
                         \/ task'[t] = [NewTask EXCEPT !.status = "deleted"]
    BY <1>1 DEF ProcessDeletion, Gone
  <2>3. \A t \in Tasks : RowTrue(t, [NewTask EXCEPT !.status = "deleted"], pull[t],
                                 t \in cancelledAtPush) \/ t \in cancelledAtPush
    BY DEF RowTrue, NewTask
  <2>4. \A t \in Tasks : RowTrue(t, [NewTask EXCEPT !.status = "deleted"], pull[t],
                                 t \in cancelledAtPush)
    BY <2>3, ManualAssumption DEF PublicationInv, RowsTrue, RowTrue, NewTask
  <2> QED
    BY <2>1, <2>2, <2>4, <1>u DEF PublicationInv, RowsTrue
<1>2. ASSUME NEW t \in Tasks, task[t].status = "PENDING",
             task' = [task EXCEPT ![t].status = "RUNNING"],
             \/ pc' = "preparing" /\ job' = [NoJob EXCEPT !.task = t]
             \/ pc' = "idle" /\ job' = job
      PROVE  PublicationInv'
  <2> DEFINE r == [task[t] EXCEPT !.status = "RUNNING"]
  <2>1. RowTrue(t, task[t], pull[t], t \in cancelledAtPush) /\ task[t] \in Rows
    BY <1>t DEF PublicationInv, RowsTrue
  <2>2. RowTrue(t, r, pull[t], t \in cancelledAtPush) /\ ~pull[t]
    BY <1>2, <2>1 DEF RowTrue, Rows
  <2>3. task'[t] = r /\ \A u \in Tasks \ {t} : task'[u] = task[u]
    BY <1>2, <1>t
  <2> HIDE DEF r
  <2>4. RowsTrue'
    BY <2>2, <2>3, <1>u DEF PublicationInv, RowsTrue
  <2>5. JobTrue'
    <3>1. CASE pc' = "preparing" /\ job' = [NoJob EXCEPT !.task = t]
      BY <3>1, <2>2, <1>u DEF JobTrue, NoJob, Interruptible
    <3> QED
      BY <3>1, <1>2, <1>n, <1>j
  <2> QED
    BY <2>4, <2>5 DEF PublicationInv
<1>3. CASE task' = task /\ pc' = "idle" /\ job' = job
  BY <1>3, <1>u, <1>n, <1>j DEF PublicationInv, RowsTrue
<1> QED
  BY <1>1, <1>2, <1>3 DEF ClaimPending

(* The push is the moment at which a cancellation counts.                  *)
LEMMA PushPublishes ==
  ASSUME IInv, PublicationInv, Push
  PROVE  PublicationInv'
<1>1. /\ job.task \in Tasks /\ task[job.task].status = "RUNNING"
  BY DEF IInv, JobFitsTask, Workable, Busy, Executing, Interruptible, Push
<1>2. UNCHANGED <<task, pull, job>> /\ pc' \in {"pushed", "catching"}
  BY DEF Push, tableVars
<1>3. ~pull[job.task] /\ job.error = None
  BY DEF PublicationInv, JobTrue, Interruptible, Push
<1>4. /\ cancelledAtPush \subseteq cancelledAtPush'
      /\ cancelledAtPush' \subseteq cancelledAtPush \union {job.task}
      /\ job.task \in cancelledAtPush' \ cancelledAtPush => task[job.task].cancelRequested
  BY DEF Push, NotCancelled
<1>5. ASSUME NEW t \in Tasks PROVE RowTrue(t, task[t], pull[t], t \in cancelledAtPush')
  <2>1. RowTrue(t, task[t], pull[t], t \in cancelledAtPush)
    BY DEF PublicationInv, RowsTrue
  <2>2. CASE t \in cancelledAtPush' \ cancelledAtPush
    <3>1. t = job.task
      BY <2>2, <1>4
    <3>2. task[t].error = None /\ ~task[t].prRetryRequested
      BY <2>1, <3>1, <1>1 DEF RowTrue
    <3> QED
      BY <2>1, <2>2, <3>1, <3>2, <1>3, <1>4, ManualAssumption DEF RowTrue
  <2>3. CASE t \in cancelledAtPush' <=> t \in cancelledAtPush
    BY <2>1, <2>3 DEF RowTrue
  <2> QED
    BY <2>2, <2>3, <1>4
<1>6. JobTrue'
  BY <1>2, <1>3 DEF PublicationInv, JobTrue, Interruptible
<1> QED
  BY <1>2, <1>5, <1>6 DEF PublicationInv, RowsTrue

(* A pull request is opened only for a task that was not cancelled.        *)
LEMMA CreationPublishes ==
  ASSUME IInv, PublicationInv, CreatePullRequest
  PROVE  PublicationInv'
<1>t. pull \in [Tasks -> BOOLEAN] /\ job \in Jobs
  BY DEF IInv, TypeOK
<1>1. job.task \in Tasks /\ Workable
  BY DEF IInv, JobFitsTask, Busy, Executing, CreatePullRequest
<1>2. UNCHANGED <<task, cancelledAtPush>>
  BY DEF CreatePullRequest, tableVars, historyVars
<1>3. job.task \notin cancelledAtPush
  BY DEF PublicationInv, JobTrue, CreatePullRequest
<1>4. /\ \A t \in Tasks : t # job.task => pull'[t] = pull[t]
      /\ pull[job.task] => pull'[job.task]
  BY <1>t, <1>1 DEF CreatePullRequest
<1>5. ASSUME NEW t \in Tasks PROVE RowTrue(t, task[t], pull'[t], t \in cancelledAtPush)
  <2>1. RowTrue(t, task[t], pull[t], t \in cancelledAtPush)
    BY DEF PublicationInv, RowsTrue
  <2>2. CASE t = job.task
    <3>1. task[t].status \notin {"absent", "PENDING"}
      BY <2>2, <1>1 DEF Workable, Recoverable
    <3> QED
      BY <2>1, <2>2, <3>1, <1>3, <1>4 DEF RowTrue
  <2>3. CASE t # job.task
    BY <2>1, <2>3, <1>4
  <2> QED
    BY <2>2, <2>3
<1>6. JobTrue'
  <2>1. \/ pc' = "completing" /\ pull'[job.task] /\ job' = [job EXCEPT !.published = TRUE]
        \/ pc' = "reconciling" /\ job' = job
    BY <1>t, <1>1 DEF CreatePullRequest
  <2>2. CASE pc' = "completing" /\ pull'[job.task] /\ job' = [job EXCEPT !.published = TRUE]
    <3>1. job'.task = job.task /\ job'.published
      BY <2>2, <1>t DEF Jobs
    <3> QED
      BY <2>2, <3>1, <1>2, <1>3 DEF JobTrue, Interruptible
  <2>3. CASE pc' = "reconciling" /\ job' = job
    BY <2>3, <1>2, <1>3, <1>4 DEF PublicationInv, JobTrue, Interruptible
  <2> QED
    BY <2>1, <2>2, <2>3
<1> QED
  BY <1>2, <1>5, <1>6 DEF PublicationInv, RowsTrue

\* The steps that change neither rows nor pull requests nor pushes.
OnlyMoves ==
    \/ FindInterruptedTask \/ RetryPullRequest \/ NothingBeforeClaim \/ Crash \/ Prepare
    \/ ReadyWithoutChanges \/ StartAgent \/ AgentEnds \/ MarkPushed \/ FindPullRequest
    \/ ReconcilePullRequest \/ Abort \/ StepThrows \/ CatchExecution \/ CatchRetry

(* They keep what the worker believes of its pull request.                 *)
LEMMA MovesPublish ==
  ASSUME IInv, PublicationInv, OnlyMoves
  PROVE  PublicationInv'
<1>t. task \in [Tasks -> Rows] /\ job \in Jobs /\ cancelledAtPush \subseteq Tasks
  BY DEF IInv, TypeOK
<1>u. UNCHANGED <<task, pull, cancelledAtPush>>
  BY DEF OnlyMoves, FindInterruptedTask, RetryPullRequest, NothingBeforeClaim, Crash, Prepare,
         ReadyWithoutChanges, StartAgent, AgentEnds, MarkPushed, FindPullRequest,
         ReconcilePullRequest, Abort, StepThrows, CatchExecution, CatchRetry, tableVars,
         githubVars, historyVars
<1>r. RowsTrue'
  BY <1>u DEF PublicationInv, RowsTrue
<1> USE <1>t, <1>u DEF PublicationInv, JobTrue, Interruptible
<1>1. CASE FindInterruptedTask \/ NothingBeforeClaim \/ Crash
  <2>1. pc' \in {"recovering", "idle", "claiming", "starting"}
    BY <1>1 DEF FindInterruptedTask, NothingBeforeClaim, Crash
  <2>2. ~job'.published /\ job'.error = None
    <3>1. CASE Crash
      BY <3>1 DEF Crash, NoJob
    <3>2. CASE FindInterruptedTask \/ NothingBeforeClaim
      <4>1. job = NoJob
        BY <3>2 DEF IInv, JobFitsTask, Busy, Executing, FindInterruptedTask, NothingBeforeClaim
      <4>2. \/ job' = job
            \/ \E t \in Tasks :
                  job' = [NoJob EXCEPT !.task = t, !.cancelled = task[t].cancelRequested]
        BY <3>2 DEF FindInterruptedTask, NothingBeforeClaim
      <4>3. CASE job' = job
        BY <4>1, <4>3 DEF NoJob
      <4>4. ASSUME NEW t \in Tasks,
                   job' = [NoJob EXCEPT !.task = t, !.cancelled = task[t].cancelRequested]
            PROVE  ~job'.published /\ job'.error = None
        BY <4>4 DEF NoJob
      <4> QED
        BY <4>2, <4>3, <4>4
    <3> QED
      BY <1>1, <3>1, <3>2
  <2> QED
    BY <2>1, <2>2, <1>r
<1>2. CASE RetryPullRequest
  <2>1. PICK t \in Tasks : NewestRetry(t) /\ job' = [NoJob EXCEPT !.task = t, !.retry = TRUE]
    BY <1>2 DEF RetryPullRequest
  <2>2. t \notin cancelledAtPush
    BY <2>1 DEF NewestRetry, RetryCandidates, AwaitingRetry, RowsTrue, RowTrue
  <2>3. pc' = "finding" /\ job'.task = t /\ ~job'.published
    BY <1>2, <2>1 DEF RetryPullRequest, NoJob
  <2> QED
    BY <2>2, <2>3, <1>r
<1>3. CASE Prepare \/ ReadyWithoutChanges \/ StartAgent \/ AgentEnds \/ StepThrows \/ CatchRetry
  BY <1>3, <1>r DEF Prepare, ReadyWithoutChanges, StartAgent, AgentEnds, StepThrows, CatchRetry,
     Step
<1>4. CASE MarkPushed
  <2>1. job.task \in Tasks /\ task[job.task].status = "RUNNING"
    BY <1>4 DEF IInv, JobFitsTask, Workable, Busy, Executing, MarkPushed
  <2>2. job.task \notin cancelledAtPush
    BY <1>4, <2>1 DEF RowsTrue, RowTrue, MarkPushed, NotCancelled
  <2> QED
    BY <1>4, <2>2, <1>r DEF MarkPushed
<1>5. CASE FindPullRequest \/ ReconcilePullRequest
  <2>1. /\ job'.task = job.task /\ pc' \in {"completing", "creating", "reconciling", "catching"}
        /\ job'.published => job.published \/ pull[job.task]
        /\ pc' = "completing" => job'.published
    BY <1>5 DEF FindPullRequest, ReconcilePullRequest, Jobs
  <2>2. job.task \notin cancelledAtPush
    BY <1>5 DEF FindPullRequest, ReconcilePullRequest
  <2> QED
    BY <2>1, <2>2, <1>r
<1>6. CASE Abort \/ CatchExecution
  <2>1. /\ job'.task = job.task /\ job'.published = job.published /\ job'.error = job.error
        /\ pc' \in {pc, "catching", "failing"}
    BY <1>6 DEF Abort, CatchExecution, Jobs
  <2> QED
    BY <2>1, <1>r
<1> QED
  BY <1>1, <1>2, <1>3, <1>4, <1>5, <1>6 DEF OnlyMoves

(* Publication, in every reachable state. *)
LEMMA Publication == Spec => []PublicationInv
<1>1. IInv /\ PublicationInv /\ [Next]_vars => PublicationInv'
  <2> SUFFICES ASSUME IInv, PublicationInv, [Next]_vars PROVE PublicationInv'
    OBVIOUS
  <2>1. CASE UNCHANGED vars
    BY <2>1 DEF vars, tableVars, githubVars, workerVars, historyVars, PublicationInv, RowsTrue,
       JobTrue
  <2>2. CASE Next
    <3>1. \/ Operator \/ CompleteInterruptedTask \/ RecordSuccess \/ RecordFailure
          \/ ClaimPending \/ ProcessDeletion \/ Push \/ CreatePullRequest \/ OnlyMoves
      BY <2>2 DEF Next, Worker, Recover, RunOnce, Execute, OnlyMoves
    <3> QED
      BY <3>1, OperatorPublishes, CompletionsPublish, ClaimPublishes, PushPublishes,
         CreationPublishes, MovesPublish
  <2> QED
    BY <2>1, <2>2
<1> QED
  BY <1>1, PublicationInit, Invariance, PTL DEF Spec

(* Whatever answers of GitHub and of the database were lost, a recorded     *)
(* pull request exists, and only an initialization succeeds without one.   *)
THEOREM SuccessesArePublished == Spec => []SuccessIsPublished
<1>1. PublicationInv => SuccessIsPublished
  BY DEF PublicationInv, RowsTrue, RowTrue, SuccessIsPublished
<1> QED
  BY <1>1, Publication, PTL

(* A task that was cancelled before its push gets no pull request: neither  *)
(* its execution nor a recovery nor a retry comes to open one.             *)
THEOREM CancellationsHold == Spec => []CancelledIsNotPublished
<1>1. IInv /\ PublicationInv => CancelledIsNotPublished
  BY DEF IInv, TypeOK, PublicationInv, RowsTrue, RowTrue, CancelledIsNotPublished
<1> QED
  BY <1>1, Invariance, Publication, PTL

-----------------------------------------------------------------------------
(* The log of a task (TaskHistory).                                        *)

\* What the worker writes, and where it is when it writes it.
Commands == {"fetch", "branch", "commit", "push"}
Topics == Commands \union
    {"note", "output", "diagnostic", "execution", "agent", "checkout", "inspection", "capability",
     "requirement", "configuration", "runtime", "gates", "creation", "pull request",
     "reconciliation"}
Messages ==
    [kind : {"task", "output", "error", "command", "agent", "setup", "test", "github"},
     what : Topics \union WorkflowStates,
     outcome : {"waiting", "started", "passed", "failed", "warned", "cancelled", "noted"}]

Codes == HumanCodes \union
    {"none", "EXECUTION_FAILED", "AGENT_EXECUTION_FAILED", "NO_CHANGES",
     "ADE_SETUP_STILL_INCOMPLETE", "GITHUB_PR_CREATE_FAILED", "WORKER_RESTARTED"}

HistoryRows ==
    [status : {"PENDING", "RUNNING", "SUCCESS", "FAILED", "CANCELLED"}, state : WorkflowStates,
     cancel : BOOLEAN, retry : BOOLEAN, code : Codes, started : BOOLEAN, finished : BOOLEAN,
     before : Nat]

HistoryPlaces == ExecutorPlaces \union {"idle", "catching", "recording", "closing", "down"}
HistoryRuns ==
    [at : HistoryPlaces, begun : BOOLEAN, attempt : Nat, retrying : BOOLEAN, code : Codes]

HistoryTypes ==
    /\ logs \in Seq(Messages) /\ Len(logs) <= LogRoom
    /\ row \in HistoryRows /\ run \in HistoryRuns
    /\ audited \in BOOLEAN /\ losses \in Nat

(* The words it uses.                                                      *)
LEMMA Wording ==
  /\ Note \in Messages /\ Output \in Messages /\ Diagnostic \in Messages /\ Stopped \in Messages
  /\ Agent("started") \in Messages /\ Agent("passed") \in Messages /\ Agent("failed") \in Messages
  /\ \A c \in Commands : \A o \in {"started", "passed", "failed"} : Command(c, o) \in Messages
  /\ \A s \in WorkflowStates : Workflow(s) \in Messages
  /\ Message("test", "gates", "passed") \in Messages
  /\ Message("github", "creation", "started") \in Messages
  /\ Message("github", "pull request", "passed") \in Messages
  /\ Message("github", "reconciliation", "passed") \in Messages
  /\ Message("task", "cancelled", "cancelled") \in Messages
  /\ Setup("checkout", "passed") \in Messages /\ Setup("runtime", "passed") \in Messages
  /\ \A found \in DOMAIN Inspections : Inspections[found] \in Seq(Messages)
<1> USE DEF Message, Messages, Topics, Commands, WorkflowStates
<1>1. \A c \in Commands : \A o \in {"started", "passed", "failed"} : Command(c, o) \in Messages
  BY DEF Command
<1>2. \A s \in WorkflowStates : Workflow(s) \in Messages
  <2>1. \A s \in WorkflowStates : WorkflowOutcome[s] \in
          {"waiting", "started", "passed", "failed", "warned", "cancelled", "noted"}
    BY ONLY DEF WorkflowOutcome
  <2> HIDE DEF WorkflowStates
  <2> QED
    BY ONLY <2>1 DEF Workflow
<1>3. \A w \in {"checkout", "inspection", "capability", "requirement", "configuration", "runtime"} :
        \A o \in {"passed", "warned", "failed"} : Setup(w, o) \in Messages
  BY DEF Setup
<1>4. \A found \in DOMAIN Inspections : Inspections[found] \in Seq(Messages)
  <2> DEFINE ok(w) == Setup(w, "passed")
             odd(w) == Setup(w, "warned")
             bad(w) == Setup(w, "failed")
  <2>1. /\ ok("inspection") \in Messages /\ odd("inspection") \in Messages
        /\ bad("inspection") \in Messages /\ odd("capability") \in Messages
        /\ bad("requirement") \in Messages /\ bad("configuration") \in Messages
    BY <1>3
  <2>2. /\ Inspections["ready"] = <<ok("inspection")>>
        /\ Inspections["incomplete"] = <<odd("inspection"), odd("capability"), bad("requirement")>>
        /\ Inspections["invalid"] = <<bad("inspection"), bad("configuration")>>
    BY ONLY DEF Inspections
  <2>3. DOMAIN Inspections = {"ready", "incomplete", "invalid"}
    BY ONLY DEF Inspections
  <2> HIDE DEF ok, odd, bad, Message, Messages, Topics, Commands, WorkflowStates
  <2>4. /\ Inspections["ready"] \in Seq(Messages) /\ Inspections["incomplete"] \in Seq(Messages)
        /\ Inspections["invalid"] \in Seq(Messages)
    BY ONLY <2>1, <2>2
  <2> QED
    BY ONLY <2>3, <2>4
<1> QED
  BY <1>1, <1>2, <1>3, <1>4 DEF Note, Output, Diagnostic, Stopped, Agent

\* The log holds a diagnostic.
Told == \E k \in 1..Len(logs) : logs[k].what = "diagnostic"
NextTold == \E k \in 1..Len(logs') : logs'[k].what = "diagnostic"

(* A message is never taken back, and the last of them is dropped or cut   *)
(* only when the log is full.                                              *)
LEMMA WriteKeeps ==
  ASSUME HistoryTypes, NEW ms \in Seq(Messages), Write(ms)
  PROVE  /\ logs' \in Seq(Messages) /\ Len(logs') <= LogRoom /\ Len(logs) <= Len(logs')
         /\ \A k \in 1..Len(logs) : logs'[k] = logs[k]
         /\ Len(logs') < LogRoom => logs' = logs \o ms
<1> DEFINE all == logs \o ms
<1>1. /\ logs \in Seq(Messages) /\ Len(logs) \in Nat /\ Len(logs) <= LogRoom /\ LogRoom \in Nat
      /\ Len(ms) \in Nat
  BY HistoryAssumption DEF HistoryTypes
<1>2. all \in Seq(Messages) /\ Len(all) = Len(logs) + Len(ms)
      /\ \A k \in 1..Len(logs) : all[k] = logs[k]
  BY <1>1
<1>3. \/ Len(all) < LogRoom /\ logs' = all
      \/ /\ ~(Len(all) < LogRoom)
         /\ \/ logs' = SubSeq(all, 1, LogRoom)
            \/ /\ Len(logs) < LogRoom
               /\ logs' = [SubSeq(all, 1, LogRoom) EXCEPT ![LogRoom] = Note]
  BY DEF Write
<1>4. CASE Len(all) < LogRoom /\ logs' = all
  BY <1>1, <1>2, <1>4
<1>5. CASE ~(Len(all) < LogRoom)
  <2> DEFINE cut == SubSeq(all, 1, LogRoom)
  <2>1. /\ cut \in Seq(Messages) /\ Len(cut) = LogRoom
        /\ \A k \in 1..LogRoom : cut[k] = all[k]
    BY <1>1, <1>2, <1>5
  <2> HIDE DEF all, cut
  <2>2. CASE logs' = cut
    BY <1>1, <1>2, <1>5, <2>1, <2>2
  <2>3. CASE Len(logs) < LogRoom /\ logs' = [cut EXCEPT ![LogRoom] = Note]
    <3>1. logs' \in Seq(Messages) /\ Len(logs') = LogRoom
      <4>0. Note \in Messages
        BY Wording
      <4>1. LogRoom \in 1..Len(cut)
        BY <1>1, <2>1, <2>3
      <4> QED
        BY <2>1, <2>3, <4>0, <4>1, ExceptSeq
    <3>2. \A k \in 1..Len(logs) : logs'[k] = cut[k]
      BY <1>1, <2>1, <2>3
    <3> QED
      BY <1>1, <1>2, <1>5, <2>1, <3>1, <3>2
  <2>4. logs' = cut \/ (Len(logs) < LogRoom /\ logs' = [cut EXCEPT ![LogRoom] = Note])
    BY <1>3, <1>5 DEF cut, all
  <2> QED
    BY <2>2, <2>3, <2>4
<1> QED
  BY <1>3, <1>4, <1>5

-----------------------------------------------------------------------------
(* What is still there to explain a failure.  A full log is taken to hold  *)
(* nothing: the audit event has to do.                                     *)

LogTells == Told \/ Len(logs) >= LogRoom
HasToTell ==
    \/ row.status = "FAILED" /\ row.code # "WORKER_RESTARTED"
    \/ run.at = "recording" /\ run.code # "none"

(* Each of the two that is missing was lost, and no loss is counted twice. *)
LossesExplain ==
    HasToTell => /\ audited \/ losses >= 1
                 /\ LogTells \/ losses >= 1
                 /\ audited \/ LogTells \/ losses >= 2

HistoryInv == HistoryTypes /\ LossesExplain

\* In the next state.
NextLogTells == NextTold \/ Len(logs') >= LogRoom

(* What was told stays told, and a diagnostic is told or found no room.    *)
LEMMA WriteTells ==
  ASSUME HistoryTypes, NEW ms \in Seq(Messages), Write(ms)
  PROVE  /\ LogTells => NextLogTells
         /\ ms = <<Diagnostic>> => NextLogTells
<1>1. /\ Len(logs) \in Nat /\ Len(logs') \in Nat /\ LogRoom \in Nat /\ Len(logs') <= LogRoom
      /\ Len(logs) <= Len(logs') /\ \A k \in 1..Len(logs) : logs'[k] = logs[k]
      /\ Len(logs') < LogRoom => logs' = logs \o ms
  BY WriteKeeps, HistoryAssumption DEF HistoryTypes
<1>2. LogTells => NextLogTells
  <2>1. CASE Len(logs) >= LogRoom
    BY <1>1, <2>1 DEF NextLogTells
  <2>2. CASE Told
    <3>1. PICK k \in 1..Len(logs) : logs[k].what = "diagnostic"
      BY <2>2 DEF Told
    <3>2. k \in 1..Len(logs') /\ logs'[k] = logs[k]
      BY ONLY <1>1, k \in 1..Len(logs)
    <3> QED
      BY <3>1, <3>2 DEF NextLogTells, NextTold
  <2> QED
    BY <2>1, <2>2 DEF LogTells
<1>3. ASSUME ms = <<Diagnostic>>, Len(logs') < LogRoom PROVE NextTold
  <2>1. logs' = logs \o <<Diagnostic>> /\ logs \in Seq(Messages) /\ Diagnostic \in Messages
    BY <1>1, <1>3, Wording DEF HistoryTypes
  <2>2. Len(logs') = Len(logs) + 1 /\ logs'[Len(logs) + 1] = Diagnostic
    <3>1. <<Diagnostic>> \in Seq(Messages) /\ Len(<<Diagnostic>>) = 1
          /\ <<Diagnostic>>[1] = Diagnostic
      BY <2>1
    <3> QED
      BY <1>1, <2>1, <3>1, ConcatProperties
  <2>3. Diagnostic.what = "diagnostic"
    BY DEF Diagnostic, Message
  <2>4. Len(logs) + 1 \in 1..Len(logs')
    BY <1>1, <2>2
  <2> QED
    BY <2>2, <2>3, <2>4 DEF NextTold
<1> QED
  BY <1>1, <1>2, <1>3 DEF NextLogTells

(* Each of the two writes is made or counted as lost.                      *)
LEMMA PersistTells ==
  ASSUME HistoryTypes, PersistDiagnostic
  PROVE  /\ audited' \in BOOLEAN /\ losses' \in Nat /\ losses' >= losses
         /\ UNCHANGED logs \/ \E ms \in Seq(Messages) : Write(ms)
         /\ audited => audited'
         /\ LogTells => NextLogTells
         /\ audited' \/ losses' >= losses + 1
         /\ NextLogTells \/ losses' >= losses + 1
         /\ audited' \/ NextLogTells \/ losses' >= losses + 2
<1>1. PICK logKept \in BOOLEAN, auditKept \in BOOLEAN :
        /\ IF logKept THEN Write(<<Diagnostic>>) ELSE UNCHANGED logs
        /\ audited' = (audited \/ auditKept)
        /\ losses' = losses + (IF logKept THEN 0 ELSE 1) + (IF auditKept THEN 0 ELSE 1)
  BY DEF PersistDiagnostic
<1>2. <<Diagnostic>> \in Seq(Messages)
  <2>1. Diagnostic \in Messages
    BY Wording
  <2> QED
    BY <2>1
<1>3. audited' \in BOOLEAN /\ (audited => audited') /\ (auditKept => audited')
  BY <1>1, Zenon
<1>4. /\ losses' \in Nat /\ losses' >= losses
      /\ ~logKept => losses' >= losses + 1
      /\ ~auditKept => losses' >= losses + 1
      /\ ~logKept /\ ~auditKept => losses' >= losses + 2
  <2>1. losses \in Nat
    BY DEF HistoryTypes
  <2>2. losses' = losses + (IF logKept THEN 0 ELSE 1) + (IF auditKept THEN 0 ELSE 1)
    BY <1>1
  <2> QED
    BY ONLY <2>1, <2>2
<1>5. /\ UNCHANGED logs \/ \E ms \in Seq(Messages) : Write(ms)
      /\ LogTells => NextLogTells
      /\ logKept => NextLogTells
  <2>1. CASE logKept
    BY <1>1, <1>2, <2>1, WriteTells
  <2>2. CASE ~logKept
    <3>1. logs' = logs
      BY <1>1, <2>2
    <3> QED
      BY <2>2, <3>1 DEF LogTells, NextLogTells, Told, NextTold
  <2> QED
    BY <2>1, <2>2
<1> QED
  BY <1>3, <1>4, <1>5, Zenon

(* What a step writes.                                                     *)
LEMMA LogMoves ==
  ASSUME HistoryTypes, [HistoryNext]_historyOfTask
  PROVE  UNCHANGED logs \/ \E ms \in Seq(Messages) : Write(ms)
<1> DEFINE W == UNCHANGED logs \/ \E ms \in Seq(Messages) : Write(ms)
<1> SUFFICES W
  OBVIOUS
<1>1. /\ \A m \in Messages : <<m>> \in Seq(Messages)
      /\ \A l, m \in Messages : <<l, m>> \in Seq(Messages)
      /\ \A l, m \in Messages : \A n \in Messages : <<l, m, n>> \in Seq(Messages)
      /\ \A a, b \in Seq(Messages) : a \o b \in Seq(Messages)
      /\ <<>> \in Seq(Messages)
  OBVIOUS
<1>2. CASE CheckOut
  BY <1>1, <1>2, Wording DEF CheckOut, WorkflowStates
<1>3. CASE StartCommand \/ EndCommand
  BY <1>1, <1>3, Wording DEF StartCommand, EndCommand, AfterCommand, Commands
<1>4. CASE InspectSetup
  BY <1>1, <1>4, Wording DEF InspectSetup, Inspections
<1>5. CASE PlanDelivery
  BY <1>1, <1>5, Wording DEF PlanDelivery, NotAdmitted, WorkflowStates
<1>6. CASE EnrichIssue
  BY <1>1, <1>6, Wording DEF EnrichIssue, NotAdmitted, WorkflowStates
<1>7. CASE ReviseIssue \/ RevalidateIssue
  BY <1>1, <1>7, Wording DEF ReviseIssue, RevalidateIssue, WorkflowStates
<1>8. CASE BeginAgent
  <2> DEFINE st == IF initialization THEN "preparing" ELSE "developing"
             a == <<IF initialization THEN Agent("started") ELSE Setup("runtime", "passed")>>
             b == IF source = "github-issue" THEN <<Note>> ELSE <<>>
             c == <<Agent("started"), Workflow(st)>>
  <2>1. a \in Seq(Messages) /\ b \in Seq(Messages)
    BY <1>1, Wording
  <2>2. c \in Seq(Messages)
    BY <1>1, Wording DEF WorkflowStates
  <2>3. Write((a \o b) \o c)
    BY <1>8 DEF BeginAgent
  <2> QED
    BY <1>1, <2>1, <2>2, <2>3
<1>9. CASE AgentReturns
  <2>1. PICK n \in 0..LogRoom :
          \/ Write([k \in 1..n |-> Output] \o <<Agent("passed")>>)
          \/ Write([k \in 1..n |-> Output] \o <<Agent("failed")>>)
    BY <1>9 DEF AgentReturns
  <2>2. [k \in 1..n |-> Output] \in Seq(Messages)
    <3>1. Output \in Messages
      BY Wording
    <3>2. n \in Nat
      BY HistoryAssumption
    <3> QED
      BY ONLY <3>1, <3>2
  <2> QED
    BY <1>1, <2>1, <2>2, Wording
<1>10. CASE InspectChanges \/ ValidateSetup
  <2>1. /\ Inspections["ready"] \in Seq(Messages)
        /\ \A found \in {"incomplete", "invalid"} : Inspections[found] \in Seq(Messages)
    BY Wording DEF Inspections
  <2>2. Setup("runtime", "passed") \in Messages
    BY Wording
  <2> QED
    BY <1>1, <1>10, <2>1, <2>2, Wording DEF InspectChanges, ValidateSetup
<1>11. CASE EnterGates \/ PassGates
  BY <1>1, <1>11, Wording DEF EnterGates, PassGates, WorkflowStates
<1>12. CASE Publish \/ OpenPullRequest
  BY <1>1, <1>12, Wording DEF Publish, OpenPullRequest, WorkflowStates
<1>13. CASE CloseWithSuccess \/ StepEndsEarly \/ CloseWithFailure
  BY <1>1, <1>13, Wording DEF CloseWithSuccess, StepEndsEarly, CloseWithFailure
<1>14. CASE CatchFailure \/ TryPullRequestAgain
  BY <1>1, <1>14, Wording, PersistTells DEF CatchFailure, TryPullRequestAgain
<1>15. CASE CloseHistory
  BY <1>1, <1>15, Wording DEF CloseHistory
<1>16. CASE WorkerDies \/ RecoverInterrupted
  BY <1>1, <1>16, Wording DEF WorkerDies, RecoverInterrupted
<1>17. CASE ClaimTask \/ RequestCancellation \/ RequestRetry \/ AuditIsPushedOut
            \/ UNCHANGED historyOfTask
  BY <1>17 DEF ClaimTask, RequestCancellation, RequestRetry, AuditIsPushedOut, historyOfTask
<1> QED
  BY <1>2, <1>3, <1>4, <1>5, <1>6, <1>7, <1>8, <1>9, <1>10, <1>11, <1>12, <1>13, <1>14, <1>15,
     <1>16, <1>17 DEF HistoryNext

(* The shape of the row, its log and its executor.                         *)
LEMMA HistoryTypesStep ==
  ASSUME HistoryTypes, [HistoryNext]_historyOfTask
  PROVE  HistoryTypes'
<1>1. /\ logs \in Seq(Messages) /\ Len(logs) \in Nat /\ row \in HistoryRows /\ run \in HistoryRuns
      /\ audited \in BOOLEAN /\ losses \in Nat
  BY DEF HistoryTypes
<1>2. logs' \in Seq(Messages) /\ Len(logs') <= LogRoom /\ Len(logs') \in Nat
  <2>1. CASE UNCHANGED logs
    BY <2>1 DEF HistoryTypes
  <2>2. ASSUME NEW ms \in Seq(Messages), Write(ms)
        PROVE  logs' \in Seq(Messages) /\ Len(logs') <= LogRoom /\ Len(logs') \in Nat
    BY <2>2, WriteKeeps
  <2> QED
    BY <2>1, <2>2, LogMoves
<1>3. /\ \A s \in WorkflowStates : Enter(s) => row' \in HistoryRows
      /\ KeepsRow \/ UNCHANGED row => row' \in HistoryRows
  BY <1>1 DEF Enter, KeepsRow, HistoryRows
<1>4. \A st \in {"SUCCESS", "CANCELLED", "FAILED"} : \A s \in WorkflowStates : \A c \in Codes :
        CompleteRow(st, s, c) => row' \in HistoryRows
  <2> SUFFICES ASSUME NEW st \in {"SUCCESS", "CANCELLED", "FAILED"}, NEW s \in WorkflowStates,
                      NEW c \in Codes, CompleteRow(st, s, c)
               PROVE  row' \in HistoryRows
    OBVIOUS
  <2>1. row' = [row EXCEPT !.status = st, !.state = s, !.code = c, !.retry = FALSE,
                           !.finished = TRUE, !.before = Len(logs)]
    BY DEF CompleteRow
  <2>2. row \in HistoryRows /\ Len(logs) \in Nat
    BY <1>1
  <2> QED
    BY ONLY <2>1, <2>2, st \in {"SUCCESS", "CANCELLED", "FAILED"}, s \in WorkflowStates,
            c \in Codes DEF HistoryRows
<1>5. /\ \A p \in HistoryPlaces : Goto(p) => run' \in HistoryRuns
      /\ \A c \in Codes : Throw(c) => run' \in HistoryRuns
      /\ UNCHANGED run => run' \in HistoryRuns
      /\ Unclaimed \in HistoryRuns
  BY <1>1 DEF Goto, Throw, Unclaimed, Codes, HistoryRuns, HistoryPlaces
<1>6. /\ {"fetch", "branch", "commit", "push", "checkout", "planning", "inspecting", "ready",
          "enriching", "revising", "revalidating", "starting", "agent", "changes", "validating",
          "gates", "reviewing", "publishing", "creating", "completing", "catching", "recording",
          "closing", "down"} \subseteq HistoryPlaces
      /\ DOMAIN AfterCommand = {"fetch", "branch", "commit", "push"}
      /\ \A c \in DOMAIN AfterCommand : AfterCommand[c] \in HistoryPlaces
  BY DEF HistoryPlaces, ExecutorPlaces, AfterCommand
<1>7. [run EXCEPT !.at = "enriching", !.attempt = @ + 1] \in HistoryRuns
  <2>1. run \in HistoryRuns /\ "enriching" \in HistoryPlaces
    BY <1>1, <1>6
  <2>2. \A n \in Nat : [run EXCEPT !.at = "enriching", !.attempt = n] \in HistoryRuns
    BY ONLY <2>1 DEF HistoryRuns
  <2>3. run.attempt + 1 \in Nat
    BY ONLY <2>1 DEF HistoryRuns
  <2> QED
    BY <2>2, <2>3
<1>8. row' \in HistoryRows
  <2> USE <1>3 DEF WorkflowStates
  <2>1. CASE CheckOut \/ StartCommand \/ EndCommand \/ InspectSetup
    BY <2>1 DEF CheckOut, StartCommand, EndCommand, InspectSetup
  <2>2. CASE PlanDelivery \/ EnrichIssue
    BY <2>2 DEF PlanDelivery, EnrichIssue, NotAdmitted
  <2>3. CASE ReviseIssue \/ RevalidateIssue \/ BeginAgent \/ AgentReturns
    BY <2>3 DEF ReviseIssue, RevalidateIssue, BeginAgent, AgentReturns
  <2>4. CASE InspectChanges \/ ValidateSetup \/ EnterGates \/ PassGates \/ Publish
             \/ OpenPullRequest
    BY <2>4 DEF InspectChanges, ValidateSetup, EnterGates, PassGates, Publish, OpenPullRequest
  <2>5. CASE CloseWithSuccess
    BY <1>4, <2>5 DEF CloseWithSuccess, Codes
  <2>6. CASE CloseWithFailure
    <3>1. run.code \in Codes
      BY <1>1 DEF HistoryRuns
    <3> QED
      BY <1>4, <2>6, <3>1 DEF CloseWithFailure, Codes
  <2>7. CASE StepEndsEarly \/ CatchFailure \/ CloseHistory \/ WorkerDies \/ AuditIsPushedOut
             \/ UNCHANGED historyOfTask
    BY <2>7 DEF StepEndsEarly, CatchFailure, CloseHistory, WorkerDies, AuditIsPushedOut,
                historyOfTask
  <2>8. CASE TryPullRequestAgain
    BY <1>4, <2>8 DEF TryPullRequestAgain, Codes
  <2>9. CASE RecoverInterrupted
    <3>1. CASE UNCHANGED row
      BY <3>1
    <3>2. CASE row' = [row EXCEPT !.status = IF row.cancel THEN "CANCELLED" ELSE "FAILED",
                                  !.state = IF row.cancel THEN "cancelled" ELSE "failed",
                                  !.code = IF row.cancel THEN "none" ELSE "WORKER_RESTARTED",
                                  !.finished = TRUE, !.before = Len(logs')]
      BY <1>1, <1>2, <3>2 DEF HistoryRows, Codes
    <3> QED
      BY <2>9, <3>1, <3>2 DEF RecoverInterrupted
  <2>10. CASE ClaimTask
    BY <1>1, <2>10 DEF ClaimTask, HistoryRows
  <2>11. CASE RequestCancellation
    BY <1>1, <2>11 DEF RequestCancellation, HistoryRows
  <2>12. CASE RequestRetry
    BY <1>1, <2>12 DEF RequestRetry, HistoryRows
  <2> QED
    BY <2>1, <2>2, <2>3, <2>4, <2>5, <2>6, <2>7, <2>8, <2>9, <2>10, <2>11, <2>12 DEF HistoryNext
<1>9. run' \in HistoryRuns
  <2> USE <1>5, <1>6 DEF Codes, HumanCodes
  <2>1. CASE CheckOut \/ EndCommand \/ InspectSetup
    BY <2>1 DEF CheckOut, EndCommand, InspectSetup
  <2>2. CASE StartCommand
    BY <1>1, <2>2 DEF StartCommand, HistoryRuns
  <2>3. CASE PlanDelivery
    <3>1. [run EXCEPT !.at = "enriching", !.attempt = 1] \in HistoryRuns
      BY <1>1 DEF HistoryRuns, HistoryPlaces
    <3> QED
      BY <2>3, <3>1 DEF PlanDelivery, NotAdmitted
  <2>4. CASE EnrichIssue
    BY <2>4 DEF EnrichIssue, NotAdmitted
  <2>5. CASE ReviseIssue \/ BeginAgent \/ AgentReturns
    BY <2>5 DEF ReviseIssue, BeginAgent, AgentReturns
  <2>6. CASE RevalidateIssue
    BY <1>7, <2>6 DEF RevalidateIssue
  <2>7. CASE InspectChanges \/ ValidateSetup
    BY <2>7 DEF InspectChanges, ValidateSetup
  <2>8. CASE EnterGates \/ PassGates \/ Publish \/ OpenPullRequest
    BY <2>8 DEF EnterGates, PassGates, Publish, OpenPullRequest
  <2>9. CASE CloseWithSuccess \/ StepEndsEarly \/ CloseHistory \/ CloseWithFailure
    BY <2>9 DEF CloseWithSuccess, StepEndsEarly, CloseHistory, CloseWithFailure
  <2>10. CASE CatchFailure
    <3>1. /\ [run EXCEPT !.at = "recording", !.code = "none"] \in HistoryRuns
          /\ [run EXCEPT !.at = "recording", !.code = @] \in HistoryRuns
      BY <1>1, <1>6 DEF HistoryRuns, HistoryPlaces
    <3> QED
      BY <2>10, <3>1 DEF CatchFailure
  <2>11. CASE TryPullRequestAgain
    <3>1. \A c \in Codes :
            [Unclaimed EXCEPT !.at = "catching", !.retrying = TRUE, !.code = c] \in HistoryRuns
      BY <1>5, <1>6 DEF HistoryRuns, HistoryPlaces
    <3> QED
      BY <2>11, <3>1 DEF TryPullRequestAgain
  <2>12. CASE WorkerDies \/ RecoverInterrupted
    <3>1. [Unclaimed EXCEPT !.at = "down"] \in HistoryRuns
      BY <1>5, <1>6 DEF HistoryRuns, HistoryPlaces
    <3> QED
      BY <2>12, <3>1 DEF WorkerDies, RecoverInterrupted
  <2>13. CASE ClaimTask \/ RequestCancellation \/ RequestRetry \/ AuditIsPushedOut
              \/ UNCHANGED historyOfTask
    BY <2>13 DEF ClaimTask, RequestCancellation, RequestRetry, AuditIsPushedOut, historyOfTask
  <2> QED
    BY <2>1, <2>2, <2>3, <2>4, <2>5, <2>6, <2>7, <2>8, <2>9, <2>10, <2>11, <2>12, <2>13
       DEF HistoryNext
<1>10. audited' \in BOOLEAN /\ losses' \in Nat
  <2>1. CASE CatchFailure \/ TryPullRequestAgain
    BY <1>1, <2>1, PersistTells DEF CatchFailure, TryPullRequestAgain
  <2>2. CASE WorkerDies \/ AuditIsPushedOut
    <3>1. losses' = losses + 1 /\ losses \in Nat
      BY <1>1, <2>2 DEF WorkerDies, AuditIsPushedOut
    <3>2. audited' \in {audited, FALSE}
      BY <2>2, Zenon DEF WorkerDies, AuditIsPushedOut
    <3>3. losses' \in Nat
      BY ONLY <3>1
    <3> QED
      BY <1>1, <3>2, <3>3
  <2>3. CASE UNCHANGED <<audited, losses>>
    BY <1>1, <2>3
  <2>4. CASE /\ [HistoryNext]_historyOfTask
             /\ ~(CatchFailure \/ TryPullRequestAgain \/ WorkerDies \/ AuditIsPushedOut)
    BY <1>1, <2>4
       DEF HistoryNext, historyOfTask, CheckOut, StartCommand, EndCommand, InspectSetup,
           PlanDelivery, EnrichIssue, ReviseIssue, RevalidateIssue, BeginAgent, AgentReturns,
           InspectChanges, ValidateSetup, EnterGates, PassGates, Publish, OpenPullRequest,
           CloseWithSuccess, StepEndsEarly, CloseWithFailure, CloseHistory, RecoverInterrupted,
           ClaimTask, RequestCancellation, RequestRetry, Works
  <2> QED
    BY <2>1, <2>2, <2>3, <2>4
<1> QED
  BY <1>2, <1>8, <1>9, <1>10 DEF HistoryTypes

\* In the next state.
NextHasToTell ==
    \/ row'.status = "FAILED" /\ row'.code # "WORKER_RESTARTED"
    \/ run'.at = "recording" /\ run'.code # "none"

(* A failure is recorded by the run that caught it, after both writes.     *)
LEMMA TellingMoves ==
  ASSUME HistoryTypes, [HistoryNext]_historyOfTask
  PROVE  \/ (NextHasToTell => HasToTell) /\ UNCHANGED <<audited, losses>>
         \/ PersistDiagnostic
         \/ (NextHasToTell => HasToTell) /\ losses' = losses + 1 /\ UNCHANGED logs
<1>1. /\ run.at \in ExecutorPlaces => run.at # "recording"
      /\ \A p : Goto(p) => run'.at = p
      /\ \A c : Throw(c) => run'.at = "catching"
      /\ \A s : Enter(s) => row'.status = row.status /\ row'.code = row.code
      /\ \A st, s, c : CompleteRow(st, s, c) => row'.status = st
      /\ Unclaimed.at = "idle"
  BY DEF HistoryTypes, HistoryRows, HistoryRuns, ExecutorPlaces, AfterCommand, Goto, Throw,
         Enter, CompleteRow, Unclaimed
<1>2. CASE UNCHANGED historyOfTask
  BY <1>2 DEF historyOfTask, NextHasToTell, HasToTell
<1> USE <1>1 DEF NextHasToTell, HasToTell, KeepsRow, Works
<1>3. CASE CheckOut \/ StartCommand \/ InspectSetup \/ ReviseIssue
  BY <1>3 DEF CheckOut, StartCommand, InspectSetup, ReviseIssue, HistoryTypes, HistoryRows,
               HistoryRuns, AfterCommand
<1>4. CASE EndCommand
  BY <1>4 DEF EndCommand, AfterCommand
<1>5. CASE PlanDelivery
  BY <1>5 DEF PlanDelivery, NotAdmitted, HistoryTypes, HistoryRows, HistoryRuns
<1>6. CASE EnrichIssue
  BY <1>6 DEF EnrichIssue, NotAdmitted, HistoryTypes, HistoryRows, HistoryRuns
<1>7. CASE RevalidateIssue
  BY <1>7 DEF RevalidateIssue, HistoryTypes, HistoryRows, HistoryRuns
<1>8. CASE BeginAgent \/ AgentReturns \/ InspectChanges
  BY <1>8 DEF BeginAgent, AgentReturns, InspectChanges
<1>9. CASE ValidateSetup \/ EnterGates \/ PassGates \/ Publish \/ OpenPullRequest
  BY <1>9 DEF ValidateSetup, EnterGates, PassGates, Publish, OpenPullRequest
<1>10. CASE CloseWithSuccess
  BY <1>10 DEF CloseWithSuccess
<1>11. CASE StepEndsEarly
  BY <1>11 DEF StepEndsEarly
<1>12. CASE CatchFailure
  <2>1. CASE IsCancelled
    <3>1. run'.code = "none" /\ UNCHANGED <<row, audited, losses>>
      BY <1>12, <2>1 DEF CatchFailure, HistoryTypes, HistoryRows, HistoryRuns
    <3> QED
      BY <3>1
  <2>2. CASE ~IsCancelled
    BY <1>12, <2>2 DEF CatchFailure
  <2> QED
    BY <2>1, <2>2
<1>13. CASE CloseWithFailure
  <2>1. /\ run.at = "recording" /\ run'.at = "closing" /\ UNCHANGED <<audited, losses>>
        /\ run.code = "none" => row'.status = "CANCELLED"
    BY <1>13 DEF CloseWithFailure
  <2> QED
    BY <2>1
<1>14. CASE CloseHistory
  BY <1>14 DEF CloseHistory
<1>15. CASE TryPullRequestAgain
  <2>1. CASE PersistDiagnostic
    BY <2>1
  <2>2. CASE /\ CompleteRow("SUCCESS", "completed", "none")
             /\ run' = run /\ UNCHANGED <<audited, losses>>
    BY <2>2
  <2>3. ASSUME NEW code \in Codes,
               run' = [Unclaimed EXCEPT !.at = "catching", !.retrying = TRUE, !.code = code],
               UNCHANGED <<row, audited, losses>>
        PROVE  (NextHasToTell => HasToTell) /\ UNCHANGED <<audited, losses>>
    <3>1. run'.at = "catching"
      BY <2>3 DEF Unclaimed
    <3> QED
      BY <2>3, <3>1
  <2> QED
    BY <1>15, <2>1, <2>2, <2>3 DEF TryPullRequestAgain, Codes
<1>16. CASE WorkerDies
  <2>1. run'.at = "down" /\ UNCHANGED <<row, logs>> /\ losses' = losses + 1
    BY <1>16 DEF WorkerDies, Unclaimed
  <2> QED
    BY <2>1
<1>17. CASE RecoverInterrupted
  <2>1. run'.at = "idle" /\ UNCHANGED <<audited, losses>>
    BY <1>17 DEF RecoverInterrupted
  <2>2. row' = row \/ row'.status = "CANCELLED" \/ row'.code = "WORKER_RESTARTED"
    BY <1>17 DEF RecoverInterrupted, HistoryTypes, HistoryRows, HistoryRuns
  <2> QED
    BY <2>1, <2>2
<1>18. CASE ClaimTask \/ RequestCancellation \/ RequestRetry
  BY <1>18 DEF ClaimTask, RequestCancellation, RequestRetry, HistoryTypes, HistoryRows, HistoryRuns
<1>19. CASE AuditIsPushedOut
  BY <1>19 DEF AuditIsPushedOut
<1> QED
  BY <1>2, <1>3, <1>4, <1>5, <1>6, <1>7, <1>8, <1>9, <1>10, <1>11, <1>12, <1>13, <1>14, <1>15,
     <1>16, <1>17, <1>18, <1>19 DEF HistoryNext

(* No step takes an explanation away without a loss.                       *)
LEMMA ExplanationStep ==
  ASSUME HistoryInv, [HistoryNext]_historyOfTask
  PROVE  HistoryInv'
<1>1. HistoryTypes /\ LossesExplain /\ losses \in Nat /\ audited \in BOOLEAN
  BY DEF HistoryInv, HistoryTypes
<1>2. HistoryTypes'
  BY <1>1, HistoryTypesStep
<1>3. LogTells => NextLogTells
  <2>1. CASE UNCHANGED logs
    BY <2>1 DEF LogTells, NextLogTells, Told, NextTold
  <2>2. ASSUME NEW ms \in Seq(Messages), Write(ms) PROVE LogTells => NextLogTells
    BY <1>1, <2>2, WriteTells
  <2> QED
    BY <1>1, <2>1, <2>2, LogMoves
<1>4. NextHasToTell =>
         /\ audited' \/ losses' >= 1
         /\ NextLogTells \/ losses' >= 1
         /\ audited' \/ NextLogTells \/ losses' >= 2
  <2>1. CASE (NextHasToTell => HasToTell) /\ UNCHANGED <<audited, losses>>
    BY <1>1, <1>3, <2>1, Zenon DEF LossesExplain
  <2>2. CASE PersistDiagnostic
    <3>1. /\ audited' \/ losses' >= losses + 1
          /\ NextLogTells \/ losses' >= losses + 1
          /\ audited' \/ NextLogTells \/ losses' >= losses + 2
          /\ losses' \in Nat
      BY <1>1, <2>2, PersistTells
    <3>2. /\ losses' >= losses + 1 => losses' >= 1
          /\ losses' >= losses + 2 => losses' >= 2
      BY ONLY <1>1, <3>1
    <3> QED
      BY <3>1, <3>2, Zenon
  <2>3. CASE (NextHasToTell => HasToTell) /\ losses' = losses + 1 /\ UNCHANGED logs
    <3>1. losses' >= 1 /\ (losses >= 1 => losses' >= 2)
      BY ONLY <1>1, <2>3
    <3> QED
      BY <1>1, <1>3, <2>3, <3>1, Zenon DEF LossesExplain
  <2> QED
    BY <1>1, <2>1, <2>2, <2>3, TellingMoves
<1> QED
  BY <1>2, <1>4 DEF HistoryInv, LossesExplain, HasToTell, NextHasToTell, LogTells, NextLogTells,
                    Told, NextTold

(* What holds of the log, the row and the executor.                        *)
LEMMA HistoryInvariance == HistorySpec => []HistoryInv
<1>1. HistoryInit => HistoryInv
  <2> SUFFICES ASSUME HistoryInit PROVE HistoryInv
    OBVIOUS
  <2>1. HistoryTypes
    <3>1. logs = <<>> /\ audited = FALSE /\ losses = 0 /\ run = Unclaimed
      BY DEF HistoryInit
    <3>2. logs \in Seq(Messages) /\ Len(logs) <= LogRoom
      BY <3>1, HistoryAssumption
    <3> USE DEF Codes, WorkflowStates
    <3>3. row \in HistoryRows
      BY DEF HistoryInit, HistoryRows
    <3>4. run \in HistoryRuns
      BY <3>1 DEF Unclaimed, HistoryRuns, HistoryPlaces
    <3> QED
      BY <3>1, <3>2, <3>3, <3>4 DEF HistoryTypes
  <2>2. ~HasToTell
    BY DEF HistoryInit, HasToTell, Unclaimed
  <2> QED
    BY <2>1, <2>2 DEF HistoryInv, LossesExplain
<1>2. HistoryInv /\ [HistoryNext]_historyOfTask => HistoryInv'
  BY ExplanationStep
<1> QED
  BY <1>1, <1>2, PTL DEF HistorySpec

(* FailureIsExplained: of the two writes that keep a diagnostic one may be *)
(* lost, or the log be full, and the page can still tell why a task failed; *)
(* whatever the room in the log, the part the page reads and the number of *)
(* revisions and retries.                                                  *)
THEOREM FailuresAreExplained == HistorySpec => []FailureIsExplained
<1>1. HistoryInv => FailureIsExplained
  <2> SUFFICES ASSUME HistoryInv, row.status = "FAILED", row.code # "WORKER_RESTARTED",
                      losses <= (IF Len(logs) < LogRoom /\ Len(logs) <= PageLimit THEN 1 ELSE 0)
               PROVE  LogDiagnostics # {} \/ audited
    BY DEF FailureIsExplained, ShowsDiagnostic
  <2>1. /\ logs \in Seq(Messages) /\ Len(logs) \in Nat /\ losses \in Nat
        /\ LogRoom \in Nat /\ PageLimit \in Nat
    BY HistoryAssumption DEF HistoryInv, HistoryTypes
  <2>2. /\ audited \/ losses >= 1
        /\ audited \/ LogTells \/ losses >= 2
    BY DEF HistoryInv, LossesExplain, HasToTell
  <2>3. CASE losses >= 1
    <3>1. Len(logs) < LogRoom /\ Len(logs) <= PageLimit /\ ~(losses >= 2)
      BY <2>1, <2>3
    <3>2. ~(Len(logs) >= LogRoom)
      BY ONLY <2>1, <3>1
    <3>3. audited \/ Told
      BY <2>2, <3>1, <3>2, Zenon DEF LogTells
    <3>4. Told => LogDiagnostics # {}
      <4> SUFFICES ASSUME NEW k \in 1..Len(logs), logs[k].what = "diagnostic"
                   PROVE  LogDiagnostics # {}
        BY DEF Told
      <4>1. Shown = SubSeq(logs, 1, IF Len(logs) < PageLimit THEN Len(logs) ELSE PageLimit)
        BY DEF Shown
      <4>2. (IF Len(logs) < PageLimit THEN Len(logs) ELSE PageLimit) = Len(logs)
        BY ONLY <2>1, <3>1
      <4>3. Shown = SubSeq(logs, 1, Len(logs))
        BY <4>1, <4>2
      <4>4. DOMAIN Shown = 1..Len(logs) /\ Shown[k] = logs[k]
        BY <2>1, <4>3
      <4> QED
        BY <4>4 DEF LogDiagnostics
    <3> QED
      BY <3>3, <3>4, Zenon
  <2> QED
    BY <2>2, <2>3, Zenon
<1> QED
  BY <1>1, HistoryInvariance, PTL

-----------------------------------------------------------------------------
(* The page of a task: what its timeline makes of the failures.            *)

(* A page's first place: a set of places that is not empty has a least.    *)
LEMMA EarliestIsThere ==
  ASSUME NEW S, S \subseteq Nat, S # {}
  PROVE  Earliest(S) \in S
<1> DEFINE R == {ss \in Nat \X Nat : ss[1] < ss[2]}
<1>1. IsWellFoundedOn(R, Nat)
  BY NatLessThanWellFounded DEF OpToRel
<1>2. \E m \in S : \A n \in S : <<n, m>> \notin R
  <2> HIDE DEF R
  <2> QED
    BY <1>1, WFMin
<1>3. PICK m \in S : \A n \in S : <<n, m>> \notin R
  BY <1>2
<1>4. \A n \in S : m <= n
  <2> TAKE n \in S
  <2>1. m \in Nat /\ n \in Nat /\ <<n, m>> \in Nat \X Nat
    OBVIOUS
  <2> QED
    BY <1>3, <2>1
<1> QED
  BY <1>4 DEF Earliest

(* What a failure that is no consequence of another looks like.            *)
LEMMA PhasesAreCauses ==
  ASSUME NEW es
  PROVE  /\ SetupPhase(es).kind = "setup" /\ ~Propagated(SetupPhase(es))
         /\ (\E p \in SetupPlaces(es) : es[p].status = "failed") => SetupPhase(es).status = "failed"
<1>1. <<"ADE setup">> \notin {<<"task", "failed">>, <<"execution", "failed">>, <<"agent", "failed">>}
  OBVIOUS
<1> QED
  BY <1>1 DEF SetupPhase, Propagated

(* groupSetupEvents loses no failure and no cause of one.                   *)
LEMMA GroupingKeepsFailures ==
  ASSUME NEW es, DOMAIN es \subseteq Nat
  PROVE  /\ DOMAIN GroupSetupEvents(es) \subseteq DOMAIN es
         /\ Failures(es) # {} => Failures(GroupSetupEvents(es)) # {}
         /\ Causes(es) # {} => Causes(GroupSetupEvents(es)) # {}
<1> DEFINE setup == SetupPlaces(es)
           grouped == GroupSetupEvents(es)
<1>1. CASE \A p, q \in setup : p = q
  BY <1>1 DEF GroupSetupEvents
<1>2. CASE \E p, q \in setup : p # q
  <2>1. setup \subseteq DOMAIN es /\ Earliest(setup) \in setup
    BY <1>2, EarliestIsThere DEF SetupPlaces
  <2>2. grouped = [p \in (DOMAIN es \ setup) \union {Earliest(setup)} |->
                     IF p \in setup THEN SetupPhase(es) ELSE es[p]]
    BY <1>2 DEF GroupSetupEvents
  <2>3. ASSUME NEW p \in Failures(es)
        PROVE  \E q \in Failures(grouped) : Propagated(grouped[q]) => Propagated(es[p])
    <3>1. p \in DOMAIN es /\ es[p].status = "failed"
      BY DEF Failures
    <3>2. CASE p \in setup
      <4>1. Earliest(setup) \in DOMAIN grouped /\ grouped[Earliest(setup)] = SetupPhase(es)
        BY <2>1, <2>2
      <4>2. SetupPhase(es).status = "failed" /\ ~Propagated(SetupPhase(es))
        BY <3>1, <3>2, PhasesAreCauses
      <4> QED
        BY <4>1, <4>2 DEF Failures
    <3>3. CASE p \notin setup
      <4>1. p \in DOMAIN grouped /\ grouped[p] = es[p]
        BY <2>2, <3>1, <3>3
      <4> QED
        BY <3>1, <4>1 DEF Failures
    <3> QED
      BY <3>2, <3>3
  <2>4. DOMAIN grouped \subseteq DOMAIN es
    BY <2>1, <2>2
  <2> HIDE DEF grouped
  <2>5. Failures(es) # {} => Failures(grouped) # {}
    BY <2>3
  <2>6. Causes(es) # {} => Causes(grouped) # {}
    BY <2>3 DEF Causes
  <2> QED
    BY <2>4, <2>5, <2>6 DEF grouped
<1> QED
  BY <1>1, <1>2

(* Nor does the pairing of a command's start with its end.                  *)
LEMMA PairingKeepsFailures ==
  ASSUME NEW es
  PROVE  /\ DOMAIN PairSteps(es) \subseteq DOMAIN es
         /\ Failures(PairSteps(es)) = Failures(es) /\ Causes(PairSteps(es)) = Causes(es)
<1>1. PairSteps(es) = [p \in {p \in DOMAIN es : ~IsPaired(es, p)} |-> es[p]]
  BY DEF PairSteps
<1>2. \A p \in Failures(es) : ~IsPaired(es, p)
  BY DEF Failures, IsPaired
<1>3. /\ DOMAIN PairSteps(es) \subseteq DOMAIN es /\ Failures(es) \subseteq DOMAIN PairSteps(es)
      /\ \A p \in DOMAIN PairSteps(es) : PairSteps(es)[p] = es[p]
  BY <1>1, <1>2 DEF Failures
<1>4. Failures(PairSteps(es)) = Failures(es)
  BY <1>3 DEF Failures
<1> QED
  BY <1>3, <1>4 DEF Causes, Failures

(* collapseTimeline shows the failures that have no cause among the others, *)
(* and one that has only where there is no cause.                           *)
LEMMA CollapsingNamesACause ==
  ASSUME NEW events, DOMAIN events \subseteq Nat, Failures(events) # {}
  PROVE  LET shown == CollapseTimeline(events)
         IN /\ Failures(shown) # {}
            /\ \A k \in Failures(shown) :
                  Propagated(shown[k]) => Failures(shown) = {k} /\ Causes(events) = {}
<1> DEFINE es == PairSteps(GroupSetupEvents(events))
           shown == CollapseTimeline(events)
           root == RootFailure(es)
<1>1. /\ DOMAIN es \subseteq Nat /\ Failures(es) # {}
      /\ Causes(events) # {} => Causes(es) # {}
  BY GroupingKeepsFailures, PairingKeepsFailures
<1>2. shown = [p \in {p \in DOMAIN es : Propagated(es[p]) => p = root} |-> es[p]]
  BY DEF CollapseTimeline
<1> HIDE DEF es, shown
<1>3. root \in Failures(es) /\ (Causes(es) # {} => root \in Causes(es))
  <2>1. Failures(es) \subseteq Nat /\ Causes(es) \subseteq Nat /\ Causes(es) \subseteq Failures(es)
    BY <1>1 DEF Failures, Causes
  <2> QED
    BY <1>1, <2>1, EarliestIsThere DEF RootFailure
<1> HIDE DEF root
<1>4. /\ \A p \in DOMAIN shown : p \in DOMAIN es /\ shown[p] = es[p]
      /\ root \in DOMAIN shown
      /\ \A p \in DOMAIN shown : Propagated(es[p]) => p = root
  BY <1>2, <1>3 DEF Failures
<1>5. root \in Failures(shown) /\ Failures(shown) \subseteq Failures(es)
  BY <1>3, <1>4 DEF Failures
<1>6. ASSUME NEW k \in Failures(shown), Propagated(shown[k])
      PROVE  Failures(shown) = {k} /\ Causes(events) = {}
  <2>1. k = root /\ Propagated(es[k])
    BY <1>4, <1>6 DEF Failures
  <2>2. Causes(es) = {}
    BY <1>3, <2>1 DEF Causes
  <2>3. \A p \in Failures(shown) : p = root
    BY <1>4, <1>5, <2>2 DEF Causes, Failures
  <2> QED
    BY <1>1, <1>5, <2>1, <2>2, <2>3
<1> QED
  BY <1>5, <1>6 DEF shown

(* What the page makes of a row that failed, and of the log beside it.      *)
LEMMA ChronologyTells ==
  ASSUME HistoryTypes, row.status = "FAILED", row.finished
  PROVE  /\ DOMAIN Chronology \subseteq Nat
         /\ Failures(Chronology) # {}
         /\ Causes(EventsOf(Shown)) # {} => Causes(Chronology) # {}
<1> DEFINE log == EventsOf(Shown)
           last == 1 + (IF row.before < Len(Shown) THEN row.before ELSE Len(Shown))
           MessageAt(p) == IF p < last THEN p ELSE p - 1
           messages == {p \in 1..Len(Shown) + 1 : p # last /\ MessageAt(p) \in DOMAIN log}
           places == messages \union {p \in {0} : row.status = "PENDING" \/ row.started}
                              \union {p \in {last} : HasEnded}
<1>1. Chronology = [p \in places |-> IF p = 0 THEN FirstEvent
                                     ELSE IF p = last THEN TerminalEvent
                                     ELSE log[MessageAt(p)]]
  BY DEF Chronology
<1>2. row.before \in Nat /\ Len(Shown) \in Nat /\ DOMAIN Shown = 1..Len(Shown)
  <2>1. logs \in Seq(Messages) /\ PageLimit \in Nat /\ row.before \in Nat
    BY HistoryAssumption DEF HistoryTypes, HistoryRows
  <2>2. Shown \in Seq(Messages)
    BY <2>1 DEF Shown
  <2> QED
    BY <2>1, <2>2
<1>3. DOMAIN log \subseteq 1..Len(Shown)
  BY <1>2 DEF EventsOf
<1>4. last \in 1..Len(Shown) + 1
  BY <1>2
<1> HIDE DEF log, last
<1>5. DOMAIN Chronology = places /\ places \subseteq Nat
  BY <1>1, <1>2, <1>4
<1>6. last \in Failures(Chronology)
  <2>1. HasEnded /\ TerminalEvent.status = "failed"
    BY DEF HasEnded, TerminalEvent, StatusAtEnd, TaskEvent
  <2>2. last \in places /\ last # 0
    BY <1>4, <2>1
  <2>3. Chronology[last] = TerminalEvent
    BY <1>1, <2>2
  <2> QED
    BY <1>5, <2>1, <2>2, <2>3 DEF Failures
<1>7. ASSUME NEW k \in Causes(log) PROVE Causes(Chronology) # {}
  <2> DEFINE place == IF k < last THEN k ELSE k + 1
  <2>1. k \in DOMAIN log /\ log[k].status = "failed" /\ ~Propagated(log[k])
    BY DEF Causes, Failures
  <2>2. /\ place \in 1..Len(Shown) + 1 /\ place # last /\ place # 0
        /\ MessageAt(place) = k
    BY <1>2, <1>3, <1>4, <2>1
  <2> HIDE DEF place, MessageAt
  <2>3. place \in places
    BY <2>1, <2>2
  <2>4. Chronology[place] = log[k]
    BY <1>1, <2>2, <2>3
  <2> QED
    BY <1>5, <2>1, <2>3, <2>4 DEF Causes, Failures
<1> QED
  BY <1>5, <1>6, <1>7 DEF log

(* A row that failed has ended.                                             *)
EndedRows == row.status = "FAILED" => row.finished

LEMMA EndingStep ==
  ASSUME HistoryTypes, EndedRows, [HistoryNext]_historyOfTask
  PROVE  EndedRows'
<1>1. row \in HistoryRows
  BY DEF HistoryTypes
<1>2. \A s \in WorkflowStates : Enter(s) => EndedRows'
  BY <1>1 DEF Enter, EndedRows, HistoryRows
<1>3. ASSUME NEW st, NEW s, NEW c, CompleteRow(st, s, c) PROVE EndedRows'
  BY <1>1, <1>3 DEF CompleteRow, EndedRows, HistoryRows
<1>4. UNCHANGED row => EndedRows'
  BY DEF EndedRows
<1> USE <1>2, <1>4 DEF KeepsRow, WorkflowStates
<1>5. CASE CheckOut \/ StartCommand \/ EndCommand \/ InspectSetup
  BY <1>5 DEF CheckOut, StartCommand, EndCommand, InspectSetup
<1>6. CASE PlanDelivery \/ EnrichIssue
  BY <1>6 DEF PlanDelivery, EnrichIssue, NotAdmitted
<1>7. CASE ReviseIssue \/ RevalidateIssue \/ BeginAgent \/ AgentReturns
  BY <1>7 DEF ReviseIssue, RevalidateIssue, BeginAgent, AgentReturns
<1>8. CASE InspectChanges \/ ValidateSetup \/ EnterGates \/ PassGates \/ Publish \/ OpenPullRequest
  BY <1>8 DEF InspectChanges, ValidateSetup, EnterGates, PassGates, Publish, OpenPullRequest
<1>9. CASE CloseWithSuccess \/ CloseWithFailure
  BY <1>3, <1>9 DEF CloseWithSuccess, CloseWithFailure
<1>10. CASE StepEndsEarly \/ CatchFailure \/ CloseHistory \/ WorkerDies \/ AuditIsPushedOut
            \/ UNCHANGED historyOfTask
  BY <1>10 DEF StepEndsEarly, CatchFailure, CloseHistory, WorkerDies, AuditIsPushedOut, historyOfTask
<1>11. CASE TryPullRequestAgain
  BY <1>3, <1>11 DEF TryPullRequestAgain
<1>12. CASE RecoverInterrupted
  BY <1>1, <1>12 DEF RecoverInterrupted, EndedRows, HistoryRows
<1>13. CASE ClaimTask \/ RequestCancellation \/ RequestRetry
  BY <1>1, <1>13 DEF ClaimTask, RequestCancellation, RequestRetry, EndedRows, HistoryRows
<1> QED
  BY <1>5, <1>6, <1>7, <1>8, <1>9, <1>10, <1>11, <1>12, <1>13 DEF HistoryNext

(* CauseIsNamed: whatever the agent, the diagnostic, the row and the        *)
(* retries reported and in which order, however much of it the log had room *)
(* for and the page reads, the page of a failed task names a failure, and a *)
(* consequence only when no message it read tells of a cause.               *)
THEOREM CausesAreNamed == HistorySpec => []CauseIsNamed
<1>1. HistoryInit => EndedRows
  BY DEF HistoryInit, EndedRows
<1>2. HistoryInv /\ EndedRows /\ [HistoryNext]_historyOfTask => EndedRows'
  BY EndingStep DEF HistoryInv
<1>3. HistoryInv /\ EndedRows => CauseIsNamed
  <2> SUFFICES ASSUME HistoryInv, EndedRows, SummaryStatus \in {"failed", "warning"}
               PROVE  /\ Failures(Timeline) # {}
                      /\ \A k \in Failures(Timeline) : Propagated(Timeline[k]) =>
                            Failures(Timeline) = {k} /\ Causes(EventsOf(Shown)) = {}
    BY DEF CauseIsNamed
  <2>1. row.status = "FAILED" /\ row.finished
    BY DEF SummaryStatus, EndedRows
  <2>2. /\ DOMAIN Chronology \subseteq Nat /\ Failures(Chronology) # {}
        /\ Causes(EventsOf(Shown)) # {} => Causes(Chronology) # {}
    BY <2>1, ChronologyTells DEF HistoryInv
  <2> QED
    BY <2>2, CollapsingNamesACause DEF Timeline
<1> QED
  BY <1>1, <1>2, <1>3, HistoryInvariance, PTL DEF HistorySpec

=============================================================================
