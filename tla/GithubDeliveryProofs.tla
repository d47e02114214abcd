------------------------ MODULE GithubDeliveryProofs -------------------------
(* What the store and the delivery path that uses it promise for any         *)
(* executions, issues, projects and faults: first DeliveryStore alone, then  *)
(* the whole delivery, which takes only the store's steps; then what merges  *)
(* and dependencies bound, the account of the provider's runs, what an       *)
(* operator is shown of them, and how a run comes to its end.                *)
EXTENDS WorkView, FiniteSetTheorems, TLAPS

-----------------------------------------------------------------------------
(* The store and its clients (DeliveryStore).                              *)

(* The shape of the tables is kept by every transaction and by every move  *)
(* of the worker.                                                          *)
LEMMA TypeStep ==
  ASSUME StoreTypeOK, [StoreNext]_storeVars
  PROVE  StoreTypeOK'
<1> USE DEF StoreTypeOK, InFlight, Terminal
<1>1. CASE WorkerLeaves
  BY <1>1 DEF WorkerLeaves, rowVars
<1>2. ASSUME NEW e \in Executions, NEW w \in Items, WorkerSchedules(e, w)
      PROVE  StoreTypeOK'
  BY <1>2 DEF WorkerSchedules, ScheduleWithLease, InsertLeasedExecution
<1>3. ASSUME NEW e \in Executions, WorkerMarks(e)
      PROVE  StoreTypeOK'
  BY <1>3 DEF WorkerMarks, MarkDispatched, MarkRunning, UpdateInFlightStatus
<1>4. ASSUME NEW e \in Executions, WorkerRenews(e)
      PROVE  StoreTypeOK'
  BY <1>4 DEF WorkerRenews, Heartbeat
<1>5. ASSUME NEW e \in Executions, NEW s \in Terminal,
             NEW summary \in Summaries \union {None},
             WorkerCompletes(e, s, summary)
      PROVE  StoreTypeOK'
  BY <1>5 DEF WorkerCompletes, Complete
<1>6. ASSUME NEW e \in Executions, ReconcilerCompletes(e)
      PROVE  StoreTypeOK'
  BY <1>6 DEF ReconcilerCompletes, Complete
<1>7. ASSUME NEW e \in Executions, DashboardCancels(e)
      PROVE  StoreTypeOK'
  BY <1>7 DEF DashboardCancels, RequestCancel
<1>8. ASSUME NEW e \in Executions, TimePasses(e)
      PROVE  StoreTypeOK'
  BY <1>8 DEF TimePasses, LeaseExpires
<1>9. CASE UNCHANGED storeVars
  BY <1>9 DEF storeVars, rowVars
<1> QED
  BY <1>1, <1>2, <1>3, <1>4, <1>5, <1>6, <1>7, <1>8, <1>9 DEF StoreNext

(* The types hold for ever. *)
LEMMA TypeInvariant == StoreSpec => []StoreTypeOK
<1>1. StoreInit => StoreTypeOK
  BY DEF StoreInit, StoreTypeOK
<1>2. StoreTypeOK /\ [StoreNext]_storeVars => StoreTypeOK'
  BY TypeStep
<1> QED
  BY <1>1, <1>2, PTL DEF StoreSpec

-----------------------------------------------------------------------------
(* The inductive invariant.  OneLiveExecutionPerItem is not inductive by   *)
(* itself: scheduleWithLease looks at held leases, not at statuses, so it  *)
(* needs that the two agree.                                               *)
StoreInv == StoreTypeOK /\ LeaseHeldIffInFlight /\ OneLiveExecutionPerItem

(* It holds of the empty tables.                                           *)
LEMMA InitInv == StoreInit => StoreInv
<1>1. StoreInit => StoreTypeOK
  BY DEF StoreInit, StoreTypeOK
<1>2. StoreInit => LeaseHeldIffInFlight /\ OneLiveExecutionPerItem
  BY DEF StoreInit, LeaseHeldIffInFlight, OneLiveExecutionPerItem, IsInFlight, InFlight
<1> QED
  BY <1>1, <1>2 DEF StoreInv

(* Each transaction keeps "held iff in flight", and the only one that adds *)
(* an execution in flight finds none on its issue.                         *)
LEMMA StepInv ==
  ASSUME StoreInv, StoreTypeOK', [StoreNext]_storeVars
  PROVE  StoreInv'
<1> USE DEF StoreInv, StoreTypeOK, LeaseHeldIffInFlight, OneLiveExecutionPerItem,
            IsInFlight, InFlight, Terminal
<1>1. CASE WorkerLeaves
  BY <1>1 DEF WorkerLeaves, rowVars
<1>2. ASSUME NEW e \in Executions, NEW w \in Items, WorkerSchedules(e, w)
      PROVE  StoreInv'
  <2>1. /\ execStatus' = [execStatus EXCEPT ![e] = "leased"]
        /\ execWork' = [execWork EXCEPT ![e] = w]
        /\ lease' = [lease EXCEPT ![e] = "held"]
    BY <1>2 DEF WorkerSchedules, ScheduleWithLease, InsertLeasedExecution
  <2>2. \A f \in Executions : IsInFlight(f) => execWork[f] # w
    BY <1>2 DEF WorkerSchedules, ScheduleWithLease, Held
  <2>3. LeaseHeldIffInFlight'
    BY <2>1
  <2>4. OneLiveExecutionPerItem'
    BY <2>1, <2>2
  <2> QED
    BY <2>3, <2>4
<1>3. ASSUME NEW e \in Executions, WorkerMarks(e)
      PROVE  StoreInv'
  BY <1>3 DEF WorkerMarks, MarkDispatched, MarkRunning, UpdateInFlightStatus
<1>4. ASSUME NEW e \in Executions, WorkerRenews(e)
      PROVE  StoreInv'
  BY <1>4 DEF WorkerRenews, Heartbeat
<1>5. ASSUME NEW e \in Executions, NEW s \in Terminal,
             NEW summary \in Summaries \union {None}, Complete(e, s, summary)
      PROVE  StoreInv'
  BY <1>5 DEF Complete
<1>6. ASSUME NEW e \in Executions, DashboardCancels(e)
      PROVE  StoreInv'
  BY <1>6 DEF DashboardCancels, RequestCancel
<1>7. ASSUME NEW e \in Executions, TimePasses(e)
      PROVE  StoreInv'
  BY <1>7 DEF TimePasses, LeaseExpires
<1>8. CASE UNCHANGED storeVars
  BY <1>8 DEF storeVars, rowVars
<1> QED
  BY <1>1, <1>2, <1>3, <1>4, <1>5, <1>6, <1>7, <1>8
  DEF StoreNext, WorkerCompletes, ReconcilerCompletes

(* The store keeps it.                                                     *)
LEMMA Invariance == StoreSpec => []StoreInv
<1>1. StoreInv /\ StoreTypeOK' /\ [StoreNext]_storeVars => StoreInv'
  BY StepInv
<1> QED
  BY InitInv, <1>1, TypeInvariant, PTL DEF StoreSpec

(* A lease is held exactly while its execution is in flight, whatever the  *)
(* interleaving of worker, dashboard, crash and reconciliation.            *)
THEOREM LeaseFollowsExecution == StoreSpec => []LeaseHeldIffInFlight
<1>1. StoreInv => LeaseHeldIffInFlight
  BY DEF StoreInv
<1> QED
  BY <1>1, Invariance, PTL

(* No issue ever has two executions in flight: the lease key of            *)
(* scheduleWithLease is enough for any number of executions and issues.    *)
THEOREM Exclusion == StoreSpec => []OneLiveExecutionPerItem
<1>1. StoreInv => OneLiveExecutionPerItem
  BY DEF StoreInv
<1> QED
  BY <1>1, Invariance, PTL

-----------------------------------------------------------------------------
(* A terminal execution is never rewritten, although markDispatched and    *)
(* markRunning have no status guard: the worker's discipline is enough.    *)
THEOREM Finality == StoreSpec => TerminalIsFinal
<1> DEFINE Kept == \A e \in Executions : IsTerminal(e) =>
                      /\ execStatus'[e] = execStatus[e]
                      /\ resultSummary'[e] = resultSummary[e]
                      /\ lease'[e] = lease[e]
<1>1. ASSUME StoreInv, [StoreNext]_storeVars
      PROVE  [Kept]_storeVars
  <2> SUFFICES ASSUME StoreNext
               PROVE  Kept
    BY <1>1
  <2> USE <1>1 DEF StoreInv, StoreTypeOK, IsTerminal, IsInFlight, InFlight, Terminal
  <2>1. CASE WorkerLeaves
    BY <2>1 DEF WorkerLeaves, rowVars
  <2>2. ASSUME NEW e \in Executions, NEW w \in Items, WorkerSchedules(e, w)
        PROVE  Kept
    BY <2>2 DEF WorkerSchedules, ScheduleWithLease, InsertLeasedExecution
  <2>3. ASSUME NEW e \in Executions, WorkerMarks(e)
        PROVE  Kept
    BY <2>3 DEF WorkerMarks, MarkDispatched, MarkRunning, UpdateInFlightStatus
  <2>4. ASSUME NEW e \in Executions, NEW s, NEW summary, Complete(e, s, summary)
        PROVE  Kept
    BY <2>4 DEF Complete
  <2>5. ASSUME NEW e \in Executions, WorkerRenews(e) \/ DashboardCancels(e) \/ TimePasses(e)
        PROVE  Kept
    BY <2>5 DEF WorkerRenews, Heartbeat, DashboardCancels, RequestCancel, TimePasses, LeaseExpires
  <2> QED
    BY <2>1, <2>2, <2>3, <2>4, <2>5 DEF StoreNext, WorkerCompletes, ReconcilerCompletes
<1> QED
  BY <1>1, Invariance, PTL DEF StoreSpec, TerminalIsFinal

-----------------------------------------------------------------------------
(* The tables implement WorkLease: schedule begins an attempt, a           *)
(* completion or a reconciliation ends one, everything else stutters.      *)
THEOREM Refinement == StoreSpec => KeepsWorkLease
<1> USE DEF AttemptOf, IsInFlight, InFlight, Terminal
<1>1. StoreInit => Attempts!WL_Init
  BY DEF StoreInit, Attempts!WL_Init
<1>2. ASSUME StoreInv, StoreTypeOK', [StoreNext]_storeVars
      PROVE  [Attempts!WL_Next]_(Attempts!WL_vars)
  <2> USE <1>2 DEF StoreInv, StoreTypeOK
  <2>1. ASSUME NEW e \in Executions, NEW w \in Items, WorkerSchedules(e, w)
        PROVE  Attempts!Begin(e, w)
    <3>1. /\ execStatus[e] = "absent"
          /\ execStatus' = [execStatus EXCEPT ![e] = "leased"]
          /\ execWork' = [execWork EXCEPT ![e] = w]
      BY <2>1 DEF WorkerSchedules, ScheduleWithLease, InsertLeasedExecution
    <3>2. Attempts!LiveOn(w) = {}
      BY <2>1 DEF WorkerSchedules, ScheduleWithLease, Held, LeaseHeldIffInFlight, Attempts!LiveOn
    <3>3. [f \in Executions |-> AttemptOf(f)]' =
            [[f \in Executions |-> AttemptOf(f)] EXCEPT ![e] = "live"]
      BY <3>1
    <3> QED
      BY <3>1, <3>2, <3>3 DEF Attempts!Begin
  <2>2. ASSUME NEW e \in Executions, NEW s \in Terminal, NEW summary, Complete(e, s, summary)
        PROVE  Attempts!End(e)
    <3>1. /\ execStatus[e] \in InFlight
          /\ execStatus' = [execStatus EXCEPT ![e] = s]
          /\ execWork' = execWork
      BY <2>2 DEF Complete
    <3>2. [f \in Executions |-> AttemptOf(f)]' =
            [[f \in Executions |-> AttemptOf(f)] EXCEPT ![e] = "over"]
      BY <3>1
    <3> QED
      BY <3>1, <3>2 DEF Attempts!End
  <2>3. ASSUME NEW e \in Executions, WorkerMarks(e)
        PROVE  UNCHANGED Attempts!WL_vars
    <3>1. /\ execStatus[e] \in InFlight
          /\ \E s \in InFlight : execStatus' = [execStatus EXCEPT ![e] = s]
          /\ execWork' = execWork
      BY <2>3 DEF WorkerMarks, MarkDispatched, MarkRunning, UpdateInFlightStatus
    <3> QED
      BY <3>1 DEF Attempts!WL_vars
  <2>4. ASSUME UNCHANGED <<execStatus, execWork>>
        PROVE  UNCHANGED Attempts!WL_vars
    BY <2>4 DEF Attempts!WL_vars
  <2>5. ASSUME \/ WorkerLeaves
               \/ \E e \in Executions : WorkerRenews(e) \/ DashboardCancels(e) \/ TimePasses(e)
               \/ UNCHANGED storeVars
        PROVE  UNCHANGED <<execStatus, execWork>>
    BY <2>5 DEF WorkerLeaves, WorkerRenews, Heartbeat, DashboardCancels, RequestCancel,
                TimePasses, LeaseExpires, storeVars, rowVars
  <2> QED
    BY <2>1, <2>2, <2>3, <2>4, <2>5
    DEF StoreNext, WorkerCompletes, ReconcilerCompletes, Attempts!WL_Next
<1> QED
  BY <1>1, <1>2, Invariance, TypeInvariant, PTL
  DEF StoreSpec, KeepsWorkLease, Attempts!WL_Spec

-----------------------------------------------------------------------------
(* The delivery (GithubDelivery).                                          *)

\* What a completion writes is what the scheduler reads back.
SummariesSuffice == [rev : Nat, decision : Decisions \union {None}] \subseteq Summaries

-----------------------------------------------------------------------------
(* Types, in the parts that steps disturb together.                        *)

Free == {"down", "starting", "idle"}
Jobs == [item : Items \union {None}, seen : Nat, ref : Executions \union {None},
         resume : Decisions \union {None}, wf : Executions \union {None},
         body : Markers \union {None}, ckpt : Stages \union {None},
         pr : Executions \union {None}, stop : {"no", "cancel", "lease", "timeout"},
         result : Terminal \union {None}]

DatabaseTypes ==
    /\ projected \in [Items -> Markers]
    /\ workflow \in [Executions -> Workflows \union {None}]
    /\ openDecisions \in SUBSET Decisions /\ resolvedDecisions \in SUBSET Decisions
    /\ claims \subseteq Executions
GithubTypes ==
    /\ issue \in [Items -> Markers]
    /\ pull \in [Executions -> {"none", "open", "merged", "closed"}]
    /\ ahead \in [Items -> BOOLEAN] /\ webhookDue \subseteq Executions
WorkerTypes == pc \in Positions /\ job \in Jobs /\ (slot = None <=> pc \in Free)
CounterTypes ==
    edits \in 0..MaxEdits /\ crashes \in 0..MaxCrashes /\ outages \in 0..MaxOutages

(* The parts are the type invariant. *)
LEMMA TypeParts ==
    TypeOK <=> StoreTypeOK /\ DatabaseTypes /\ GithubTypes /\ WorkerTypes /\ CounterTypes
  BY DEF TypeOK, DatabaseTypes, GithubTypes, WorkerTypes, CounterTypes, Jobs, Free

(* The same of the next state. *)
LEMMA NextTypeParts ==
    TypeOK' <=> StoreTypeOK' /\ DatabaseTypes' /\ GithubTypes' /\ WorkerTypes' /\ CounterTypes'
  BY DEF TypeOK, DatabaseTypes, GithubTypes, WorkerTypes, CounterTypes, Jobs, Free

\* What a run knows at each of its places.
AtWork == Positions \ Free
WithWorkflow == {"started", "dispatched"} \union Executing
WithBody == {"lifecycle", "enriching", "enriched", "ready-for-dev", "asking", "asked", "claiming",
             "claimed", "implementing", "validating", "reviewing", "publishing", "pushed",
             "published", "recorded"}

JobFits ==
    /\ pc \in AtWork => job.item \in Items
    /\ pc \in WithWorkflow => job.wf \in Executions /\ workflow[job.wf] \in Workflows
    /\ pc \in WithBody => job.body \in Markers
    /\ pc \in {"published", "recorded"} => job.pr \in Executions
    /\ pc = "returned" => job.result \in Terminal

WorkInv == TypeOK /\ JobFits

-----------------------------------------------------------------------------
(* The store.                                                              *)

\* The steps that leave the tables of DeliveryStore and the slot alone.
LeavesStore ==
    \/ \E p \in Projects : ReconcileProject(p)
    \/ \E i \in Items : ReconcileItem(i) \/ OperatorActs(i)
    \/ EnterLoop \/ StartWorkflow \/ StartThrows \/ Deliver
    \/ Interrupt \/ CancelLifecycle \/ Restart
    \/ \E e \in Executions : \/ ClosePullRequest(e) \/ PullRequestClosedWebhook(e)
                             \/ PullRequestSynchronizedWebhook(e)
    \/ \E d \in openDecisions : ResolveDecision(d)

(* They do.                                                                *)
LEMMA StoreIsLeft == LeavesStore => UNCHANGED storeVars
<1>1. Deliver => UNCHANGED storeVars
  BY DEF Deliver, Begin, ApplyHumanDecision, PrepareCheckout, ReadIssue, PlanEnrichment, Enrich,
         PlanDevelopment, AskForDecision, MarkWaitingForDecision, CheckpointDecision,
         ReReadIssue, ClaimIssue, CheckpointClaim, Advance, Push, OpenPullRequest,
         MarkWaitingForMerge, CheckpointPullRequest, Step
<1>2. Interrupt => UNCHANGED storeVars
  BY DEF Interrupt, DeadlineElapses, CancelObserved, HeartbeatFails, StopsFor, Abort, StepFails
<1>3. EnterLoop \/ StartWorkflow \/ StartThrows \/ CancelLifecycle \/ Restart
         => UNCHANGED storeVars
  BY DEF EnterLoop, StartWorkflow, StartThrows, CancelLifecycle, Restart
<1>4. ASSUME NEW p \in Projects, ReconcileProject(p) PROVE UNCHANGED storeVars
  BY <1>4 DEF ReconcileProject
<1>5. ASSUME NEW i \in Items, ReconcileItem(i) \/ OperatorActs(i) PROVE UNCHANGED storeVars
  BY <1>5 DEF ReconcileItem, OperatorActs
<1>6. ASSUME NEW e \in Executions,
             \/ ClosePullRequest(e) \/ PullRequestClosedWebhook(e)
             \/ PullRequestSynchronizedWebhook(e)
      PROVE  UNCHANGED storeVars
  BY <1>6 DEF ClosePullRequest, PullRequestClosedWebhook, PullRequestSynchronizedWebhook,
              PullRequestEvent
<1>7. ASSUME NEW d \in openDecisions, ResolveDecision(d) PROVE UNCHANGED storeVars
  BY <1>7 DEF ResolveDecision
<1> QED
  BY <1>1, <1>2, <1>3, <1>4, <1>5, <1>6, <1>7 DEF LeavesStore

\* The others.
MovesStore ==
    \/ Start \/ (\E p \in Projects : RunCycle(p)) \/ MarkStarted
    \/ Settle \/ SettleFails \/ CatchCompletes \/ CatchFails \/ Crash
    \/ \E e \in Executions : LeaseRunsOut(e) \/ RequestExecutionCancel(e)

(* Nothing else happens.                                                   *)
LEMMA NextParts == Next <=> LeavesStore \/ MovesStore
  BY DEF Next, LeavesStore, MovesStore, Dispatch, Finish, Surroundings

(* An execution is scheduled only where there is one to schedule and an    *)
(* issue to schedule it on.                                                *)
LEMMA CycleSchedules ==
  ASSUME NEW p \in Projects, RunCycle(p)
  PROVE  /\ FreshExecution \in Executions /\ execStatus[FreshExecution] = "absent"
         /\ SelectedItem(p) \in Items
         /\ ReadyItems(p) # {} => SelectedItem(p) \in ReadyItems(p)
         /\ ReadyItems(p) = {} => SelectedItem(p) \in WaitingItems(p)
         /\ WorkerSchedules(FreshExecution, SelectedItem(p))
<1>1. FreshExecution \in Executions /\ execStatus[FreshExecution] = "absent"
  BY DEF RunCycle, FreshExecution
<1> DEFINE S == IF ReadyItems(p) # {} THEN ReadyItems(p) ELSE WaitingItems(p)
<1>2. S \in SUBSET Items
  BY DEF ReadyItems, WaitingItems, ItemsOf
<1>3. S # {}
  BY DEF RunCycle, Eligible, ResumeDecision, AskingItems
<1>4. \E i \in S : \A j \in S \ {i} : Precedes(i, j)
  BY <1>2, <1>3, SomeIssueIsFirst
<1>5. SelectedItem(p) \in S
  BY <1>4 DEF SelectedItem, First
<1> QED
  BY <1>1, <1>2, <1>5 DEF RunCycle

(* What a run leaves behind is what the scheduler reads back.              *)
LEMMA OutcomeTypes ==
  ASSUME SummariesSuffice, WorkInv, pc = "returned"
  PROVE  Outcome \in Terminal /\ OutcomeSummary \in Summaries \union {None}
<1>1. job \in Jobs /\ job.result \in Terminal
  BY TypeParts DEF WorkInv, JobFits, WorkerTypes
<1>2. Outcome \in Terminal
  BY <1>1 DEF Outcome, Terminal
<1>3. [rev |-> job.seen, decision |-> job.resume] \in Summaries
  BY <1>1 DEF SummariesSuffice, Jobs
<1> QED
  BY <1>2, <1>3 DEF OutcomeSummary

(* Every step of the delivery keeps the discipline of the store's clients. *)
LEMMA StoreStep ==
  ASSUME SummariesSuffice, WorkInv, [Next]_vars
  PROVE  [StoreNext]_storeVars
<1>s. pc \notin Free => slot \in Executions /\ slot # None
  BY NoneIsDistinct, TypeParts DEF WorkInv, WorkerTypes, StoreTypeOK
<1>1. CASE LeavesStore \/ UNCHANGED vars
  BY <1>1, StoreIsLeft DEF vars
<1>2. CASE Start
  BY <1>2 DEF Start, ReconcileCandidate, ReconcileMissingWorkflowStart, StoreNext
<1>3. ASSUME NEW p \in Projects, RunCycle(p) PROVE StoreNext
  BY <1>3, CycleSchedules DEF StoreNext
<1>4. CASE MarkStarted
  BY <1>4, <1>s DEF MarkStarted, Free, StoreNext
<1>5. CASE Settle
  BY <1>5, <1>s, OutcomeTypes DEF Settle, Free, StoreNext
<1>6. CASE SettleFails
  <2>1. CASE WorkerCompletes(slot, Outcome, OutcomeSummary)
    BY <1>6, <2>1, <1>s, OutcomeTypes DEF SettleFails, Free, StoreNext
  <2>2. CASE UNCHANGED rowVars /\ slot' = slot
    BY <2>2 DEF storeVars
  <2>3. CASE UNCHANGED rowVars /\ slot' = None
    BY <1>6, <2>3, <1>s DEF SettleFails, Free, StoreNext, WorkerLeaves
  <2> QED
    BY <1>6, <2>1, <2>2, <2>3 DEF SettleFails
<1>7. CASE CatchCompletes
  <2>1. CASE IsTerminal(slot)
    BY <1>7, <2>1, <1>s DEF CatchCompletes, Free, StoreNext, WorkerLeaves
  <2>2. CASE ~IsTerminal(slot)
    <3>1. WorkerCompletes(slot, "failed", None)
      BY <1>7, <2>2 DEF CatchCompletes, WorkerCompletes
    <3> QED
      BY <1>7, <3>1, <1>s DEF CatchCompletes, Free, StoreNext, Terminal
  <2> QED
    BY <2>1, <2>2
<1>8. CASE CatchFails
  BY <1>8, <1>s DEF CatchFails, Free, StoreNext, WorkerLeaves
<1>9. CASE Crash
  BY <1>9 DEF Crash, StoreNext, WorkerLeaves, storeVars
<1>10. ASSUME NEW e \in Executions, LeaseRunsOut(e) \/ RequestExecutionCancel(e) PROVE StoreNext
  BY <1>10 DEF LeaseRunsOut, RequestExecutionCancel, StoreNext
<1> QED
  BY <1>1, <1>2, <1>3, <1>4, <1>5, <1>6, <1>7, <1>8, <1>9, <1>10, NextParts DEF MovesStore

-----------------------------------------------------------------------------
(* The types of the delivery.                                              *)

\* A workflow that exists goes on existing.
WorkflowsStay ==
    \A e \in Executions : workflow[e] \in Workflows => workflow'[e] \in Workflows

\* What a step must keep.
DeliveryTyped == DatabaseTypes' /\ GithubTypes' /\ WorkflowsStay
WorkerTyped == WorkerTypes' /\ JobFits'

(* A write of an issue is a marker with a revision of its own.             *)
LEMMA WriteTypes ==
  ASSUME issue \in [Items -> Markers], NEW i \in Items, NEW m \in Markers, WriteIssue(i, m)
  PROVE  /\ issue' \in [Items -> Markers]
         /\ issue'[i] = [m EXCEPT !.rev = issue[i].rev + 1]
         /\ \A j \in Items \ {i} : issue'[j] = issue[j]
<1>1. [m EXCEPT !.rev = issue[i].rev + 1] \in Markers
  BY DEF Markers
<1> QED
  BY <1>1 DEF WriteIssue

(* A transition of a workflow leaves a workflow.                           *)
LEMMA TransitionTypes ==
  ASSUME DatabaseTypes, NEW e \in Executions, NEW w \in Workflows,
         workflow' = [workflow EXCEPT ![e] = w]
  PROVE  /\ workflow' \in [Executions -> Workflows \union {None}] /\ WorkflowsStay
         /\ workflow'[e] = w
  BY DEF DatabaseTypes, WorkflowsStay

\* The fields a checkpoint may bring with it.
Updates == [decision : Decisions \union {None}, pr : Executions \union {None},
            head : Executions \union {None}]

(* A checkpoint moves the workflow and the executor's belief of it.        *)
LEMMA CheckpointTypes ==
  ASSUME DatabaseTypes, job \in Jobs, job.wf \in Executions, workflow[job.wf] \in Workflows,
         NEW stage \in Stages, NEW updates \in Updates, Checkpoint(stage, updates)
  PROVE  /\ workflow' \in [Executions -> Workflows \union {None}] /\ WorkflowsStay
         /\ job' = [job EXCEPT !.ckpt = stage] /\ workflow'[job.wf] \in Workflows
         /\ \/ workflow' = workflow
            \/ /\ workflow'[job.wf].stage = stage
               /\ \A e \in Executions \ {job.wf} : workflow'[e] = workflow[e]
<1>1. CASE job.ckpt = stage
  BY <1>1 DEF Checkpoint, DatabaseTypes, WorkflowsStay, Jobs
<1>2. CASE job.ckpt # stage
  <2> DEFINE v == Transition(workflow[job.wf], stage, updates)
  <2>1. v \in Workflows /\ v.stage = stage
    BY DEF Transition, Workflows, Updates, Coalesce
  <2>2. workflow' = [workflow EXCEPT ![job.wf] = v] /\ job' = [job EXCEPT !.ckpt = stage]
    BY <1>2 DEF Checkpoint
  <2> HIDE DEF v
  <2>3. workflow'[job.wf] = v /\ \A e \in Executions \ {job.wf} : workflow'[e] = workflow[e]
    BY <2>2 DEF DatabaseTypes
  <2> QED
    BY <2>1, <2>2, <2>3, TransitionTypes
<1> QED
  BY <1>1, <1>2

(* Every step of a run.                                                    *)
LEMMA DeliverTypes ==
  ASSUME WorkInv, Deliver
  PROVE  DeliveryTyped /\ WorkerTyped
<1>1. DatabaseTypes /\ GithubTypes /\ WorkerTypes /\ StoreTypeOK
  BY TypeParts DEF WorkInv
<1>2. /\ pc \in Executing \ {"cancelling"} /\ job \in Jobs /\ slot \in Executions
      /\ job.item \in Items /\ job.wf \in Executions /\ workflow[job.wf] \in Workflows
      /\ slot' = slot
  <2>1. pc \in Executing \ {"cancelling"}
    BY DEF Deliver, Begin, ApplyHumanDecision, PrepareCheckout, ReadIssue, PlanEnrichment,
           Enrich, PlanDevelopment, AskForDecision, MarkWaitingForDecision, CheckpointDecision,
           ReReadIssue, ClaimIssue, CheckpointClaim, Advance, Push, OpenPullRequest,
           MarkWaitingForMerge, CheckpointPullRequest, Step, Executing, AbortPoints
  <2>2. slot' = slot
    BY StoreIsLeft DEF LeavesStore, storeVars
  <2> QED
    BY <1>1, <2>1, <2>2, NoneIsDistinct
       DEF WorkInv, JobFits, WorkerTypes, StoreTypeOK, AtWork, WithWorkflow, Free, Executing,
           AbortPoints, Positions
<1>3. ASSUME UNCHANGED <<projected, openDecisions, resolvedDecisions, claims>>,
             workflow' \in [Executions -> Workflows \union {None}], WorkflowsStay
      PROVE  DatabaseTypes' /\ WorkflowsStay
  BY <1>1, <1>3 DEF DatabaseTypes
<1>4. ASSUME UNCHANGED workflow
      PROVE  workflow' \in [Executions -> Workflows \union {None}] /\ WorkflowsStay
  BY <1>1, <1>4 DEF DatabaseTypes, WorkflowsStay
<1>5. ASSUME UNCHANGED <<pull, ahead, webhookDue>>, issue' \in [Items -> Markers]
      PROVE  GithubTypes'
  BY <1>1, <1>5 DEF GithubTypes
<1>6. ASSUME pc' \in AtWork, job' \in Jobs, job'.item = job.item, job'.wf = job.wf, WorkflowsStay,
             pc' \in WithBody => job'.body \in Markers,
             pc' \in {"published", "recorded"} => job'.pr \in Executions,
             pc' = "returned" => job'.result \in Terminal
      PROVE  WorkerTyped
  <2>1. WorkerTypes'
    BY <1>1, <1>2, <1>6, NoneIsDistinct DEF WorkerTypes, AtWork, Free
  <2>2. JobFits'
    BY <1>2, <1>6 DEF JobFits, WorkflowsStay
  <2> QED
    BY <2>1, <2>2 DEF WorkerTyped
<1>7. NoUpdates \in Updates
  BY DEF NoUpdates, Updates
<1>8. pc \in WithBody => job.body \in Markers
  BY DEF WorkInv, JobFits
<1> USE DEF Step, AtWork, Positions, Executing, AbortPoints, Free, WithBody, DeliveryTyped
<1>9. CASE Begin
  <2>1. workflow' \in [Executions -> Workflows \union {None}] /\ WorkflowsStay
    <3>1. CASE workflow' = workflow
      BY <3>1, <1>4
    <3>2. CASE /\ job.resume # None
               /\ workflow' = [workflow EXCEPT ![job.wf].stage = "planning",
                                               ![job.wf].resumed = @ \union {job.resume}]
      <4> DEFINE w == [workflow[job.wf] EXCEPT !.stage = "planning",
                                               !.resumed = @ \union {job.resume}]
      <4>1. w \in Workflows
        BY <1>2, <3>2 DEF Workflows, Stages, Jobs
      <4>2. workflow' = [workflow EXCEPT ![job.wf] = w]
        BY <1>1, <1>2, <3>2 DEF DatabaseTypes, Workflows
      <4> HIDE DEF w
      <4> QED
        BY <1>1, <1>2, <4>1, <4>2, TransitionTypes
    <3> QED
      BY <1>9, <3>1, <3>2 DEF Begin
  <2>2. job' \in Jobs /\ job'.item = job.item /\ job'.wf = job.wf
    BY <1>2, <1>9 DEF Begin, Jobs, Stages
  <2> QED
    BY <1>1, <1>3, <1>6, <1>9, <2>1, <2>2 DEF Begin, githubVars, decisionVars, GithubTypes
<1>10. CASE ApplyHumanDecision
  <2>1. job' \in Jobs /\ job'.item = job.item /\ job'.wf = job.wf
    BY <1>2, <1>10 DEF ApplyHumanDecision, Jobs, Stages
  <2> QED
    BY <1>1, <1>3, <1>4, <1>6, <1>10, <2>1
       DEF ApplyHumanDecision, githubVars, decisionVars, GithubTypes
<1>11. CASE PrepareCheckout \/ PlanEnrichment \/ PlanDevelopment \/ CheckpointClaim \/ Advance
  <2>1. PICK stage \in Stages : Checkpoint(stage, NoUpdates)
    BY <1>11 DEF PrepareCheckout, PlanEnrichment, PlanDevelopment, CheckpointClaim, Advance, Stages
  <2>2. /\ workflow' \in [Executions -> Workflows \union {None}] /\ WorkflowsStay
        /\ job' = [job EXCEPT !.ckpt = stage]
    BY <1>1, <1>2, <1>7, <2>1, CheckpointTypes
  <2>3. job' \in Jobs /\ job'.item = job.item /\ job'.wf = job.wf /\ job'.body = job.body
    BY <1>2, <2>2 DEF Jobs
  <2>4. /\ UNCHANGED <<projected, openDecisions, resolvedDecisions>>
        /\ UNCHANGED <<issue, pull, ahead, webhookDue>> /\ claims' \subseteq Executions
    BY <1>1, <1>2, <1>11
       DEF PrepareCheckout, PlanEnrichment, PlanDevelopment, CheckpointClaim, Advance,
           githubVars, decisionVars, DatabaseTypes
  <2>5. DeliveryTyped
    BY <1>1, <2>2, <2>4 DEF DatabaseTypes, GithubTypes
  <2>6. pc' \in Executing \ {"published", "recorded"} /\ (pc' \in WithBody => pc \in WithBody)
    BY <1>11 DEF PrepareCheckout, PlanEnrichment, PlanDevelopment, CheckpointClaim, Advance
  <2> QED
    BY <1>6, <1>8, <2>2, <2>3, <2>5, <2>6
<1>12. CASE ReadIssue \/ ReReadIssue
  <2>1. job' = [job EXCEPT !.body = issue[job.item]] /\ issue[job.item] \in Markers
    BY <1>1, <1>2, <1>12 DEF ReadIssue, ReReadIssue, GithubTypes
  <2>2. job' \in Jobs /\ job'.item = job.item /\ job'.wf = job.wf /\ job'.body \in Markers
    BY <1>2, <2>1 DEF Jobs
  <2> QED
    BY <1>1, <1>3, <1>4, <1>6, <1>12, <2>2
       DEF ReadIssue, ReReadIssue, githubVars, decisionVars, GithubTypes
<1>13. CASE Enrich
  <2>1. issue' \in [Items -> Markers]
    BY <1>1, <1>2, <1>8, <1>13, WriteTypes DEF Enrich, GithubTypes
  <2>2. job' = [job EXCEPT !.body = issue'[job.item]] /\ issue'[job.item] \in Markers
    BY <1>2, <1>13, <2>1 DEF Enrich
  <2>3. job' \in Jobs /\ job'.item = job.item /\ job'.wf = job.wf /\ job'.body \in Markers
    BY <1>2, <2>2 DEF Jobs
  <2> QED
    BY <1>3, <1>4, <1>5, <1>6, <1>13, <2>1, <2>3 DEF Enrich, decisionVars
<1>14. CASE AskForDecision
  <2>1. AskedDecision \in Decisions
    BY <1>2, <1>8, <1>14 DEF AskForDecision, AskedDecision, Decisions, Markers
  <2>2. DatabaseTypes'
    BY <1>1, <1>14, <2>1 DEF AskForDecision, DatabaseTypes
  <2> QED
    BY <1>1, <1>2, <1>4, <1>6, <1>8, <1>14, <2>2 DEF AskForDecision, githubVars, GithubTypes
<1>15. CASE MarkWaitingForDecision \/ ClaimIssue \/ MarkWaitingForMerge
  <2>1. PICK m \in Markers : WriteIssue(job.item, m)
    <3>1. job.body \in Markers
      BY <1>8, <1>15 DEF MarkWaitingForDecision, ClaimIssue, MarkWaitingForMerge
    <3>2. AskedDecision \in Decisions
      BY <1>2, <3>1 DEF AskedDecision, Decisions, Markers
    <3>3. [job.body EXCEPT !.state = "waiting-human", !.exec = job.wf,
                           !.decision = AskedDecision] \in Markers
      BY <1>2, <3>1, <3>2 DEF Markers, States
    <3>4. [job.body EXCEPT !.state = "running", !.exec = job.wf] \in Markers
      BY <1>2, <3>1 DEF Markers, States
    <3>5. [job.body EXCEPT !.state = "waiting-human", !.exec = job.wf, !.pr = job.pr] \in Markers
      BY <1>2, <3>1 DEF Markers, States, Jobs
    <3> QED
      BY <1>15, <3>3, <3>4, <3>5
         DEF MarkWaitingForDecision, ClaimIssue, MarkWaitingForMerge, UpdateLifecycle
  <2>2. issue' \in [Items -> Markers]
    BY <1>1, <1>2, <2>1, WriteTypes DEF GithubTypes
  <2>3. UNCHANGED job /\ UNCHANGED <<projected, openDecisions, resolvedDecisions, claims>>
        /\ UNCHANGED <<pull, ahead, webhookDue, workflow>>
    BY <1>15 DEF MarkWaitingForDecision, ClaimIssue, MarkWaitingForMerge, decisionVars
  <2>4. pc' \in WithBody /\ pc \in WithBody /\ (pc' \in {"published", "recorded"} => pc = "published")
    BY <1>15 DEF MarkWaitingForDecision, ClaimIssue, MarkWaitingForMerge
  <2>5. pc = "published" => job.pr \in Executions
    BY DEF WorkInv, JobFits
  <2> QED
    BY <1>2, <1>3, <1>4, <1>5, <1>6, <1>8, <2>2, <2>3, <2>4, <2>5
<1>16. CASE CheckpointDecision \/ CheckpointPullRequest
  <2>1. job.body \in Markers /\ job.pr \in Executions \union {None}
    BY <1>2, <1>8, <1>16 DEF CheckpointDecision, CheckpointPullRequest, Jobs
  <2>2. PICK w \in Workflows : workflow' = [workflow EXCEPT ![job.wf] = w]
    <3>1. AskedDecision \in Decisions
      BY <1>2, <2>1 DEF AskedDecision, Decisions, Markers
    <3>2. [workflow[job.wf] EXCEPT !.stage = "waiting-human", !.decision = AskedDecision] \in Workflows
      BY <1>2, <3>1 DEF Workflows, Stages
    <3>3. [workflow[job.wf] EXCEPT !.stage = "waiting-human", !.pr = job.pr] \in Workflows
      BY <1>2, <2>1 DEF Workflows, Stages
    <3> QED
      BY <1>16, <3>2, <3>3 DEF CheckpointDecision, CheckpointPullRequest
  <2>3. workflow' \in [Executions -> Workflows \union {None}] /\ WorkflowsStay
    BY <1>1, <1>2, <2>2, TransitionTypes
  <2>4. job' = [job EXCEPT !.result = "succeeded"] /\ pc' = "returned"
        /\ UNCHANGED <<projected, openDecisions, resolvedDecisions, claims>>
        /\ UNCHANGED <<issue, pull, ahead, webhookDue>>
    BY <1>16 DEF CheckpointDecision, CheckpointPullRequest, KeepsDelivery, githubVars, decisionVars
  <2>5. job' \in Jobs /\ job'.item = job.item /\ job'.wf = job.wf /\ job'.result \in Terminal
    BY <1>2, <2>4 DEF Jobs, Terminal
  <2> QED
    BY <1>1, <1>3, <1>6, <2>3, <2>4, <2>5 DEF GithubTypes
<1>17. CASE Push
  <2> DEFINE updates == [NoUpdates EXCEPT !.head = slot]
  <2>1. updates \in Updates
    BY <1>2 DEF NoUpdates, Updates
  <2>2. Checkpoint("publishing", updates) /\ "publishing" \in Stages
    BY <1>17 DEF Push, Stages
  <2> HIDE DEF updates
  <2>3. /\ workflow' \in [Executions -> Workflows \union {None}] /\ WorkflowsStay
        /\ job' = [job EXCEPT !.ckpt = "publishing"]
    BY <1>1, <1>2, <2>1, <2>2, CheckpointTypes
  <2>4. job' \in Jobs /\ job'.item = job.item /\ job'.wf = job.wf /\ job'.body = job.body
    BY <1>2, <2>2, <2>3 DEF Jobs
  <2>5. GithubTypes'
    BY <1>1, <1>17 DEF Push, GithubTypes
  <2> QED
    BY <1>3, <1>6, <1>8, <1>17, <2>3, <2>4, <2>5 DEF Push, decisionVars
<1>18. CASE OpenPullRequest
  <2>1. PICK e \in Executions : job' = [job EXCEPT !.pr = e]
    BY <1>2, <1>18 DEF OpenPullRequest, OpenPulls
  <2>2. /\ job' \in Jobs /\ job'.item = job.item /\ job'.wf = job.wf /\ job'.body = job.body
        /\ job'.pr \in Executions
    BY <1>2, <2>1 DEF Jobs
  <2>3. GithubTypes'
    BY <1>1, <1>2, <1>18 DEF OpenPullRequest, GithubTypes
  <2> QED
    BY <1>3, <1>4, <1>6, <1>8, <1>18, <2>2, <2>3 DEF OpenPullRequest, decisionVars
<1> QED
  BY <1>9, <1>10, <1>11, <1>12, <1>13, <1>14, <1>15, <1>16, <1>17, <1>18 DEF Deliver

\* What a run does besides delivering.
Around ==
    \/ StartWorkflow \/ MarkStarted \/ StartThrows
    \/ Interrupt \/ Finish \/ EnterLoop \/ Crash \/ Restart \/ (\E p \in Projects : RunCycle(p))

(* The worker around its run.                                              *)
LEMMA AroundTypes ==
  ASSUME WorkInv, Around
  PROVE  DeliveryTyped /\ WorkerTyped
<1>1. DatabaseTypes /\ GithubTypes /\ WorkerTypes /\ StoreTypeOK
  BY TypeParts DEF WorkInv
<1>2. job \in Jobs /\ (pc \notin Free => slot \in Executions /\ slot # None)
  BY <1>1, NoneIsDistinct DEF WorkerTypes, StoreTypeOK
<1>3. /\ pc \in AtWork => job.item \in Items
      /\ pc \in WithWorkflow => job.wf \in Executions /\ workflow[job.wf] \in Workflows
      /\ pc = "returned" => job.result \in Terminal
  BY DEF WorkInv, JobFits
<1>4. UNCHANGED <<projected, openDecisions, resolvedDecisions, claims, pull, ahead, webhookDue>>
  BY DEF Around, StartWorkflow, MarkStarted, StartThrows, Interrupt, Finish, EnterLoop, Crash,
         Restart, RunCycle, KeepsDelivery, DeadlineElapses, CancelObserved, HeartbeatFails,
         StopsFor, Abort, StepFails, CancelLifecycle, Settle, SettleFails, CatchCompletes,
         CatchFails, githubVars, decisionVars
<1>5. ASSUME workflow' \in [Executions -> Workflows \union {None}], WorkflowsStay,
             issue' \in [Items -> Markers]
      PROVE  DeliveryTyped
  BY <1>1, <1>4, <1>5 DEF DatabaseTypes, GithubTypes, DeliveryTyped
<1>6. UNCHANGED <<workflow, issue>> => DeliveryTyped
  BY <1>1, <1>5 DEF DatabaseTypes, GithubTypes, WorkflowsStay
<1>7. NoJob \in Jobs
  BY DEF NoJob, Jobs
<1> USE DEF WorkerTypes, JobFits, WorkerTyped, AtWork, Positions, Executing, AbortPoints, Free,
            WithBody, WithWorkflow
<1>8. CASE \E p \in Projects : RunCycle(p)
  <2>1. PICK p \in Projects : RunCycle(p)
    BY <1>8
  <2> DEFINE i == SelectedItem(p)
  <2>2. i \in Items /\ FreshExecution \in Executions /\ slot' = FreshExecution
    BY <2>1, CycleSchedules DEF WorkerSchedules
  <2>3. ResumeDecision(p) \in Decisions \union {None}
    BY <1>1 DEF ResumeDecision, DatabaseTypes
  <2>4. job' = [NoJob EXCEPT !.item = i, !.seen = projected[i].rev,
                             !.ref = projected[i].exec, !.resume = ResumeDecision(p)]
    BY <2>1 DEF RunCycle
  <2>5. job' \in Jobs /\ job'.item = i
    <3>1. projected[i] \in Markers
      BY <1>1, <2>2 DEF DatabaseTypes
    <3>2. projected[i].rev \in Nat /\ projected[i].exec \in Executions \union {None}
      BY ONLY <3>1 DEF Markers
    <3> HIDE DEF i
    <3> QED
      BY ONLY <2>2, <2>3, <2>4, <3>2 DEF NoJob, Jobs
  <2>6. UNCHANGED <<workflow, issue>> /\ pc' = "leased"
    BY <2>1 DEF RunCycle, githubVars
  <2> QED
    BY <1>6, <2>2, <2>5, <2>6, NoneIsDistinct
<1>9. CASE StartWorkflow
  <2>1. slot' = slot /\ pc' = "started" /\ UNCHANGED issue /\ pc = "leased"
    BY <1>9 DEF StartWorkflow, storeVars, KeepsDelivery, githubVars
  <2>2. CASE job.resume = None
    <3> DEFINE w == [stage |-> "admitted", decision |-> None, pr |-> None, head |-> None,
                     resumed |-> {}]
    <3>1. w \in Workflows
      BY DEF Workflows, Stages
    <3>2. workflow' = [workflow EXCEPT ![slot] = w] /\ job' = [job EXCEPT !.wf = slot]
      BY <1>9, <2>2 DEF StartWorkflow
    <3> HIDE DEF w
    <3>3. /\ workflow' \in [Executions -> Workflows \union {None}] /\ WorkflowsStay
          /\ workflow'[slot] \in Workflows
      BY <1>1, <1>2, <2>1, <3>1, <3>2, TransitionTypes
    <3>4. job' \in Jobs /\ job'.item = job.item /\ job'.wf = slot
      BY <1>2, <2>1, <3>2 DEF Jobs
    <3> QED
      BY <1>1, <1>2, <1>3, <1>5, <2>1, <3>3, <3>4 DEF GithubTypes
  <2>3. CASE job.resume # None
    <3>1. UNCHANGED workflow /\ job.ref # None /\ workflow[job.ref] # None
          /\ job' = [job EXCEPT !.wf = job.ref]
      BY <1>9, <2>3 DEF StartWorkflow
    <3>2. job.ref \in Executions /\ workflow[job.ref] \in Workflows
      BY <1>1, <1>2, <3>1 DEF Jobs, DatabaseTypes
    <3>3. job' \in Jobs /\ job'.item = job.item /\ job'.wf = job.ref
      BY <1>2, <3>1, <3>2 DEF Jobs
    <3> QED
      BY <1>2, <1>3, <1>6, <2>1, <3>1, <3>2, <3>3
  <2> QED
    BY <2>2, <2>3
<1>10. CASE MarkStarted
  <2>1. UNCHANGED <<workflow, issue, job, slot>> /\ pc \in {"started", "dispatched"}
        /\ pc' \in {"dispatched", "begin"}
    BY <1>10 DEF MarkStarted, WorkerMarks, KeepsDelivery, githubVars
  <2> QED
    BY <1>1, <1>2, <1>3, <1>6, <2>1
<1>11. CASE StartThrows
  <2>1. UNCHANGED <<workflow, issue, job, slot>> /\ pc' = "catching"
        /\ pc \in {"leased", "started", "dispatched", "begin"}
    BY <1>11 DEF StartThrows, githubVars, storeVars
  <2> QED
    BY <1>1, <1>2, <1>3, <1>6, <2>1
<1>12. CASE DeadlineElapses \/ CancelObserved \/ HeartbeatFails
  <2>1. PICK reason \in {"timeout", "cancel", "lease"} : StopsFor(reason)
    BY <1>12 DEF DeadlineElapses, CancelObserved, HeartbeatFails
  <2>2. UNCHANGED <<workflow, issue, slot, pc>> /\ pc \in Executing
        /\ job' = [job EXCEPT !.stop = reason]
    BY <2>1 DEF StopsFor, githubVars, storeVars
  <2>3. /\ job' \in Jobs /\ job'.item = job.item /\ job'.wf = job.wf /\ job'.body = job.body
        /\ job'.pr = job.pr /\ job'.result = job.result
    BY <1>2, <2>2 DEF Jobs
  <2> QED
    BY <1>1, <1>6, <2>2, <2>3 DEF WorkInv
<1>13. CASE Abort \/ StepFails
  <2>1. /\ UNCHANGED <<workflow, issue, slot>> /\ pc \in Executing
        /\ \/ pc' = "cancelling" /\ job' = job
           \/ pc' = "returned" /\ job' = [job EXCEPT !.result = "failed"]
    BY <1>13 DEF Abort, StepFails, KeepsDelivery, githubVars, storeVars
  <2>2. CASE pc' = "cancelling" /\ job' = job
    BY <1>1, <1>2, <1>3, <1>6, <2>1, <2>2
  <2>3. CASE pc' = "returned" /\ job' = [job EXCEPT !.result = "failed"]
    <3>1. job' \in Jobs /\ job'.item = job.item /\ job'.result = "failed"
      BY <1>2, <2>3 DEF Jobs, Terminal
    <3> QED
      BY <1>1, <1>2, <1>3, <1>6, <2>1, <2>3, <3>1 DEF Terminal
  <2> QED
    BY <2>1, <2>2, <2>3
<1>14. CASE CancelLifecycle
  <2>1. /\ UNCHANGED workflow /\ slot' = slot /\ pc = "cancelling" /\ pc' = "returned"
        /\ job' = [job EXCEPT !.result = "cancelled"]
    BY <1>14 DEF CancelLifecycle, storeVars
  <2>2. job' \in Jobs /\ job'.item = job.item /\ job'.result = "cancelled"
    BY <1>2, <2>1 DEF Jobs, Terminal
  <2>3. issue' \in [Items -> Markers]
    <3> DEFINE owner == Coalesce(job.ref, slot)
               m == [issue[job.item] EXCEPT !.state = "cancelled", !.exec = owner,
                                            !.decision = None]
    <3>1. owner \in Executions
      BY <1>2, <2>1 DEF Coalesce, Jobs
    <3> HIDE DEF owner
    <3>2. m \in Markers
      <4>1. issue[job.item] \in Markers
        BY <1>1, <1>3, <2>1 DEF GithubTypes
      <4> QED
        BY ONLY <3>1, <4>1 DEF Markers, States
    <3>3. UNCHANGED issue \/ WriteIssue(job.item, m)
      BY <1>14 DEF CancelLifecycle, owner
    <3> HIDE DEF m
    <3> QED
      BY <1>1, <1>3, <2>1, <3>2, <3>3, WriteTypes DEF GithubTypes
  <2> QED
    BY <1>1, <1>2, <1>3, <1>5, <2>1, <2>2, <2>3 DEF DatabaseTypes, WorkflowsStay, Terminal
<1>15. CASE Settle \/ SettleFails \/ CatchCompletes \/ CatchFails \/ Crash
  <2>1. UNCHANGED <<workflow, issue>>
    BY <1>15 DEF Settle, SettleFails, CatchCompletes, CatchFails, Crash, KeepsDelivery, githubVars
  <2>2. \/ pc' \in {"idle", "down"} /\ job' = NoJob /\ slot' = None
        \/ pc' = "catching" /\ job' = job /\ slot' = slot /\ pc = "returned"
    BY <1>15 DEF Settle, SettleFails, CatchCompletes, CatchFails, Crash, EndsCycle
  <2> QED
    BY <1>1, <1>2, <1>3, <1>6, <1>7, <2>1, <2>2
<1>16. CASE EnterLoop \/ Restart
  <2>1. UNCHANGED <<workflow, issue, job, slot>> /\ pc \in Free /\ pc' \in Free
    BY <1>16 DEF EnterLoop, Restart, KeepsDelivery, githubVars, storeVars
  <2> QED
    BY <1>1, <1>6, <2>1
<1> QED
  BY <1>8, <1>9, <1>10, <1>11, <1>12, <1>13, <1>14, <1>15, <1>16 DEF Around, Interrupt, Finish

\* What others do: reconciliations, the dashboard, GitHub and the clock.
Outside ==
    \/ Start
    \/ \E p \in Projects : ReconcileProject(p)
    \/ \E i \in Items : ReconcileItem(i) \/ OperatorActs(i)
    \/ \E e \in Executions :
          \/ LeaseRunsOut(e) \/ RequestExecutionCancel(e) \/ ClosePullRequest(e)
          \/ PullRequestClosedWebhook(e) \/ PullRequestSynchronizedWebhook(e)
    \/ \E d \in openDecisions : ResolveDecision(d)

(* Nothing else happens.                                                   *)
LEMMA NextActors == Next <=> Deliver \/ Around \/ Outside
  BY DEF Next, Around, Outside, Dispatch, Finish, Surroundings

(* None of them touches the worker, or starts a provider.                  *)
LEMMA WorkerIsLeft == Outside => UNCHANGED <<pc, job, slot, claims>>
<1> DEFINE same == UNCHANGED <<pc, job, slot, claims>>
<1>1. Start => same
  BY DEF Start, ReconcileCandidate, ReconcileMissingWorkflowStart, ReconcilerCompletes,
         workerVars, KeepsDelivery
<1>2. ASSUME NEW p \in Projects, ReconcileProject(p) PROVE same
  BY <1>2 DEF ReconcileProject, storeVars, workerVars
<1>3. ASSUME NEW i \in Items, ReconcileItem(i) \/ OperatorActs(i) PROVE same
  BY <1>3 DEF ReconcileItem, OperatorActs, storeVars, workerVars
<1>4. ASSUME NEW e \in Executions, LeaseRunsOut(e) \/ RequestExecutionCancel(e) PROVE same
  BY <1>4 DEF LeaseRunsOut, TimePasses, RequestExecutionCancel, DashboardCancels, workerVars,
              KeepsDelivery
<1>5. ASSUME NEW e \in Executions, ClosePullRequest(e) PROVE same
  BY <1>5 DEF ClosePullRequest, storeVars, workerVars
<1>6. ASSUME NEW e \in Executions,
             PullRequestClosedWebhook(e) \/ PullRequestSynchronizedWebhook(e)
      PROVE  same
  BY <1>6 DEF PullRequestClosedWebhook, PullRequestSynchronizedWebhook, PullRequestEvent,
              storeVars, workerVars
<1>7. ASSUME NEW d \in openDecisions, ResolveDecision(d) PROVE same
  BY <1>7 DEF ResolveDecision, storeVars, workerVars
<1> QED
  BY <1>1, <1>2, <1>3, <1>4, <1>5, <1>6, <1>7 DEF Outside

(* A pull request event on an issue.                                       *)
LEMMA EventTypes ==
  ASSUME WorkInv, NEW e \in Executions, NEW i \in Items, NEW closed \in BOOLEAN,
         PullRequestEvent(e, i, closed)
  PROVE  /\ issue' \in [Items -> Markers] /\ projected' \in [Items -> Markers]
         /\ workflow' \in [Executions -> Workflows \union {None}] /\ WorkflowsStay
         /\ UNCHANGED <<openDecisions, resolvedDecisions, claims, pull, ahead>>
<1>1. DatabaseTypes /\ GithubTypes
  BY TypeParts DEF WorkInv
<1> DEFINE completes == /\ issue[i].pr = e /\ issue[i].exec = projected[i].exec
                        /\ closed /\ pull[e] = "merged"
           next == [issue[i] EXCEPT !.state = IF completes THEN "completed" ELSE "blocked",
                                    !.decision = IF completes THEN None ELSE PullRequestDecision(i)]
           owner == projected[i].exec
<1>2. next \in Markers
  <2>1. PullRequestDecision(i) \in Decisions
    BY DEF PullRequestDecision, Decisions
  <2> HIDE DEF completes
  <2>2. issue[i] \in Markers
    BY <1>1 DEF GithubTypes
  <2> QED
    BY ONLY <2>1, <2>2 DEF Markers, States
<1>3. /\ UNCHANGED issue \/ WriteIssue(i, next)
      /\ \/ UNCHANGED workflow
         \/ /\ owner # None /\ WorkflowAwaitsMerge(owner, e)
            /\ workflow' = [workflow EXCEPT ![owner].stage = "completed"]
      /\ \/ UNCHANGED projected
         \/ projected' = [j \in Items |->
               IF ProjectOf[j] = ProjectOf[i] THEN issue'[j] ELSE projected[j]]
      /\ UNCHANGED <<openDecisions, resolvedDecisions, claims, pull, ahead>>
  BY DEF PullRequestEvent, decisionVars
<1> HIDE DEF next
<1>4. issue' \in [Items -> Markers]
  BY <1>1, <1>2, <1>3, WriteTypes DEF GithubTypes
<1>5. projected' \in [Items -> Markers]
  BY <1>1, <1>3, <1>4 DEF DatabaseTypes
<1>6. workflow' \in [Executions -> Workflows \union {None}] /\ WorkflowsStay
  <2>1. CASE UNCHANGED workflow
    BY <1>1, <2>1 DEF DatabaseTypes, WorkflowsStay
  <2>2. CASE /\ owner # None /\ WorkflowAwaitsMerge(owner, e)
             /\ workflow' = [workflow EXCEPT ![owner].stage = "completed"]
    <3>1. owner \in Executions /\ workflow[owner] \in Workflows
      BY <1>1, <2>2 DEF DatabaseTypes, Markers, WorkflowAwaitsMerge
    <3>2. [workflow[owner] EXCEPT !.stage = "completed"] \in Workflows
      BY <3>1 DEF Workflows, Stages
    <3> QED
      BY <1>1, <2>2, <3>1, <3>2, TransitionTypes
  <2> QED
    BY <1>3, <2>1, <2>2
<1> QED
  BY <1>3, <1>4, <1>5, <1>6

(* Everybody else.                                                         *)
LEMMA OutsideTypes ==
  ASSUME WorkInv, Outside
  PROVE  DeliveryTyped /\ WorkerTyped
<1>1. DatabaseTypes /\ GithubTypes /\ WorkerTypes /\ JobFits
  BY TypeParts DEF WorkInv
<1>2. ASSUME WorkflowsStay PROVE WorkerTyped
  BY <1>1, <1>2, WorkerIsLeft DEF WorkerTyped, WorkerTypes, JobFits, WorkflowsStay
<1>3. ASSUME UNCHANGED <<workflow, projected, openDecisions, resolvedDecisions, claims>>
      PROVE  DatabaseTypes' /\ WorkflowsStay
  BY <1>1, <1>3 DEF DatabaseTypes, WorkflowsStay
<1> USE DEF DeliveryTyped
<1>4. CASE UNCHANGED <<projected, workflow, decisionVars, githubVars, claims>>
  BY <1>1, <1>2, <1>3, <1>4 DEF githubVars, decisionVars, GithubTypes
<1>5. ASSUME NEW p \in Projects, ReconcileProject(p) PROVE DeliveryTyped /\ WorkerTyped
  <2>1. projected' \in [Items -> Markers]
    BY <1>1, <1>5 DEF ReconcileProject, DatabaseTypes, GithubTypes
  <2> QED
    BY <1>1, <1>2, <1>5, <2>1
       DEF ReconcileProject, githubVars, decisionVars, GithubTypes, DatabaseTypes, WorkflowsStay
<1>6. ASSUME NEW i \in Items, ReconcileItem(i) PROVE DeliveryTyped /\ WorkerTyped
  <2> DEFINE m == [issue[i] EXCEPT !.state = "completed", !.decision = None]
             e == issue[i].exec
  <2>1. m \in Markers /\ e \in Executions
    <3>1. issue[i] \in Markers
      BY <1>1 DEF GithubTypes
    <3>2. m \in Markers
      BY ONLY <3>1 DEF Markers, States
    <3>3. e \in Executions
      BY <1>6, <3>1 DEF ReconcileItem, CorrelatedMergedPull, Markers
    <3> QED
      BY <3>2, <3>3
  <2>2. UNCHANGED issue \/ WriteIssue(i, m)
    BY <1>6 DEF ReconcileItem
  <2>3. \/ UNCHANGED workflow
        \/ /\ WorkflowAwaitsMerge(e, issue[i].pr)
           /\ workflow' = [workflow EXCEPT ![e].stage = "completed"]
    BY <1>6 DEF ReconcileItem
  <2>4. UNCHANGED <<projected, openDecisions, resolvedDecisions, claims, pull, ahead, webhookDue>>
    BY <1>6 DEF ReconcileItem, decisionVars
  <2> HIDE DEF m, e
  <2>5. issue' \in [Items -> Markers]
    BY <1>1, <2>1, <2>2, WriteTypes DEF GithubTypes
  <2>6. workflow' \in [Executions -> Workflows \union {None}] /\ WorkflowsStay
    <3>1. CASE UNCHANGED workflow
      BY <1>1, <3>1 DEF DatabaseTypes, WorkflowsStay
    <3>2. CASE /\ workflow[e] # None
               /\ workflow' = [workflow EXCEPT ![e].stage = "completed"]
      <4>1. workflow[e] \in Workflows
        BY <1>1, <2>1, <3>2 DEF DatabaseTypes
      <4>2. [workflow[e] EXCEPT !.stage = "completed"] \in Workflows
        BY <4>1 DEF Workflows, Stages
      <4> QED
        BY <1>1, <2>1, <3>2, <4>1, <4>2, TransitionTypes
    <3> QED
      BY <2>3, <3>1, <3>2 DEF WorkflowAwaitsMerge
  <2> QED
    BY <1>1, <1>2, <2>4, <2>5, <2>6 DEF DatabaseTypes, GithubTypes
<1>7. ASSUME NEW i \in Items, OperatorActs(i) PROVE DeliveryTyped /\ WorkerTyped
  <2>1. PICK m \in Markers : UNCHANGED issue \/ WriteIssue(i, m)
    <3>1. issue[i] \in Markers
      BY <1>1 DEF GithubTypes
    <3>2. [issue[i] EXCEPT !.state = "ready"] \in Markers /\ DefaultMarker(0) \in Markers
      BY <3>1 DEF Markers, States, DefaultMarker
    <3> QED
      BY <1>7, <3>1, <3>2 DEF OperatorActs
  <2>2. issue' \in [Items -> Markers]
    BY <1>1, <2>1, WriteTypes DEF GithubTypes
  <2>3. /\ UNCHANGED <<workflow, projected, openDecisions, resolvedDecisions, claims>>
        /\ UNCHANGED <<pull, webhookDue>> /\ ahead' \in [Items -> BOOLEAN]
    BY <1>1, <1>7 DEF OperatorActs, decisionVars, GithubTypes
  <2> QED
    BY <1>1, <1>2, <1>3, <2>2, <2>3 DEF GithubTypes
<1>8. ASSUME NEW e \in Executions, ClosePullRequest(e) PROVE DeliveryTyped /\ WorkerTyped
  BY <1>1, <1>2, <1>3, <1>8 DEF ClosePullRequest, decisionVars, GithubTypes
<1>9. ASSUME NEW e \in Executions,
             PullRequestClosedWebhook(e) \/ PullRequestSynchronizedWebhook(e)
      PROVE  DeliveryTyped /\ WorkerTyped
  <2>1. webhookDue' \subseteq Executions
    BY <1>1, <1>9 DEF PullRequestClosedWebhook, PullRequestSynchronizedWebhook, GithubTypes
  <2>2. CASE UNCHANGED <<projected, workflow, decisionVars, issue, pull, ahead, claims>>
    BY <1>1, <1>2, <1>3, <2>1, <2>2 DEF GithubTypes, decisionVars
  <2>3. ASSUME NEW i \in Items, NEW closed \in BOOLEAN, PullRequestEvent(e, i, closed)
        PROVE  DeliveryTyped /\ WorkerTyped
    BY <1>1, <1>2, <2>1, <2>3, EventTypes DEF DatabaseTypes, GithubTypes
  <2> QED
    BY <1>9, <2>2, <2>3 DEF PullRequestClosedWebhook, PullRequestSynchronizedWebhook
<1>10. ASSUME NEW d \in openDecisions, ResolveDecision(d) PROVE DeliveryTyped /\ WorkerTyped
  BY <1>1, <1>2, <1>10
     DEF ResolveDecision, githubVars, GithubTypes, DatabaseTypes, WorkflowsStay
<1>11. Start \/ (\E e \in Executions : LeaseRunsOut(e) \/ RequestExecutionCancel(e))
         => UNCHANGED <<projected, workflow, decisionVars, githubVars, claims>>
  BY DEF Start, ReconcileCandidate, ReconcileMissingWorkflowStart, LeaseRunsOut,
         RequestExecutionCancel, KeepsDelivery
<1> QED
  BY <1>4, <1>5, <1>6, <1>7, <1>8, <1>9, <1>10, <1>11 DEF Outside

\* A bounded event happens, or does not.
Counted(n, next, bound) == next = n \/ (n < bound /\ next = n + 1)

Counts == /\ Counted(edits, edits', MaxEdits)
          /\ Counted(crashes, crashes', MaxCrashes)
          /\ Counted(outages, outages', MaxOutages)

(* Operator actions, crashes and outages are counted.                      *)
LEMMA CountersCount == [Next]_vars => Counts
<1> USE DEF Counts
<1>1. Deliver => Counts
  BY DEF Deliver, Begin, ApplyHumanDecision, PrepareCheckout, ReadIssue, PlanEnrichment, Enrich,
         PlanDevelopment, AskForDecision, MarkWaitingForDecision, CheckpointDecision,
         ReReadIssue, ClaimIssue, CheckpointClaim, Advance, Push, OpenPullRequest,
         MarkWaitingForMerge, CheckpointPullRequest, Step, Counted, counters, KeepsDelivery
<1>2. Around => Counts
  <2> USE DEF Counted, counters, NoOutage, Outage, KeepsDelivery
  <2>1. Settle \/ SettleFails \/ CatchCompletes \/ CatchFails \/ Crash \/ Restart => Counts
    BY DEF Settle, SettleFails, CatchCompletes, CatchFails, Crash, Restart
  <2>2. Interrupt => Counts
    BY DEF Interrupt, DeadlineElapses, CancelObserved, HeartbeatFails, StopsFor, Abort, StepFails
  <2>3. CancelLifecycle \/ EnterLoop \/ (\E p \in Projects : RunCycle(p)) => Counts
    BY DEF CancelLifecycle, EnterLoop, RunCycle
  <2>4. StartWorkflow \/ MarkStarted \/ StartThrows => Counts
    BY DEF StartWorkflow, MarkStarted, StartThrows
  <2> QED
    BY <2>1, <2>2, <2>3, <2>4 DEF Around, Finish
<1>3. Outside => Counts
  <2> USE DEF Counted, counters, NoOutage, Outage, Edit, KeepsDelivery
  <2>1. Start \/ (\E p \in Projects : ReconcileProject(p)) => Counts
    BY DEF Start, ReconcileCandidate, ReconcileMissingWorkflowStart, ReconcileProject
  <2>2. ASSUME NEW i \in Items, ReconcileItem(i) \/ OperatorActs(i) PROVE Counts
    BY <2>2 DEF ReconcileItem, OperatorActs
  <2>3. ASSUME NEW e \in Executions,
               LeaseRunsOut(e) \/ RequestExecutionCancel(e) \/ ClosePullRequest(e)
        PROVE  Counts
    BY <2>3 DEF LeaseRunsOut, RequestExecutionCancel, ClosePullRequest
  <2>4. ASSUME NEW e \in Executions,
               PullRequestClosedWebhook(e) \/ PullRequestSynchronizedWebhook(e)
        PROVE  Counts
    BY <2>4 DEF PullRequestClosedWebhook, PullRequestSynchronizedWebhook, PullRequestEvent
  <2>5. ASSUME NEW d \in openDecisions, ResolveDecision(d) PROVE Counts
    BY <2>5 DEF ResolveDecision
  <2> QED
    BY <2>1, <2>2, <2>3, <2>4, <2>5 DEF Outside
<1> QED
  BY <1>1, <1>2, <1>3, NextActors DEF vars, counters, Counted

(* The bounds hold.                                                        *)
LEMMA CounterStep == CounterTypes /\ [Next]_vars => CounterTypes'
  BY CountersCount, IssuesAssumption DEF Counts, Counted, CounterTypes

(* The invariant holds at first, and every step keeps it.                  *)
LEMMA WorkInit == Init => WorkInv
<1> SUFFICES ASSUME Init PROVE WorkInv
  OBVIOUS
<1>1. StoreTypeOK
  BY DEF Init, StoreInit, StoreTypeOK
<1>2. issue \in [Items -> Markers]
  <2>1. DefaultMarker(1) \in Markers
    BY DEF DefaultMarker, Markers, States
  <2> QED
    BY <2>1 DEF Init
<1>3. DatabaseTypes /\ GithubTypes
  BY <1>2 DEF Init, DatabaseTypes, GithubTypes
<1>4. WorkerTypes
  BY DEF Init, StoreInit, WorkerTypes, NoJob, Jobs, Positions, Free
<1>5. CounterTypes
  BY IssuesAssumption DEF Init, CounterTypes
<1>6. JobFits
  BY DEF Init, JobFits, AtWork, WithWorkflow, WithBody, Free, Executing, AbortPoints
<1> QED
  BY <1>1, <1>3, <1>4, <1>5, <1>6, TypeParts DEF WorkInv

(* The shape of the delivery is kept by every step.                        *)
LEMMA WorkStep ==
  ASSUME SummariesSuffice, WorkInv, [Next]_vars
  PROVE  WorkInv'
<1>1. StoreTypeOK /\ DatabaseTypes /\ GithubTypes /\ WorkerTypes /\ CounterTypes /\ JobFits
  BY TypeParts DEF WorkInv
<1>2. StoreTypeOK'
  BY <1>1, StoreStep, TypeStep
<1>3. CounterTypes'
  BY <1>1, CounterStep
<1>4. DatabaseTypes' /\ GithubTypes' /\ WorkerTypes' /\ JobFits'
  <2>1. CASE Next
    BY <2>1, NextActors, DeliverTypes, AroundTypes, OutsideTypes DEF DeliveryTyped, WorkerTyped
  <2>2. CASE UNCHANGED vars
    BY <1>1, <2>2 DEF vars, decisionVars, githubVars, workerVars, storeVars, DatabaseTypes,
                      GithubTypes, WorkerTypes, JobFits
  <2> QED
    BY <2>1, <2>2
<1> QED
  BY <1>2, <1>3, <1>4, NextTypeParts DEF WorkInv

-----------------------------------------------------------------------------
(* Types, and the store beneath.                                           *)

(* The delivery keeps its shape.                                           *)
LEMMA WorkInvariance ==
  ASSUME SummariesSuffice
  PROVE  SafetySpec => []WorkInv
<1>1. WorkInv /\ [Next]_vars => WorkInv'
  BY WorkStep
<1> QED
  BY <1>1, WorkInit, PTL DEF SafetySpec

(* Every variable keeps its type, whatever fails: a job's fields, an       *)
(* issue's marker, a workflow, the counters of the faults.                 *)
THEOREM DeliveryTypes ==
  ASSUME SummariesSuffice
  PROVE  SafetySpec => []TypeOK
<1>1. WorkInv => TypeOK
  BY DEF WorkInv
<1> QED
  BY <1>1, WorkInvariance, PTL

(* KeepsStoreDiscipline: the worker, its crashes, its failing calls and    *)
(* its deadlines only ever take steps of the store's specification, under  *)
(* which the leases are proved to exclude.                                 *)
THEOREM Discipline ==
  ASSUME SummariesSuffice
  PROVE  SafetySpec => KeepsStoreDiscipline
<1>1. Init => StoreInit
  BY DEF Init
<1>2. WorkInv /\ [Next]_vars => [StoreNext]_storeVars
  BY StoreStep
<1> QED
  BY <1>1, <1>2, WorkInvariance, PTL DEF SafetySpec, KeepsStoreDiscipline, StoreSpec

(* Hence no issue is worked on twice at once, for any workers' history:    *)
(* OneLiveExecutionPerItem and TerminalIsFinal of the whole delivery.      *)
THEOREM DeliveryExcludes ==
  ASSUME SummariesSuffice
  PROVE  SafetySpec => []OneLiveExecutionPerItem /\ TerminalIsFinal
  BY Discipline, Exclusion, Finality, PTL DEF KeepsStoreDiscipline

-----------------------------------------------------------------------------
(* Executions in flight have a driver.                                     *)

(* NoOrphanWithoutFault is inductive with the types: a cycle is entered    *)
(* with no driver, so nothing is in flight then, and it gives up its       *)
(* execution only as it completes it.                                      *)
LEMMA OrphanStep ==
  ASSUME WorkInv, NoOrphanWithoutFault, [Next]_vars
  PROVE  NoOrphanWithoutFault'
<1>1. StoreTypeOK /\ WorkerTypes /\ CounterTypes
  BY TypeParts DEF WorkInv
<1> SUFFICES ASSUME crashes' + outages' = 0, NEW e \in Executions, IsInFlight(e)'
             PROVE  slot' = e
  BY DEF NoOrphanWithoutFault
<1>2. crashes = 0 /\ outages = 0 /\ crashes' = 0 /\ outages' = 0
  BY <1>1, CountersCount, IssuesAssumption DEF Counts, Counted, CounterTypes
<1>3. \A f \in Executions : IsInFlight(f) => slot = f
  BY <1>2 DEF NoOrphanWithoutFault
<1>4. pc \notin Free => slot \in Executions /\ slot # None
  BY <1>1, NoneIsDistinct DEF WorkerTypes, StoreTypeOK
<1>5. ~Outage /\ ~Crash
  BY <1>2 DEF Outage, Crash
<1> USE DEF IsInFlight, InFlight, Terminal, StoreTypeOK
<1>6. CASE LeavesStore \/ UNCHANGED vars
  BY <1>3, <1>6, StoreIsLeft DEF vars, storeVars, rowVars
<1>7. CASE Start
  BY <1>1, <1>3, <1>7 DEF Start, ReconcileCandidate, ReconcileMissingWorkflowStart,
                          ReconcilerCompletes, Complete
<1>8. ASSUME NEW p \in Projects, RunCycle(p) PROVE slot' = e
  <2>1. /\ slot = None /\ slot' = FreshExecution /\ FreshExecution \in Executions
        /\ execStatus' = [execStatus EXCEPT ![FreshExecution] = "leased"]
    BY <1>8, CycleSchedules DEF WorkerSchedules, ScheduleWithLease, InsertLeasedExecution
  <2> QED
    BY <1>1, <1>3, <2>1, NoneIsDistinct
<1>9. CASE MarkStarted
  BY <1>1, <1>3, <1>4, <1>9 DEF MarkStarted, Free, WorkerMarks, MarkDispatched, MarkRunning,
                                UpdateInFlightStatus
<1>10. CASE Settle
  BY <1>1, <1>3, <1>4, <1>10, NoneIsDistinct DEF Settle, Free, WorkerCompletes, Complete, Outcome, WorkInv, JobFits
<1>11. CASE CatchCompletes
  BY <1>1, <1>3, <1>4, <1>11 DEF CatchCompletes, Free, Complete, rowVars, IsTerminal
<1>12. ASSUME NEW f \in Executions, LeaseRunsOut(f) \/ RequestExecutionCancel(f)
       PROVE  slot' = e
  BY <1>3, <1>12 DEF LeaseRunsOut, TimePasses, LeaseExpires, RequestExecutionCancel,
                     DashboardCancels, RequestCancel
<1> QED
  BY <1>5, <1>6, <1>7, <1>8, <1>9, <1>10, <1>11, <1>12, NextParts
     DEF MovesStore, SettleFails, CatchFails

(* NoOrphanWithoutFault, whatever the number of executions and issues: a   *)
(* cancellation, a deadline or a failing step leaves nothing behind.       *)
THEOREM NothingIsAbandoned ==
  ASSUME SummariesSuffice
  PROVE  SafetySpec => []NoOrphanWithoutFault
<1>1. Init => NoOrphanWithoutFault
  BY DEF Init, StoreInit, NoOrphanWithoutFault, IsInFlight, InFlight
<1>2. WorkInv /\ NoOrphanWithoutFault /\ [Next]_vars => NoOrphanWithoutFault'
  BY OrphanStep
<1> QED
  BY <1>1, <1>2, WorkInvariance, PTL DEF SafetySpec

-----------------------------------------------------------------------------
(* Whose pull request it is, and what a merge is the end of.               *)

\* Issue i has a merged pull request; those that i depends on have.
Merged(i) == \E e \in Executions : execWork[e] = i /\ pull[e] = "merged"
DependenciesMerged(i) == \A d \in DependsOn[i] : Merged(d)

\* An execution that was never scheduled is on no issue and opened nothing.
FreshIsUntouched ==
    \A e \in Executions : execStatus[e] = "absent" => execWork[e] = None /\ pull[e] = "none"

\* The run's places before it opens its pull request.
BeforePull == AtWork \ {"published", "recorded", "cancelling", "returned", "catching"}

\* The worker drives an execution of its job's issue.
DriverFits ==
    pc \in AtWork => /\ execStatus[slot] # "absent" /\ execWork[slot] = job.item
                     /\ pc \in BeforePull => pull[slot] = "none"

PullInv == FreshIsUntouched /\ DriverFits

\* A marker of issue i names a pull request of i, a merged one when it says
\* "completed".
MarkerFits(m, i) ==
    /\ m.pr # None => execWork[m.pr] = i
    /\ m.state = "completed" => m.pr # None /\ pull[m.pr] = "merged"

\* A state that only an issue whose dependencies are merged can be in.
StateFits(m, i) ==
    /\ m.state = "completed" => Merged(i)
    /\ m.state = "waiting-human" => DependenciesMerged(i)

WorkflowFits(w) ==
    w # None /\ w.stage = "completed" => w.pr # None /\ pull[w.pr] = "merged"

MarkersFit == \A i \in Items : MarkerFits(issue[i], i) /\ StateFits(issue[i], i)
ProjectionFits == \A i \in Items : StateFits(projected[i], i)
WorkflowsFit == \A e \in Executions : WorkflowFits(workflow[e])
RunFits ==
    /\ pc \in AtWork => DependenciesMerged(job.item)
    /\ pc \in WithBody => MarkerFits(job.body, job.item)
    /\ pc \in {"published", "recorded"} => execWork[job.pr] = job.item
ClaimsFit == \A e \in claims : execWork[e] \in Items /\ DependenciesMerged(execWork[e])

MergeInv == MarkersFit /\ ProjectionFits /\ WorkflowsFit /\ RunFits /\ ClaimsFit

\* What a step leaves of the executions and of the pull requests.
Kept ==
    \A e \in Executions :
        /\ execStatus[e] # "absent" => execStatus'[e] # "absent" /\ execWork'[e] = execWork[e]
        /\ pull[e] = "merged" => pull'[e] = "merged"

(* Only scheduling gives an execution its issue.                           *)
LEMMA RowsMove ==
  ASSUME StoreTypeOK, [StoreNext]_storeVars, NEW e \in Executions
  PROVE  \/ /\ execStatus[e] = "absent" /\ execStatus'[e] = "leased"
            /\ slot = None /\ slot' = e
         \/ /\ execWork'[e] = execWork[e]
            /\ execStatus'[e] = "absent" <=> execStatus[e] = "absent"
<1> USE DEF StoreTypeOK, Terminal
<1>1. CASE UNCHANGED storeVars \/ WorkerLeaves
  BY <1>1 DEF storeVars, WorkerLeaves, rowVars
<1>2. ASSUME NEW f \in Executions, NEW w \in Items, WorkerSchedules(f, w)
      PROVE  \/ /\ execStatus[e] = "absent" /\ execStatus'[e] = "leased"
                /\ slot = None /\ slot' = e
             \/ /\ execWork'[e] = execWork[e]
                /\ execStatus'[e] = "absent" <=> execStatus[e] = "absent"
  BY <1>2 DEF WorkerSchedules, ScheduleWithLease, InsertLeasedExecution
<1>3. ASSUME NEW f \in Executions,
             \/ WorkerMarks(f) \/ WorkerRenews(f) \/ ReconcilerCompletes(f)
             \/ DashboardCancels(f) \/ TimePasses(f)
             \/ \E s \in Terminal, summary \in Summaries \union {None} :
                   WorkerCompletes(f, s, summary)
      PROVE  /\ execWork'[e] = execWork[e]
             /\ execStatus'[e] = "absent" <=> execStatus[e] = "absent"
  BY <1>3 DEF WorkerMarks, MarkDispatched, MarkRunning, UpdateInFlightStatus, WorkerRenews,
              Heartbeat, ReconcilerCompletes, Complete, DashboardCancels, RequestCancel,
              TimePasses, LeaseExpires, WorkerCompletes, IsInFlight, InFlight
<1> QED
  BY <1>1, <1>2, <1>3 DEF StoreNext

(* Pull requests are opened by a run that has pushed, and closed once.     *)
LEMMA PullMoves ==
  ASSUME [Next]_vars
  PROVE  \/ UNCHANGED pull
         \/ pc = "pushed" /\ pc' = "published" /\ pull' = [pull EXCEPT ![slot] = "open"]
         \/ \E e \in Executions, s \in {"merged", "closed"} :
               pull[e] = "open" /\ pull' = [pull EXCEPT ![e] = s]
<1> USE DEF KeepsDelivery, githubVars
<1>1. CASE Deliver /\ ~OpenPullRequest
  BY <1>1 DEF Deliver, Begin, ApplyHumanDecision, PrepareCheckout, ReadIssue, PlanEnrichment,
         Enrich, PlanDevelopment, AskForDecision, MarkWaitingForDecision, CheckpointDecision,
         ReReadIssue, ClaimIssue, CheckpointClaim, Advance, Push, MarkWaitingForMerge,
         CheckpointPullRequest
<1>2. CASE OpenPullRequest
  BY <1>2 DEF OpenPullRequest, Step
<1>3. CASE Around
  BY <1>3 DEF Around, StartWorkflow, MarkStarted, StartThrows, Interrupt, Finish, EnterLoop,
         Crash, Restart, RunCycle, DeadlineElapses, CancelObserved, HeartbeatFails, StopsFor,
         Abort, StepFails, CancelLifecycle, Settle, SettleFails, CatchCompletes, CatchFails
<1>4. ASSUME NEW e \in Executions, ClosePullRequest(e)
      PROVE  \E s \in {"merged", "closed"} : pull[e] = "open" /\ pull' = [pull EXCEPT ![e] = s]
  BY <1>4 DEF ClosePullRequest
<1>5. CASE Outside /\ \A e \in Executions : ~ClosePullRequest(e)
  <2>1. Start \/ (\E p \in Projects : ReconcileProject(p)) => UNCHANGED pull
    BY DEF Start, ReconcileCandidate, ReconcileMissingWorkflowStart, ReconcileProject
  <2>2. ASSUME NEW i \in Items, ReconcileItem(i) \/ OperatorActs(i) PROVE UNCHANGED pull
    BY <2>2 DEF ReconcileItem, OperatorActs
  <2>3. ASSUME NEW e \in Executions,
               \/ LeaseRunsOut(e) \/ RequestExecutionCancel(e)
               \/ PullRequestClosedWebhook(e) \/ PullRequestSynchronizedWebhook(e)
        PROVE  UNCHANGED pull
    BY <2>3 DEF LeaseRunsOut, RequestExecutionCancel, PullRequestClosedWebhook,
                PullRequestSynchronizedWebhook, PullRequestEvent
  <2>4. ASSUME NEW d \in openDecisions, ResolveDecision(d) PROVE UNCHANGED pull
    BY <2>4 DEF ResolveDecision
  <2> QED
    BY <1>5, <2>1, <2>2, <2>3, <2>4 DEF Outside
<1> QED
  BY <1>1, <1>2, <1>3, <1>4, <1>5, NextActors DEF vars

\* The places a run moves between when nothing stops it.
Moves ==
    {<<"leased", "started">>, <<"started", "dispatched">>, <<"dispatched", "begin">>,
     <<"begin", "planning">>, <<"begin", "deciding">>, <<"deciding", "planning">>,
     <<"planning", "reading">>, <<"reading", "lifecycle">>, <<"lifecycle", "enriching">>,
     <<"enriching", "enriched">>, <<"lifecycle", "ready-for-dev">>,
     <<"enriched", "ready-for-dev">>, <<"lifecycle", "asking">>, <<"asking", "asked">>,
     <<"asked", "returned">>, <<"ready-for-dev", "claiming">>, <<"claiming", "claimed">>,
     <<"claimed", "implementing">>, <<"implementing", "validating">>,
     <<"validating", "reviewing">>, <<"reviewing", "publishing">>, <<"publishing", "pushed">>,
     <<"pushed", "published">>, <<"published", "recorded">>, <<"recorded", "returned">>}

\* The run leaves execute, one way or another.
Endings == {"cancelling", "returned", "catching"}

\* The run of the present job goes on, and what it then knows.
Continues ==
    /\ pc \in AtWork /\ slot' = slot
    /\ job'.item = job.item /\ job'.seen = job.seen
    /\ job'.ref = job.ref /\ job'.resume = job.resume
    /\ pc' = pc \/ pc' \in Endings \/ <<pc, pc'>> \in Moves
    /\ pc' = "cancelling" => pc \in Executing
    /\ IF pc = "leased" /\ pc' = "started"
       THEN IF job.resume = None THEN job'.wf = slot
            ELSE job.ref # None /\ job'.wf = job.ref /\ execWork[job.ref] = job.item
       ELSE job'.wf = job.wf
    /\ pc = "begin" =>
         /\ pc' = "planning" => job.resume = None
         /\ pc' = "deciding" => /\ job.resume # None /\ workflow[job.wf].decision = job.resume
                                /\ workflow[job.wf].stage = "waiting-human"
    /\ pc' = "planning" =>
         pc = "begin" \/ job'.ckpt = IF pc = "planning" THEN job.ckpt ELSE "planning"
    /\ pc = "planning" /\ pc' = "reading" => workflow'[job.wf].stage = "planning"
    /\ IF pc = "reading" /\ pc' = "lifecycle"
       THEN /\ UNCHANGED issue /\ job'.body = issue[job.item]
            /\ issue[job.item].rev = job.seen
       ELSE IF pc = "ready-for-dev" /\ pc' = "claiming"
       THEN /\ UNCHANGED issue /\ job'.body = issue[job.item]
            /\ issue[job.item].rev = job.body.rev
       ELSE job'.body = IF pc = "enriching" /\ pc' = "enriched" THEN issue'[job.item]
                        ELSE job.body
    /\ IF pc = "pushed" /\ pc' = "published" THEN job'.pr \in {slot} \union OpenPulls(job.item)
       ELSE job'.pr = job.pr

(* At work, the worker goes on with its run or has just scheduled it.      *)
LEMMA RunMoves ==
  ASSUME WorkInv, [Next]_vars, pc' \in AtWork
  PROVE  (\E p \in Projects : RunCycle(p)) \/ Continues
<1>1. job \in Jobs /\ pc \in Positions
  BY TypeParts DEF WorkInv, WorkerTypes
<1> USE DEF AtWork, Positions, Executing, AbortPoints, Free, Moves, Endings
<1>2. CASE Deliver
  <2>1. slot' = slot
    BY <1>2, StoreIsLeft DEF LeavesStore, storeVars
  <2> USE DEF Continues, Step
  <2>2. CASE Begin
    BY <1>1, <2>1, <2>2 DEF Begin, Jobs
  <2>3. CASE ApplyHumanDecision
    BY <1>1, <2>1, <2>3 DEF ApplyHumanDecision, Jobs
  <2>4. ASSUME job' = job \/ \E stage : job' = [job EXCEPT !.ckpt = stage]
        PROVE  /\ job'.item = job.item /\ job'.seen = job.seen /\ job'.ref = job.ref
               /\ job'.resume = job.resume /\ job'.wf = job.wf /\ job'.body = job.body
               /\ job'.pr = job.pr
    BY <1>1, <2>4 DEF Jobs
  <2>5. CASE PrepareCheckout
    <3>1. \E stage : job' = job \/ job' = [job EXCEPT !.ckpt = stage]
      BY <2>5 DEF PrepareCheckout, Checkpoint
    <3> QED
      BY <2>1, <2>4, <2>5, <3>1 DEF PrepareCheckout
  <2>6. CASE ReadIssue \/ ReReadIssue
    BY <1>1, <2>1, <2>6 DEF ReadIssue, ReReadIssue, Jobs, githubVars
  <2>7. CASE Enrich
    BY <1>1, <2>1, <2>7 DEF Enrich, Jobs
  <2>8. CASE PlanEnrichment \/ PlanDevelopment \/ CheckpointClaim \/ Advance \/ Push
    <3>1. \E stage : job' = job \/ job' = [job EXCEPT !.ckpt = stage]
      BY <2>8 DEF PlanEnrichment, PlanDevelopment, CheckpointClaim, Advance, Push, Checkpoint
    <3>2. <<pc, pc'>> \in Moves /\ pc \in WithBody \ {"enriching", "ready-for-dev", "pushed"}
      BY <2>8 DEF PlanEnrichment, PlanDevelopment, CheckpointClaim, Advance, Push, WithBody
    <3> QED
      BY <2>1, <2>4, <3>1, <3>2 DEF WithBody
  <2>9. CASE AskForDecision \/ MarkWaitingForDecision \/ ClaimIssue \/ MarkWaitingForMerge
    BY <2>1, <2>9 DEF AskForDecision, MarkWaitingForDecision, ClaimIssue, MarkWaitingForMerge
  <2>10. CASE CheckpointDecision \/ CheckpointPullRequest
    BY <1>1, <2>1, <2>10 DEF CheckpointDecision, CheckpointPullRequest, Jobs
  <2>11. CASE OpenPullRequest
    BY <1>1, <2>1, <2>11 DEF OpenPullRequest, Jobs
  <2> QED
    BY <1>2, <2>2, <2>3, <2>5, <2>6, <2>7, <2>8, <2>9, <2>10, <2>11 DEF Deliver
<1>3. CASE Around
  <2> USE DEF storeVars
  <2>1. CASE StartWorkflow
    BY <1>1, <2>1 DEF StartWorkflow, Jobs, Continues
  <2>2. CASE MarkStarted \/ StartThrows
    BY <1>1, <2>2 DEF MarkStarted, WorkerMarks, StartThrows, Continues
  <2>3. CASE Interrupt
    <3>1. UNCHANGED slot
      BY <2>3, StoreIsLeft DEF LeavesStore
    <3>2. /\ pc \in AtWork /\ (pc' = pc \/ pc' \in Endings)
          /\ pc' = "cancelling" => pc \in Executing
          /\ \/ job' = job \/ \E s : job' = [job EXCEPT !.stop = s]
             \/ job' = [job EXCEPT !.result = "failed"]
      BY <2>3 DEF Interrupt, DeadlineElapses, CancelObserved, HeartbeatFails, StopsFor,
                  Abort, StepFails
    <3>3. /\ job'.item = job.item /\ job'.seen = job.seen /\ job'.ref = job.ref
          /\ job'.resume = job.resume /\ job'.wf = job.wf /\ job'.body = job.body
          /\ job'.pr = job.pr /\ job'.ckpt = job.ckpt
      BY <1>1, <3>2 DEF Jobs
    <3> QED
      BY <3>1, <3>2, <3>3 DEF Continues
  <2>4. CASE CancelLifecycle
    BY <1>1, <2>4 DEF CancelLifecycle, Jobs, Continues
  <2>5. CASE Settle \/ SettleFails \/ CatchCompletes \/ CatchFails \/ Crash \/ Restart \/ EnterLoop
    BY <2>5 DEF Settle, SettleFails, CatchCompletes, CatchFails, Crash, Restart, EnterLoop,
                EndsCycle, Continues
  <2> QED
    BY <1>3, <2>1, <2>2, <2>3, <2>4, <2>5 DEF Around, Finish
<1>4. CASE Outside \/ UNCHANGED vars
  BY <1>4, WorkerIsLeft DEF vars, workerVars, storeVars, Continues
<1> QED
  BY <1>2, <1>3, <1>4, NextActors

(* Between two steps of a run its execution, its issue and its place       *)
(* before or after the pull request stay; only a cycle begins another run. *)
LEMMA DriverMoves ==
  ASSUME WorkInv, [Next]_vars, pc' \in AtWork
  PROVE  \/ \E p \in Projects : RunCycle(p)
         \/ /\ pc \in AtWork /\ slot' = slot /\ job'.item = job.item
            /\ pc' \in BeforePull => pc \in BeforePull
  BY RunMoves DEF Continues, BeforePull, Moves, Endings, AtWork, Positions, Executing,
                  AbortPoints, Free

(* A merged pull request stays merged and an execution stays on its issue. *)
LEMMA PullStep ==
  ASSUME SummariesSuffice, WorkInv, PullInv, [Next]_vars
  PROVE  PullInv' /\ Kept
<1>1. /\ StoreTypeOK /\ pull \in [Executions -> {"none", "open", "merged", "closed"}]
      /\ pc \notin Free => slot \in Executions
      /\ slot = None <=> pc \in Free
  BY NoneIsDistinct, TypeParts DEF WorkInv, WorkerTypes, GithubTypes, StoreTypeOK
<1>2. FreshIsUntouched /\ DriverFits
  BY DEF PullInv
<1>3. [StoreNext]_storeVars
  BY StoreStep
<1>4. \A e \in Executions :
         \/ /\ execStatus[e] = "absent" /\ execStatus'[e] = "leased"
            /\ slot = None /\ slot' = e
         \/ /\ execWork'[e] = execWork[e]
            /\ execStatus'[e] = "absent" <=> execStatus[e] = "absent"
  BY <1>1, <1>3, RowsMove
<1>5. pc = "pushed" => /\ pc \in AtWork /\ pc \in BeforePull /\ slot \in Executions
                       /\ execStatus[slot] # "absent" /\ pull[slot] = "none"
  BY <1>1, <1>2 DEF DriverFits, AtWork, BeforePull, Free, Positions, Executing, AbortPoints
<1>6. Kept
  BY <1>1, <1>4, <1>5, PullMoves DEF Kept
<1>7. FreshIsUntouched'
  <2> SUFFICES ASSUME NEW e \in Executions, execStatus'[e] = "absent"
               PROVE  execWork'[e] = None /\ pull'[e] = "none"
    BY DEF FreshIsUntouched
  <2>1. execStatus[e] = "absent" /\ execWork'[e] = execWork[e]
    BY <1>4
  <2>2. execWork[e] = None /\ pull[e] = "none"
    BY <1>2, <2>1 DEF FreshIsUntouched
  <2> QED
    BY <1>1, <1>5, <2>1, <2>2, PullMoves
<1>8. DriverFits'
  <2> SUFFICES ASSUME pc' \in AtWork
               PROVE  /\ execStatus'[slot'] # "absent" /\ execWork'[slot'] = job'.item
                      /\ pc' \in BeforePull => pull'[slot'] = "none"
    BY DEF DriverFits
  <2>1. ASSUME NEW p \in Projects, RunCycle(p)
        PROVE  /\ execStatus'[slot'] # "absent" /\ execWork'[slot'] = job'.item
               /\ pull'[slot'] = "none"
    <3>1. /\ FreshExecution \in Executions /\ execStatus[FreshExecution] = "absent"
          /\ WorkerSchedules(FreshExecution, SelectedItem(p))
      BY <2>1, CycleSchedules
    <3>2. /\ slot' = FreshExecution /\ execStatus'[slot'] = "leased"
          /\ execWork'[slot'] = SelectedItem(p)
      BY <1>1, <3>1 DEF WorkerSchedules, ScheduleWithLease, InsertLeasedExecution, StoreTypeOK
    <3>3. job'.item = SelectedItem(p) /\ pull' = pull
      BY <2>1 DEF RunCycle, NoJob, githubVars
    <3> QED
      BY <1>2, <3>1, <3>2, <3>3 DEF FreshIsUntouched
  <2>2. ASSUME pc \in AtWork, slot' = slot, job'.item = job.item,
               pc' \in BeforePull => pc \in BeforePull
        PROVE  /\ execStatus'[slot'] # "absent" /\ execWork'[slot'] = job'.item
               /\ pc' \in BeforePull => pull'[slot'] = "none"
    <3>1. slot \in Executions /\ execStatus[slot] # "absent" /\ execWork[slot] = job.item
      BY <1>1, <1>2, <2>2 DEF DriverFits, AtWork
    <3>2. pc' \in BeforePull => pull[slot] = "none"
      BY <1>2, <2>2 DEF DriverFits
    <3>3. pc' # "published" \/ pc' \notin BeforePull
      BY DEF BeforePull
    <3> QED
      BY <1>1, <1>6, <2>2, <3>1, <3>2, <3>3, PullMoves DEF Kept
  <2> QED
    BY <2>1, <2>2, DriverMoves
<1> QED
  BY <1>6, <1>7, <1>8 DEF PullInv

\* Merged and DependenciesMerged in the next state, for an issue of either.
NextMerged(i) == \E e \in Executions : execWork'[e] = i /\ pull'[e] = "merged"
NextDependenciesMerged(i) == \A d \in DependsOn[i] : NextMerged(d)

(* What is merged stays merged, and so does what a marker says of it.      *)
LEMMA MergedStays ==
  ASSUME PullInv, Kept, NEW i \in Items
  PROVE  /\ Merged(i) => NextMerged(i)
         /\ DependenciesMerged(i) => NextDependenciesMerged(i)
<1>1. ASSUME NEW d \in Items, Merged(d) PROVE NextMerged(d)
  <2>1. PICK e \in Executions : execWork[e] = d /\ pull[e] = "merged"
    BY <1>1 DEF Merged
  <2>2. execStatus[e] # "absent"
    BY <2>1 DEF PullInv, FreshIsUntouched
  <2> QED
    BY <2>1, <2>2 DEF Kept, NextMerged
<1>2. DependsOn[i] \subseteq Items
  BY IssuesAssumption
<1> QED
  BY <1>1, <1>2 DEF DependenciesMerged, NextDependenciesMerged

\* MarkerFits in the next state, for a marker of this one or of the next.
NextMarkerFits(m, i) ==
    /\ m.pr # None => execWork'[m.pr] = i
    /\ m.state = "completed" => m.pr # None /\ pull'[m.pr] = "merged"
NextStateFits(m, i) ==
    /\ m.state = "completed" => NextMerged(i)
    /\ m.state = "waiting-human" => NextDependenciesMerged(i)

(* What fits a merged pull request keeps fitting.                          *)
LEMMA FitsStay ==
  ASSUME PullInv, Kept, NEW i \in Items, NEW m, m.pr \in Executions \union {None}
  PROVE  /\ MarkerFits(m, i) => NextMarkerFits(m, i)
         /\ StateFits(m, i) => NextStateFits(m, i)
<1>1. ASSUME MarkerFits(m, i) PROVE NextMarkerFits(m, i)
  <2>1. m.pr # None => m.pr \in Executions /\ execWork[m.pr] = i /\ execStatus[m.pr] # "absent"
    BY <1>1, NoneIsDistinct DEF MarkerFits, PullInv, FreshIsUntouched
  <2> QED
    BY <1>1, <2>1 DEF MarkerFits, NextMarkerFits, Kept
<1> QED
  BY <1>1, MergedStays DEF StateFits, NextStateFits

(* A marker that fits because its pull request is its issue's own.         *)
LEMMA OwnMergeIsMerge ==
  ASSUME NEW i \in Items, NEW m, m.pr \in Executions \union {None}, MarkerFits(m, i)
  PROVE  m.state = "completed" => Merged(i)
  BY DEF MarkerFits, Merged

\* The ways issue i is written, by who writes it.
ByHand(i) ==
    /\ edits' = edits + 1
    /\ issue'[i].state \in {issue[i].state, "ready"}
    /\ issue'[i].exec \in {issue[i].exec, None}
    /\ issue'[i].decision \in {issue[i].decision, None}
    /\ issue'[i].pr = issue[i].pr \/ (issue'[i].pr = None /\ issue'[i].state = "ready")
ByEvent(i) ==
    /\ \/ projected[i].pr # None
       \/ pc = "idle" /\ issue[i].pr # None
    /\ \/ issue'[i].state = "blocked" /\ issue'[i].decision = PullRequestDecision(i)
       \/ /\ issue'[i].state = "completed" /\ issue'[i].decision = None
          /\ issue[i].pr # None /\ pull[issue[i].pr] = "merged"
    /\ issue'[i].exec = issue[i].exec /\ issue'[i].pr = issue[i].pr
ByCancel(i) ==
    /\ pc = "cancelling" /\ i = job.item
    /\ issue[i].state \in {"ready", "running", "cancelled"}
    /\ issue'[i].state = "cancelled" /\ issue'[i].decision = None
    /\ issue'[i].exec = Coalesce(job.ref, slot) /\ issue'[i].pr = issue[i].pr
ByEnrichment(i) ==
    /\ pc = "enriching" /\ pc' = "enriched" /\ i = job.item
    /\ issue'[i].state = job.body.state /\ issue'[i].exec = job.body.exec
    /\ issue'[i].decision = job.body.decision /\ issue'[i].pr = job.body.pr
ByAsking(i) ==
    /\ pc = "asking" /\ pc' = "asked" /\ i = job.item
    /\ issue'[i].state = "waiting-human" /\ issue'[i].exec = job.wf
    /\ issue'[i].decision = AskedDecision /\ issue'[i].pr = job.body.pr
ByClaim(i) ==
    /\ pc = "claiming" /\ pc' = "claimed" /\ i = job.item
    /\ issue'[i].state = "running" /\ issue'[i].exec = job.wf
    /\ issue'[i].decision = job.body.decision /\ issue'[i].pr = job.body.pr
ByRecord(i) ==
    /\ pc = "published" /\ pc' = "recorded" /\ i = job.item
    /\ issue'[i].state = "waiting-human" /\ issue'[i].exec = job.wf
    /\ issue'[i].decision = job.body.decision /\ issue'[i].pr = job.pr

\* Issue i is written by somebody.
Written(i) ==
    /\ issue'[i].rev = issue[i].rev + 1
    /\ \/ ByHand(i) \/ ByEvent(i) \/ ByCancel(i)
       \/ ByEnrichment(i) \/ ByAsking(i) \/ ByClaim(i) \/ ByRecord(i)

(* A written marker has a new revision and the fields it is given.         *)
LEMMA WrittenFields ==
  ASSUME issue \in [Items -> Markers], NEW j \in Items, NEW m \in Markers, WriteIssue(j, m)
  PROVE  /\ issue'[j].rev = issue[j].rev + 1 /\ issue'[j].state = m.state
         /\ issue'[j].exec = m.exec /\ issue'[j].decision = m.decision /\ issue'[j].pr = m.pr
         /\ \A i \in Items \ {j} : issue'[i] = issue[i]
<1>1. issue'[j] = [m EXCEPT !.rev = issue[j].rev + 1]
      /\ \A i \in Items \ {j} : issue'[i] = issue[i]
  BY WriteTypes
<1> QED
  BY <1>1 DEF Markers

\* The run's issue, and no other, has a new revision.
Revised ==
    /\ job.item \in Items /\ issue'[job.item].rev = issue[job.item].rev + 1
    /\ \A i \in Items \ {job.item} : issue'[i] = issue[i]

(* What the run writes itself.                                             *)
LEMMA RunWrites ==
  ASSUME WorkInv
  PROVE  /\ Enrich => Revised /\ ByEnrichment(job.item)
         /\ MarkWaitingForDecision => Revised /\ ByAsking(job.item)
         /\ ClaimIssue => Revised /\ ByClaim(job.item)
         /\ MarkWaitingForMerge => Revised /\ ByRecord(job.item)
<1>0. /\ issue \in [Items -> Markers] /\ job \in Jobs
      /\ pc \in WithBody => job.body \in Markers
      /\ pc \in AtWork => job.item \in Items
      /\ pc \in WithWorkflow => job.wf \in Executions
  BY TypeParts DEF WorkInv, WorkerTypes, GithubTypes, JobFits
<1>1. ASSUME Enrich PROVE Revised /\ ByEnrichment(job.item)
  <2>1. /\ pc = "enriching" /\ pc' = "enriched" /\ WriteIssue(job.item, job.body)
    BY <1>1 DEF Enrich, Step
  <2>2. job.body \in Markers /\ job.item \in Items
    BY <1>0, <2>1 DEF WithBody, AtWork, Positions, Executing, AbortPoints, Free
  <2> QED
    BY <1>0, <2>1, <2>2, WrittenFields DEF Revised, ByEnrichment
<1>2. ASSUME MarkWaitingForDecision PROVE Revised /\ ByAsking(job.item)
  <2> DEFINE m == [job.body EXCEPT !.state = "waiting-human", !.exec = job.wf,
                                   !.decision = AskedDecision]
  <2>1. pc = "asking" /\ pc' = "asked" /\ WriteIssue(job.item, m)
    BY <1>2 DEF MarkWaitingForDecision, Step, UpdateLifecycle
  <2>2. job.body \in Markers /\ job.item \in Items /\ job.wf \in Executions
    BY <1>0, <2>1 DEF WithBody, WithWorkflow, AtWork, Positions, Executing, AbortPoints, Free
  <2>3. AskedDecision \in Decisions
    BY <2>2 DEF AskedDecision, Decisions, Markers
  <2>4. m \in Markers /\ m.state = "waiting-human" /\ m.exec = job.wf
        /\ m.decision = AskedDecision /\ m.pr = job.body.pr
    BY ONLY <2>2, <2>3 DEF Markers, States
  <2> HIDE DEF m
  <2> QED
    BY <1>0, <2>1, <2>2, <2>4, WrittenFields DEF Revised, ByAsking
<1>3. ASSUME ClaimIssue PROVE Revised /\ ByClaim(job.item)
  <2> DEFINE m == [job.body EXCEPT !.state = "running", !.exec = job.wf]
  <2>1. pc = "claiming" /\ pc' = "claimed" /\ WriteIssue(job.item, m)
    BY <1>3 DEF ClaimIssue, Step, UpdateLifecycle
  <2>2. job.body \in Markers /\ job.item \in Items /\ job.wf \in Executions
    BY <1>0, <2>1 DEF WithBody, WithWorkflow, AtWork, Positions, Executing, AbortPoints, Free
  <2>3. m \in Markers /\ m.state = "running" /\ m.exec = job.wf
        /\ m.decision = job.body.decision /\ m.pr = job.body.pr
    BY ONLY <2>2 DEF Markers, States
  <2> HIDE DEF m
  <2> QED
    BY <1>0, <2>1, <2>2, <2>3, WrittenFields DEF Revised, ByClaim
<1>4. ASSUME MarkWaitingForMerge PROVE Revised /\ ByRecord(job.item)
  <2> DEFINE m == [job.body EXCEPT !.state = "waiting-human", !.exec = job.wf, !.pr = job.pr]
  <2>1. pc = "published" /\ pc' = "recorded" /\ WriteIssue(job.item, m)
    BY <1>4 DEF MarkWaitingForMerge, Step, UpdateLifecycle
  <2>2. job.body \in Markers /\ job.item \in Items /\ job.wf \in Executions
        /\ job.pr \in Executions \union {None}
    BY <1>0, <2>1 DEF WithBody, WithWorkflow, AtWork, Positions, Executing, AbortPoints, Free, Jobs
  <2>3. m \in Markers /\ m.state = "waiting-human" /\ m.exec = job.wf
        /\ m.decision = job.body.decision /\ m.pr = job.pr
    BY ONLY <2>2 DEF Markers, States
  <2> HIDE DEF m
  <2> QED
    BY <1>0, <2>1, <2>2, <2>3, WrittenFields DEF Revised, ByRecord
<1> QED
  BY <1>1, <1>2, <1>3, <1>4

(* A step leaves an issue alone or writes it in one of these ways.         *)
LEMMA IssueChanges ==
  ASSUME WorkInv, [Next]_vars, NEW i \in Items
  PROVE  issue'[i] = issue[i] \/ Written(i)
<1> DEFINE Changed == issue'[i] = issue[i] \/ Written(i)
<1>1. /\ issue \in [Items -> Markers] /\ projected \in [Items -> Markers] /\ job \in Jobs
      /\ pc \in WithBody => job.body \in Markers
      /\ pc \in AtWork => job.item \in Items
      /\ pc \in WithWorkflow => job.wf \in Executions
  BY TypeParts DEF WorkInv, WorkerTypes, GithubTypes, DatabaseTypes, JobFits
<1>2. ASSUME UNCHANGED issue PROVE Changed
  BY <1>2
<1>3. CASE Deliver
  <2>1. CASE Enrich \/ MarkWaitingForDecision \/ ClaimIssue \/ MarkWaitingForMerge
    BY <2>1, RunWrites DEF Written, Revised
  <2>2. CASE ~(Enrich \/ MarkWaitingForDecision \/ ClaimIssue \/ MarkWaitingForMerge)
    <3>1. UNCHANGED issue
      BY <1>3, <2>2
         DEF Deliver, Begin, ApplyHumanDecision, PrepareCheckout, ReadIssue, PlanEnrichment,
             PlanDevelopment, AskForDecision, CheckpointDecision, ReReadIssue, CheckpointClaim,
             Advance, Push, OpenPullRequest, CheckpointPullRequest, KeepsDelivery, githubVars
    <3> QED
      BY <1>2, <3>1
  <2> QED
    BY <2>1, <2>2
<1>4. CASE Around
  <2>1. CASE CancelLifecycle
    <3> DEFINE owner == Coalesce(job.ref, slot)
               m == [issue[job.item] EXCEPT !.state = "cancelled", !.exec = owner,
                                            !.decision = None]
    <3>1. pc = "cancelling" /\ job.item \in Items /\ owner \in Executions
      <4>1. pc = "cancelling" /\ pc \in AtWork /\ pc \notin Free
        BY <2>1 DEF CancelLifecycle, AtWork, Positions, Executing, AbortPoints, Free
      <4>2. slot \in Executions
        BY <4>1, TypeParts DEF WorkInv, WorkerTypes, StoreTypeOK
      <4> QED
        BY <1>1, <4>1, <4>2 DEF Coalesce, Jobs
    <3>2. \/ UNCHANGED issue
          \/ WriteIssue(job.item, m) /\ issue[job.item].state \in {"ready", "running", "cancelled"}
      BY <2>1 DEF CancelLifecycle
    <3> HIDE DEF owner
    <3>3. m \in Markers /\ m.state = "cancelled" /\ m.exec = owner /\ m.decision = None
          /\ m.pr = issue[job.item].pr
      <4>1. issue[job.item] \in Markers
        BY <1>1, <3>1
      <4> QED
        BY ONLY <3>1, <4>1 DEF Markers, States
    <3> HIDE DEF m
    <3>4. ASSUME WriteIssue(job.item, m), issue[job.item].state \in {"ready", "running", "cancelled"}
          PROVE  Changed
      BY <1>1, <3>1, <3>3, <3>4, WrittenFields DEF Written, ByCancel, owner
    <3> QED
      BY <1>2, <3>2, <3>4
  <2>2. CASE ~CancelLifecycle
    <3>1. UNCHANGED issue
      BY <1>4, <2>2
         DEF Around, StartWorkflow, MarkStarted, StartThrows, Interrupt, Finish, EnterLoop,
             Crash, Restart, RunCycle, DeadlineElapses, CancelObserved, HeartbeatFails, StopsFor,
             Abort, StepFails, Settle, SettleFails, CatchCompletes, CatchFails, KeepsDelivery,
             githubVars
    <3> QED
      BY <1>2, <3>1
  <2> QED
    BY <2>1, <2>2
<1>5. ASSUME NEW j \in Items, OperatorActs(j) PROVE Changed
  <2>1. issue[j] \in Markers /\ edits' = edits + 1
    BY <1>1, <1>5 DEF OperatorActs, Edit
  <2>2. ASSUME NEW m \in Markers, WriteIssue(j, m), m.exec \in {issue[j].exec, None},
               m.decision \in {issue[j].decision, None}, m.state \in {issue[j].state, "ready"},
               m.pr = issue[j].pr \/ (m.pr = None /\ m.state = "ready")
        PROVE  Changed
    BY <1>1, <2>1, <2>2, WrittenFields DEF Written, ByHand
  <2>3. /\ [issue[j] EXCEPT !.state = "ready"] \in Markers /\ DefaultMarker(0) \in Markers
        /\ [issue[j] EXCEPT !.state = "ready"].exec = issue[j].exec
        /\ [issue[j] EXCEPT !.state = "ready"].decision = issue[j].decision
        /\ [issue[j] EXCEPT !.state = "ready"].state = "ready"
        /\ [issue[j] EXCEPT !.state = "ready"].pr = issue[j].pr
        /\ DefaultMarker(0).exec = None /\ DefaultMarker(0).decision = None
        /\ DefaultMarker(0).state = "ready" /\ DefaultMarker(0).pr = None
    BY <2>1 DEF Markers, States, DefaultMarker
  <2> QED
    BY <1>2, <1>5, <2>1, <2>2, <2>3 DEF OperatorActs
<1>6. ASSUME NEW j \in Items, ReconcileItem(j) PROVE Changed
  <2> DEFINE m == [issue[j] EXCEPT !.state = "completed", !.decision = None]
  <2>1. issue[j] \in Markers
    BY <1>1
  <2>2. m \in Markers /\ m.state = "completed" /\ m.decision = None
        /\ m.exec = issue[j].exec /\ m.pr = issue[j].pr
    BY ONLY <2>1 DEF Markers, States
  <2>3. pc = "idle" /\ issue[j].pr # None /\ pull[issue[j].pr] = "merged"
        /\ (UNCHANGED issue \/ WriteIssue(j, m))
    BY <1>6 DEF ReconcileItem, CorrelatedMergedPull
  <2> HIDE DEF m
  <2>4. ASSUME WriteIssue(j, m) PROVE Changed
    BY <1>1, <2>2, <2>3, <2>4, WrittenFields DEF Written, ByEvent
  <2> QED
    BY <1>2, <2>3, <2>4
<1>7. ASSUME NEW e \in Executions, NEW j \in Items, NEW closed \in BOOLEAN,
             PullRequestEvent(e, j, closed)
      PROVE  Changed
  <2> DEFINE completes == /\ issue[j].pr = e /\ issue[j].exec = projected[j].exec
                          /\ closed /\ pull[e] = "merged"
             m == [issue[j] EXCEPT !.state = IF completes THEN "completed" ELSE "blocked",
                                   !.decision = IF completes THEN None ELSE PullRequestDecision(j)]
  <2>1. PullRequestDecision(j) \in Decisions /\ issue[j] \in Markers
    BY <1>1 DEF PullRequestDecision, Decisions
  <2>2. /\ projected[j].pr # None /\ (UNCHANGED issue \/ WriteIssue(j, m))
        /\ completes => issue[j].pr # None /\ pull[issue[j].pr] = "merged"
    BY <1>7, NoneIsDistinct DEF PullRequestEvent
  <2> HIDE DEF completes
  <2>3. /\ m \in Markers /\ m.pr = issue[j].pr /\ m.exec = issue[j].exec
        /\ m.state = IF completes THEN "completed" ELSE "blocked"
        /\ m.decision = IF completes THEN None ELSE PullRequestDecision(j)
    BY ONLY <2>1 DEF Markers, States
  <2> HIDE DEF m
  <2>4. ASSUME WriteIssue(j, m) PROVE Changed
    BY <1>1, <2>2, <2>3, <2>4, WrittenFields DEF Written, ByEvent
  <2> QED
    BY <1>2, <2>2, <2>4
<1>8. CASE Outside
  <2>1. Start \/ (\E p \in Projects : ReconcileProject(p)) => UNCHANGED issue
    BY DEF Start, ReconcileCandidate, ReconcileMissingWorkflowStart, ReconcileProject, githubVars
  <2>2. ASSUME NEW e \in Executions,
               LeaseRunsOut(e) \/ RequestExecutionCancel(e) \/ ClosePullRequest(e)
        PROVE  UNCHANGED issue
    BY <2>2 DEF LeaseRunsOut, RequestExecutionCancel, ClosePullRequest, KeepsDelivery, githubVars
  <2>3. ASSUME NEW e \in Executions,
               PullRequestClosedWebhook(e) \/ PullRequestSynchronizedWebhook(e)
        PROVE  Changed
    BY <1>2, <1>7, <2>3 DEF PullRequestClosedWebhook, PullRequestSynchronizedWebhook
  <2>4. ASSUME NEW d \in openDecisions, ResolveDecision(d) PROVE UNCHANGED issue
    BY <2>4 DEF ResolveDecision, githubVars
  <2>5. \/ \E j \in Items : ReconcileItem(j) \/ OperatorActs(j)
        \/ \E e \in Executions :
              PullRequestClosedWebhook(e) \/ PullRequestSynchronizedWebhook(e)
        \/ UNCHANGED issue
    BY <1>8, <2>1, <2>2, <2>4 DEF Outside
  <2> QED
    BY <1>2, <1>5, <1>6, <2>3, <2>5
<1> QED
  BY <1>2, <1>3, <1>4, <1>8, NextActors DEF vars, githubVars

(* The same, by what it does to the state and the pull request.            *)
LEMMA IssueWrites ==
  ASSUME WorkInv, [Next]_vars, NEW i \in Items
  PROVE  \/ issue'[i].state = issue[i].state /\ issue'[i].pr = issue[i].pr
         \/ /\ issue'[i].state \in {"ready", "blocked", "cancelled"}
            /\ issue'[i].pr \in {issue[i].pr, None}
         \/ /\ issue'[i].state = "completed" /\ issue'[i].pr = issue[i].pr
            /\ issue[i].pr # None /\ pull[issue[i].pr] = "merged"
         \/ /\ i = job.item /\ pc \in WithBody /\ issue'[i].pr = job.body.pr
            /\ issue'[i].state \in {job.body.state, "running", "waiting-human"}
         \/ /\ i = job.item /\ pc = "published" /\ issue'[i].pr = job.pr
            /\ issue'[i].state = "waiting-human"
  BY IssueChanges DEF Written, ByHand, ByEvent, ByCancel, ByEnrichment, ByAsking, ByClaim,
                      ByRecord, WithBody

(* A marker still fits after a write, whoever wrote it.                    *)
LEMMA MarkersStep ==
  ASSUME WorkInv, PullInv, MarkersFit, RunFits, Kept, [Next]_vars, NEW i \in Items
  PROVE  NextMarkerFits(issue'[i], i) /\ NextStateFits(issue'[i], i)
<1>1. /\ issue[i].pr \in Executions \union {None} /\ issue[i].state \in States
      /\ job.pr \in Executions \union {None}
      /\ pc \in WithBody => job.body.pr \in Executions \union {None}
  BY TypeParts DEF WorkInv, WorkerTypes, GithubTypes, Markers, Jobs, JobFits
<1>2. /\ NextMarkerFits(issue[i], i) /\ NextStateFits(issue[i], i)
      /\ MarkerFits(issue[i], i)
  BY <1>1, FitsStay DEF MarkersFit
<1>3. ASSUME NEW e \in Executions, execWork[e] = i PROVE execWork'[e] = i
  BY <1>3, NoneIsDistinct DEF PullInv, FreshIsUntouched, Kept
<1>4. CASE issue'[i].state = issue[i].state /\ issue'[i].pr = issue[i].pr
  BY <1>2, <1>4 DEF NextMarkerFits, NextStateFits
<1>5. CASE /\ issue'[i].state \in {"ready", "blocked", "cancelled"}
           /\ issue'[i].pr \in {issue[i].pr, None}
  BY <1>2, <1>5 DEF NextMarkerFits, NextStateFits
<1>6. CASE /\ issue'[i].state = "completed" /\ issue'[i].pr = issue[i].pr
           /\ issue[i].pr # None /\ pull[issue[i].pr] = "merged"
  <2>1. execWork[issue[i].pr] = i /\ issue[i].pr \in Executions
    BY <1>1, <1>2, <1>6 DEF MarkerFits
  <2>2. NextMerged(i) /\ pull'[issue[i].pr] = "merged"
    BY <1>3, <1>6, <2>1 DEF NextMerged, Kept
  <2> QED
    BY <1>2, <1>6, <2>2 DEF NextMarkerFits, NextStateFits
<1>7. CASE /\ i = job.item /\ pc \in WithBody /\ issue'[i].pr = job.body.pr
           /\ issue'[i].state \in {job.body.state, "running", "waiting-human"}
  <2>1. pc \in AtWork
    BY <1>7 DEF WithBody, AtWork, Positions, Executing, AbortPoints, Free
  <2>2. MarkerFits(job.body, i) /\ NextDependenciesMerged(i)
    BY <1>7, <2>1, MergedStays DEF RunFits
  <2>3. NextMarkerFits(job.body, i)
    BY <1>1, <1>7, <2>2, FitsStay
  <2>4. job.body.state = "completed" => NextMerged(i)
    BY <1>1, <1>7, <2>2, OwnMergeIsMerge, MergedStays
  <2> QED
    BY <1>7, <2>2, <2>3, <2>4 DEF NextMarkerFits, NextStateFits
<1>8. CASE /\ i = job.item /\ pc = "published" /\ issue'[i].pr = job.pr
           /\ issue'[i].state = "waiting-human"
  <2>1. pc \in AtWork
    BY <1>8 DEF AtWork, Positions, Executing, AbortPoints, Free
  <2>2. execWork[job.pr] = i /\ NextDependenciesMerged(i)
    BY <1>8, <2>1, MergedStays DEF RunFits
  <2> QED
    BY <1>1, <1>3, <1>8, <2>2 DEF NextMarkerFits, NextStateFits
<1> QED
  BY <1>4, <1>5, <1>6, <1>7, <1>8, IssueWrites

(* The projection is what was read of the issues, then or now.             *)
LEMMA ProjectionReads ==
  ASSUME WorkInv, [Next]_vars, NEW i \in Items
  PROVE  projected'[i] \in {projected[i], issue[i], issue'[i]}
<1>0. projected \in [Items -> Markers]
  BY TypeParts DEF WorkInv, DatabaseTypes
<1> USE DEF KeepsDelivery
<1>1. CASE Deliver
  BY <1>1 DEF Deliver, Begin, ApplyHumanDecision, PrepareCheckout, ReadIssue, PlanEnrichment,
         Enrich, PlanDevelopment, AskForDecision, MarkWaitingForDecision, CheckpointDecision,
         ReReadIssue, ClaimIssue, CheckpointClaim, Advance, Push, OpenPullRequest,
         MarkWaitingForMerge, CheckpointPullRequest
<1>2. CASE Around
  BY <1>2 DEF Around, StartWorkflow, MarkStarted, StartThrows, Interrupt, Finish, EnterLoop,
         Crash, Restart, RunCycle, DeadlineElapses, CancelObserved, HeartbeatFails, StopsFor,
         Abort, StepFails, CancelLifecycle, Settle, SettleFails, CatchCompletes, CatchFails
<1>3. ASSUME NEW p \in Projects, ReconcileProject(p)
      PROVE  projected'[i] \in {projected[i], issue[i]}
  BY <1>0, <1>3 DEF ReconcileProject
<1>4. ASSUME NEW e \in Executions, NEW j \in Items, NEW closed \in BOOLEAN,
             PullRequestEvent(e, j, closed)
      PROVE  projected'[i] \in {projected[i], issue'[i]}
  <2>1. \/ projected' = [k \in Items |->
               IF ProjectOf[k] = ProjectOf[j] THEN issue'[k] ELSE projected[k]]
        \/ UNCHANGED projected
    BY <1>4 DEF PullRequestEvent
  <2> QED
    BY <2>1
<1>5. CASE Outside
  BY <1>3, <1>4, <1>5
     DEF Outside, Start, ReconcileCandidate, ReconcileMissingWorkflowStart, ReconcileItem,
         OperatorActs, LeaseRunsOut, RequestExecutionCancel, ClosePullRequest,
         PullRequestClosedWebhook, PullRequestSynchronizedWebhook, ResolveDecision
<1> QED
  BY <1>1, <1>2, <1>5, NextActors DEF vars

\* Workflow f becomes w, by whoever writes it.
ByStart(f, w) ==
    /\ pc = "leased" /\ pc' = "started" /\ f = slot /\ job.resume = None
    /\ w.stage = "admitted" /\ w.decision = None /\ w.resumed = {}
ByResumption(f, w) ==
    /\ pc = "begin" /\ pc' = "deciding" /\ f = job.wf
    /\ workflow[f].stage = "waiting-human" /\ workflow[f].decision = job.resume
    /\ job.resume # None /\ job.resume \notin workflow[f].resumed
    /\ w.stage = "planning" /\ w.decision = workflow[f].decision
    /\ w.resumed = workflow[f].resumed \union {job.resume}
ByQuestion(f, w) ==
    /\ pc = "asked" /\ pc' = "returned" /\ f = job.wf
    /\ w.stage = "waiting-human" /\ w.decision = AskedDecision
    /\ w.resumed = workflow[f].resumed
ByProgress(f, w) ==
    /\ pc \in {"planning", "recorded"} \union WithBody /\ pc # "asked"
    /\ pc' # pc /\ f = job.wf
    /\ workflow[f].stage = job.ckpt /\ w.stage # "completed"
    /\ pc = "planning" => w.stage # job.ckpt
    /\ w.decision = workflow[f].decision /\ w.resumed = workflow[f].resumed
ByMerge(f, w) ==
    /\ pc' = pc /\ job' = job
    /\ workflow[f].stage = "waiting-human" /\ w.stage = "completed"
    /\ w.pr \in Executions /\ pull[w.pr] = "merged"
    /\ w.decision = workflow[f].decision /\ w.resumed = workflow[f].resumed

Rewritten(f, w) ==
    /\ workflow' = [workflow EXCEPT ![f] = w]
    /\ \/ ByStart(f, w)
       \/ /\ workflow[f] \in Workflows
          /\ ByResumption(f, w) \/ ByQuestion(f, w) \/ ByProgress(f, w) \/ ByMerge(f, w)

(* A checkpoint that is not where the executor believes to be already      *)
(* moves the workflow from there, and keeps its decisions.                 *)
LEMMA CheckpointKeeps ==
  ASSUME job.wf \in Executions, workflow[job.wf] \in Workflows,
         NEW stage \in Stages, NEW updates \in Updates, updates.decision = None,
         Checkpoint(stage, updates)
  PROVE  \/ UNCHANGED workflow
         \/ /\ workflow[job.wf].stage = job.ckpt /\ stage # job.ckpt
            /\ \E w \in Workflows :
                  /\ workflow' = [workflow EXCEPT ![job.wf] = w]
                  /\ w.stage = stage /\ w.decision = workflow[job.wf].decision
                  /\ w.resumed = workflow[job.wf].resumed
<1> DEFINE v == Transition(workflow[job.wf], stage, updates)
<1>1. /\ v \in Workflows /\ v.stage = stage /\ v.decision = workflow[job.wf].decision
      /\ v.resumed = workflow[job.wf].resumed
  BY DEF Transition, Workflows, Updates, Coalesce
<1>2. \/ UNCHANGED workflow
      \/ /\ workflow[job.wf].stage = job.ckpt /\ stage # job.ckpt
         /\ workflow' = [workflow EXCEPT ![job.wf] = v]
  BY DEF Checkpoint
<1> HIDE DEF v
<1> QED
  BY <1>1, <1>2

(* A step leaves all workflows alone or rewrites one in one of these ways. *)
LEMMA WorkflowChanges ==
  ASSUME WorkInv, [Next]_vars
  PROVE  UNCHANGED workflow \/ \E f \in Executions, w \in Workflows : Rewritten(f, w)
<1> DEFINE Changed == UNCHANGED workflow \/ \E f \in Executions, w \in Workflows : Rewritten(f, w)
<1>1. /\ workflow \in [Executions -> Workflows \union {None}]
      /\ issue \in [Items -> Markers] /\ projected \in [Items -> Markers] /\ job \in Jobs
      /\ pc \notin Free => slot \in Executions
      /\ pc \in WithWorkflow => job.wf \in Executions /\ workflow[job.wf] \in Workflows
      /\ pc \in WithBody => job.body \in Markers
      /\ pc \in AtWork => job.item \in Items
  BY NoneIsDistinct, TypeParts
     DEF WorkInv, DatabaseTypes, GithubTypes, WorkerTypes, StoreTypeOK, JobFits
<1>2. CASE Deliver
  <2>1. /\ job.wf \in Executions /\ workflow[job.wf] \in Workflows
    BY <1>1, <1>2
       DEF Deliver, Begin, ApplyHumanDecision, PrepareCheckout, ReadIssue, PlanEnrichment,
           Enrich, PlanDevelopment, AskForDecision, MarkWaitingForDecision, CheckpointDecision,
           ReReadIssue, ClaimIssue, CheckpointClaim, Advance, Push, OpenPullRequest,
           MarkWaitingForMerge, CheckpointPullRequest, Step, WithWorkflow, Executing, AbortPoints
  <2>2. NoUpdates \in Updates /\ NoUpdates.decision = None
    BY DEF NoUpdates, Updates
  <2>3. ASSUME NEW stage \in Stages \ {"completed"}, NEW updates \in Updates,
               updates.decision = None, Checkpoint(stage, updates),
               pc \in {"planning", "recorded"} \union WithBody, pc # "asked", pc' # pc
        PROVE  Changed
    BY <2>1, <2>3, CheckpointKeeps DEF Rewritten, ByProgress
  <2>4. CASE PrepareCheckout \/ PlanEnrichment \/ PlanDevelopment \/ CheckpointClaim \/ Advance
    <3>1. PICK stage \in Stages \ {"completed"} : Checkpoint(stage, NoUpdates)
      BY <2>4 DEF PrepareCheckout, PlanEnrichment, PlanDevelopment, CheckpointClaim, Advance, Stages
    <3>2. pc \in {"planning", "recorded"} \union WithBody /\ pc # "asked" /\ pc' # pc
      BY <2>4 DEF PrepareCheckout, PlanEnrichment, PlanDevelopment, CheckpointClaim, Advance,
                  Step, WithBody
    <3> QED
      BY <2>2, <2>3, <3>1, <3>2
  <2>5. CASE Push
    <3> DEFINE updates == [NoUpdates EXCEPT !.head = slot]
    <3>1. slot \in Executions /\ pc = "publishing" /\ pc' = "pushed"
      BY <1>1, <2>5 DEF Push, Step, Free
    <3>2. updates \in Updates /\ updates.decision = None
      BY <3>1 DEF NoUpdates, Updates
    <3>3. Checkpoint("publishing", updates) /\ "publishing" \in Stages \ {"completed"}
      BY <2>5 DEF Push, Stages
    <3> HIDE DEF updates
    <3> QED
      BY <2>3, <3>1, <3>2, <3>3 DEF WithBody
  <2>6. CASE CheckpointDecision
    <3> DEFINE w == [workflow[job.wf] EXCEPT !.stage = "waiting-human", !.decision = AskedDecision]
    <3>1. pc = "asked" /\ pc' = "returned" /\ workflow' = [workflow EXCEPT ![job.wf] = w]
      BY <2>6 DEF CheckpointDecision
    <3>2. AskedDecision \in Decisions
      BY <1>1, <3>1 DEF AskedDecision, Decisions, Markers, WithBody, AtWork, Positions, Executing,
                        AbortPoints, Free
    <3>3. w \in Workflows /\ w.stage = "waiting-human" /\ w.decision = AskedDecision
          /\ w.resumed = workflow[job.wf].resumed
      BY <2>1, <3>2 DEF Workflows, Stages
    <3> HIDE DEF w
    <3> QED
      BY <2>1, <3>1, <3>3 DEF Rewritten, ByQuestion
  <2>7. CASE CheckpointPullRequest
    <3> DEFINE w == [workflow[job.wf] EXCEPT !.stage = "waiting-human", !.pr = job.pr]
    <3>1. /\ pc = "recorded" /\ pc' = "returned" /\ workflow[job.wf].stage = job.ckpt
          /\ workflow' = [workflow EXCEPT ![job.wf] = w]
      BY <2>7 DEF CheckpointPullRequest
    <3>2. job.pr \in Executions \union {None}
      BY <1>1 DEF Jobs
    <3>3. w \in Workflows /\ w.stage = "waiting-human" /\ w.decision = workflow[job.wf].decision
          /\ w.resumed = workflow[job.wf].resumed
      BY <2>1, <3>2 DEF Workflows, Stages
    <3> HIDE DEF w
    <3> QED
      BY <2>1, <3>1, <3>3 DEF Rewritten, ByProgress
  <2>8. CASE Begin
    <3> DEFINE w == [workflow[job.wf] EXCEPT !.stage = "planning",
                                             !.resumed = @ \union {job.resume}]
    <3>1. \/ UNCHANGED workflow
          \/ /\ pc = "begin" /\ pc' = "deciding" /\ job.resume # None
             /\ workflow[job.wf].stage = "waiting-human"
             /\ workflow[job.wf].decision = job.resume
             /\ job.resume \notin workflow[job.wf].resumed
             /\ workflow' = [workflow EXCEPT ![job.wf] = w]
      BY <1>1, <2>1, <2>8 DEF Begin, Step, Workflows
    <3>2. job.resume # None => job.resume \in Decisions
      BY <1>1 DEF Jobs
    <3>3. job.resume # None => w \in Workflows /\ w.stage = "planning"
          /\ w.decision = workflow[job.wf].decision
          /\ w.resumed = workflow[job.wf].resumed \union {job.resume}
      BY <2>1, <3>2 DEF Workflows, Stages
    <3> HIDE DEF w
    <3> QED
      BY <2>1, <3>1, <3>3 DEF Rewritten, ByResumption
  <2> QED
    BY <1>2, <2>4, <2>5, <2>6, <2>7, <2>8
       DEF Deliver, ApplyHumanDecision, ReadIssue, Enrich, AskForDecision,
           MarkWaitingForDecision, ReReadIssue, ClaimIssue, OpenPullRequest, MarkWaitingForMerge
<1>3. CASE Around
  <2>1. CASE StartWorkflow
    <3> DEFINE w == [stage |-> "admitted", decision |-> None, pr |-> None, head |-> None,
                     resumed |-> {}]
    <3>1. slot \in Executions
      BY <1>1, <2>1 DEF StartWorkflow, Free
    <3>2. \/ UNCHANGED workflow
          \/ /\ pc = "leased" /\ pc' = "started" /\ job.resume = None
             /\ workflow' = [workflow EXCEPT ![slot] = w]
      BY <2>1 DEF StartWorkflow
    <3>3. w \in Workflows /\ w.stage = "admitted" /\ w.decision = None /\ w.resumed = {}
      BY DEF Workflows, Stages
    <3> HIDE DEF w
    <3> QED
      BY <3>1, <3>2, <3>3 DEF Rewritten, ByStart
  <2>2. CASE ~StartWorkflow
    BY <1>3, <2>2
       DEF Around, MarkStarted, StartThrows, Interrupt, Finish, EnterLoop, Crash, Restart,
           RunCycle, DeadlineElapses, CancelObserved, HeartbeatFails, StopsFor, Abort,
           StepFails, CancelLifecycle, Settle, SettleFails, CatchCompletes, CatchFails
  <2> QED
    BY <2>1, <2>2
<1>4. ASSUME NEW f \in Executions, NEW pr \in Executions, pull[pr] = "merged",
             WorkflowAwaitsMerge(f, pr), pc' = pc, job' = job,
             workflow' = [workflow EXCEPT ![f].stage = "completed"]
      PROVE  Changed
  <2> DEFINE w == [workflow[f] EXCEPT !.stage = "completed"]
  <2>1. workflow[f] \in Workflows /\ workflow[f].stage = "waiting-human" /\ workflow[f].pr = pr
    BY <1>1, <1>4 DEF WorkflowAwaitsMerge
  <2>2. w \in Workflows /\ w.stage = "completed" /\ w.decision = workflow[f].decision
        /\ w.resumed = workflow[f].resumed /\ w.pr = pr
    BY <2>1 DEF Workflows, Stages
  <2>3. workflow' = [workflow EXCEPT ![f] = w]
    BY <1>4
  <2> HIDE DEF w
  <2> QED
    BY <1>4, <2>1, <2>2, <2>3 DEF Rewritten, ByMerge
<1>5. ASSUME NEW i \in Items, ReconcileItem(i) PROVE Changed
  <2>1. issue[i].exec \in Executions /\ issue[i].pr \in Executions
        /\ pull[issue[i].pr] = "merged" /\ pc' = pc /\ job' = job
    BY <1>1, <1>5 DEF ReconcileItem, CorrelatedMergedPull, Markers, workerVars
  <2>2. \/ UNCHANGED workflow
        \/ /\ WorkflowAwaitsMerge(issue[i].exec, issue[i].pr)
           /\ workflow' = [workflow EXCEPT ![issue[i].exec].stage = "completed"]
    BY <1>5 DEF ReconcileItem
  <2> QED
    BY <1>4, <2>1, <2>2
<1>6. ASSUME NEW f \in Executions, NEW i \in Items, NEW closed \in BOOLEAN,
             PullRequestEvent(f, i, closed)
      PROVE  Changed
  <2>1. \/ UNCHANGED workflow
        \/ /\ projected[i].exec # None /\ pull[f] = "merged"
           /\ WorkflowAwaitsMerge(projected[i].exec, f)
           /\ workflow' = [workflow EXCEPT ![projected[i].exec].stage = "completed"]
    BY <1>6 DEF PullRequestEvent
  <2>2. projected[i].exec \in Executions \union {None} /\ pc' = pc /\ job' = job
    BY <1>1, <1>6 DEF Markers, PullRequestEvent, workerVars
  <2> QED
    BY <1>4, <2>1, <2>2
<1>7. CASE Outside
  <2>1. Start \/ (\E p \in Projects : ReconcileProject(p)) => UNCHANGED workflow
    BY DEF Start, ReconcileCandidate, ReconcileMissingWorkflowStart, ReconcileProject
  <2>2. ASSUME NEW e \in Executions,
               LeaseRunsOut(e) \/ RequestExecutionCancel(e) \/ ClosePullRequest(e)
        PROVE  UNCHANGED workflow
    BY <2>2 DEF LeaseRunsOut, RequestExecutionCancel, ClosePullRequest
  <2>3. ASSUME NEW e \in Executions,
               PullRequestClosedWebhook(e) \/ PullRequestSynchronizedWebhook(e)
        PROVE  Changed
    BY <1>6, <2>3 DEF PullRequestClosedWebhook, PullRequestSynchronizedWebhook
  <2>4. ASSUME NEW d \in openDecisions, ResolveDecision(d) PROVE UNCHANGED workflow
    BY <2>4 DEF ResolveDecision
  <2>5. ASSUME NEW i \in Items, OperatorActs(i) PROVE UNCHANGED workflow
    BY <2>5 DEF OperatorActs
  <2>6. \/ \E i \in Items : ReconcileItem(i)
        \/ \E e \in Executions :
              PullRequestClosedWebhook(e) \/ PullRequestSynchronizedWebhook(e)
        \/ UNCHANGED workflow
    BY <1>7, <2>1, <2>2, <2>4, <2>5 DEF Outside
  <2> QED
    BY <1>5, <2>3, <2>6
<1> QED
  BY <1>2, <1>3, <1>7, NextActors DEF vars

(* A workflow is completed only by those who saw its pull request merged.  *)
LEMMA WorkflowMoves ==
  ASSUME WorkInv, [Next]_vars, NEW e \in Executions
  PROVE  \/ workflow'[e] = workflow[e]
         \/ workflow'[e].stage # "completed"
         \/ workflow'[e].pr \in Executions /\ pull[workflow'[e].pr] = "merged"
<1>1. workflow \in [Executions -> Workflows \union {None}]
  BY TypeParts DEF WorkInv, DatabaseTypes
<1>2. CASE UNCHANGED workflow
  BY <1>2
<1>3. ASSUME NEW f \in Executions, NEW w \in Workflows, Rewritten(f, w)
      PROVE  \/ workflow'[e] = workflow[e]
             \/ workflow'[e].stage # "completed"
             \/ workflow'[e].pr \in Executions /\ pull[workflow'[e].pr] = "merged"
  BY <1>1, <1>3 DEF Rewritten, ByStart, ByResumption, ByQuestion, ByProgress, ByMerge
<1> QED
  BY <1>2, <1>3, WorkflowChanges

(* What a run carries of its issue is what it read, or wrote, of it.       *)
LEMMA BodyMoves ==
  ASSUME WorkInv, [Next]_vars, pc' \in WithBody
  PROVE  /\ \/ pc \in WithBody /\ job'.body = job.body
            \/ job'.body \in {issue[job.item], issue'[job.item]}
         /\ pc' \in {"published", "recorded"} =>
              \/ pc \in {"published", "recorded"} /\ job'.pr = job.pr
              \/ pc = "pushed" /\ job'.pr = slot
              \/ job'.pr \in OpenPulls(job.item)
<1>1. pc' \in AtWork /\ pc' \notin Endings /\ pc' # "leased"
  BY DEF WithBody, AtWork, Positions, Executing, AbortPoints, Free, Endings
<1>2. \A p \in Projects : ~RunCycle(p)
  BY <1>1 DEF RunCycle
<1>3. pc \in WithBody \/ (pc = "reading" /\ pc' = "lifecycle")
  BY <1>1, <1>2, RunMoves DEF Continues, Moves, WithBody
<1>4. pc' \in {"published", "recorded"} =>
         pc \in {"published", "recorded"} \/ (pc = "pushed" /\ pc' = "published")
  BY <1>1, <1>2, RunMoves DEF Continues, Moves
<1>5. Continues
  BY <1>1, <1>2, RunMoves
<1> QED
  BY <1>3, <1>4, <1>5 DEF Continues

(* The provider is only ever started by a run at its claim.                *)
LEMMA ClaimMoves ==
  ASSUME [Next]_vars
  PROVE  \/ UNCHANGED claims
         \/ pc = "claimed" /\ pc' = "implementing" /\ claims' = claims \union {slot}
<1> USE DEF KeepsDelivery
<1>1. CASE Deliver
  BY <1>1 DEF Deliver, Begin, ApplyHumanDecision, PrepareCheckout, ReadIssue, PlanEnrichment,
         Enrich, PlanDevelopment, AskForDecision, MarkWaitingForDecision, CheckpointDecision,
         ReReadIssue, ClaimIssue, CheckpointClaim, Advance, Push, OpenPullRequest,
         MarkWaitingForMerge, CheckpointPullRequest, Step
<1>2. CASE Around
  BY <1>2 DEF Around, StartWorkflow, MarkStarted, StartThrows, Interrupt, Finish, EnterLoop,
         Crash, Restart, RunCycle, DeadlineElapses, CancelObserved, HeartbeatFails, StopsFor,
         Abort, StepFails, CancelLifecycle, Settle, SettleFails, CatchCompletes, CatchFails
<1>3. CASE Outside
  BY <1>3, WorkerIsLeft
<1> QED
  BY <1>1, <1>2, <1>3, NextActors DEF vars

(* Whatever a cycle schedules has its dependencies merged: a ready issue   *)
(* by the projection's "completed" states, a waiting one by its own.       *)
LEMMA SelectedIsDue ==
  ASSUME WorkInv, ProjectionFits, NEW p \in Projects, RunCycle(p)
  PROVE  DependenciesMerged(SelectedItem(p))
<1>1. SelectedItem(p) \in Items /\ DependsOn[SelectedItem(p)] \subseteq Items
  BY CycleSchedules, IssuesAssumption
<1>2. CASE ReadyItems(p) # {}
  <2>1. \A d \in DependsOn[SelectedItem(p)] : projected[d].state = "completed"
    BY <1>2, CycleSchedules DEF ReadyItems
  <2> QED
    BY <1>1, <2>1 DEF ProjectionFits, StateFits, DependenciesMerged
<1>3. CASE ReadyItems(p) = {}
  <2>1. projected[SelectedItem(p)].state = "waiting-human"
    BY <1>3, CycleSchedules DEF WaitingItems
  <2> QED
    BY <1>1, <2>1 DEF ProjectionFits, StateFits
<1> QED
  BY <1>2, <1>3

(* The whole is inductive.                                                 *)
LEMMA MergeStep ==
  ASSUME SummariesSuffice, WorkInv, PullInv, MergeInv, [Next]_vars
  PROVE  PullInv' /\ MergeInv'
<1>1. PullInv' /\ Kept
  BY PullStep
<1>2. MarkersFit /\ ProjectionFits /\ WorkflowsFit /\ RunFits /\ ClaimsFit
  BY DEF MergeInv
<1>3. /\ issue \in [Items -> Markers] /\ projected \in [Items -> Markers] /\ job \in Jobs
      /\ workflow \in [Executions -> Workflows \union {None}] /\ claims \subseteq Executions
      /\ pc \notin Free => slot \in Executions
      /\ pc \in AtWork => job.item \in Items
      /\ pc \in WithBody => job.body \in Markers
  BY NoneIsDistinct, TypeParts
     DEF WorkInv, DatabaseTypes, GithubTypes, WorkerTypes, StoreTypeOK, JobFits
<1>4. issue' \in [Items -> Markers] /\ workflow' \in [Executions -> Workflows \union {None}]
  BY WorkStep, NextTypeParts DEF WorkInv, GithubTypes, DatabaseTypes
<1>5. \A i \in Items : NextMarkerFits(issue'[i], i) /\ NextStateFits(issue'[i], i)
  BY <1>1, <1>2, MarkersStep
<1>6. \A i \in Items : /\ NextMarkerFits(issue[i], i) /\ NextStateFits(issue[i], i)
                       /\ NextStateFits(projected[i], i)
  <2> SUFFICES ASSUME NEW i \in Items
               PROVE  /\ NextMarkerFits(issue[i], i) /\ NextStateFits(issue[i], i)
                      /\ NextStateFits(projected[i], i)
    OBVIOUS
  <2>1. issue[i].pr \in Executions \union {None} /\ projected[i].pr \in Executions \union {None}
    BY <1>3 DEF Markers
  <2> QED
    BY <1>1, <1>2, <2>1, FitsStay DEF MarkersFit, ProjectionFits
<1>7. MarkersFit'
  BY <1>5 DEF MarkersFit, MarkerFits, StateFits, NextMarkerFits, NextStateFits,
              DependenciesMerged, Merged, NextDependenciesMerged, NextMerged
<1>8. ProjectionFits'
  <2>1. \A i \in Items : NextStateFits(projected'[i], i)
    BY <1>5, <1>6, ProjectionReads
  <2> QED
    BY <2>1 DEF ProjectionFits, StateFits, NextStateFits, DependenciesMerged, Merged,
                NextDependenciesMerged, NextMerged
<1>9. WorkflowsFit'
  <2> SUFFICES ASSUME NEW e \in Executions, workflow'[e] # None,
                      workflow'[e].stage = "completed"
               PROVE  workflow'[e].pr # None /\ pull'[workflow'[e].pr] = "merged"
    BY DEF WorkflowsFit, WorkflowFits
  <2>1. workflow'[e].pr \in Executions \union {None}
    BY <1>4 DEF Workflows
  <2>2. workflow'[e].pr # None /\ pull[workflow'[e].pr] = "merged"
    BY <1>2, NoneIsDistinct, WorkflowMoves DEF WorkflowsFit, WorkflowFits
  <2> QED
    BY <1>1, <2>1, <2>2 DEF Kept
<1>10. RunFits'
  <2> SUFFICES ASSUME pc' \in AtWork
               PROVE  /\ NextDependenciesMerged(job'.item)
                      /\ pc' \in WithBody => NextMarkerFits(job'.body, job'.item)
                      /\ pc' \in {"published", "recorded"} => execWork'[job'.pr] = job'.item
    <3>1. pc' \notin AtWork => pc' \notin WithBody /\ pc' \notin {"published", "recorded"}
      BY DEF AtWork, WithBody, Positions, Executing, AbortPoints, Free
    <3> QED
      BY <3>1 DEF RunFits, MarkerFits, NextMarkerFits, DependenciesMerged, Merged,
                  NextDependenciesMerged, NextMerged
  <2>1. ASSUME NEW p \in Projects, RunCycle(p)
        PROVE  NextDependenciesMerged(job'.item) /\ pc' = "leased"
    <3>1. job'.item = SelectedItem(p) /\ pc' = "leased"
      BY <2>1 DEF RunCycle, NoJob
    <3>2. SelectedItem(p) \in Items /\ DependenciesMerged(SelectedItem(p))
      BY <1>2, <2>1, CycleSchedules, SelectedIsDue
    <3> QED
      BY <1>1, <3>1, <3>2, MergedStays
  <2>2. ASSUME pc \in AtWork, slot' = slot, job'.item = job.item
        PROVE  /\ NextDependenciesMerged(job'.item)
               /\ pc' \in WithBody => NextMarkerFits(job'.body, job'.item)
               /\ pc' \in {"published", "recorded"} => execWork'[job'.pr] = job'.item
    <3>1. NextDependenciesMerged(job'.item)
      BY <1>1, <1>2, <1>3, <2>2, MergedStays DEF RunFits
    <3>2. pc \in WithBody => NextMarkerFits(job.body, job.item)
      <4>1. pc \in WithBody => job.body.pr \in Executions \union {None}
        BY <1>3 DEF Markers
      <4> QED
        BY <1>1, <1>2, <1>3, <2>2, <4>1, FitsStay DEF RunFits
    <3>3. pc' \in WithBody => NextMarkerFits(job'.body, job'.item)
      BY <1>3, <1>5, <1>6, <2>2, <3>2, BodyMoves
    <3>4. \A e \in Executions : execWork[e] = job.item => execWork'[e] = job.item
      BY <1>1, <1>3, <2>2, NoneIsDistinct DEF PullInv, FreshIsUntouched, Kept
    <3>5. pc' \in {"published", "recorded"} => execWork'[job'.pr] = job'.item
      <4>1. pc' \in {"published", "recorded"} => pc' \in WithBody
        BY DEF WithBody
      <4>2. pc \in {"published", "recorded"} => job.pr \in Executions /\ execWork[job.pr] = job.item
        BY <1>2 DEF RunFits, WorkInv, JobFits
      <4>3. slot \in Executions /\ execWork[slot] = job.item
        BY <1>3, <2>2 DEF PullInv, DriverFits, AtWork
      <4> QED
        BY <2>2, <3>4, <4>1, <4>2, <4>3, BodyMoves DEF OpenPulls
    <3> QED
      BY <3>1, <3>3, <3>5
  <2> QED
    BY <2>1, <2>2, DriverMoves DEF WithBody
<1>11. ClaimsFit'
  <2> SUFFICES ASSUME NEW e \in claims'
               PROVE  execWork'[e] \in Items /\ NextDependenciesMerged(execWork'[e])
    BY DEF ClaimsFit, DependenciesMerged, Merged, NextDependenciesMerged, NextMerged
  <2>1. e \in Executions /\ execWork[e] \in Items /\ DependenciesMerged(execWork[e])
    <3>1. CASE e \in claims
      BY <1>2, <1>3, <3>1 DEF ClaimsFit
    <3>2. CASE pc = "claimed" /\ e = slot
      <4>1. pc \in AtWork /\ pc \notin Free
        BY <3>2 DEF AtWork, Positions, Executing, AbortPoints, Free
      <4> QED
        BY <1>2, <1>3, <3>2, <4>1 DEF RunFits, PullInv, DriverFits
    <3> QED
      BY <3>1, <3>2, ClaimMoves
  <2>2. execWork'[e] = execWork[e]
    BY <1>1, <2>1, NoneIsDistinct DEF PullInv, FreshIsUntouched, Kept
  <2> QED
    BY <1>1, <2>1, <2>2, MergedStays
<1> QED
  BY <1>1, <1>7, <1>8, <1>9, <1>10, <1>11 DEF MergeInv

(* The delivery keeps it, with the shape and the pull requests of its rows.*)
LEMMA MergeInvariance ==
  ASSUME SummariesSuffice
  PROVE  SafetySpec => [](WorkInv /\ PullInv /\ MergeInv)
<1>1. Init => PullInv /\ MergeInv
  BY DEF Init, StoreInit, PullInv, FreshIsUntouched, DriverFits, MergeInv, MarkersFit, MarkerFits,
         StateFits, ProjectionFits, WorkflowsFit, WorkflowFits, RunFits, ClaimsFit, DefaultMarker,
         AtWork, WithBody, Free
<1>2. WorkInv /\ PullInv /\ MergeInv /\ [Next]_vars => PullInv' /\ MergeInv'
  BY MergeStep
<1> QED
  BY <1>1, <1>2, WorkInvariance, PTL DEF SafetySpec

(* CompletedOnlyAfterMerge: neither the worker, nor the webhook, nor the   *)
(* missed-webhook recovery, nor an operator's edit between their reads and *)
(* writes, completes an issue or a workflow whose pull request is open.    *)
THEOREM CompletionsFollowMerges ==
  ASSUME SummariesSuffice
  PROVE  SafetySpec => []CompletedOnlyAfterMerge
<1>1. WorkInv /\ MergeInv => CompletedOnlyAfterMerge
  BY DEF MergeInv, MarkersFit, MarkerFits, WorkflowsFit, WorkflowFits, CompletedOnlyAfterMerge
<1> QED
  BY <1>1, MergeInvariance, PTL

(* DependenciesMergedFirst: a provider started on an issue finds the work  *)
(* the issue depends on merged, however stale the projection it was        *)
(* scheduled from and however often the run was resumed since.             *)
THEOREM ProviderRunsAfterDependencies ==
  ASSUME SummariesSuffice
  PROVE  SafetySpec => []DependenciesMergedFirst
<1>1. WorkInv /\ MergeInv => DependenciesMergedFirst
  BY DEF MergeInv, ClaimsFit, DependenciesMerged, Merged, DependenciesMergedFirst
<1> QED
  BY <1>1, MergeInvariance, PTL


-----------------------------------------------------------------------------
(* What a run has read, and what of it is still true.                      *)

\* The run's places before it reads the issue, and after it has seen that its
\* decision is the one the workflow waits for.
BeforeBody == {"leased", "started", "dispatched", "begin", "deciding", "planning", "reading"}
AfterBegin == {"deciding", "planning", "reading"} \union WithBody

\* A marker of issue i names executions of i, and decisions asked of i before
\* the marker was written.
Named(m, i) ==
    /\ m.rev >= 1
    /\ m.decision # None => m.decision[1] = i /\ m.decision[2] < m.rev
    /\ m.exec # None => execWork[m.exec] = i

MarkersNamed ==
    /\ \A i \in Items : Named(issue[i], i) /\ Named(projected[i], i)
    /\ pc \in WithBody => Named(job.body, job.item)
    /\ pc \in AtWork /\ job.ref # None => execWork[job.ref] = job.item

\* Two readings of one revision are the same.
RevisionsGrow ==
    /\ \A i \in Items : /\ projected[i].rev <= issue[i].rev
                        /\ projected[i].rev = issue[i].rev => projected[i] = issue[i]
    /\ pc \in BeforeBody => job.seen <= issue[job.item].rev
    /\ pc \in WithBody => /\ job.body.rev <= issue[job.item].rev
                          /\ job.body.rev = issue[job.item].rev => job.body = issue[job.item]
    /\ pc = "asked" => job.body.rev < issue[job.item].rev

\* As long as nobody writes the issue, it is as it was scheduled for.
AsScheduled ==
    pc \in BeforeBody /\ job.seen = issue[job.item].rev =>
        /\ job.resume = None => issue[job.item].state = "ready"
        /\ job.resume # None /\ job.resume[1] = job.item =>
              issue[job.item].state = "waiting-human" /\ issue[job.item].decision = job.resume

RunRemembers ==
    /\ pc \in AtWork /\ job.resume # None => job.resume \in resolvedDecisions
    /\ pc \in AfterBegin /\ job.resume # None => job.resume[1] = job.item
    /\ pc = "planning" /\ job.resume # None => job.ckpt = "planning"
    /\ pc \in WithWorkflow => execWork[job.wf] = job.item
    /\ pc \in {"lifecycle", "enriching"} /\ job.resume # None => job.body.state # "ready"

\* The decisions workflow e waits for or was resumed with.
Answers(e) ==
    {d \in Decisions : workflow[e] # None /\ (d = workflow[e].decision \/ d \in workflow[e].resumed)}

\* A workflow's decisions are its issue's and nobody else's.
WorkflowsOwn ==
    /\ \A e \in Executions :
         /\ execStatus[e] = "absent" => workflow[e] = None /\ e \notin claims
         /\ \A d \in Answers(e) : d[1] = execWork[e] /\ d[2] < issue[d[1]].rev
         /\ workflow[e] # None => workflow[e].resumed \subseteq resolvedDecisions
    /\ \A e, f \in Executions : \A d \in Answers(e) : d \in Answers(f) => e = f
    /\ pc = "leased" => workflow[slot] = None
    /\ pc \in {"lifecycle", "asking", "asked"} =>
         \A e \in Executions : \A d \in Answers(e) : d[1] = job.item => d[2] < job.body.rev

Finite == IsFiniteSet(claims) /\ IsFiniteSet(openDecisions) /\ IsFiniteSet(resolvedDecisions)

RunInv == MarkersNamed /\ RevisionsGrow /\ AsScheduled /\ RunRemembers /\ WorkflowsOwn /\ Finite

(* The types of what those speak of, before a step and after it.           *)
LEMMA Shapes ==
  ASSUME WorkInv
  PROVE  /\ issue \in [Items -> Markers] /\ projected \in [Items -> Markers] /\ job \in Jobs
         /\ workflow \in [Executions -> Workflows \union {None}]
         /\ claims \subseteq Executions /\ openDecisions \subseteq Decisions
         /\ resolvedDecisions \subseteq Decisions
         /\ execWork \in [Executions -> Items \union {None}] /\ pc \in Positions
         /\ pc \in AtWork => job.item \in Items /\ slot \in Executions
         /\ pc \in WithBody => job.body \in Markers
         /\ pc \in WithWorkflow => job.wf \in Executions /\ workflow[job.wf] \in Workflows
  BY NoneIsDistinct, TypeParts
     DEF WorkInv, DatabaseTypes, GithubTypes, WorkerTypes, StoreTypeOK, JobFits, AtWork

(* And in the next state.                                                  *)
LEMMA NextShapes ==
  ASSUME SummariesSuffice, WorkInv, [Next]_vars
  PROVE  /\ issue' \in [Items -> Markers] /\ projected' \in [Items -> Markers] /\ job' \in Jobs
         /\ workflow' \in [Executions -> Workflows \union {None}]
         /\ claims' \subseteq Executions /\ openDecisions' \subseteq Decisions
         /\ resolvedDecisions' \subseteq Decisions
         /\ execWork' \in [Executions -> Items \union {None}] /\ pc' \in Positions
         /\ pc' \in AtWork => job'.item \in Items /\ slot' \in Executions
         /\ pc' \in WithBody => job'.body \in Markers
         /\ pc' \in WithWorkflow => job'.wf \in Executions /\ workflow'[job'.wf] \in Workflows
<1>1. WorkInv'
  BY WorkStep
<1> QED
  BY <1>1, NoneIsDistinct, NextTypeParts
     DEF WorkInv, DatabaseTypes, GithubTypes, WorkerTypes, StoreTypeOK, JobFits, AtWork

(* Where a run's next place is, one of these was its present one.          *)
LEMMA Places ==
  ASSUME WorkInv, [Next]_vars
  PROVE  /\ WithBody \subseteq AtWork /\ BeforeBody \subseteq AtWork /\ AfterBegin \subseteq AtWork
         /\ WithWorkflow \subseteq AtWork
         /\ pc' \in BeforeBody =>
               (pc \in BeforeBody /\ Continues) \/ \E p \in Projects : RunCycle(p)
         /\ pc' \in WithBody => Continues /\ (pc \in WithBody \/ (pc = "reading" /\ pc' = "lifecycle"))
         /\ pc' \in AfterBegin => Continues /\ pc \in AfterBegin \union {"begin"}
         /\ pc' \in WithWorkflow =>
               Continues /\ (pc \in WithWorkflow \/ (pc = "leased" /\ pc' = "started"))
<1> USE DEF WithBody, BeforeBody, AfterBegin, WithWorkflow, AtWork, Positions, Executing,
            AbortPoints, Free, Endings
<1>1. \A p \in Projects : RunCycle(p) => pc' = "leased"
  BY DEF RunCycle
<1>2. pc' \in AtWork => (\E p \in Projects : RunCycle(p)) \/ Continues
  BY RunMoves
<1>3. Continues => /\ pc \in AtWork /\ (pc' = pc \/ pc' \in Endings \/ <<pc, pc'>> \in Moves)
                   /\ pc' = "cancelling" => pc \in Executing
  BY DEF Continues
<1>4. pc' \in BeforeBody =>
               (pc \in BeforeBody /\ Continues) \/ \E p \in Projects : RunCycle(p)
  BY <1>2, <1>3 DEF Moves
<1>5. pc' \in WithBody => Continues /\ (pc \in WithBody \/ (pc = "reading" /\ pc' = "lifecycle"))
  BY <1>1, <1>2, <1>3 DEF Moves
<1>6. pc' \in AfterBegin => Continues /\ pc \in AfterBegin \union {"begin"}
  BY <1>1, <1>2, <1>3 DEF Moves
<1>7. pc' \in WithWorkflow =>
         Continues /\ (pc \in WithWorkflow \/ (pc = "leased" /\ pc' = "started"))
  BY <1>1, <1>2, <1>3 DEF Moves
<1> QED
  BY <1>4, <1>5, <1>6, <1>7

-----------------------------------------------------------------------------
(* An execution keeps its issue.                                           *)
LEMMA WorkStays ==
  ASSUME SummariesSuffice, WorkInv, PullInv, [Next]_vars,
         NEW e \in Executions, NEW i \in Items, execWork[e] = i
  PROVE  execWork'[e] = i
  BY PullStep, NoneIsDistinct DEF PullInv, FreshIsUntouched, Kept

\* Named in the next state, for a marker of this one or of the next.
NextNamed(m, i) ==
    /\ m.rev >= 1
    /\ m.decision # None => m.decision[1] = i /\ m.decision[2] < m.rev
    /\ m.exec # None => execWork'[m.exec] = i

(* The names stay right, whoever writes the issue or reads it.             *)
LEMMA NamedStep ==
  ASSUME SummariesSuffice, WorkInv, PullInv, RunInv, [Next]_vars
  PROVE  MarkersNamed'
<1>1. /\ issue \in [Items -> Markers] /\ projected \in [Items -> Markers] /\ job \in Jobs
      /\ pc \in AtWork => job.item \in Items /\ slot \in Executions
      /\ pc \in WithBody => job.body \in Markers
      /\ pc \in WithWorkflow => job.wf \in Executions
  BY Shapes
<1>2. issue' \in [Items -> Markers] /\ projected' \in [Items -> Markers]
  BY NextShapes
<1>3. MarkersNamed /\ RevisionsGrow /\ RunRemembers
  BY DEF RunInv
<1>4. \A e \in Executions, i \in Items : execWork[e] = i => execWork'[e] = i
  BY WorkStays
<1>5. \A m \in Markers, i \in Items : Named(m, i) => NextNamed(m, i)
  <2> SUFFICES ASSUME NEW m \in Markers, NEW i \in Items, Named(m, i) PROVE NextNamed(m, i)
    OBVIOUS
  <2>1. m.exec \in Executions \union {None}
    BY DEF Markers
  <2> QED
    BY <1>4, <2>1 DEF Named, NextNamed
<1>6. pc \in AtWork => execWork[slot] = job.item
  BY DEF PullInv, DriverFits
<1>7. ASSUME NEW i \in Items PROVE NextNamed(issue'[i], i)
  <2>1. /\ issue[i] \in Markers /\ Named(issue[i], i) /\ NextNamed(issue[i], i)
        /\ issue[i].rev \in Nat /\ issue'[i] \in Markers
    BY <1>1, <1>2, <1>3, <1>5 DEF MarkersNamed, Markers
  <2>2. CASE issue'[i] = issue[i]
    BY <2>1, <2>2
  <2> USE DEF NextNamed
  <2>3. issue[i].decision # None => issue[i].decision[2] \in Nat
    BY <2>1 DEF Markers, Decisions
  <2>4. CASE issue'[i].rev = issue[i].rev + 1 /\ ByHand(i)
    BY <2>1, <2>3, <2>4 DEF ByHand
  <2>5. CASE issue'[i].rev = issue[i].rev + 1 /\ ByEvent(i)
    BY <2>1, <2>3, <2>5 DEF ByEvent, PullRequestDecision
  <2>6. CASE issue'[i].rev = issue[i].rev + 1 /\ ByCancel(i)
    <3>1. pc \in AtWork /\ i = job.item
      BY <2>6 DEF ByCancel, AtWork, Positions, Executing, AbortPoints, Free
    <3>2. job.ref \in Executions \union {None} /\ slot \in Executions
      BY <1>1, <3>1 DEF Jobs
    <3>3. Coalesce(job.ref, slot) \in Executions /\ execWork[Coalesce(job.ref, slot)] = i
      BY <1>3, <1>6, <3>1, <3>2 DEF Coalesce, MarkersNamed
    <3> QED
      BY <1>4, <2>1, <2>6, <3>3 DEF ByCancel
  <2>7. ASSUME pc \in WithBody, i = job.item
        PROVE  /\ NextNamed(job.body, i) /\ job.body.rev \in Nat
               /\ job.body.rev <= issue[i].rev
               /\ job.body.decision # None => job.body.decision[2] \in Nat
    <3>1. job.body \in Markers /\ Named(job.body, i) /\ job.body.rev <= issue[i].rev
      BY <1>1, <1>3, <2>7 DEF MarkersNamed, RevisionsGrow
    <3> QED
      BY <1>5, <3>1 DEF Markers, Decisions
  <2>8. ASSUME pc \in WithWorkflow, i = job.item PROVE execWork'[job.wf] = i
    BY <1>1, <1>3, <1>4, <2>8 DEF RunRemembers
  <2>9. CASE issue'[i].rev = issue[i].rev + 1 /\ ByEnrichment(i)
    BY <2>1, <2>7, <2>9 DEF ByEnrichment, WithBody
  <2>10. CASE issue'[i].rev = issue[i].rev + 1 /\ ByAsking(i)
    <3>1. i = job.item /\ pc \in WithBody /\ pc \in WithWorkflow
      BY <2>10 DEF ByAsking, WithBody, WithWorkflow, Executing, AbortPoints
    <3>2. /\ issue'[i].exec = job.wf /\ issue'[i].decision = <<job.item, job.body.rev>>
      BY <2>10 DEF ByAsking, AskedDecision
    <3> QED
      BY <2>1, <2>7, <2>8, <2>10, <3>1, <3>2
  <2>11. CASE issue'[i].rev = issue[i].rev + 1 /\ (ByClaim(i) \/ ByRecord(i))
    <3>1. i = job.item /\ pc \in WithBody /\ pc \in WithWorkflow
      BY <2>11 DEF ByClaim, ByRecord, WithBody, WithWorkflow, Executing, AbortPoints
    <3>2. issue'[i].exec = job.wf /\ issue'[i].decision = job.body.decision
      BY <2>11 DEF ByClaim, ByRecord
    <3> QED
      BY <2>1, <2>7, <2>8, <2>11, <3>1, <3>2
  <2> QED
    BY <2>2, <2>4, <2>5, <2>6, <2>9, <2>10, <2>11, IssueChanges DEF Written
<1>8. ASSUME NEW i \in Items PROVE NextNamed(projected'[i], i)
  BY <1>1, <1>3, <1>5, <1>7, ProjectionReads DEF MarkersNamed
<1>9. ASSUME pc' \in WithBody PROVE NextNamed(job'.body, job'.item)
  <2>1. Continues /\ pc \in AtWork /\ job'.item = job.item /\ job.item \in Items
        /\ (pc \in WithBody \/ (pc = "reading" /\ pc' = "lifecycle"))
    BY <1>1, <1>9, Places DEF Continues
  <2>2. job'.body \in {issue[job.item], issue'[job.item]} \/ (pc \in WithBody /\ job'.body = job.body)
    BY <1>9, BodyMoves
  <2>3. pc \in WithBody => NextNamed(job.body, job.item)
    BY <1>1, <1>3, <1>5, <2>1 DEF MarkersNamed
  <2>4. NextNamed(issue[job.item], job.item)
    BY <1>1, <1>3, <1>5, <2>1 DEF MarkersNamed
  <2> QED
    BY <1>7, <2>1, <2>2, <2>3, <2>4
<1>10. ASSUME pc' \in AtWork, job'.ref # None PROVE execWork'[job'.ref] = job'.item
  <2>1. ASSUME NEW p \in Projects, RunCycle(p) PROVE execWork'[job'.ref] = job'.item
    <3>1. SelectedItem(p) \in Items
      BY <2>1, CycleSchedules
    <3>2. job'.item = SelectedItem(p) /\ job'.ref = projected[SelectedItem(p)].exec
      BY <2>1 DEF RunCycle, NoJob
    <3> QED
      BY <1>1, <1>3, <1>5, <1>10, <3>1, <3>2 DEF MarkersNamed, NextNamed
  <2>2. CASE Continues
    <3>1. job'.ref = job.ref /\ job'.item = job.item /\ pc \in AtWork
      BY <2>2 DEF Continues
    <3>2. job.ref \in Executions
      BY <1>1, <1>10, <3>1 DEF Jobs
    <3> QED
      BY <1>1, <1>3, <1>4, <1>10, <3>1, <3>2 DEF MarkersNamed
  <2> QED
    BY <1>10, <2>1, <2>2, RunMoves
<1> QED
  BY <1>7, <1>8, <1>9, <1>10 DEF MarkersNamed, Named, NextNamed

-----------------------------------------------------------------------------
(* What moved a run from one place to another.                             *)
LEMMA MovedBy ==
  ASSUME [Next]_vars
  PROVE  /\ pc = "begin" /\ pc' \in {"planning", "deciding"} => Begin
         /\ pc = "reading" /\ pc' = "lifecycle" => ReadIssue
         /\ pc = "enriching" /\ pc' = "enriched" => Enrich
         /\ pc = "lifecycle" /\ pc' = "asking" => AskForDecision
         /\ pc = "asking" /\ pc' = "asked" => MarkWaitingForDecision
         /\ pc = "claiming" /\ pc' = "claimed" => ClaimIssue
         /\ pc = "claimed" /\ pc' = "implementing" => CheckpointClaim
         /\ pc = "published" /\ pc' = "recorded" => MarkWaitingForMerge
<1>1. CASE Deliver
  BY <1>1 DEF Deliver, Begin, ApplyHumanDecision, PrepareCheckout, ReadIssue, PlanEnrichment,
         Enrich, PlanDevelopment, AskForDecision, MarkWaitingForDecision, CheckpointDecision,
         ReReadIssue, ClaimIssue, CheckpointClaim, Advance, Push, OpenPullRequest,
         MarkWaitingForMerge, CheckpointPullRequest, Step
<1>2. CASE Around
  BY <1>2 DEF Around, StartWorkflow, MarkStarted, StartThrows, Interrupt, Finish, EnterLoop,
         Crash, Restart, RunCycle, DeadlineElapses, CancelObserved, HeartbeatFails, StopsFor,
         Abort, StepFails, CancelLifecycle, Settle, SettleFails, CatchCompletes, CatchFails,
         EndsCycle, KeepsDelivery
<1>3. CASE Outside
  BY <1>3, WorkerIsLeft
<1> QED
  BY <1>1, <1>2, <1>3, NextActors DEF vars, workerVars

(* Every write is a new revision, and every reading is of one there was.   *)
LEMMA RevisionsStep ==
  ASSUME SummariesSuffice, WorkInv, PullInv, RunInv, [Next]_vars
  PROVE  RevisionsGrow'
<1>1. /\ issue \in [Items -> Markers] /\ projected \in [Items -> Markers] /\ job \in Jobs
      /\ pc \in AtWork => job.item \in Items
      /\ pc \in WithBody => job.body \in Markers
  BY Shapes
<1>2. issue' \in [Items -> Markers] /\ projected' \in [Items -> Markers]
  BY NextShapes
<1>3. RevisionsGrow /\ AsScheduled
  BY DEF RunInv
<1>4. \A i \in Items : issue'[i] = issue[i] \/ issue'[i].rev = issue[i].rev + 1
  BY IssueChanges DEF Written
<1>5. \A i \in Items : /\ issue[i].rev \in Nat /\ issue'[i].rev \in Nat
                       /\ projected[i].rev \in Nat /\ projected'[i].rev \in Nat
  BY <1>1, <1>2 DEF Markers
<1>6. ASSUME NEW i \in Items
      PROVE  /\ projected'[i].rev <= issue'[i].rev
             /\ projected'[i].rev = issue'[i].rev => projected'[i] = issue'[i]
  <2>1. projected[i].rev <= issue[i].rev
        /\ (projected[i].rev = issue[i].rev => projected[i] = issue[i])
    BY <1>3 DEF RevisionsGrow
  <2>2. projected'[i] \in {projected[i], issue[i], issue'[i]}
    BY ProjectionReads
  <2>3. issue'[i] = issue[i] \/ issue'[i].rev = issue[i].rev + 1
    BY <1>4
  <2>4. issue[i].rev \in Nat /\ issue'[i].rev \in Nat /\ projected[i].rev \in Nat
    BY <1>5
  <2> QED
    BY ONLY <2>1, <2>2, <2>3, <2>4
<1>7. ASSUME pc' \in BeforeBody PROVE job'.seen <= issue'[job'.item].rev
  <2>1. ASSUME NEW p \in Projects, RunCycle(p) PROVE job'.seen <= issue'[job'.item].rev
    <3>1. SelectedItem(p) \in Items
      BY <2>1, CycleSchedules
    <3>2. /\ job'.item = SelectedItem(p) /\ job'.seen = projected[SelectedItem(p)].rev
          /\ issue' = issue
      BY <2>1 DEF RunCycle, NoJob, githubVars
    <3> QED
      BY <1>3, <3>1, <3>2 DEF RevisionsGrow
  <2>2. CASE pc \in BeforeBody /\ Continues
    <3>1. job'.seen = job.seen /\ job'.item = job.item /\ job.item \in Items
      BY <1>1, <2>2, Places DEF Continues
    <3>2. job.seen <= issue[job.item].rev /\ job.seen \in Nat
      BY <1>1, <1>3, <2>2 DEF RevisionsGrow, Jobs
    <3> QED
      BY <1>4, <1>5, <3>1, <3>2
  <2> QED
    BY <1>7, <2>1, <2>2, Places
<1>8. ASSUME pc' \in WithBody
      PROVE  /\ job'.body.rev <= issue'[job'.item].rev
             /\ job'.body.rev = issue'[job'.item].rev => job'.body = issue'[job'.item]
  <2>1. Continues /\ pc \in AtWork /\ job'.item = job.item /\ job.item \in Items
    BY <1>1, <1>8, Places DEF Continues
  <2>2. job'.body \in {issue[job.item], issue'[job.item]} \/ (pc \in WithBody /\ job'.body = job.body)
    BY <1>8, BodyMoves
  <2> DEFINE i == job.item
  <2>3. /\ issue'[i] = issue[i] \/ issue'[i].rev = issue[i].rev + 1
        /\ issue[i].rev \in Nat /\ issue'[i].rev \in Nat
    BY <1>4, <1>5, <2>1
  <2>4. pc \in WithBody => /\ job.body.rev \in Nat /\ job.body.rev <= issue[i].rev
                           /\ job.body.rev = issue[i].rev => job.body = issue[i]
    BY <1>1, <1>3 DEF RevisionsGrow, Markers
  <2> HIDE DEF i
  <2>5. /\ job'.body.rev <= issue'[i].rev
        /\ job'.body.rev = issue'[i].rev => job'.body = issue'[i]
    BY ONLY <2>2, <2>3, <2>4 DEF i
  <2> QED
    BY <2>1, <2>5 DEF i
<1>9. ASSUME pc' = "asked" PROVE job'.body.rev < issue'[job'.item].rev
  <2>1. pc' \in WithBody
    BY <1>9 DEF WithBody
  <2>2. Continues /\ pc \in AtWork /\ job'.item = job.item /\ job.item \in Items
        /\ pc \in {"asking", "asked"}
    BY <1>1, <1>9, <2>1, Places DEF Continues, Moves, Endings
  <2>3. job'.body = job.body /\ pc \in WithBody
    BY <1>9, <2>2 DEF Continues, WithBody
  <2>4. /\ job.body.rev \in Nat /\ job.body.rev <= issue[job.item].rev
        /\ pc = "asked" => job.body.rev < issue[job.item].rev
    BY <1>1, <1>3, <2>3 DEF RevisionsGrow, Markers
  <2>5. pc = "asking" => issue'[job.item].rev = issue[job.item].rev + 1
    BY <1>9, MovedBy, RunWrites DEF Revised
  <2> QED
    BY <1>4, <1>5, <2>2, <2>3, <2>4, <2>5
<1> QED
  BY <1>6, <1>7, <1>8, <1>9 DEF RevisionsGrow

-----------------------------------------------------------------------------
(* A resumption is of a resolved decision that a waiting issue names.      *)
LEMMA ResumptionIsAsked ==
  ASSUME WorkInv, MarkersNamed, NEW p \in Projects, ResumeDecision(p) # None
  PROVE  /\ ResumeDecision(p) \in resolvedDecisions
         /\ \E j \in Items : /\ projected[j].state = "waiting-human"
                             /\ projected[j].decision = ResumeDecision(p)
                             /\ ResumeDecision(p)[1] = j
<1> DEFINE j == First(AskingItems(p))
<1>1. AskingItems(p) # {} /\ ResumeDecision(p) = projected[j].decision
      /\ projected[j].decision \in resolvedDecisions
  BY DEF ResumeDecision
<1>2. AskingItems(p) \in (SUBSET Items) \ {{}}
  BY <1>1 DEF AskingItems, WaitingItems, ItemsOf
<1>3. j \in AskingItems(p)
  BY <1>2, SomeIssueIsFirst DEF First
<1>4. j \in Items /\ projected[j].state = "waiting-human" /\ projected[j].decision # None
  BY <1>3 DEF AskingItems, WaitingItems, ItemsOf
<1>5. projected[j].decision[1] = j
  BY <1>4 DEF MarkersNamed, Named
<1> QED
  BY <1>1, <1>4, <1>5

(* What a cycle knows of the issue it schedules when the projection is not *)
(* behind.                                                                 *)
LEMMA ScheduledStep ==
  ASSUME SummariesSuffice, WorkInv, PullInv, RunInv, [Next]_vars
  PROVE  AsScheduled'
<1>1. /\ issue \in [Items -> Markers] /\ job \in Jobs
      /\ pc \in AtWork => job.item \in Items
      /\ issue' \in [Items -> Markers]
  BY Shapes, NextShapes
<1>2. MarkersNamed /\ RevisionsGrow /\ AsScheduled
  BY DEF RunInv
<1> SUFFICES ASSUME pc' \in BeforeBody, job'.seen = issue'[job'.item].rev
             PROVE  /\ job'.resume = None => issue'[job'.item].state = "ready"
                    /\ job'.resume # None /\ job'.resume[1] = job'.item =>
                          /\ issue'[job'.item].state = "waiting-human"
                          /\ issue'[job'.item].decision = job'.resume
  BY DEF AsScheduled
<1>3. ASSUME NEW p \in Projects, RunCycle(p)
      PROVE  /\ job'.resume = None => issue'[job'.item].state = "ready"
             /\ job'.resume # None /\ job'.resume[1] = job'.item =>
                   /\ issue'[job'.item].state = "waiting-human"
                   /\ issue'[job'.item].decision = job'.resume
  <2> DEFINE i == SelectedItem(p)
  <2>1. i \in Items /\ (ReadyItems(p) # {} => i \in ReadyItems(p))
    BY <1>3, CycleSchedules
  <2>2. /\ job'.item = i /\ job'.seen = projected[i].rev /\ job'.resume = ResumeDecision(p)
        /\ issue' = issue
    BY <1>3 DEF RunCycle, NoJob, githubVars
  <2>3. projected[i] = issue[i]
    BY <1>2, <2>1, <2>2 DEF RevisionsGrow
  <2>4. ResumeDecision(p) = None => ReadyItems(p) # {}
    BY <1>3 DEF RunCycle, Eligible
  <2>5. ReadyItems(p) # {} => projected[i].state = "ready"
    BY <2>1 DEF ReadyItems
  <2>6. ResumeDecision(p) # None /\ ResumeDecision(p)[1] = i =>
           projected[i].state = "waiting-human" /\ projected[i].decision = ResumeDecision(p)
    BY <1>2, ResumptionIsAsked
  <2> HIDE DEF i
  <2> QED
    BY <2>2, <2>3, <2>4, <2>5, <2>6
<1>4. CASE pc \in BeforeBody /\ Continues
  <2>1. /\ job'.seen = job.seen /\ job'.item = job.item /\ job'.resume = job.resume
        /\ job.item \in Items
    BY <1>1, <1>4, Places DEF Continues
  <2>2. job.seen <= issue[job.item].rev /\ job.seen \in Nat /\ issue[job.item].rev \in Nat
    BY <1>1, <1>2, <1>4, <2>1 DEF RevisionsGrow, Jobs, Markers
  <2>3. issue'[job.item] = issue[job.item] \/ issue'[job.item].rev = issue[job.item].rev + 1
    BY <2>1, IssueChanges DEF Written
  <2>4. issue'[job.item] = issue[job.item]
    <3>1. job.seen = issue'[job.item].rev
      BY <2>1
    <3> QED
      BY ONLY <2>2, <2>3, <3>1
  <2>5. job.seen = issue[job.item].rev
    BY <2>1, <2>4
  <2>6. /\ job.resume = None => issue[job.item].state = "ready"
        /\ job.resume # None /\ job.resume[1] = job.item =>
              issue[job.item].state = "waiting-human" /\ issue[job.item].decision = job.resume
    BY <1>2, <1>4, <2>5 DEF AsScheduled
  <2> QED
    BY <2>1, <2>4, <2>6
<1> QED
  BY <1>3, <1>4, Places

-----------------------------------------------------------------------------
(* Decisions are asked by a run and resolved by the operator.              *)
LEMMA DecisionMoves ==
  ASSUME [Next]_vars
  PROVE  \/ UNCHANGED decisionVars
         \/ AskForDecision
         \/ \E d \in openDecisions : ResolveDecision(d)
<1> USE DEF KeepsDelivery
<1>1. CASE Deliver /\ ~AskForDecision
  BY <1>1 DEF Deliver, Begin, ApplyHumanDecision, PrepareCheckout, ReadIssue, PlanEnrichment,
         Enrich, PlanDevelopment, MarkWaitingForDecision, CheckpointDecision,
         ReReadIssue, ClaimIssue, CheckpointClaim, Advance, Push, OpenPullRequest,
         MarkWaitingForMerge, CheckpointPullRequest
<1>2. CASE Around
  BY <1>2 DEF Around, StartWorkflow, MarkStarted, StartThrows, Interrupt, Finish, EnterLoop,
         Crash, Restart, RunCycle, DeadlineElapses, CancelObserved, HeartbeatFails, StopsFor,
         Abort, StepFails, CancelLifecycle, Settle, SettleFails, CatchCompletes, CatchFails
<1>3. CASE Outside
  <2>1. Start \/ (\E p \in Projects : ReconcileProject(p)) => UNCHANGED decisionVars
    BY DEF Start, ReconcileCandidate, ReconcileMissingWorkflowStart, ReconcileProject
  <2>2. ASSUME NEW i \in Items, ReconcileItem(i) \/ OperatorActs(i) PROVE UNCHANGED decisionVars
    BY <2>2 DEF ReconcileItem, OperatorActs
  <2>3. ASSUME NEW e \in Executions,
               \/ LeaseRunsOut(e) \/ RequestExecutionCancel(e) \/ ClosePullRequest(e)
               \/ PullRequestClosedWebhook(e) \/ PullRequestSynchronizedWebhook(e)
        PROVE  UNCHANGED decisionVars
    BY <2>3 DEF LeaseRunsOut, RequestExecutionCancel, ClosePullRequest, PullRequestClosedWebhook,
                PullRequestSynchronizedWebhook, PullRequestEvent
  <2> QED
    BY <1>3, <2>1, <2>2, <2>3 DEF Outside
<1> QED
  BY <1>1, <1>2, <1>3, NextActors DEF vars

(* A resolved decision stays resolved, an open one stored.                 *)
LEMMA DecisionsStay ==
  ASSUME [Next]_vars
  PROVE  /\ resolvedDecisions \subseteq resolvedDecisions'
         /\ openDecisions \subseteq openDecisions' \union resolvedDecisions'
  BY DecisionMoves DEF AskForDecision, ResolveDecision, decisionVars

(* What a run remembers stays true.                                        *)
LEMMA RememberStep ==
  ASSUME SummariesSuffice, WorkInv, PullInv, RunInv, [Next]_vars
  PROVE  RunRemembers'
<1>1. /\ issue \in [Items -> Markers] /\ job \in Jobs
      /\ pc \in AtWork => job.item \in Items /\ slot \in Executions
      /\ pc \in WithWorkflow => job.wf \in Executions /\ workflow[job.wf] \in Workflows
  BY Shapes
<1>2. MarkersNamed /\ AsScheduled /\ RunRemembers /\ WorkflowsOwn
  BY DEF RunInv
<1>3. ASSUME pc' \in AtWork, job'.resume # None PROVE job'.resume \in resolvedDecisions'
  <2>1. ASSUME NEW p \in Projects, RunCycle(p) PROVE job'.resume \in resolvedDecisions
    <3>1. job'.resume = ResumeDecision(p)
      BY <2>1 DEF RunCycle, NoJob
    <3> QED
      BY <1>2, <1>3, <3>1, ResumptionIsAsked
  <2>2. ASSUME Continues PROVE job'.resume \in resolvedDecisions
    BY <1>2, <1>3, <2>2 DEF Continues, RunRemembers
  <2>3. job'.resume \in resolvedDecisions
    BY <1>3, <2>1, <2>2, RunMoves
  <2> QED
    BY <2>3, DecisionsStay
<1>4. ASSUME pc' \in AfterBegin, job'.resume # None PROVE job'.resume[1] = job'.item
  <2>1. /\ Continues /\ pc \in AfterBegin \union {"begin"}
        /\ job'.resume = job.resume /\ job'.item = job.item
    BY <1>4, Places DEF Continues
  <2>2. CASE pc \in AfterBegin
    BY <1>2, <1>4, <2>1, <2>2 DEF RunRemembers
  <2>3. CASE pc = "begin"
    <3>1. pc' \in {"deciding", "planning"}
      BY <1>4, <2>1, <2>3 DEF Continues, Moves, Endings, AfterBegin, WithBody
    <3>2. workflow[job.wf].decision = job.resume
      BY <1>4, <2>1, <2>3, <3>1 DEF Continues
    <3>3. pc \in WithWorkflow
      BY <2>3 DEF WithWorkflow, Executing, AbortPoints
    <3>4. job.resume \in Answers(job.wf)
      BY <1>1, <1>4, <2>1, <3>2, <3>3, RowsAreSomething DEF Answers, Workflows
    <3>5. execWork[job.wf] = job.item
      BY <1>2, <3>3 DEF RunRemembers
    <3>6. job.resume[1] = execWork[job.wf]
      BY <1>1, <1>2, <3>3, <3>4 DEF WorkflowsOwn
    <3> QED
      BY <2>1, <3>5, <3>6
  <2> QED
    BY <2>1, <2>2, <2>3
<1>5. ASSUME pc' = "planning", job'.resume # None PROVE job'.ckpt = "planning"
  <2>1. Continues /\ job'.resume = job.resume
    BY <1>5, Places DEF Continues, AfterBegin
  <2> QED
    BY <1>2, <1>5, <2>1 DEF Continues, RunRemembers, AtWork
<1>6. ASSUME pc' \in WithWorkflow PROVE execWork'[job'.wf] = job'.item
  <2>1. /\ Continues /\ pc \in AtWork /\ job'.item = job.item
        /\ (pc \in WithWorkflow \/ (pc = "leased" /\ pc' = "started"))
    BY <1>6, Places DEF Continues
  <2>2. CASE pc \in WithWorkflow /\ ~(pc = "leased" /\ pc' = "started")
    <3>1. job'.wf = job.wf /\ execWork[job.wf] = job.item
      BY <1>2, <2>1, <2>2 DEF Continues, RunRemembers
    <3> QED
      BY <1>1, <2>1, <2>2, <3>1, WorkStays
  <2>3. CASE pc = "leased" /\ pc' = "started"
    <3>1. job'.wf \in Executions /\ execWork[job'.wf] = job.item
      <4>1. execWork[slot] = job.item /\ slot \in Executions
        BY <1>1, <2>1 DEF PullInv, DriverFits
      <4>2. job.ref \in Executions \union {None}
        BY <1>1 DEF Jobs
      <4> QED
        BY <2>1, <2>3, <4>1, <4>2 DEF Continues
    <3> QED
      BY <1>1, <2>1, <3>1, WorkStays
  <2> QED
    BY <2>1, <2>2, <2>3
<1>7. ASSUME pc' \in {"lifecycle", "enriching"}, job'.resume # None
      PROVE  job'.body.state # "ready"
  <2>1. /\ Continues /\ pc \in AtWork /\ job'.resume = job.resume
        /\ (pc \in WithBody \/ (pc = "reading" /\ pc' = "lifecycle"))
    BY <1>7, Places DEF Continues, WithBody
  <2>2. CASE pc = "reading" /\ pc' = "lifecycle"
    <3>1. job'.body = issue[job.item] /\ issue[job.item].rev = job.seen
      BY <2>1, <2>2 DEF Continues
    <3>2. job.resume # None /\ job.resume[1] = job.item
      BY <1>2, <1>7, <2>1, <2>2 DEF RunRemembers, AfterBegin
    <3>3. issue[job.item].state = "waiting-human"
      BY <1>2, <2>2, <3>1, <3>2 DEF AsScheduled, BeforeBody
    <3> QED
      BY <3>1, <3>3
  <2>3. CASE pc \in WithBody
    <3>1. pc \in {"lifecycle", "enriching"}
      BY <1>7, <2>1, <2>3 DEF Continues, Moves, Endings, WithBody
    <3>2. job'.body = job.body
      BY <1>7, <2>1, <3>1 DEF Continues
    <3> QED
      BY <1>2, <1>7, <2>1, <3>1, <3>2 DEF RunRemembers
  <2> QED
    BY <2>1, <2>2, <2>3
<1> QED
  BY <1>3, <1>4, <1>5, <1>6, <1>7 DEF RunRemembers

-----------------------------------------------------------------------------
\* Answers(e) in the next state, for an execution of either.
NextAnswers(e) ==
    {d \in Decisions : workflow'[e] # None /\ (d = workflow'[e].decision \/ d \in workflow'[e].resumed)}

(* A workflow comes to a decision by asking for it.                        *)
LEMMA AnswersMove ==
  ASSUME WorkInv, [Next]_vars, NEW e \in Executions, NEW d \in NextAnswers(e)
  PROVE  \/ d \in Answers(e)
         \/ pc = "asked" /\ pc' = "returned" /\ e = job.wf /\ d = AskedDecision
<1>1. workflow \in [Executions -> Workflows \union {None}]
  BY Shapes
<1>2. d \in Decisions /\ workflow'[e] # None
      /\ (d = workflow'[e].decision \/ d \in workflow'[e].resumed)
  BY DEF NextAnswers
<1>3. CASE workflow'[e] = workflow[e]
  BY <1>2, <1>3 DEF Answers
<1>4. ASSUME NEW f \in Executions, NEW w \in Workflows, Rewritten(f, w), workflow'[e] # workflow[e]
      PROVE  \/ d \in Answers(e)
             \/ pc = "asked" /\ pc' = "returned" /\ e = job.wf /\ d = AskedDecision
  <2>1. e = f /\ workflow'[e] = w
    BY <1>1, <1>4 DEF Rewritten
  <2>2. d = w.decision \/ d \in w.resumed
    BY <1>2, <2>1
  <2>3. CASE ByStart(f, w)
    BY <1>2, <2>2, <2>3, RowsAreSomething DEF ByStart
  <2>4. ASSUME workflow[f] \in Workflows,
               ByResumption(f, w) \/ ByQuestion(f, w) \/ ByProgress(f, w) \/ ByMerge(f, w)
        PROVE  \/ d \in Answers(e)
               \/ pc = "asked" /\ pc' = "returned" /\ e = job.wf /\ d = AskedDecision
    <3>1. workflow[e] # None
      BY <2>1, <2>4, RowsAreSomething
    <3>2. \/ d = workflow[f].decision \/ d \in workflow[f].resumed
          \/ pc = "asked" /\ pc' = "returned" /\ f = job.wf /\ d = AskedDecision
      BY <2>2, <2>4 DEF ByResumption, ByQuestion, ByProgress, ByMerge
    <3> QED
      BY <1>2, <2>1, <3>1, <3>2 DEF Answers
  <2> QED
    BY <1>4, <2>3, <2>4 DEF Rewritten
<1> QED
  BY <1>3, <1>4, WorkflowChanges

(* A workflow there is stays.                                              *)
LEMMA WorkflowsRemain ==
  ASSUME WorkInv, [Next]_vars, NEW e \in Executions
  PROVE  /\ workflow[e] = None =>
               workflow'[e] = None \/ (pc = "leased" /\ pc' = "started" /\ e = slot)
         /\ workflow[e] # None /\ ~(pc = "leased" /\ e = slot) =>
               workflow'[e] # None /\ workflow[e].resumed \subseteq workflow'[e].resumed
<1>1. workflow \in [Executions -> Workflows \union {None}]
  BY Shapes
<1>2. CASE workflow'[e] = workflow[e]
  BY <1>2
<1>3. ASSUME NEW f \in Executions, NEW w \in Workflows, Rewritten(f, w), workflow'[e] # workflow[e]
      PROVE  /\ workflow[e] = None => pc = "leased" /\ pc' = "started" /\ e = slot
             /\ workflow[e] # None /\ ~(pc = "leased" /\ e = slot) =>
                   workflow'[e] # None /\ workflow[e].resumed \subseteq workflow'[e].resumed
  <2>1. e = f /\ workflow'[e] = w /\ w # None
    BY <1>1, <1>3, RowsAreSomething DEF Rewritten
  <2>2. CASE ByStart(f, w)
    BY <2>1, <2>2 DEF ByStart
  <2>3. ASSUME workflow[f] \in Workflows,
               ByResumption(f, w) \/ ByQuestion(f, w) \/ ByProgress(f, w) \/ ByMerge(f, w)
        PROVE  workflow[e] # None /\ workflow[e].resumed \subseteq w.resumed
    BY <2>1, <2>3, RowsAreSomething DEF ByResumption, ByQuestion, ByProgress, ByMerge
  <2> QED
    BY <1>3, <2>1, <2>2, <2>3 DEF Rewritten
<1> QED
  BY <1>2, <1>3, WorkflowChanges

(* The decisions of workflows stay apart.                                  *)
LEMMA OwnStep ==
  ASSUME SummariesSuffice, WorkInv, PullInv, RunInv, [Next]_vars
  PROVE  WorkflowsOwn'
<1>1. /\ issue \in [Items -> Markers] /\ job \in Jobs
      /\ pc \in AtWork => job.item \in Items /\ slot \in Executions
      /\ pc \in WithBody => job.body \in Markers
      /\ pc \in WithWorkflow => job.wf \in Executions /\ workflow[job.wf] \in Workflows
      /\ issue' \in [Items -> Markers]
  BY Shapes, NextShapes
<1>2. RevisionsGrow /\ RunRemembers /\ WorkflowsOwn /\ FreshIsUntouched
  BY DEF RunInv, PullInv
<1>3. pc \in AtWork => execStatus[slot] # "absent" /\ execWork[slot] = job.item
  BY DEF PullInv, DriverFits
<1>4. ASSUME NEW e \in Executions, execStatus'[e] = "absent" PROVE execStatus[e] = "absent"
  <2>1. StoreTypeOK /\ [StoreNext]_storeVars
    BY StoreStep, TypeParts DEF WorkInv
  <2> QED
    BY <1>4, <2>1, RowsMove
<1>5. ASSUME NEW e \in Executions, execStatus'[e] = "absent"
      PROVE  workflow'[e] = None /\ e \notin claims'
  <2>1. execStatus[e] = "absent"
    BY <1>4, <1>5
  <2>2. workflow[e] = None /\ e \notin claims
    BY <1>2, <2>1 DEF WorkflowsOwn
  <2>3. ~(pc = "leased" /\ e = slot) /\ ~(pc = "claimed" /\ e = slot)
    BY <1>3, <2>1 DEF AtWork, Positions, Executing, AbortPoints, Free
  <2> QED
    BY <2>2, <2>3, WorkflowsRemain, ClaimMoves
<1>6. ASSUME NEW e \in Executions, NEW d \in Answers(e)
      PROVE  /\ d \in Decisions /\ d[1] \in Items /\ d[2] \in Nat /\ workflow[e] # None
             /\ d[1] = execWork[e] /\ execWork'[e] = execWork[e]
             /\ d[2] < issue[d[1]].rev /\ issue[d[1]].rev \in Nat /\ issue'[d[1]].rev \in Nat
             /\ d[2] < issue'[d[1]].rev
  <2>1. d \in Decisions /\ d[1] \in Items /\ d[2] \in Nat /\ workflow[e] # None
    BY DEF Answers, Decisions
  <2>2. d[1] = execWork[e] /\ d[2] < issue[d[1]].rev
    BY <1>2, <1>6 DEF WorkflowsOwn
  <2>3. issue[d[1]].rev \in Nat /\ issue'[d[1]].rev \in Nat
    BY <1>1, <2>1 DEF Markers
  <2>4. issue'[d[1]] = issue[d[1]] \/ issue'[d[1]].rev = issue[d[1]].rev + 1
    BY <2>1, IssueChanges DEF Written
  <2>5. execWork'[e] = execWork[e]
    BY <2>1, <2>2, WorkStays
  <2> QED
    BY <2>1, <2>2, <2>3, <2>4, <2>5
<1>7. pc = "asked" =>
        /\ AskedDecision[1] = job.item /\ AskedDecision[2] = job.body.rev /\ job.item \in Items
        /\ execWork[job.wf] = job.item /\ execWork'[job.wf] = job.item
        /\ job.body.rev \in Nat /\ job.body.rev < issue'[job.item].rev
  <2> SUFFICES ASSUME pc = "asked"
               PROVE  /\ job.item \in Items
                      /\ execWork[job.wf] = job.item /\ execWork'[job.wf] = job.item
                      /\ job.body.rev \in Nat /\ job.body.rev < issue'[job.item].rev
    BY DEF AskedDecision
  <2>1. pc \in AtWork /\ pc \in WithBody /\ pc \in WithWorkflow
    BY DEF AtWork, WithBody, WithWorkflow, Positions, Executing, AbortPoints, Free
  <2>2. job.item \in Items /\ execWork[job.wf] = job.item /\ job.wf \in Executions
    BY <1>1, <1>2, <2>1 DEF RunRemembers
  <2>3. execWork'[job.wf] = job.item
    BY <2>2, WorkStays
  <2>4. job.body.rev < issue[job.item].rev
    BY <1>2 DEF RevisionsGrow
  <2>5. job.body.rev \in Nat /\ issue[job.item].rev \in Nat
    BY <1>1, <2>1, <2>2 DEF Markers
  <2>6. issue'[job.item] = issue[job.item] \/ issue'[job.item].rev = issue[job.item].rev + 1
    BY <2>2, IssueChanges DEF Written
  <2> QED
    BY <2>2, <2>3, <2>4, <2>5, <2>6
<1>8. ASSUME NEW e \in Executions, NEW d \in NextAnswers(e)
      PROVE  d[1] = execWork'[e] /\ d[2] < issue'[d[1]].rev
  BY <1>6, <1>7, AnswersMove
<1>9. ASSUME NEW e \in Executions, workflow'[e] # None
      PROVE  workflow'[e].resumed \subseteq resolvedDecisions'
  <2>1. workflow[e] # None => workflow[e].resumed \subseteq resolvedDecisions
    BY <1>2 DEF WorkflowsOwn
  <2>2. pc = "begin" /\ job.resume # None => job.resume \in resolvedDecisions
    BY <1>2 DEF RunRemembers, AtWork, Positions, Executing, AbortPoints, Free
  <2>3. resolvedDecisions \subseteq resolvedDecisions'
    BY DecisionsStay
  <2>4. ASSUME NEW f \in Executions, NEW w \in Workflows, Rewritten(f, w),
               workflow'[e] # workflow[e]
        PROVE  workflow'[e].resumed \subseteq resolvedDecisions
    <3>1. e = f /\ workflow'[e] = w
      BY <2>4, Shapes DEF Rewritten
    <3>2. workflow[f] \in Workflows => workflow[f].resumed \subseteq resolvedDecisions
      BY <2>1, <3>1, RowsAreSomething
    <3> QED
      BY <2>2, <2>4, <3>1, <3>2
         DEF Rewritten, ByStart, ByResumption, ByQuestion, ByProgress, ByMerge
  <2> QED
    BY <1>9, <2>1, <2>3, <2>4, WorkflowChanges
<1>10. ASSUME NEW e \in Executions, NEW f \in Executions, NEW d \in NextAnswers(e),
              d \in NextAnswers(f)
       PROVE  e = f
  <2>1. d \in Answers(e) /\ d \in Answers(f) => e = f
    BY <1>2 DEF WorkflowsOwn
  <2>2. ASSUME NEW g \in Executions, d \in Answers(g), pc = "asked", d = AskedDecision PROVE FALSE
    <3>1. d[1] = job.item => d[2] < job.body.rev
      BY <1>2, <2>2 DEF WorkflowsOwn
    <3> QED
      BY <1>7, <2>2, <3>1
  <2> QED
    BY <1>10, <2>1, <2>2, AnswersMove
<1>11. ASSUME pc' = "leased" PROVE workflow'[slot'] = None
  <2>1. ASSUME NEW p \in Projects, RunCycle(p) PROVE workflow'[slot'] = None
    <3>1. /\ FreshExecution \in Executions /\ execStatus[FreshExecution] = "absent"
          /\ slot' = FreshExecution /\ workflow' = workflow
      BY <2>1, CycleSchedules DEF RunCycle, WorkerSchedules
    <3> QED
      BY <1>2, <3>1 DEF WorkflowsOwn
  <2>2. ASSUME Continues PROVE workflow'[slot'] = None
    <3>1. pc = "leased" /\ slot' = slot /\ slot \in Executions
      BY <1>1, <1>11, <2>2 DEF Continues, Moves, Endings
    <3>2. workflow[slot] = None
      BY <1>2, <3>1 DEF WorkflowsOwn
    <3> QED
      BY <1>11, <3>1, <3>2, WorkflowsRemain
  <2>3. pc' \in AtWork
    BY <1>11 DEF AtWork, Positions, Executing, AbortPoints, Free
  <2> QED
    BY <2>1, <2>2, <2>3, RunMoves
<1>12. ASSUME pc' \in {"lifecycle", "asking", "asked"},
              NEW e \in Executions, NEW d \in NextAnswers(e), d[1] = job'.item
       PROVE  d[2] < job'.body.rev
  <2>1. /\ Continues /\ pc \in AtWork /\ job'.item = job.item
        /\ (pc \in WithBody \/ (pc = "reading" /\ pc' = "lifecycle"))
    BY <1>12, Places DEF Continues, WithBody
  <2>2. d \in Answers(e)
    BY <1>12, AnswersMove
  <2>3. CASE pc = "reading" /\ pc' = "lifecycle"
    <3>1. job'.body = issue[job.item]
      BY <2>1, <2>3 DEF Continues
    <3> QED
      BY <1>6, <1>12, <2>1, <2>2, <3>1
  <2>4. CASE pc \in WithBody
    <3>1. pc \in {"lifecycle", "asking", "asked"}
      BY <1>12, <2>1, <2>4 DEF Continues, Moves, Endings, WithBody
    <3>2. job'.body = job.body
      BY <1>12, <2>1, <3>1 DEF Continues
    <3> QED
      BY <1>2, <1>12, <2>1, <2>2, <3>1, <3>2 DEF WorkflowsOwn
  <2> QED
    BY <2>1, <2>3, <2>4
<1> QED
  BY <1>5, <1>8, <1>9, <1>10, <1>11, <1>12 DEF WorkflowsOwn, Answers, NextAnswers

(* Finitely many executions and decisions have been.                       *)
LEMMA FiniteStep == ASSUME Finite, [Next]_vars PROVE Finite'
<1>1. IsFiniteSet(claims')
  BY ClaimMoves, FS_AddElement DEF Finite
<1>2. CASE UNCHANGED decisionVars
  BY <1>1, <1>2 DEF Finite, decisionVars
<1>3. CASE AskForDecision
  <2>1. IsFiniteSet({AskedDecision} \ resolvedDecisions)
    BY FS_Singleton, FS_Difference
  <2>2. openDecisions' = openDecisions \union ({AskedDecision} \ resolvedDecisions)
        /\ resolvedDecisions' = resolvedDecisions
    BY <1>3 DEF AskForDecision
  <2> QED
    BY <1>1, <2>1, <2>2, FS_Union DEF Finite
<1>4. ASSUME NEW d \in openDecisions, ResolveDecision(d) PROVE Finite'
  <2>1. openDecisions' = openDecisions \ {d} /\ resolvedDecisions' = resolvedDecisions \union {d}
    BY <1>4 DEF ResolveDecision
  <2> QED
    BY <1>1, <2>1, FS_Difference, FS_AddElement DEF Finite
<1> QED
  BY <1>2, <1>3, <1>4, DecisionMoves

(* What a run remembers is kept by every step.                             *)
LEMMA RunStep ==
  ASSUME SummariesSuffice, WorkInv, PullInv, RunInv, [Next]_vars
  PROVE  RunInv'
  BY NamedStep, RevisionsStep, ScheduledStep, RememberStep, OwnStep, FiniteStep DEF RunInv

(* It holds at the start, where there is no run.                           *)
LEMMA RunInit == Init => RunInv
<1> SUFFICES ASSUME Init PROVE RunInv
  OBVIOUS
<1>1. /\ issue = [i \in Items |-> DefaultMarker(1)] /\ projected = issue /\ pc = "starting"
      /\ workflow = [e \in Executions |-> None] /\ claims = {}
      /\ openDecisions = {} /\ resolvedDecisions = {}
  BY DEF Init
<1>2. MarkersNamed /\ RevisionsGrow
  BY <1>1 DEF MarkersNamed, RevisionsGrow, Named, DefaultMarker, WithBody, AtWork, Free, BeforeBody
<1>3. AsScheduled /\ RunRemembers
  BY <1>1 DEF AsScheduled, RunRemembers, BeforeBody, AtWork, Free, AfterBegin, WithBody,
              WithWorkflow, Executing, AbortPoints
<1>4. WorkflowsOwn
  BY <1>1 DEF WorkflowsOwn, Answers
<1>5. Finite
  BY <1>1, FS_EmptySet DEF Finite
<1> QED
  BY <1>2, <1>3, <1>4, <1>5 DEF RunInv

-----------------------------------------------------------------------------
(* How often the provider may still be started on an issue.  A "ready"     *)
(* marker is a right to one start, taken by the run that reads it; a       *)
(* resolved decision is another, taken by the workflow that is resumed     *)
(* with it and by no other.                                                *)

ClaimsOf(i) == {e \in claims : execWork[e] = i}
Used(i) ==
    {d \in resolvedDecisions :
        d[1] = i /\ \E e \in Executions : workflow[e] # None /\ d \in workflow[e].resumed}

\* From its reading of the issue to its claim, a run may start the provider.
BeforeClaim == {"lifecycle", "enriching", "enriched", "ready-for-dev", "claiming", "claimed"}

\* The run has taken a right to start on issue i and has not started yet.
RunHolds(i) ==
    /\ pc \in AtWork /\ job.item = i
    /\ \/ pc \in BeforeClaim
       \/ job.resume # None /\ pc = "reading"
       \/ /\ job.resume # None /\ pc \in {"deciding", "planning"}
          /\ workflow[job.wf].stage = "planning"

(* A run of a fresh delivery took its right from the marker, which still   *)
(* says "ready" until the claim.                                           *)
Tokens(i) ==
    IF RunHolds(i)
    THEN IF issue[i].state = "ready" /\ (job.resume # None \/ pc = "claimed") THEN 2 ELSE 1
    ELSE IF issue[i].state = "ready" THEN 1 ELSE 0

Credit ==
    \A i \in Items : Cardinality(ClaimsOf(i)) + Tokens(i) <= 1 + edits + Cardinality(Used(i))

\* The first transition of a workflow to planning with the run's decision.
FirstResumption ==
    /\ pc = "begin" /\ pc' = "deciding" /\ job.resume # None
    /\ workflow[job.wf].decision = job.resume
    /\ job.resume \notin workflow[job.wf].resumed
    /\ job.resume \in workflow'[job.wf].resumed
    /\ UNCHANGED <<issue, edits, resolvedDecisions, claims>>

(* A right is taken from the marker or from a decision nobody used.        *)
LEMMA HoldsMove ==
  ASSUME SummariesSuffice, WorkInv, PullInv, RunInv, [Next]_vars, NEW i \in Items, RunHolds(i)'
  PROVE  /\ job'.resume = job.resume /\ job'.item = i /\ job.item = i
         /\ \/ RunHolds(i) /\ (pc' = "claimed" => pc \in {"claiming", "claimed"})
            \/ FirstResumption
            \/ /\ pc = "reading" /\ pc' = "lifecycle" /\ job.resume = None
               /\ UNCHANGED <<issue, edits>> /\ issue[i].state = "ready"
<1>1. /\ job \in Jobs /\ workflow \in [Executions -> Workflows \union {None}]
      /\ pc \in AtWork => job.item \in Items
      /\ pc \in WithWorkflow => job.wf \in Executions /\ workflow[job.wf] \in Workflows
  BY Shapes
<1>2. AsScheduled /\ RunRemembers
  BY DEF RunInv
<1>3. /\ pc' \in AtWork /\ job'.item = i
      /\ \/ pc' \in BeforeClaim
         \/ job'.resume # None /\ pc' = "reading"
         \/ /\ job'.resume # None /\ pc' \in {"deciding", "planning"}
            /\ workflow'[job'.wf].stage = "planning"
  BY DEF RunHolds
<1>4. /\ Continues /\ pc \in AfterBegin \union {"begin"} /\ pc \in AtWork
      /\ job'.resume = job.resume /\ job.item = i /\ job'.wf = job.wf
  <2>1. pc' \in AfterBegin
    BY <1>3 DEF AfterBegin, WithBody, BeforeClaim
  <2>2. Continues /\ pc \in AfterBegin \union {"begin"}
    BY <2>1, Places
  <2>3. pc # "leased"
    BY <2>2 DEF AfterBegin, WithBody
  <2> QED
    BY <1>3, <2>2, <2>3 DEF Continues
<1>5. pc' = "claimed" => pc \in {"claiming", "claimed"}
  BY <1>4 DEF Continues, Moves, Endings
<1>6. CASE pc' \in BeforeClaim
  <2>1. pc \in BeforeClaim \/ (pc = "reading" /\ pc' = "lifecycle")
    BY <1>4, <1>6 DEF Continues, Moves, Endings, BeforeClaim
  <2>2. CASE pc \in BeforeClaim
    BY <1>3, <1>4, <1>5, <2>2 DEF RunHolds
  <2>3. CASE pc = "reading" /\ pc' = "lifecycle" /\ job.resume # None
    BY <1>3, <1>4, <1>5, <2>3 DEF RunHolds
  <2>4. CASE pc = "reading" /\ pc' = "lifecycle" /\ job.resume = None
    <3>1. ReadIssue
      BY <2>4, MovedBy
    <3>2. UNCHANGED <<issue, edits>> /\ issue[i].rev = job.seen
      BY <1>4, <3>1 DEF ReadIssue, Step, githubVars, counters
    <3>3. issue[i].state = "ready"
      BY <1>2, <1>4, <2>4, <3>2 DEF AsScheduled, BeforeBody
    <3> QED
      BY <1>3, <1>4, <2>4, <3>2, <3>3
  <2> QED
    BY <2>1, <2>2, <2>3, <2>4
<1>7. CASE job.resume # None /\ pc' = "reading"
  <2>1. pc \in {"reading", "planning"}
    BY <1>4, <1>7 DEF Continues, Moves, Endings
  <2>2. CASE pc = "reading"
    BY <1>3, <1>4, <1>7, <2>2 DEF RunHolds
  <2>3. CASE pc = "planning"
    <3>1. workflow'[job.wf].stage = "planning" /\ job.ckpt = "planning"
      BY <1>2, <1>4, <1>7, <2>3 DEF Continues, RunRemembers
    <3>2. job.wf \in Executions /\ workflow[job.wf] \in Workflows
      BY <1>1, <2>3 DEF WithWorkflow, Executing, AbortPoints
    <3>3. ASSUME NEW f \in Executions, NEW w \in Workflows, Rewritten(f, w), f = job.wf PROVE FALSE
      <4>1. w.stage = "planning"
        BY <1>1, <3>1, <3>2, <3>3 DEF Rewritten
      <4> QED
        BY <1>7, <2>3, <3>1, <3>3, <4>1
           DEF Rewritten, ByStart, ByResumption, ByQuestion, ByProgress, ByMerge
    <3>4. workflow'[job.wf] = workflow[job.wf]
      BY <1>1, <3>2, <3>3, WorkflowChanges DEF Rewritten
    <3> QED
      BY <1>3, <1>4, <1>7, <2>3, <3>1, <3>4 DEF RunHolds
  <2> QED
    BY <2>1, <2>2, <2>3
<1>8. CASE job.resume # None /\ pc' \in {"deciding", "planning"}
           /\ workflow'[job.wf].stage = "planning"
  <2>1. pc \in {"deciding", "planning"} \/ (pc = "begin" /\ pc' = "deciding")
    BY <1>4, <1>8 DEF Continues, Moves, Endings
  <2>2. job.wf \in Executions /\ workflow[job.wf] \in Workflows
    BY <1>1, <2>1 DEF WithWorkflow, Executing, AbortPoints
  <2>3. CASE pc \in {"deciding", "planning"}
    <3>0. pc = "planning" => pc' = pc
      BY <1>4, <1>8 DEF Continues, Moves, Endings
    <3>1. ASSUME NEW f \in Executions, NEW w \in Workflows, Rewritten(f, w), f = job.wf PROVE FALSE
      <4>1. w.stage = "planning"
        BY <1>1, <1>8, <2>2, <3>1 DEF Rewritten
      <4> QED
        BY <1>8, <2>3, <3>0, <3>1, <4>1
           DEF Rewritten, ByStart, ByResumption, ByQuestion, ByProgress, ByMerge, WithBody
    <3>2. workflow'[job.wf] = workflow[job.wf]
      BY <1>1, <2>2, <3>1, WorkflowChanges DEF Rewritten
    <3> QED
      BY <1>3, <1>4, <1>8, <2>3, <3>2 DEF RunHolds
  <2>4. CASE pc = "begin" /\ pc' = "deciding"
    <3>1. Begin
      BY <2>4, MovedBy
    <3>2. /\ workflow[job.wf].stage = "waiting-human" /\ workflow[job.wf].decision = job.resume
          /\ workflow' = IF job.resume \in workflow[job.wf].resumed THEN workflow
                         ELSE [workflow EXCEPT ![job.wf].stage = "planning",
                                               ![job.wf].resumed = @ \union {job.resume}]
          /\ UNCHANGED <<issue, edits, resolvedDecisions, claims>>
      BY <2>4, <3>1 DEF Begin, Step, githubVars, counters, decisionVars
    <3>3. job.resume \notin workflow[job.wf].resumed
      BY <1>8, <3>2
    <3>4. job.resume \in workflow'[job.wf].resumed
      BY <1>1, <2>2, <3>2, <3>3 DEF Workflows
    <3> QED
      BY <1>3, <1>4, <1>8, <2>4, <3>2, <3>3, <3>4 DEF FirstResumption
  <2> QED
    BY <2>1, <2>3, <2>4
<1> QED
  BY <1>3, <1>4, <1>6, <1>7, <1>8

(* An issue becomes "ready" by the operator's hand, or from a body read    *)
(* when it was.                                                            *)
LEMMA RightMove ==
  ASSUME WorkInv, RunInv, [Next]_vars, NEW i \in Items, issue'[i].state = "ready"
  PROVE  \/ issue[i].state = "ready"
         \/ edits' = edits + 1
         \/ pc = "enriching" /\ pc' = "enriched" /\ i = job.item /\ job.resume = None
<1>1. RunRemembers
  BY DEF RunInv
<1> QED
  BY <1>1, IssueChanges DEF Written, ByHand, ByEvent, ByCancel, ByEnrichment, ByAsking, ByClaim,
                            ByRecord, RunRemembers

(* A decision that was used stays so.                                      *)
LEMMA UsedStays ==
  ASSUME WorkInv, RunInv, [Next]_vars, NEW i \in Items
  PROVE  Used(i) \subseteq Used(i)'
<1>1. \A e \in Executions, d \in Decisions :
         workflow[e] # None /\ d \in workflow[e].resumed =>
            workflow'[e] # None /\ d \in workflow'[e].resumed
  BY WorkflowsRemain DEF RunInv, WorkflowsOwn
<1>2. resolvedDecisions \subseteq resolvedDecisions' /\ resolvedDecisions \subseteq Decisions
  BY DecisionsStay, Shapes
<1> QED
  BY <1>1, <1>2 DEF Used

(* Before the first resumption with a decision nobody has used it.         *)
LEMMA ResumptionIsFirst ==
  ASSUME WorkInv, RunInv, FirstResumption
  PROVE  /\ job.wf \in Executions /\ workflow[job.wf] \in Workflows /\ job.item \in Items
         /\ job.resume \in resolvedDecisions /\ job.resume[1] = job.item
         /\ \A i \in Items : job.resume \notin Used(i)
<1>1. /\ workflow \in [Executions -> Workflows \union {None}]
      /\ job.wf \in Executions /\ workflow[job.wf] \in Workflows /\ job.item \in Items
  BY Shapes DEF FirstResumption, WithWorkflow, AtWork, Positions, Executing, AbortPoints, Free
<1>2. WorkflowsOwn /\ RunRemembers
  BY DEF RunInv
<1>3. job.resume \in resolvedDecisions /\ job.resume \in Decisions
      /\ execWork[job.wf] = job.item
  BY <1>2, Shapes DEF RunRemembers, FirstResumption, AtWork, WithWorkflow, Positions, Executing,
                      AbortPoints, Free
<1>4. job.resume \in Answers(job.wf)
  BY <1>1, <1>3, RowsAreSomething DEF Answers, FirstResumption
<1>5. job.resume[1] = job.item
  BY <1>1, <1>2, <1>3, <1>4 DEF WorkflowsOwn
<1>6. ASSUME NEW e \in Executions, workflow[e] # None, job.resume \in workflow[e].resumed
      PROVE  FALSE
  <2>1. job.resume \in Answers(e)
    BY <1>3, <1>6 DEF Answers
  <2>2. e = job.wf
    BY <1>1, <1>2, <1>4, <2>1 DEF WorkflowsOwn
  <2> QED
    BY <1>6, <2>2 DEF FirstResumption
<1> QED
  BY <1>1, <1>3, <1>5, <1>6 DEF Used

(* It uses it.                                                             *)
LEMMA ResumptionUses ==
  ASSUME WorkInv, RunInv, [Next]_vars, FirstResumption, NEW i \in Items, job.item = i
  PROVE  \E d : d \in Used(i)' /\ d \notin Used(i)
<1>1. /\ job.wf \in Executions /\ workflow[job.wf] \in Workflows
      /\ job.resume \in resolvedDecisions /\ job.resume[1] = i /\ job.resume \notin Used(i)
  BY ResumptionIsFirst
<1>2. workflow'[job.wf] # None
  BY <1>1, RowsAreSomething, WorkflowsRemain DEF FirstResumption
<1>3. job.resume \in resolvedDecisions'
  BY <1>1, DecisionsStay
<1>4. job.resume \in Used(i)'
  BY <1>1, <1>2, <1>3 DEF Used, FirstResumption
<1> QED
  BY <1>1, <1>4

(* Counting: what a run takes was given.                                   *)
LEMMA TokenStep ==
  ASSUME SummariesSuffice, WorkInv, PullInv, RunInv, [Next]_vars, NEW i \in Items
  PROVE  /\ Tokens(i) \in 0..2 /\ Tokens(i)' \in 0..2
         /\ \/ edits' = edits /\ Tokens(i)' <= Tokens(i)
            \/ edits' = edits + 1 /\ Tokens(i)' <= Tokens(i) + 1
            \/ FirstResumption /\ job.item = i /\ Tokens(i)' <= Tokens(i) + 1
         /\ pc = "claimed" /\ pc' = "implementing" /\ job.item = i =>
               edits' = edits /\ Tokens(i)' = Tokens(i) - 1
<1>1. edits \in Nat /\ (edits' = edits \/ edits' = edits + 1)
  BY CountersCount, TypeParts DEF Counts, Counted, WorkInv, CounterTypes
<1>2. Tokens(i) \in 0..2 /\ Tokens(i)' \in 0..2
  BY DEF Tokens
<1>3. CASE RunHolds(i)' /\ RunHolds(i) /\ (pc' = "claimed" => pc \in {"claiming", "claimed"})
           /\ job'.resume = job.resume /\ job.item = i
  <2>1. Tokens(i) = IF issue[i].state = "ready" /\ (job.resume # None \/ pc = "claimed") THEN 2 ELSE 1
    BY <1>3 DEF Tokens
  <2>2. Tokens(i)' = IF issue'[i].state = "ready" /\ (job.resume # None \/ pc' = "claimed") THEN 2 ELSE 1
    BY <1>3 DEF Tokens
  <2>3. pc = "claiming" /\ pc' = "claimed" => issue'[i].state # "ready"
    BY <1>3, MovedBy, RunWrites DEF ByClaim
  <2>4. edits' = edits /\ issue'[i].state = "ready" =>
           \/ issue[i].state = "ready"
           \/ pc' = "enriched" /\ job.resume = None
    BY RightMove, <1>1
  <2>5. Tokens(i)' <= Tokens(i) \/ (edits' # edits /\ Tokens(i)' <= Tokens(i) + 1)
    BY <1>3, <2>1, <2>2, <2>3, <2>4
  <2>6. ~(pc = "claimed" /\ pc' = "implementing")
    BY <1>3 DEF RunHolds, BeforeClaim
  <2> QED
    BY <1>1, <1>2, <2>5, <2>6
<1>4. CASE RunHolds(i)' /\ FirstResumption /\ job.item = i
  <2>1. Tokens(i) = IF issue[i].state = "ready" THEN 1 ELSE 0
    BY <1>4 DEF Tokens, RunHolds, FirstResumption, BeforeClaim
  <2>2. Tokens(i)' <= Tokens(i) + 1
    BY <1>4, <2>1 DEF Tokens, FirstResumption
  <2> QED
    BY <1>2, <1>4, <2>2 DEF FirstResumption
<1>5. CASE RunHolds(i)' /\ pc = "reading" /\ pc' = "lifecycle" /\ job.resume = None
           /\ job'.resume = job.resume /\ UNCHANGED <<issue, edits>> /\ issue[i].state = "ready"
  <2>1. Tokens(i) = 1
    BY <1>5 DEF Tokens, RunHolds, BeforeClaim
  <2>2. Tokens(i)' = 1
    BY <1>5 DEF Tokens
  <2> QED
    BY <1>2, <1>5, <2>1, <2>2
<1>6. CASE ~RunHolds(i)'
  <2>1. Tokens(i)' = IF issue'[i].state = "ready" THEN 1 ELSE 0
    BY <1>6 DEF Tokens
  <2>2. issue[i].state = "ready" => Tokens(i) >= 1
    BY DEF Tokens
  <2>3. ~(pc = "enriching" /\ pc' = "enriched" /\ i = job.item)
    <3> SUFFICES ASSUME pc = "enriching", pc' = "enriched", i = job.item PROVE RunHolds(i)'
      BY <1>6
    <3>1. pc' \in AtWork /\ Continues
      BY Places DEF WithBody, AtWork, Positions, Executing, AbortPoints, Free
    <3> QED
      BY <3>1 DEF RunHolds, BeforeClaim, Continues
  <2>4. Tokens(i)' <= Tokens(i) \/ (edits' = edits + 1 /\ Tokens(i)' <= Tokens(i) + 1)
    BY <1>2, <2>1, <2>2, <2>3, RightMove
  <2>5. ASSUME pc = "claimed", pc' = "implementing", job.item = i
        PROVE  edits' = edits /\ Tokens(i)' = Tokens(i) - 1
    <3>1. CheckpointClaim
      BY <2>5, MovedBy
    <3>2. issue' = issue /\ edits' = edits
      BY <3>1 DEF CheckpointClaim, Step, githubVars, counters
    <3>3. RunHolds(i)
      BY <2>5 DEF RunHolds, BeforeClaim, AtWork, Positions, Executing, AbortPoints, Free
    <3> QED
      BY <2>1, <2>5, <3>2, <3>3 DEF Tokens
  <2> QED
    BY <1>1, <1>2, <2>4, <2>5
<1> QED
  BY <1>3, <1>4, <1>5, <1>6, HoldsMove

-----------------------------------------------------------------------------
(* A start adds at most one to those of its issue, any other step none.    *)
LEMMA ClaimsGrow ==
  ASSUME SummariesSuffice, WorkInv, PullInv, RunInv, [Next]_vars, NEW i \in Items
  PROVE  /\ IsFiniteSet(ClaimsOf(i)) /\ IsFiniteSet(ClaimsOf(i)')
         /\ \/ ClaimsOf(i)' \subseteq ClaimsOf(i)
            \/ /\ pc = "claimed" /\ pc' = "implementing" /\ job.item = i
               /\ ClaimsOf(i)' \subseteq ClaimsOf(i) \union {slot}
<1>1. Finite /\ Finite'
  BY RunStep DEF RunInv
<1>2. /\ IsFiniteSet(ClaimsOf(i)) /\ IsFiniteSet(ClaimsOf(i)')
  <2>1. ClaimsOf(i) \in SUBSET claims /\ ClaimsOf(i)' \in SUBSET claims'
    BY DEF ClaimsOf
  <2> QED
    BY <1>1, <2>1, FS_Subset DEF Finite
<1>3. \A e \in claims : execWork'[e] = i => execWork[e] = i
  <2> SUFFICES ASSUME NEW e \in claims PROVE execWork'[e] = i => execWork[e] = i
    OBVIOUS
  <2>1. e \in Executions /\ execStatus[e] # "absent"
    BY Shapes DEF RunInv, WorkflowsOwn
  <2> QED
    BY <2>1, PullStep DEF Kept
<1>4. CASE UNCHANGED claims
  BY <1>2, <1>3, <1>4 DEF ClaimsOf
<1>5. CASE pc = "claimed" /\ pc' = "implementing" /\ claims' = claims \union {slot}
  <2>1. slot \in Executions /\ job.item \in Items /\ execWork[slot] = job.item
    BY <1>5, Shapes DEF PullInv, DriverFits, AtWork, Positions, Executing, AbortPoints, Free
  <2>2. execWork'[slot] = job.item
    BY <2>1, WorkStays
  <2>3. CASE job.item = i
    BY <1>2, <1>3, <1>5, <2>3 DEF ClaimsOf
  <2>4. CASE job.item # i
    BY <1>2, <1>3, <1>5, <2>2, <2>4 DEF ClaimsOf
  <2> QED
    BY <2>3, <2>4
<1> QED
  BY <1>4, <1>5, ClaimMoves

(* The account is never overdrawn.                                         *)
LEMMA CreditStep ==
  ASSUME SummariesSuffice, WorkInv, PullInv, RunInv, Credit, [Next]_vars
  PROVE  Credit'
<1> SUFFICES ASSUME NEW i \in Items
             PROVE  Cardinality(ClaimsOf(i)') + Tokens(i)'
                       <= 1 + edits' + Cardinality(Used(i)')
  BY DEF Credit
<1>1. IsFiniteSet(Used(i)) /\ IsFiniteSet(Used(i)') /\ Used(i) \in SUBSET Used(i)'
  <2>1. Finite /\ Finite'
    BY RunStep DEF RunInv
  <2>2. Used(i) \in SUBSET resolvedDecisions /\ Used(i)' \in SUBSET resolvedDecisions'
    BY DEF Used
  <2> QED
    BY <2>1, <2>2, UsedStays, FS_Subset DEF Finite
<1>2. /\ Cardinality(Used(i)) \in Nat /\ Cardinality(Used(i)') \in Nat
      /\ Cardinality(Used(i)) <= Cardinality(Used(i)')
  BY <1>1, FS_CardinalityType, FS_Subset
<1>3. IsFiniteSet(ClaimsOf(i)) /\ IsFiniteSet(ClaimsOf(i)')
  BY ClaimsGrow
<1>4. Cardinality(ClaimsOf(i)) \in Nat /\ Cardinality(ClaimsOf(i)') \in Nat
  BY <1>3, FS_CardinalityType
<1>5. /\ Cardinality(ClaimsOf(i)) + Tokens(i) <= 1 + edits + Cardinality(Used(i))
      /\ edits \in Nat /\ Tokens(i) \in 0..2 /\ Tokens(i)' \in 0..2
  BY TokenStep, TypeParts DEF Credit, WorkInv, CounterTypes
<1>6. CASE ClaimsOf(i)' \subseteq ClaimsOf(i)
  <2>1. Cardinality(ClaimsOf(i)') <= Cardinality(ClaimsOf(i))
    BY <1>3, <1>6, FS_Subset
  <2>2. FirstResumption /\ job.item = i => Cardinality(Used(i)') >= Cardinality(Used(i)) + 1
    <3> SUFFICES ASSUME FirstResumption, job.item = i
                 PROVE  Cardinality(Used(i)') >= Cardinality(Used(i)) + 1
      OBVIOUS
    <3>1. PICK d : d \in Used(i)' /\ d \notin Used(i)
      BY ResumptionUses
    <3>2. Used(i) \union {d} \in SUBSET Used(i)'
      BY <1>1, <3>1
    <3>3. Cardinality(Used(i) \union {d}) = Cardinality(Used(i)) + 1
      BY <1>1, <3>1, FS_AddElement
    <3> QED
      BY <1>1, <1>2, <3>2, <3>3, FS_Subset
  <2>3. FirstResumption => edits' = edits
    BY DEF FirstResumption
  <2>4. \/ edits' = edits /\ Tokens(i)' <= Tokens(i)
        \/ edits' = edits + 1 /\ Tokens(i)' <= Tokens(i) + 1
        \/ FirstResumption /\ job.item = i /\ Tokens(i)' <= Tokens(i) + 1
    BY TokenStep
  <2> QED
    BY <1>2, <1>4, <1>5, <2>1, <2>2, <2>3, <2>4
<1>7. CASE /\ pc = "claimed" /\ pc' = "implementing" /\ job.item = i
           /\ ClaimsOf(i)' \subseteq ClaimsOf(i) \union {slot}
  <2>1. Cardinality(ClaimsOf(i)') <= Cardinality(ClaimsOf(i)) + 1
    <3>1. /\ IsFiniteSet(ClaimsOf(i) \union {slot})
          /\ Cardinality(ClaimsOf(i) \union {slot}) <= Cardinality(ClaimsOf(i)) + 1
      BY <1>3, <1>4, FS_AddElement
    <3>2. Cardinality(ClaimsOf(i)') <= Cardinality(ClaimsOf(i) \union {slot})
      BY <1>7, <3>1, FS_Subset
    <3> QED
      BY <1>4, <3>1, <3>2, FS_CardinalityType
  <2>2. edits' = edits /\ Tokens(i)' = Tokens(i) - 1
    BY <1>7, TokenStep
  <2> QED
    BY <1>2, <1>4, <1>5, <2>1, <2>2
<1> QED
  BY <1>6, <1>7, ClaimsGrow

(* Nothing was started yet, and one start is free.                         *)
LEMMA CreditInit == Init => Credit
<1> SUFFICES ASSUME Init, NEW i \in Items
             PROVE  Cardinality(ClaimsOf(i)) + Tokens(i) <= 1 + edits + Cardinality(Used(i))
  BY DEF Credit
<1>1. claims = {} /\ resolvedDecisions = {} /\ edits = 0 /\ pc = "starting"
  BY DEF Init
<1>2. ClaimsOf(i) = {} /\ Used(i) = {}
  BY <1>1 DEF ClaimsOf, Used
<1>3. Tokens(i) \in {0, 1}
  BY <1>1 DEF Tokens, RunHolds, BeforeClaim, AtWork, Free
<1> QED
  BY <1>1, <1>2, <1>3, FS_EmptySet

(* The whole is inductive.                                                 *)
LEMMA CreditInvariance ==
  ASSUME SummariesSuffice PROVE SafetySpec => [](WorkInv /\ PullInv /\ RunInv /\ Credit)
<1>1. Init => WorkInv /\ PullInv /\ RunInv /\ Credit
  BY WorkInit, RunInit, CreditInit DEF Init, StoreInit, PullInv, FreshIsUntouched, DriverFits,
     AtWork, Free
<1>2. WorkInv /\ PullInv /\ RunInv /\ Credit /\ [Next]_vars
         => (WorkInv /\ PullInv /\ RunInv /\ Credit)'
  BY WorkStep, PullStep, RunStep, CreditStep
<1> QED
  BY <1>1, <1>2, PTL DEF SafetySpec

(* The provider is not started on an issue but by a right to it: one that  *)
(* came with the issue, one for each act of the operator, one for each     *)
(* resolved decision, each taken once.                                     *)
THEOREM StartsAreAccountedFor ==
  ASSUME SummariesSuffice PROVE SafetySpec => []ProviderRunsNeedAHuman
<1>1. WorkInv /\ RunInv /\ Credit => ProviderRunsNeedAHuman
  <2> SUFFICES ASSUME WorkInv, RunInv, Credit, NEW i \in Items
               PROVE  Cardinality({e \in claims : execWork[e] = i})
                        <= 1 + edits + Cardinality({d \in resolvedDecisions : d[1] = i})
    BY DEF ProviderRunsNeedAHuman
  <2> DEFINE R == {d \in resolvedDecisions : d[1] = i}
  <2>1. /\ Cardinality(ClaimsOf(i)) + Tokens(i) <= 1 + edits + Cardinality(Used(i))
        /\ edits \in Nat /\ Tokens(i) \in 0..2
    BY TypeParts DEF Credit, WorkInv, CounterTypes, Tokens
  <2>2. IsFiniteSet(R) /\ IsFiniteSet(ClaimsOf(i)) /\ Used(i) \in SUBSET R
    <3>1. R \in SUBSET resolvedDecisions /\ ClaimsOf(i) \in SUBSET claims
      BY DEF ClaimsOf
    <3>2. Used(i) \in SUBSET R
      BY DEF Used
    <3> QED
      BY <3>1, <3>2, FS_Subset DEF RunInv, Finite
  <2>3. Cardinality(Used(i)) <= Cardinality(R) /\ IsFiniteSet(Used(i))
    BY <2>2, FS_Subset
  <2>4. /\ Cardinality(R) \in Nat /\ Cardinality(Used(i)) \in Nat
        /\ Cardinality(ClaimsOf(i)) \in Nat
    BY <2>2, <2>3, FS_CardinalityType
  <2> QED
    BY <2>1, <2>3, <2>4 DEF ClaimsOf
<1> QED
  BY <1>1, CreditInvariance, PTL

-----------------------------------------------------------------------------
(* Decisions are stored before they are named.                             *)

Stored == openDecisions \union resolvedDecisions

\* Stored, unless it is none or the webhook's, which nobody stores.
Answerable(d, i) == d \in {None, PullRequestDecision(i)} \union Stored

StoredFirst ==
    /\ openDecisions \intersect resolvedDecisions = {}
    /\ \A d \in Stored : d[2] >= 1
    /\ pc \in {"asking", "asked"} => AskedDecision \in Stored
    /\ \A i \in Items : Answerable(issue[i].decision, i)
    /\ pc \in WithBody => Answerable(job.body.decision, job.item)

\* What a resumed run has done to its workflow.
ResumptionRecorded ==
    /\ pc \in AfterBegin /\ job.resume # None => job.resume \in Used(job.item)
    /\ pc = "reading" => workflow[job.wf].stage = "planning"

\* Answerable in the next state.
NextAnswerable(d, i) ==
    d \in {None, PullRequestDecision(i)} \union openDecisions' \union resolvedDecisions'

(* Every write of an issue or a body takes a decision that is stored.      *)
LEMMA StoredStep ==
  ASSUME SummariesSuffice, WorkInv, PullInv, RunInv, StoredFirst, [Next]_vars
  PROVE  StoredFirst'
<1>1. /\ job \in Jobs /\ issue \in [Items -> Markers]
      /\ pc \in AtWork => job.item \in Items
      /\ pc \in WithBody => job.body \in Markers
      /\ openDecisions \subseteq Decisions /\ resolvedDecisions \subseteq Decisions
  BY Shapes
<1>2. /\ openDecisions \intersect resolvedDecisions = {}
      /\ \A d \in openDecisions \union resolvedDecisions : d[2] >= 1
      /\ pc \in {"asking", "asked"} => AskedDecision \in openDecisions \union resolvedDecisions
      /\ \A i \in Items : Answerable(issue[i].decision, i)
      /\ pc \in WithBody => Answerable(job.body.decision, job.item)
  BY DEF StoredFirst, Stored
<1>3. \A d : d \in openDecisions \union resolvedDecisions =>
             d \in openDecisions' \union resolvedDecisions'
  BY DecisionsStay
<1>4. \A d, i : Answerable(d, i) => NextAnswerable(d, i)
  BY <1>3 DEF Answerable, NextAnswerable, Stored
<1>5. /\ openDecisions' \intersect resolvedDecisions' = {}
      /\ \A d \in openDecisions' \union resolvedDecisions' : d[2] >= 1
  <2>1. CASE UNCHANGED decisionVars
    BY <1>2, <2>1 DEF decisionVars
  <2>2. CASE AskForDecision
    <3>1. /\ openDecisions' = openDecisions \union ({AskedDecision} \ resolvedDecisions)
          /\ resolvedDecisions' = resolvedDecisions /\ pc = "lifecycle"
      BY <2>2 DEF AskForDecision, Step
    <3>2. AskedDecision[2] >= 1
      BY <3>1 DEF AskedDecision, RunInv, MarkersNamed, Named, WithBody
    <3> QED
      BY <1>2, <3>1, <3>2
  <2>3. ASSUME NEW d \in openDecisions, ResolveDecision(d)
        PROVE  /\ openDecisions' \intersect resolvedDecisions' = {}
               /\ \A c \in openDecisions' \union resolvedDecisions' : c[2] >= 1
    BY <1>2, <2>3 DEF ResolveDecision
  <2> QED
    BY <2>1, <2>2, <2>3, DecisionMoves
<1>6. ASSUME pc' \in {"asking", "asked"}
      PROVE  <<job'.item, job'.body.rev>> \in openDecisions' \union resolvedDecisions'
  <2>1. /\ Continues /\ job'.item = job.item /\ job'.body = job.body
        /\ pc \in {"asking", "asked"} \/ (pc = "lifecycle" /\ pc' = "asking")
    <3>1. Continues /\ pc \in WithBody \union {"reading"}
      BY <1>6, Places DEF WithBody
    <3>2. pc \in {"asking", "asked"} \/ (pc = "lifecycle" /\ pc' = "asking")
      BY <1>6, <3>1 DEF Continues, Moves, Endings
    <3> QED
      BY <1>6, <3>1, <3>2 DEF Continues
  <2>2. CASE pc \in {"asking", "asked"}
    BY <1>2, <1>3, <2>1, <2>2 DEF AskedDecision
  <2>3. CASE pc = "lifecycle" /\ pc' = "asking"
    BY <2>1, <2>3, MovedBy DEF AskForDecision, AskedDecision
  <2> QED
    BY <2>1, <2>2, <2>3
<1>7. ASSUME NEW i \in Items PROVE NextAnswerable(issue'[i].decision, i)
  <2>1. NextAnswerable(issue[i].decision, i) /\ NextAnswerable(None, i)
        /\ NextAnswerable(PullRequestDecision(i), i)
    BY <1>2, <1>4 DEF NextAnswerable
  <2>2. pc \in WithBody => NextAnswerable(job.body.decision, job.item)
    BY <1>2, <1>4
  <2>3. pc = "asking" => NextAnswerable(AskedDecision, job.item)
    BY <1>2, <1>3 DEF NextAnswerable
  <2> QED
    BY <2>1, <2>2, <2>3, IssueChanges
       DEF Written, ByHand, ByEvent, ByCancel, ByEnrichment, ByAsking, ByClaim, ByRecord, WithBody
<1>8. ASSUME pc' \in WithBody PROVE NextAnswerable(job'.body.decision, job'.item)
  <2>1. /\ Continues /\ job'.item = job.item /\ job.item \in Items
        /\ (pc \in WithBody \/ (pc = "reading" /\ pc' = "lifecycle"))
    BY <1>1, <1>8, Places DEF Continues
  <2>2. job'.body \in {issue[job.item], issue'[job.item]} \/ (pc \in WithBody /\ job'.body = job.body)
    BY <1>8, BodyMoves
  <2>3. NextAnswerable(issue[job.item].decision, job.item)
        /\ NextAnswerable(issue'[job.item].decision, job.item)
        /\ (pc \in WithBody => NextAnswerable(job.body.decision, job.item))
    BY <1>2, <1>4, <1>7, <2>1
  <2> QED
    BY <2>1, <2>2, <2>3
<1> QED
  BY <1>5, <1>6, <1>7, <1>8 DEF StoredFirst, Stored, Answerable, NextAnswerable, AskedDecision,
                                PullRequestDecision

(* A workflow keeps the decisions it was resumed with.                     *)
LEMMA RecordedStep ==
  ASSUME SummariesSuffice, WorkInv, PullInv, RunInv, ResumptionRecorded, [Next]_vars
  PROVE  ResumptionRecorded'
<1>1. /\ job \in Jobs /\ workflow \in [Executions -> Workflows \union {None}]
      /\ pc \in AtWork => job.item \in Items
      /\ pc \in WithWorkflow => job.wf \in Executions /\ workflow[job.wf] \in Workflows
  BY Shapes
<1>2. ASSUME pc' \in AfterBegin, job'.resume # None PROVE job'.resume \in Used(job.item)'
  <2>1. /\ Continues /\ pc \in AfterBegin \union {"begin"} /\ pc \in AtWork
        /\ job'.resume = job.resume /\ job'.item = job.item /\ job.item \in Items
    BY <1>1, <1>2, Places DEF Continues
  <2>2. \A i \in Items : Used(i) \subseteq Used(i)'
    BY UsedStays
  <2>3. CASE pc \in AfterBegin
    <3>1. job.resume \in Used(job.item)
      BY <1>2, <2>1, <2>3 DEF ResumptionRecorded
    <3>2. \E i \in Items : i = job.item /\ job.resume \in Used(i)'
      BY <2>1, <2>2, <3>1
    <3> QED
      BY <2>1, <3>2 DEF Used
  <2>4. CASE pc = "begin"
    <3>1. Begin /\ pc' = "deciding"
      <4>1. pc' \in {"deciding", "planning"}
        BY <1>2, <2>1, <2>4 DEF Continues, Moves, Endings, AfterBegin, WithBody
      <4>2. Begin
        BY <2>4, <4>1, MovedBy
      <4> QED
        BY <1>2, <2>1, <2>4, <4>1, <4>2 DEF Continues
    <3>2. job.wf \in Executions /\ workflow[job.wf] \in Workflows
      BY <1>1, <2>4 DEF WithWorkflow, Executing, AbortPoints
    <3>3. /\ workflow'[job.wf].resumed = workflow[job.wf].resumed \union {job.resume}
          /\ workflow'[job.wf] # None
      <4>1. workflow' = IF job.resume \in workflow[job.wf].resumed THEN workflow
                        ELSE [workflow EXCEPT ![job.wf].stage = "planning",
                                              ![job.wf].resumed = @ \union {job.resume}]
        BY <1>2, <2>1, <3>1 DEF Begin, Step
      <4>2. workflow'[job.wf].resumed = workflow[job.wf].resumed \union {job.resume}
        BY <1>1, <3>2, <4>1 DEF Workflows
      <4> QED
        BY <2>4, <3>2, <4>2, RowsAreSomething, WorkflowsRemain
    <3>4. job.resume \in resolvedDecisions' /\ job.resume[1] = job.item
      BY <1>2, <2>1, RunStep DEF RunInv, RunRemembers, AfterBegin, WithBody, AtWork, Positions,
                                 Executing, AbortPoints, Free
    <3> QED
      BY <2>1, <3>2, <3>3, <3>4 DEF Used
  <2> QED
    BY <2>1, <2>3, <2>4
<1>3. ASSUME pc' = "reading" PROVE workflow'[job'.wf].stage = "planning"
  <2>1. Continues /\ pc \in {"planning", "reading"} /\ job'.wf = job.wf
    <3>1. Continues
      BY <1>3, Places DEF AfterBegin
    <3> QED
      BY <1>3, <3>1 DEF Continues, Moves, Endings
  <2>2. CASE pc = "planning"
    BY <1>3, <2>1, <2>2 DEF Continues
  <2>3. CASE pc = "reading"
    <3>1. workflow[job.wf].stage = "planning" /\ job.wf \in Executions
      BY <1>1, <2>3 DEF ResumptionRecorded, WithWorkflow, Executing, AbortPoints
    <3>2. ASSUME NEW f \in Executions, NEW w \in Workflows, Rewritten(f, w), f = job.wf PROVE FALSE
      BY <1>3, <2>3, <3>1, <3>2
         DEF Rewritten, ByStart, ByResumption, ByQuestion, ByProgress, ByMerge, WithBody
    <3>3. workflow'[job.wf] = workflow[job.wf]
      BY <1>1, <3>1, <3>2, WorkflowChanges DEF Rewritten
    <3> QED
      BY <2>1, <3>1, <3>3
  <2> QED
    BY <2>1, <2>2, <2>3
<1> QED
  BY <1>2, <1>3 DEF ResumptionRecorded

-----------------------------------------------------------------------------
(* An issue that nobody edits is what its runs and its pull request made   *)
(* of it.                                                                  *)

IssueUndisturbed(i) ==
    /\ issue[i].state = "ready" => issue[i].pr = None /\ issue[i].decision = None
    /\ projected[i].pr # None => issue[i].pr # None
    /\ issue[i].pr # None /\ issue[i].decision \notin {None, PullRequestDecision(i)} =>
          issue[i].decision \in Used(i)
    /\ issue[i].decision = PullRequestDecision(i) => issue[i].state = "blocked"

RunUndisturbed ==
    /\ pc \in {"deciding", "planning", "reading"} /\ RunHolds(job.item)
       /\ job.seen = issue[job.item].rev => issue[job.item].pr = None
    /\ pc \in WithBody => job.body.decision = job.resume /\ job.body.pr = None
    /\ pc \in WithBody \ {"recorded"} => issue[job.item].pr = None
    /\ pc \in {"lifecycle", "enriching", "enriched", "ready-for-dev", "claiming", "asking"} =>
          job.body = issue[job.item]
    /\ pc = "asked" =>
          issue[job.item].state = "waiting-human" /\ issue[job.item].decision = AskedDecision
    /\ pc = "claimed" \/ ProviderWorks =>
          issue[job.item].state = "running" /\ issue[job.item].decision = job.resume

Undisturbed == edits = 0 => (\A i \in Items : IssueUndisturbed(i)) /\ RunUndisturbed

QuietInv == RunInv /\ StoredFirst /\ ResumptionRecorded /\ Undisturbed

(* Who writes an issue that nobody edits.                                  *)
LEMMA QuietChanges ==
  ASSUME WorkInv, Undisturbed, [Next]_vars, edits' = 0, NEW i \in Items
  PROVE  /\ edits = 0
         /\ \/ issue'[i] = issue[i]
            \/ /\ issue'[i].rev = issue[i].rev + 1
               /\ \/ issue[i].pr # None /\ ByEvent(i)
                  \/ ByCancel(i) \/ ByEnrichment(i) \/ ByAsking(i) \/ ByClaim(i) \/ ByRecord(i)
<1>1. edits = 0 /\ ~(edits' = edits + 1)
  BY CountersCount, TypeParts DEF Counts, Counted, WorkInv, CounterTypes
<1>2. IssueUndisturbed(i)
  BY <1>1 DEF Undisturbed
<1> QED
  BY <1>1, <1>2, IssueChanges DEF Written, ByHand, ByEvent, IssueUndisturbed

(* A resumed run's decision is a stored one.                               *)
LEMMA ResumeIsStored ==
  ASSUME WorkInv, RunInv, StoredFirst, pc \in AtWork, job.resume # None
  PROVE  /\ job.resume \in resolvedDecisions /\ job.resume \in Decisions
         /\ \A i : job.resume # PullRequestDecision(i)
<1>1. job.resume \in resolvedDecisions /\ job.resume \in Decisions
  BY Shapes DEF RunInv, RunRemembers
<1>2. job.resume[2] >= 1
  BY <1>1 DEF StoredFirst, Stored
<1> QED
  BY <1>1, <1>2 DEF PullRequestDecision

(* What happens to the issue of a run that has read it.                    *)
LEMMA RunQuietChanges ==
  ASSUME WorkInv, Undisturbed, [Next]_vars, edits' = 0, pc \in WithBody \ {"recorded"}
  PROVE  /\ edits = 0 /\ job.item \in Items /\ RunUndisturbed
         /\ \/ issue'[job.item] = issue[job.item]
            \/ ByEnrichment(job.item) \/ ByAsking(job.item) \/ ByClaim(job.item)
            \/ ByRecord(job.item)
<1>1. job.item \in Items
  BY Shapes DEF WithBody, AtWork, Positions, Executing, AbortPoints, Free
<1>2. edits = 0 /\ RunUndisturbed
  BY <1>1, QuietChanges DEF Undisturbed
<1>3. issue[job.item].pr = None
  BY <1>2 DEF RunUndisturbed
<1>4. pc # "cancelling"
  BY DEF WithBody
<1> QED
  BY <1>1, <1>2, <1>3, <1>4, QuietChanges DEF ByCancel

(* A run that nobody disturbs finds its issue as it left it.               *)
LEMMA RunUndisturbedStep ==
  ASSUME SummariesSuffice, WorkInv, PullInv, QuietInv, [Next]_vars, edits' = 0
  PROVE  RunUndisturbed'
<1>1. /\ job \in Jobs /\ issue \in [Items -> Markers] /\ issue' \in [Items -> Markers]
      /\ pc \in AtWork => job.item \in Items
      /\ pc \in WithBody => job.body \in Markers
  BY Shapes, NextShapes
<1>2. /\ RunInv /\ StoredFirst /\ ResumptionRecorded /\ Undisturbed
      /\ RevisionsGrow /\ AsScheduled /\ RunRemembers
  BY DEF QuietInv, RunInv
<1>3. ASSUME NEW i \in Items
      PROVE  edits = 0 /\ IssueUndisturbed(i) /\ RunUndisturbed
  BY <1>2, QuietChanges DEF Undisturbed
<1>4. ASSUME pc' \in {"deciding", "planning", "reading"}, RunHolds(job.item)',
             job'.seen = issue'[job'.item].rev
      PROVE  issue'[job'.item].pr = None
  <2>1. PICK i \in Items : i = job'.item
    BY <1>4, NextShapes DEF AtWork, Positions, Executing, AbortPoints, Free
  <2>2. RunHolds(i)'
    BY <1>4, <2>1 DEF RunHolds
  <2>3. /\ job'.resume = job.resume /\ job.item = i
        /\ RunHolds(i) \/ FirstResumption
    BY <1>2, <1>4, <2>2, HoldsMove
  <2>4. Continues /\ pc \in {"begin", "deciding", "planning", "reading"} /\ job'.seen = job.seen
    <3>1. Continues
      BY <1>4, Places DEF AfterBegin
    <3> QED
      BY <1>4, <3>1 DEF Continues, Moves, Endings
  <2>5. issue'[i] = issue[i] /\ issue[i].rev = job.seen
    <3>1. job.seen = issue'[i].rev
      BY <1>4, <2>1, <2>4
    <3>2. job.seen <= issue[i].rev /\ job.seen \in Nat /\ issue[i].rev \in Nat
      BY <1>1, <1>2, <2>3, <2>4 DEF RevisionsGrow, BeforeBody, Jobs, Markers
    <3>3. issue'[i] = issue[i] \/ issue'[i].rev = issue[i].rev + 1
      BY IssueChanges DEF Written
    <3> QED
      BY ONLY <3>1, <3>2, <3>3
  <2>6. CASE RunHolds(i)
    <3>1. pc # "begin"
      BY <2>6 DEF RunHolds, BeforeClaim
    <3> QED
      BY <1>3, <2>1, <2>3, <2>4, <2>5, <2>6, <3>1 DEF RunUndisturbed
  <2>7. CASE FirstResumption
    <3>1. pc = "begin" /\ job.resume # None
      BY <2>7 DEF FirstResumption
    <3>2. job'.resume[1] = job'.item
      BY <1>4, <2>3, <3>1, RunStep, <1>2 DEF RunInv, RunRemembers, AfterBegin
    <3>3. issue[i].decision = job.resume
      BY <1>2, <2>1, <2>3, <2>5, <3>1, <3>2 DEF AsScheduled, BeforeBody
    <3>4. job.resume \notin Used(i)
      BY <1>2, <2>7, ResumptionIsFirst
    <3>5. job.resume \notin {None, PullRequestDecision(i)}
      BY <1>2, <3>1, ResumeIsStored DEF AtWork, Positions, Executing, AbortPoints, Free
    <3> QED
      BY <1>3, <2>1, <2>5, <3>3, <3>4, <3>5 DEF IssueUndisturbed
  <2> QED
    BY <2>3, <2>6, <2>7
<1>5. ASSUME pc' \in WithBody
      PROVE  job'.body.decision = job'.resume /\ job'.body.pr = None
  <2>1. /\ Continues /\ job'.item = job.item /\ job'.resume = job.resume /\ job.item \in Items
        /\ (pc \in WithBody \/ (pc = "reading" /\ pc' = "lifecycle"))
    BY <1>1, <1>5, Places DEF Continues
  <2>2. edits = 0 /\ IssueUndisturbed(job.item) /\ RunUndisturbed
    BY <1>3, <2>1
  <2>3. CASE pc = "reading" /\ pc' = "lifecycle"
    <3>1. job'.body = issue[job.item] /\ issue[job.item].rev = job.seen
      BY <2>1, <2>3 DEF Continues
    <3>2. CASE job.resume = None
      <4>1. issue[job.item].state = "ready"
        BY <1>2, <2>3, <3>1, <3>2 DEF AsScheduled, BeforeBody
      <4> QED
        BY <2>1, <2>2, <3>1, <3>2, <4>1 DEF IssueUndisturbed
    <3>3. CASE job.resume # None
      <4>1. job.resume[1] = job.item
        BY <1>2, <2>3, <3>3 DEF RunRemembers, AfterBegin
      <4>2. issue[job.item].decision = job.resume
        BY <1>2, <2>3, <3>1, <3>3, <4>1 DEF AsScheduled, BeforeBody
      <4>3. RunHolds(job.item)
        BY <2>3, <3>3 DEF RunHolds, AtWork, Positions, Executing, AbortPoints, Free
      <4>4. issue[job.item].pr = None
        BY <2>2, <2>3, <3>1, <4>3 DEF RunUndisturbed
      <4> QED
        BY <2>1, <3>1, <4>2, <4>4
    <3> QED
      BY <3>2, <3>3
  <2>4. CASE pc \in WithBody
    <3>1. job.body.decision = job.resume /\ job.body.pr = None
      BY <2>2, <2>4 DEF RunUndisturbed
    <3>2. \/ job'.body = job.body
          \/ pc = "ready-for-dev" /\ job'.body = issue[job.item]
          \/ pc = "enriching" /\ pc' = "enriched" /\ job'.body = issue'[job.item]
      BY <2>1, <2>4 DEF Continues, WithBody
    <3>3. pc = "ready-for-dev" => job.body = issue[job.item]
      BY <2>2 DEF RunUndisturbed
    <3>4. pc = "enriching" /\ pc' = "enriched" =>
             /\ issue'[job.item].decision = job.body.decision
             /\ issue'[job.item].pr = job.body.pr
      BY MovedBy, RunWrites DEF ByEnrichment
    <3> QED
      BY <2>1, <3>1, <3>2, <3>3, <3>4
  <2> QED
    BY <2>1, <2>3, <2>4
<1>6. ASSUME pc' \in WithBody \ {"recorded"} PROVE issue'[job'.item].pr = None
  <2>1. /\ Continues /\ job'.item = job.item /\ job.item \in Items
        /\ (pc \in WithBody \/ (pc = "reading" /\ pc' = "lifecycle"))
    BY <1>1, <1>6, Places DEF Continues
  <2>2. CASE pc = "reading" /\ pc' = "lifecycle"
    <3>1. job'.body = issue[job.item] /\ UNCHANGED issue
      BY <2>1, <2>2 DEF Continues
    <3> QED
      BY <1>5, <1>6, <2>1, <3>1
  <2>3. CASE pc \in WithBody
    <3>1. pc # "recorded"
      BY <1>6, <2>1 DEF Continues, Moves, Endings, WithBody
    <3>2. issue[job.item].pr = None /\ job.body.pr = None
      BY <1>3, <2>1, <2>3, <3>1 DEF RunUndisturbed
    <3> QED
      BY <1>2, <1>6, <2>1, <2>3, <3>1, <3>2, RunQuietChanges
         DEF ByEnrichment, ByAsking, ByClaim, ByRecord
  <2> QED
    BY <2>1, <2>2, <2>3
<1>7. ASSUME pc' \in {"lifecycle", "enriching", "enriched", "ready-for-dev", "claiming", "asking"}
      PROVE  job'.body = issue'[job'.item]
  <2>1. /\ Continues /\ job'.item = job.item /\ job.item \in Items
        /\ \/ pc \in {"lifecycle", "enriching", "enriched", "ready-for-dev", "claiming", "asking"}
           \/ pc = "reading" /\ pc' = "lifecycle"
    <3>1. Continues /\ pc \in WithBody \union {"reading"} /\ pc \in AtWork
      BY <1>7, Places DEF WithBody, Continues
    <3> QED
      BY <1>1, <1>7, <3>1 DEF Continues, Moves, Endings, WithBody
  <2>2. CASE pc = "reading" /\ pc' = "lifecycle"
    BY <2>1, <2>2 DEF Continues
  <2>3. CASE pc = "enriching" /\ pc' = "enriched"
    BY <2>1, <2>3 DEF Continues
  <2>4. CASE pc = "ready-for-dev" /\ pc' = "claiming"
    BY <2>1, <2>4 DEF Continues
  <2>5. CASE /\ pc \in {"lifecycle", "enriching", "enriched", "ready-for-dev", "claiming", "asking"}
             /\ ~(pc = "enriching" /\ pc' = "enriched")
             /\ ~(pc = "ready-for-dev" /\ pc' = "claiming")
    <3>1. job'.body = job.body
      BY <2>1, <2>5 DEF Continues
    <3>2. job.body = issue[job.item]
      BY <1>3, <2>1, <2>5 DEF RunUndisturbed
    <3>3. issue'[job.item] = issue[job.item]
      BY <1>2, <1>7, <2>5, RunQuietChanges
         DEF ByEnrichment, ByAsking, ByClaim, ByRecord, WithBody
    <3> QED
      BY <2>1, <3>1, <3>2, <3>3
  <2> QED
    BY <2>1, <2>2, <2>3, <2>4, <2>5
<1>8. ASSUME pc' = "asked"
      PROVE  /\ issue'[job'.item].state = "waiting-human"
             /\ issue'[job'.item].decision = <<job'.item, job'.body.rev>>
  <2>1. /\ Continues /\ job'.item = job.item /\ job.item \in Items /\ pc \in {"asking", "asked"}
        /\ job'.body = job.body
    <3>1. Continues /\ pc \in WithBody \union {"reading"} /\ pc \in AtWork
      BY <1>8, Places DEF WithBody, Continues
    <3> QED
      BY <1>1, <1>8, <3>1 DEF Continues, Moves, Endings, WithBody
  <2>2. CASE pc = "asking"
    BY <1>8, <2>1, <2>2, MovedBy, RunWrites DEF ByAsking, AskedDecision
  <2>3. CASE pc = "asked"
    <3>1. /\ issue[job.item].state = "waiting-human"
          /\ issue[job.item].decision = <<job.item, job.body.rev>>
      BY <1>3, <2>1, <2>3 DEF RunUndisturbed, AskedDecision
    <3>2. issue'[job.item] = issue[job.item]
      BY <1>2, <2>3, RunQuietChanges
         DEF ByEnrichment, ByAsking, ByClaim, ByRecord, WithBody
    <3> QED
      BY <2>1, <3>1, <3>2
  <2> QED
    BY <2>1, <2>2, <2>3
<1> DEFINE P == {"claimed", "implementing", "validating", "reviewing", "publishing", "pushed",
                 "published"}
<1>9. ASSUME pc' \in P
      PROVE  issue'[job'.item].state = "running" /\ issue'[job'.item].decision = job'.resume
  <2>1. /\ Continues /\ job'.item = job.item /\ job.item \in Items /\ job'.resume = job.resume
        /\ pc \in P \union {"claiming"}
    <3>1. Continues /\ pc \in WithBody \union {"reading"} /\ pc \in AtWork
      BY <1>9, Places DEF WithBody, Continues
    <3> QED
      BY <1>1, <1>9, <3>1 DEF Continues, Moves, Endings, WithBody
  <2>2. CASE pc = "claiming"
    <3>0. pc' = "claimed"
      BY <1>9, <2>1, <2>2 DEF Continues, Moves, Endings
    <3>1. issue'[job.item].state = "running" /\ issue'[job.item].decision = job.body.decision
      BY <2>2, <3>0, MovedBy, RunWrites DEF ByClaim
    <3>2. job.body.decision = job.resume
      BY <1>3, <2>1, <2>2 DEF RunUndisturbed, WithBody
    <3> QED
      BY <2>1, <3>1, <3>2
  <2>3. CASE pc \in P
    <3>1. issue[job.item].state = "running" /\ issue[job.item].decision = job.resume
      BY <1>3, <2>1, <2>3 DEF RunUndisturbed, ProviderWorks
    <3>2. issue'[job.item] = issue[job.item]
      BY <1>2, <1>9, <2>3, RunQuietChanges
         DEF ByEnrichment, ByAsking, ByClaim, ByRecord, WithBody
    <3> QED
      BY <2>1, <3>1, <3>2
  <2> QED
    BY <2>1, <2>2, <2>3
<1> QED
  BY <1>4, <1>5, <1>6, <1>7, <1>8, <1>9 DEF RunUndisturbed, AskedDecision, ProviderWorks

-----------------------------------------------------------------------------
(* So does the issue, whoever of the others writes it.                     *)
LEMMA IssueUndisturbedStep ==
  ASSUME SummariesSuffice, WorkInv, PullInv, QuietInv, [Next]_vars, edits' = 0, NEW i \in Items
  PROVE  IssueUndisturbed(i)'
<1>1. /\ job \in Jobs /\ issue \in [Items -> Markers]
      /\ pc \in AtWork => job.item \in Items
  BY Shapes
<1>2. /\ RunInv /\ StoredFirst /\ ResumptionRecorded /\ Undisturbed
  BY DEF QuietInv
<1>3. edits = 0 /\ IssueUndisturbed(i) /\ RunUndisturbed
  BY <1>2, QuietChanges DEF Undisturbed
<1>4. Used(i) \subseteq Used(i)'
  BY <1>2, UsedStays
\* The issue by whoever wrote it: its event, its cancellation or its run.
<1>5. \/ issue'[i] = issue[i]
      \/ /\ issue[i].pr # None /\ issue'[i].pr = issue[i].pr
         /\ \/ issue'[i].state = "blocked"
            \/ issue'[i].state = "completed" /\ issue'[i].decision = None
         /\ issue'[i].decision \in {None, PullRequestDecision(i)}
      \/ /\ issue'[i].pr = issue[i].pr /\ issue'[i].state = "cancelled" /\ issue'[i].decision = None
      \/ /\ i = job.item /\ pc \in WithBody \ {"recorded"}
         /\ issue[i].pr = None /\ job.body.pr = None /\ job.body.decision = job.resume
         /\ \/ pc = "enriching" /\ issue'[i].state = issue[i].state /\ issue'[i].pr = issue[i].pr
               /\ issue'[i].decision = issue[i].decision
            \/ issue'[i].state = "waiting-human" /\ issue'[i].decision = AskedDecision
               /\ pc = "asking" /\ issue'[i].pr = None
            \/ issue'[i].state = "running" /\ issue'[i].decision = job.resume
               /\ issue'[i].pr = None
            \/ issue'[i].state = "waiting-human" /\ issue'[i].decision = job.resume
  <2>1. CASE issue[i].pr # None /\ ByEvent(i)
    BY <2>1 DEF ByEvent
  <2>2. CASE ByCancel(i)
    BY <2>2 DEF ByCancel
  <2>3. ASSUME pc \in WithBody \ {"recorded"}, i = job.item
        PROVE  issue[i].pr = None /\ job.body.pr = None /\ job.body.decision = job.resume
    BY <1>3, <2>3 DEF RunUndisturbed
  <2>4. CASE ByEnrichment(i)
    <3>1. job.body = issue[i]
      BY <1>3, <2>4 DEF RunUndisturbed, ByEnrichment
    <3> QED
      BY <2>3, <2>4, <3>1 DEF ByEnrichment, WithBody
  <2>5. CASE ByAsking(i) \/ ByClaim(i) \/ ByRecord(i)
    BY <2>3, <2>5 DEF ByAsking, ByClaim, ByRecord, WithBody
  <2> QED
    BY <1>2, <2>1, <2>2, <2>4, <2>5, QuietChanges
<1>6. job.resume # None /\ pc \in WithBody =>
         job.resume \in Used(job.item) /\ job.resume # PullRequestDecision(i)
  BY <1>2, ResumeIsStored DEF ResumptionRecorded, AfterBegin, WithBody, AtWork, Positions,
                              Executing, AbortPoints, Free
<1>7. pc = "asking" => AskedDecision # PullRequestDecision(i) /\ AskedDecision # None
  <2> SUFFICES ASSUME pc = "asking"
               PROVE  AskedDecision # PullRequestDecision(i) /\ AskedDecision # None
    OBVIOUS
  <2>1. AskedDecision[2] >= 1 /\ AskedDecision \in Decisions
    BY <1>2, Shapes DEF StoredFirst, Stored
  <2> QED
    BY <2>1, RowsAreSomething DEF PullRequestDecision
<1>8. issue'[i].state = "ready" => issue'[i].pr = None /\ issue'[i].decision = None
  BY <1>3, <1>5 DEF IssueUndisturbed
<1>9. issue[i].pr # None => issue'[i].pr # None
  BY <1>5
<1>10. projected'[i].pr # None => issue'[i].pr # None
  BY <1>3, <1>9, ProjectionReads DEF IssueUndisturbed
<1>11. issue'[i].pr # None /\ issue'[i].decision \notin {None, PullRequestDecision(i)} =>
          issue'[i].decision \in Used(i)'
  BY <1>3, <1>4, <1>5, <1>6 DEF IssueUndisturbed
<1>12. issue'[i].decision = PullRequestDecision(i) => issue'[i].state = "blocked"
  <2>1. PullRequestDecision(i) # None
    BY RowsAreSomething DEF PullRequestDecision, Decisions
  <2> QED
    BY <1>3, <1>5, <1>6, <1>7, <2>1 DEF IssueUndisturbed
<1> QED
  BY <1>8, <1>10, <1>11, <1>12 DEF IssueUndisturbed, PullRequestDecision

(* All of these together are kept by every step.                           *)
LEMMA QuietStep ==
  ASSUME SummariesSuffice, WorkInv, PullInv, QuietInv, [Next]_vars
  PROVE  QuietInv'
<1>1. RunInv' /\ StoredFirst' /\ ResumptionRecorded'
  BY RunStep, StoredStep, RecordedStep DEF QuietInv
<1>2. Undisturbed'
  BY RunUndisturbedStep, IssueUndisturbedStep DEF Undisturbed
<1> QED
  BY <1>1, <1>2 DEF QuietInv

(* They hold at the start, where no decision exists.                       *)
LEMMA QuietInit == Init => QuietInv
<1> SUFFICES ASSUME Init PROVE QuietInv
  OBVIOUS
<1>1. /\ issue = [i \in Items |-> DefaultMarker(1)] /\ projected = issue /\ pc = "starting"
      /\ openDecisions = {} /\ resolvedDecisions = {}
  BY DEF Init
<1>2. StoredFirst
  BY <1>1 DEF StoredFirst, Stored, Answerable, DefaultMarker, WithBody
<1>3. ResumptionRecorded /\ RunUndisturbed
  BY <1>1 DEF ResumptionRecorded, RunUndisturbed, AfterBegin, WithBody, ProviderWorks
<1>4. \A i \in Items : IssueUndisturbed(i)
  BY <1>1, RowsAreSomething DEF IssueUndisturbed, DefaultMarker, PullRequestDecision, Decisions
<1> QED
  BY <1>2, <1>3, <1>4, RunInit DEF QuietInv, Undisturbed

(* The decision somebody could be shown is the one its issue waits for.    *)
Carried(d) ==
    \/ \E i \in Items : d \in {issue[i].decision, projected[i].decision}
    \/ \E e \in Executions : workflow[e] # None /\ workflow[e].decision = d

Awaits(d) ==
    /\ d[1] \in Items /\ issue[d[1]].state = "waiting-human"
    /\ issue[d[1]].decision = d /\ issue[d[1]].pr = None

Awaited == edits = 0 => \A d \in openDecisions : Carried(d) => Awaits(d)

\* These in the next state, for a decision of either.
NextAwaits(d) ==
    /\ d[1] \in Items /\ issue'[d[1]].state = "waiting-human"
    /\ issue'[d[1]].decision = d /\ issue'[d[1]].pr = None
NextCarried(d) ==
    \/ \E i \in Items : d \in {issue'[i].decision, projected'[i].decision}
    \/ \E e \in Executions : workflow'[e] # None /\ workflow'[e].decision = d

(* A decision is open from the moment before it is asked.                  *)
LEMMA OpenMoves ==
  ASSUME [Next]_vars, NEW d \in openDecisions'
  PROVE  \/ d \in openDecisions
         \/ AskForDecision /\ d = AskedDecision
  BY DecisionMoves DEF AskForDecision, ResolveDecision, decisionVars

(* A decision is carried only from where it is awaited, and resolved first.*)
LEMMA AwaitedStep ==
  ASSUME SummariesSuffice, WorkInv, PullInv, QuietInv, Awaited, [Next]_vars
  PROVE  Awaited'
<1> SUFFICES ASSUME edits' = 0, NEW d \in openDecisions', NextCarried(d)
             PROVE  NextAwaits(d)
  BY DEF Awaited, Carried, NextCarried, Awaits, NextAwaits
<1>1. /\ job \in Jobs /\ issue \in [Items -> Markers] /\ projected \in [Items -> Markers]
      /\ workflow \in [Executions -> Workflows \union {None}]
      /\ pc \in AtWork => job.item \in Items
      /\ pc \in WithBody => job.body \in Markers
      /\ openDecisions \subseteq Decisions /\ resolvedDecisions \subseteq Decisions
      /\ openDecisions' \subseteq Decisions
  BY Shapes, NextShapes
<1>2. /\ RunInv /\ StoredFirst /\ ResumptionRecorded /\ Undisturbed
      /\ MarkersNamed /\ RevisionsGrow /\ RunRemembers /\ WorkflowsOwn
  BY DEF QuietInv, RunInv
<1>3. d \in Decisions /\ d # None /\ d[1] \in Items
  BY <1>1, RowsAreSomething DEF Decisions
<1>4. edits = 0 /\ (\A i \in Items : IssueUndisturbed(i)) /\ RunUndisturbed
  BY <1>2, <1>3, QuietChanges DEF Undisturbed
<1>5. CASE AskForDecision /\ d = AskedDecision
  <2>1. /\ pc = "lifecycle" /\ issue' = issue /\ projected' = projected /\ workflow' = workflow
    BY <1>5 DEF AskForDecision, Step, githubVars
  <2>2. /\ d[1] = job.item /\ d[2] = job.body.rev /\ job.body = issue[job.item]
        /\ job.item \in Items
    BY <1>1, <1>4, <1>5, <2>1
       DEF RunUndisturbed, AskedDecision, AtWork, Positions, Executing, AbortPoints, Free
  <2>3. issue[job.item].rev \in Nat /\ projected[job.item].rev \in Nat /\ d[2] \in Nat
        /\ projected[job.item].rev <= issue[job.item].rev
    BY <1>1, <1>2, <2>2 DEF Markers, RevisionsGrow
  <2>4. ASSUME NEW i \in Items, d \in {issue[i].decision, projected[i].decision} PROVE FALSE
    <3>1. i = job.item
      BY <1>2, <1>3, <2>2, <2>4 DEF MarkersNamed, Named
    <3>2. d[2] < issue[i].rev \/ d[2] < projected[i].rev
      BY <1>2, <1>3, <2>4 DEF MarkersNamed, Named
    <3> QED
      BY <2>2, <2>3, <3>1, <3>2
  <2>5. ASSUME NEW e \in Executions, workflow[e] # None, workflow[e].decision = d PROVE FALSE
    <3>1. d \in Answers(e)
      BY <1>3, <2>5 DEF Answers
    <3>2. d[2] < job.body.rev
      BY <1>2, <2>1, <2>2, <3>1 DEF WorkflowsOwn
    <3> QED
      BY <2>2, <2>3, <3>2
  <2> QED
    BY <2>1, <2>4, <2>5 DEF NextCarried
<1>6. CASE d \in openDecisions
  <2>1. d \notin resolvedDecisions /\ d[2] >= 1
    BY <1>2, <1>6 DEF StoredFirst, Stored
  <2>2. d # PullRequestDecision(d[1]) /\ \A i \in Items : d # PullRequestDecision(i)
    BY <2>1 DEF PullRequestDecision
  <2>3. pc \in WithBody => d # job.resume
    BY <1>2, <1>3, <2>1 DEF RunRemembers, WithBody, AtWork, Positions, Executing, AbortPoints, Free
  <2>4. pc \in WithBody => d # job.body.decision
    BY <1>4, <2>3 DEF RunUndisturbed
  <2>5. CASE pc = "asking" /\ pc' = "asked" /\ d = AskedDecision
    <3>1. ByAsking(job.item) /\ job.item \in Items
      BY <2>5, MovedBy, RunWrites DEF Revised
    <3>2. job.body.pr = None /\ d[1] = job.item
      BY <1>4, <2>5 DEF RunUndisturbed, WithBody, AskedDecision
    <3> QED
      BY <2>5, <3>1, <3>2 DEF ByAsking, NextAwaits
  <2>6. CASE ~(pc = "asking" /\ pc' = "asked" /\ d = AskedDecision)
    <3>1. ASSUME NEW i \in Items, issue'[i].decision = d PROVE issue[i].decision = d
      BY <1>2, <1>3, <1>4, <2>2, <2>4, <2>6, <3>1, QuietChanges
         DEF ByEvent, ByCancel, ByEnrichment, ByAsking, ByClaim, ByRecord, WithBody
    <3>2. ASSUME NEW i \in Items, d \in {issue'[i].decision, projected'[i].decision}
          PROVE  d \in {issue[i].decision, projected[i].decision}
      BY <3>1, <3>2, ProjectionReads
    <3>3. ASSUME NEW e \in Executions, workflow'[e] # None, workflow'[e].decision = d
          PROVE  Carried(d)
      <4>1. CASE workflow'[e] = workflow[e]
        BY <3>3, <4>1 DEF Carried
      <4>2. ASSUME NEW f \in Executions, NEW w \in Workflows, Rewritten(f, w),
                   workflow'[e] # workflow[e]
            PROVE  Carried(d)
        <5>1. e = f /\ w.decision = d
          BY <1>1, <3>3, <4>2 DEF Rewritten
        <5>2. \/ workflow[f] \in Workflows /\ workflow[f].decision = d
              \/ pc = "asked" /\ d = AskedDecision
          BY <1>3, <4>2, <5>1
             DEF Rewritten, ByStart, ByResumption, ByQuestion, ByProgress, ByMerge
        <5>3. CASE workflow[f] \in Workflows /\ workflow[f].decision = d
          BY <5>3, RowsAreSomething DEF Carried
        <5>4. CASE pc = "asked" /\ d = AskedDecision
          <6>1. job.item \in Items
            BY <1>1, <5>4 DEF AtWork, Positions, Executing, AbortPoints, Free
          <6> QED
            BY <1>4, <5>4, <6>1 DEF RunUndisturbed, Carried
        <5> QED
          BY <5>2, <5>3, <5>4
      <4> QED
        BY <4>1, <4>2, WorkflowChanges
    <3>4. Carried(d)
      BY <3>2, <3>3 DEF NextCarried, Carried
    <3>5. Awaits(d)
      BY <1>4, <1>6, <3>4 DEF Awaited
    <3> DEFINE i == d[1]
    <3>6. /\ i \in Items /\ issue[i].state = "waiting-human"
          /\ issue[i].decision = d /\ issue[i].pr = None
      BY <3>5 DEF Awaits
    <3>7. issue'[i] = issue[i]
          \/ ByEnrichment(i) \/ ByAsking(i) \/ ByClaim(i) \/ ByRecord(i)
      BY <1>2, <3>6, QuietChanges DEF ByCancel
    <3>8. CASE ByEnrichment(i) \/ ByAsking(i)
      <4>1. pc \in WithBody /\ job.body = issue[i]
        BY <1>4, <3>8 DEF ByEnrichment, ByAsking, RunUndisturbed, WithBody
      <4> QED
        BY <2>4, <3>6, <4>1
    <3>9. CASE ByClaim(i)
      <4>1. pc \in WithBody /\ job.body = issue[i]
        BY <1>4, <3>9 DEF ByClaim, RunUndisturbed, WithBody
      <4> QED
        BY <2>4, <3>6, <4>1
    <3>10. CASE ByRecord(i)
      BY <1>4, <3>6, <3>10 DEF ByRecord, RunUndisturbed, ProviderWorks
    <3> QED
      BY <3>6, <3>7, <3>8, <3>9, <3>10 DEF NextAwaits
  <2> QED
    BY <2>5, <2>6
<1> QED
  BY <1>5, <1>6, OpenMoves

-----------------------------------------------------------------------------
(* Waiting issues, their decisions and what the pages show of a run.       *)

(* The whole is inductive.                                                 *)
LEMMA QuietInvariance ==
  ASSUME SummariesSuffice
  PROVE  SafetySpec => [](WorkInv /\ PullInv /\ QuietInv /\ Awaited)
<1>1. Init => PullInv /\ Awaited
  BY DEF Init, StoreInit, PullInv, FreshIsUntouched, DriverFits, AtWork, Free, Awaited
<1>2. Init => WorkInv /\ QuietInv
  BY WorkInit, QuietInit
<1>3. WorkInv /\ PullInv /\ QuietInv /\ Awaited /\ [Next]_vars
         => (WorkInv /\ PullInv /\ QuietInv /\ Awaited)'
  BY WorkStep, PullStep, QuietStep, AwaitedStep
<1> QED
  BY <1>1, <1>2, <1>3, PTL DEF SafetySpec

(* WaitingIssueIsAnswerable: a crash between the three writes of a question *)
(* leaves no issue waiting for a decision that is not stored.              *)
THEOREM WaitingIssuesAreAnswerable ==
  ASSUME SummariesSuffice PROVE SafetySpec => []WaitingIssueIsAnswerable
<1>1. QuietInv => WaitingIssueIsAnswerable
  BY DEF QuietInv, StoredFirst, Answerable, Stored, Undisturbed, IssueUndisturbed,
         WaitingIssueIsAnswerable
<1> QED
  BY <1>1, QuietInvariance, PTL

(* OfferedDecisionIsAwaited: the decision a page offers comes from the     *)
(* projection's marker or from the workflow it names, both of which may be *)
(* older than the issue; while it is open the issue waits for it.          *)
THEOREM OfferedDecisionsAreAwaited ==
  ASSUME SummariesSuffice PROVE SafetySpec => []OfferedDecisionIsAwaited
<1>1. WorkInv /\ PullInv /\ QuietInv /\ Awaited => OfferedDecisionIsAwaited
  <2> SUFFICES ASSUME WorkInv, PullInv, QuietInv, Awaited, NEW i \in Items,
                      NEW d \in openDecisions, edits = 0, OffersDecision(i, d)
               PROVE  issue[i].state = "waiting-human" /\ issue[i].decision = d
    BY DEF OfferedDecisionIsAwaited
  <2>1. /\ projected \in [Items -> Markers]
        /\ workflow \in [Executions -> Workflows \union {None}]
        /\ openDecisions \subseteq Decisions
    BY Shapes
  <2>2. d \in Decisions /\ d # None /\ d = DetailDecision(i)
    BY <2>1, RowsAreSomething DEF OffersDecision
  <2>3. MarkersNamed /\ WorkflowsOwn
    BY DEF QuietInv, RunInv
  <2>4. CASE d = projected[i].decision
    <3>1. Awaits(d)
      BY <2>4 DEF Awaited, Carried
    <3>2. d[1] = i
      BY <2>2, <2>3, <2>4 DEF MarkersNamed, Named
    <3> QED
      BY <3>1, <3>2 DEF Awaits
  <2>5. CASE d # projected[i].decision
    <3> DEFINE e == projected[i].exec
    <3>1. e # None /\ workflow[e] # None /\ workflow[e].decision = d
      BY <2>2, <2>5 DEF DetailDecision, DetailWorkflow
    <3>2. e \in Executions
      BY <2>1, <3>1 DEF Markers
    <3>3. Awaits(d)
      BY <3>1, <3>2 DEF Awaited, Carried
    <3>4. d[1] = i
      <4>1. execWork[e] = i
        BY <2>3, <3>1 DEF MarkersNamed, Named
      <4> QED
        BY <2>2, <2>3, <3>1, <3>2, <4>1 DEF WorkflowsOwn, Answers
    <3> QED
      BY <3>3, <3>4 DEF Awaits
  <2> QED
    BY <2>4, <2>5
<1> QED
  BY <1>1, QuietInvariance, PTL

(* RunIsShown: the store's exclusion makes the execution of the slot the   *)
(* only one the page of its issue can offer to cancel, and an issue nobody *)
(* edits says "running" from the claim to the record of its run.           *)
THEOREM TheRunIsShown ==
  ASSUME SummariesSuffice PROVE SafetySpec => []RunIsShown
<1>1. WorkInv /\ PullInv /\ QuietInv /\ OneLiveExecutionPerItem => RunIsShown
  <2> SUFFICES ASSUME WorkInv, PullInv, QuietInv, OneLiveExecutionPerItem,
                      slot # None, IsInFlight(slot)
               PROVE  /\ \A e \in Executions : OffersCancel(execWork[slot], e) <=> e = slot
                      /\ ProviderWorks /\ edits = 0
                         /\ projected[execWork[slot]] = issue[execWork[slot]]
                         => execWork[slot] \in ActiveGithubWork
    BY DEF RunIsShown
  <2> DEFINE i == execWork[slot]
  <2>1. slot \in Executions
    BY DEF WorkInv, TypeOK, WorkerTypes, StoreTypeOK
  <2>2. {e \in IssueExecutions(i) : IsInFlight(e)} = {slot}
    BY <2>1 DEF IssueExecutions, OneLiveExecutionPerItem
  <2>3. Newest(IssueExecutions(i)) = slot
    BY <2>2 DEF Newest
  <2>4. DetailExecution(i) = slot
    BY <2>3 DEF DetailExecution
  <2>5. \A e \in Executions : OffersCancel(i, e) <=> e = slot
    BY <2>4 DEF OffersCancel, Live
  <2>6. ASSUME ProviderWorks, edits = 0, projected[i] = issue[i]
        PROVE  i \in ActiveGithubWork
    <3>1. i = job.item /\ i \in Items
      BY <2>6, Shapes DEF PullInv, DriverFits, ProviderWorks, AtWork, Positions, Executing,
                          AbortPoints, Free
    <3>2. issue[i].state = "running"
      BY <2>6, <3>1 DEF QuietInv, Undisturbed, RunUndisturbed
    <3>3. GithubWorkRank(i) \in {0, 1}
      BY <2>6, <3>2 DEF GithubWorkRank
    <3> QED
      BY <3>1, <3>3 DEF ActiveGithubWork
  <2> QED
    BY <2>5, <2>6
<1> QED
  BY <1>1, QuietInvariance, DeliveryExcludes, PTL

-----------------------------------------------------------------------------
(* The end of a run.  The half of EveryRunEnds that needs no fairness: a    *)
(* run has no loop, so timers that fire and calls that return or throw are  *)
(* enough to end it.                                                        *)

\* How many places of a run are still to come at most.
PlacesToCome(p) ==
    CASE p = "leased" -> 22 [] p = "started" -> 21 [] p = "dispatched" -> 20 [] p = "begin" -> 19
      [] p = "deciding" -> 18 [] p = "planning" -> 17 [] p = "reading" -> 16
      [] p = "lifecycle" -> 15 [] p \in {"enriching", "asking"} -> 14
      [] p \in {"enriched", "asked"} -> 13 [] p = "ready-for-dev" -> 12 [] p = "claiming" -> 11
      [] p = "claimed" -> 10 [] p = "implementing" -> 9 [] p = "validating" -> 8
      [] p = "reviewing" -> 7 [] p = "publishing" -> 6 [] p = "pushed" -> 5
      [] p = "published" -> 4 [] p = "recorded" -> 3 [] p = "cancelling" -> 2
      [] p = "returned" -> 1 [] p = "catching" -> 0

\* How often a run can still be stopped for a weightier reason.
StopsToCome(reason) ==
    CASE reason = "no" -> 3 [] reason = "cancel" -> 2 [] reason = "lease" -> 1
      [] reason = "timeout" -> 0

OfTheRun == Dispatch \/ Deliver \/ Interrupt \/ Finish

(* A step of a run ends it, reaches a later place or stops it for a         *)
(* weightier reason; everybody else leaves it where it is or kills it.      *)
DeliveriesMoveForward ==
    [][slot = None \/ slot' = None \/
       /\ slot' = slot
       /\ IF OfTheRun
          THEN \/ PlacesToCome(pc') < PlacesToCome(pc)
               \/ pc' = pc /\ StopsToCome(job'.stop) < StopsToCome(job.stop)
          ELSE UNCHANGED <<pc, job>>]_vars

(* dispatchWithCancellation, execute and the catch of runCycle: the way of  *)
(* a run through its calls has no way back, whatever fails on it.           *)
LEMMA RunComesCloser ==
  ASSUME TypeOK, OfTheRun, slot' # None
  PROVE  \/ PlacesToCome(pc') < PlacesToCome(pc)
         \/ pc' = pc /\ StopsToCome(job'.stop) < StopsToCome(job.stop)
<1>1. CASE Dispatch
  BY <1>1 DEF Dispatch, StartWorkflow, MarkStarted, StartThrows, PlacesToCome
<1>2. CASE Deliver
  <2>1. CASE \/ Begin \/ ApplyHumanDecision \/ PrepareCheckout \/ ReadIssue
             \/ PlanEnrichment \/ Enrich \/ PlanDevelopment
    BY <2>1 DEF Begin, ApplyHumanDecision, PrepareCheckout, ReadIssue, PlanEnrichment, Enrich,
                PlanDevelopment, Step, PlacesToCome
  <2>2. CASE \/ AskForDecision \/ MarkWaitingForDecision \/ CheckpointDecision
             \/ ReReadIssue \/ ClaimIssue \/ CheckpointClaim
    BY <2>2 DEF AskForDecision, MarkWaitingForDecision, CheckpointDecision, ReReadIssue, ClaimIssue,
                CheckpointClaim, Step, PlacesToCome
  <2>3. CASE \/ Advance \/ Push \/ OpenPullRequest \/ MarkWaitingForMerge \/ CheckpointPullRequest
    BY <2>3 DEF Advance, Push, OpenPullRequest, MarkWaitingForMerge, CheckpointPullRequest, Step,
                PlacesToCome
  <2> QED
    BY <1>2, <2>1, <2>2, <2>3 DEF Deliver
<1>3. CASE DeadlineElapses \/ CancelObserved \/ HeartbeatFails
  <2>1. /\ pc' = pc
        /\ \/ job' = [job EXCEPT !.stop = "timeout"] /\ job.stop # "timeout"
           \/ job' = [job EXCEPT !.stop = "cancel"] /\ job.stop = "no"
           \/ job' = [job EXCEPT !.stop = "lease"] /\ job.stop \in {"no", "cancel"}
    BY <1>3 DEF DeadlineElapses, CancelObserved, HeartbeatFails, StopsFor
  <2>2. job.stop \in {"no", "cancel", "lease", "timeout"}
    BY DEF TypeOK
  <2>3. \/ job'.stop = "timeout" /\ job.stop # "timeout"
        \/ job'.stop = "cancel" /\ job.stop = "no"
        \/ job'.stop = "lease" /\ job.stop \in {"no", "cancel"}
    BY <2>1 DEF TypeOK
  <2>4. StopsToCome(job'.stop) < StopsToCome(job.stop)
    BY ONLY <2>2, <2>3 DEF StopsToCome
  <2> QED
    BY <2>1, <2>4
<1>4. CASE Abort \/ StepFails
  BY <1>4 DEF Abort, StepFails, Executing, AbortPoints, PlacesToCome
<1>5. CASE Finish
  BY <1>5 DEF Finish, CancelLifecycle, Settle, SettleFails, CatchCompletes, CatchFails, PlacesToCome
<1> QED
  BY <1>1, <1>2, <1>3, <1>4, <1>5 DEF OfTheRun, Interrupt

\* The slot is given back, not handed over.
LEMMA RunKeepsSlot ==
  ASSUME OfTheRun PROVE slot' \in {slot, None}
<1>1. CASE Dispatch
  BY <1>1 DEF Dispatch, StartWorkflow, MarkStarted, StartThrows, WorkerMarks, storeVars
<1>2. CASE Deliver
  BY <1>2 DEF Deliver, Begin, ApplyHumanDecision, PrepareCheckout, ReadIssue, PlanEnrichment, Enrich,
              PlanDevelopment, AskForDecision, MarkWaitingForDecision, CheckpointDecision,
              ReReadIssue, ClaimIssue, CheckpointClaim, Advance, Push, OpenPullRequest,
              MarkWaitingForMerge, CheckpointPullRequest, Step, storeVars
<1>3. CASE Interrupt
  BY <1>3 DEF Interrupt, DeadlineElapses, CancelObserved, HeartbeatFails, StopsFor, Abort, StepFails,
              storeVars
<1>4. CASE Finish
  BY <1>4 DEF Finish, CancelLifecycle, Settle, SettleFails, CatchCompletes, CatchFails, storeVars
<1> QED
  BY <1>1, <1>2, <1>3, <1>4 DEF OfTheRun

\* Nobody else moves a run, but a crash, which ends it.
LEMMA OthersLeaveTheRun ==
  ASSUME TypeOK, [Next]_vars, ~OfTheRun, slot # None, slot' # None
  PROVE  UNCHANGED <<slot, pc, job>>
<1>0. pc \notin {"down", "starting", "idle"}
  BY DEF TypeOK
<1>1. CASE UNCHANGED vars
  BY <1>1 DEF vars, storeVars, workerVars
<1>2. CASE Start \/ EnterLoop \/ \E p \in Projects : RunCycle(p)
  BY <1>0, <1>2 DEF Start, EnterLoop, RunCycle, ReconcileCandidate, ReconcileMissingWorkflowStart
<1>3. CASE \/ \E p \in Projects : ReconcileProject(p)
           \/ \E i \in Items : ReconcileItem(i)
  BY <1>3 DEF ReconcileProject, ReconcileItem, storeVars, workerVars
<1>4. CASE Surroundings
  <2>1. CASE Crash \/ Restart
    BY <1>0, <2>1 DEF Crash, Restart
  <2>2. CASE \/ \E e \in Executions : LeaseRunsOut(e) \/ RequestExecutionCancel(e)
             \/ \E d \in openDecisions : ResolveDecision(d)
             \/ \E i \in Items : OperatorActs(i)
    BY <2>2 DEF LeaseRunsOut, RequestExecutionCancel, ResolveDecision, OperatorActs,
                DashboardCancels, TimePasses, storeVars, workerVars
  <2>3. ASSUME NEW e \in Executions, NEW i \in Items, NEW closed \in BOOLEAN,
               PullRequestEvent(e, i, closed)
        PROVE  UNCHANGED <<storeVars, workerVars>>
    BY ONLY <2>3 DEF PullRequestEvent
  <2>4. CASE \E e \in Executions : \/ ClosePullRequest(e) \/ PullRequestClosedWebhook(e)
                                   \/ PullRequestSynchronizedWebhook(e)
    <3>1. UNCHANGED <<storeVars, workerVars>>
      BY <2>3, <2>4 DEF ClosePullRequest, PullRequestClosedWebhook, PullRequestSynchronizedWebhook
    <3> QED
      BY <3>1 DEF storeVars, workerVars
  <2> QED
    BY <1>4, <2>1, <2>2, <2>4 DEF Surroundings
<1> QED
  BY <1>1, <1>2, <1>3, <1>4 DEF Next, OfTheRun

(* What EveryRunEnds rests on, for any number of faults, of issues and of   *)
(* executions: a run that is stopped again and again, that fails, loses its *)
(* heartbeat and its completion, comes closer to its end with every step.   *)
THEOREM DeliveriesGetOn ==
  ASSUME SummariesSuffice PROVE SafetySpec => DeliveriesMoveForward
<1>1. ASSUME TypeOK, [Next]_vars
      PROVE  [slot = None \/ slot' = None \/
               /\ slot' = slot
               /\ IF OfTheRun
                  THEN \/ PlacesToCome(pc') < PlacesToCome(pc)
                       \/ pc' = pc /\ StopsToCome(job'.stop) < StopsToCome(job.stop)
                  ELSE UNCHANGED <<pc, job>>]_vars
  BY <1>1, RunComesCloser, RunKeepsSlot, OthersLeaveTheRun
<1> QED
  BY <1>1, DeliveryTypes, PTL DEF SafetySpec, DeliveriesMoveForward

==============================================================================
