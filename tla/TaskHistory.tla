------------------------------ MODULE TaskHistory ------------------------------
(* What a manual task leaves for its reader, and what its page makes of it: *)
(* the bounded log V0TaskExecutor writes while it works, the audit record   *)
(* beside it, and the timeline, the diagnostic and the summary that          *)
(* taskReadModel computes from them.  The page has only these rows; which   *)
(* step failed, and why, is read back from the order of the messages.        *)
(*                                                                           *)
(* When a cancellation is noticed and what GitHub has are ManualTasks' part; *)
(* here any step may end early.  Messages are told apart by the event the    *)
(* page makes of them.                                                       *)
EXTENDS Naturals, Sequences

CONSTANTS
    LogRoom,            \* how many messages fit into the log (1 MiB of text)
    PageLimit,          \* how many of them the page reads (2000)
    MaxEnrichments,     \* MAX_ISSUE_ENRICHMENT_ATTEMPTS
    MaxPrRetries,       \* bound of the runs: requests to retry the pull request
    MaxLosses           \* bound of the runs: lost writes and crashes

ASSUME HistoryAssumption ==
    /\ LogRoom \in Nat /\ PageLimit \in Nat \ {0} /\ MaxEnrichments \in Nat \ {0}

VARIABLES
    source,             \* what the task was created from
    row,                \* its row in v0_tasks
    logs,               \* its system messages and output in v0_task_logs
    audited,            \* the project's audit events still name its failure
    run,                \* the executor
    prRetries, losses

historyOfTask == <<source, row, logs, audited, run, prRetries, losses>>

Sources == {"prompt", "github-issue", "ade-initialize"}
initialization == source = "ade-initialize"

\* The codes after which a human has to complete the issue: needsHumanInput.
HumanCodes == {"ADE_DELIVERY_NOT_READY", "ADE_ISSUE_NOT_READY",
               "ADE_ISSUE_ENRICHMENT_EXHAUSTED", "ISSUE_ENRICHMENT_UNAVAILABLE"}

WorkflowStates == {"queued", "preparing", "issue-not-ready", "enriching-issue",
                   "validating-issue", "ready-for-dev", "developing", "reviewing",
                   "preparing-pr", "waiting-human", "completed", "failed", "cancelled"}

\* What mustRun is called for, and where the executor goes on.
AfterCommand == [fetch |-> "branch", branch |-> "planning",
                 commit |-> "push", push |-> "publishing"]

ExecutorPlaces == DOMAIN AfterCommand \union
    {"checkout", "planning", "inspecting", "ready", "enriching", "revising", "revalidating",
     "starting", "agent", "changes", "validating", "gates", "reviewing", "publishing",
     "creating", "completing"}

Unclaimed == [at |-> "idle", begun |-> FALSE, attempt |-> 0, retrying |-> FALSE, code |-> "none"]

HistoryInit ==
    /\ source \in Sources
    /\ row = [status |-> "PENDING", state |-> "queued", cancel |-> FALSE, retry |-> FALSE,
              code |-> "none", started |-> FALSE, finished |-> FALSE, before |-> 0]
    /\ logs = <<>> /\ audited = FALSE
    /\ run = Unclaimed
    /\ prRetries = 0 /\ losses = 0

-----------------------------------------------------------------------------
(* The log.                                                                  *)

Message(kind, what, outcome) == [kind |-> kind, what |-> what, outcome |-> outcome]

Note == Message("task", "note", "noted")
Output == Message("output", "output", "noted")
Diagnostic == Message("error", "diagnostic", "failed")
Stopped == Message("error", "execution", "failed")
Command(c, outcome) == Message("command", c, outcome)
Agent(outcome) == Message("agent", "agent", outcome)
Setup(what, outcome) == Message("setup", what, outcome)

\* The status the page gives each state of the workflow.
WorkflowOutcome ==
    [s \in WorkflowStates |->
        IF s = "queued" THEN "waiting"
        ELSE IF s \in {"issue-not-ready", "waiting-human"} THEN "warned"
        ELSE IF s \in {"ready-for-dev", "completed"} THEN "passed"
        ELSE IF s \in {"failed", "cancelled"} THEN s
        ELSE "started"]
Workflow(s) == Message("task", s, WorkflowOutcome[s])

(* appendLog, once for each message: what no longer fits is dropped without *)
(* an error, and the last that fits may be cut, after which it reads as any *)
(* text does.                                                                *)
Write(ms) ==
    LET all == logs \o ms
    IN IF Len(all) < LogRoom THEN logs' = all
       ELSE \/ logs' = SubSeq(all, 1, LogRoom)
            \/ /\ Len(logs) < LogRoom
               /\ logs' = [SubSeq(all, 1, LogRoom) EXCEPT ![LogRoom] = Note]

\* updateWorkflow: the row, then a message about it.
Enter(s) == row' = [row EXCEPT !.state = s]

Goto(place) == run' = [run EXCEPT !.at = place, !.begun = FALSE]
Throw(code) == run' = [run EXCEPT !.at = "catching", !.code = code]

KeepsRow == UNCHANGED row
Works == UNCHANGED <<source, audited, prRetries, losses>>

-----------------------------------------------------------------------------
(* executeTask, up to the agent.                                             *)

CheckOut ==
    /\ run.at = "checkout" /\ Goto("fetch")
    /\ Enter("preparing")
    /\ Write(<<Workflow("preparing"), Workflow("preparing"), Setup("checkout", "passed")>>)
    /\ Works

(* mustRun: a command that throws leaves its start without an end.          *)
StartCommand ==
    /\ run.at \in DOMAIN AfterCommand /\ ~run.begun
    /\ run' = [run EXCEPT !.begun = TRUE]
    /\ Write(<<Command(run.at, "started")>>)
    /\ KeepsRow /\ Works

EndCommand ==
    /\ run.at \in DOMAIN AfterCommand /\ run.begun
    /\ \/ /\ Write(<<Command(run.at, "passed")>>)
          /\ Goto(IF run.at = "branch" /\ initialization THEN "inspecting"
                  ELSE AfterCommand[run.at])
       \/ Write(<<Command(run.at, "failed")>>) /\ Throw("EXECUTION_FAILED")
    /\ KeepsRow /\ Works

(* logSetupInspection: the finding, then one message for each detail.       *)
Inspections ==
    [ready |-> <<Setup("inspection", "passed")>>,
     incomplete |-> <<Setup("inspection", "warned"), Setup("capability", "warned"),
                      Setup("requirement", "failed")>>,
     invalid |-> <<Setup("inspection", "failed"), Setup("configuration", "failed")>>]

InspectSetup ==
    /\ run.at = "inspecting"
    /\ \/ Write(Inspections.ready) /\ Goto("ready")
       \/ \E found \in {"incomplete", "invalid"} :
            Write(Inspections[found] \o <<Note>>) /\ Goto("starting")
    /\ KeepsRow /\ Works

\* A plan that does not admit the task: the caller's last word on it.
NotAdmitted(before) ==
    /\ \E s \in {"waiting-human", "issue-not-ready"} :
            Enter(s) /\ Write(before \o <<Workflow(s)>>)
    /\ Throw("ADE_DELIVERY_NOT_READY")

PlanDelivery ==
    /\ run.at = "planning"
    /\ \/ Enter("ready-for-dev") /\ Write(<<Workflow("ready-for-dev")>>) /\ Goto("starting")
       \/ /\ source = "github-issue"
          /\ run' = [run EXCEPT !.at = "enriching", !.attempt = 1]
          /\ UNCHANGED <<row, logs>>
       \/ source = "prompt" /\ NotAdmitted(<<>>)
    /\ Works

(* enrichIssueUntilReady.  ADE's lifecycle plan asks for another text, for  *)
(* a human, or for none of them although the delivery plan admits nothing.  *)
EnrichIssue ==
    /\ run.at = "enriching"
    /\ \/ /\ run.attempt = 1
          /\ Enter("waiting-human") /\ Write(<<Workflow("waiting-human")>>)
          /\ Throw("ISSUE_ENRICHMENT_UNAVAILABLE")
       \/ NotAdmitted(<<>>)
       \/ run.attempt = 1 /\ NotAdmitted(<<Workflow("waiting-human")>>)
       \/ Enter("enriching-issue") /\ Write(<<Workflow("enriching-issue"), Note>>) /\ Goto("revising")
    /\ Works

ReviseIssue ==
    /\ run.at = "revising" /\ Goto("revalidating")
    /\ Enter("validating-issue") /\ Write(<<Workflow("validating-issue"), Note>>)
    /\ Works

RevalidateIssue ==
    /\ run.at = "revalidating"
    /\ \/ Enter("ready-for-dev") /\ Write(<<Workflow("ready-for-dev")>>) /\ Goto("starting")
       \/ /\ Enter("waiting-human") /\ Write(<<Workflow("waiting-human")>>)
          /\ \/ Throw("ADE_ISSUE_NOT_READY")
             \/ run.attempt = MaxEnrichments /\ Throw("ADE_ISSUE_ENRICHMENT_EXHAUSTED")
       \/ /\ run.attempt < MaxEnrichments
          /\ Enter("validating-issue") /\ Write(<<Workflow("validating-issue")>>)
          /\ run' = [run EXCEPT !.at = "enriching", !.attempt = @ + 1]
    /\ Works

-----------------------------------------------------------------------------
(* The agent, the gates and the publication.                                 *)

BeginAgent ==
    LET s == IF initialization THEN "preparing" ELSE "developing"
    IN /\ run.at = "starting" /\ Goto("agent")
       /\ Enter(s)
       /\ Write(<<IF initialization THEN Agent("started") ELSE Setup("runtime", "passed")>>
                \o (IF source = "github-issue" THEN <<Note>> ELSE <<>>)
                \o <<Agent("started"), Workflow(s)>>)
       /\ Works

(* The output of the agent goes into the same log.                          *)
AgentReturns ==
    /\ run.at = "agent"
    /\ \E n \in 0..LogRoom :
          /\ Len(logs) + n <= LogRoom
          /\ LET output == [k \in 1..n |-> Output]
             IN \/ Write(output \o <<Agent("passed")>>) /\ Goto("changes")
                \/ Write(output \o <<Agent("failed")>>) /\ Throw("AGENT_EXECUTION_FAILED")
    /\ KeepsRow /\ Works

InspectChanges ==
    /\ run.at = "changes"
    /\ \/ Goto(IF initialization THEN "validating" ELSE "gates") /\ UNCHANGED logs
       \/ ~initialization /\ Throw("NO_CHANGES") /\ UNCHANGED logs
       \/ /\ initialization
          /\ \E found \in DOMAIN Inspections :
                /\ Write(Inspections[found])
                /\ IF found = "ready" THEN Goto("ready") ELSE Throw("ADE_SETUP_STILL_INCOMPLETE")
    /\ KeepsRow /\ Works

ValidateSetup ==
    /\ run.at = "validating"
    /\ \/ Write(Inspections.ready \o <<Setup("runtime", "passed")>>) /\ Goto("gates")
       \/ \E found \in {"incomplete", "invalid"} :
            Write(Inspections[found]) /\ Throw("EXECUTION_FAILED")
    /\ KeepsRow /\ Works

EnterGates ==
    /\ run.at = "gates" /\ Goto("reviewing")
    /\ Enter("reviewing") /\ Write(<<Workflow("reviewing")>>)
    /\ Works

PassGates ==
    /\ run.at = "reviewing" /\ Goto("commit")
    /\ Write(<<IF initialization THEN Note ELSE Message("test", "gates", "passed")>>)
    /\ KeepsRow /\ Works

Publish ==
    /\ run.at = "publishing" /\ Goto("creating")
    /\ Enter("preparing-pr")
    /\ Write(<<Workflow("preparing-pr"), Message("github", "creation", "started")>>)
    /\ Works

OpenPullRequest ==
    /\ run.at = "creating"
    /\ \/ Write(<<Message("github", "pull request", "passed")>>) /\ Goto("completing")
       \/ Write(<<Note, Message("github", "pull request", "passed")>>) /\ Goto("completing")
       \/ Throw("GITHUB_PR_CREATE_FAILED") /\ UNCHANGED logs
    /\ KeepsRow /\ Works

(* complete: the time it records lies after every message written so far.   *)
CompleteRow(status, state, code) ==
    row' = [row EXCEPT !.status = status, !.state = state, !.code = code, !.retry = FALSE,
                       !.finished = TRUE, !.before = Len(logs)]

CloseWithSuccess ==
    /\ run.at \in {"completing", "ready"} /\ run' = Unclaimed
    /\ CompleteRow("SUCCESS", "completed", "none")
    /\ IF run.at = "ready" THEN Write(<<Note>>) ELSE UNCHANGED logs
    /\ Works

-----------------------------------------------------------------------------
(* The catch block, the retry of a pull request, and a restart.             *)

(* A command that cannot be started or is aborted, a missing issue, a       *)
(* failed gate, a cancellation: a step ends without a message of its own.   *)
StepEndsEarly ==
    /\ run.at \in ExecutorPlaces /\ Throw("EXECUTION_FAILED")
    /\ UNCHANGED <<row, logs>> /\ Works

IsCancelled == row.cancel /\ ~run.retrying

(* persistDiagnostic: the log, then the audit record.  Either write may     *)
(* fail, which is not noticed.                                              *)
PersistDiagnostic ==
    \E logKept, auditKept \in BOOLEAN :
        /\ IF logKept THEN Write(<<Diagnostic>>) ELSE UNCHANGED logs
        /\ audited' = (audited \/ auditKept)
        /\ losses' = losses + (IF logKept THEN 0 ELSE 1) + (IF auditKept THEN 0 ELSE 1)
        /\ losses' <= MaxLosses

CatchFailure ==
    /\ run.at = "catching"
    /\ run' = [run EXCEPT !.at = "recording", !.code = IF IsCancelled THEN "none" ELSE @]
    /\ IF IsCancelled THEN UNCHANGED <<logs, audited, losses>> ELSE PersistDiagnostic
    /\ UNCHANGED <<source, row, prRetries>>

\* Without a code it was cancelled.
CloseWithFailure ==
    /\ run.at = "recording" /\ Goto("closing")
    /\ IF run.code = "none" THEN CompleteRow("CANCELLED", "cancelled", "none")
       ELSE CompleteRow("FAILED", IF run.code \in HumanCodes THEN "waiting-human" ELSE "failed",
                     run.code)
    /\ UNCHANGED logs /\ Works

\* The message after it may be lost too.
CloseHistory ==
    /\ run.at = "closing" /\ run' = Unclaimed
    /\ \/ Write(<<IF run.code = "none" THEN Message("task", "cancelled", "cancelled")
                  ELSE Stopped>>)
       \/ UNCHANGED logs
    /\ KeepsRow /\ Works

(* retryPullRequest: what throws before its try block leaves a diagnostic   *)
(* and the request, which the next cycle takes up again.                    *)
TryPullRequestAgain ==
    /\ run.at = "idle" /\ row.retry
    /\ \/ /\ CompleteRow("SUCCESS", "completed", "none")
          /\ Write(<<Message("github", "reconciliation", "passed")>>)
          /\ UNCHANGED <<run, audited, losses>>
       \/ /\ \E code \in {"GITHUB_PR_CREATE_FAILED", "EXECUTION_FAILED"} :
                run' = [Unclaimed EXCEPT !.at = "catching", !.retrying = TRUE, !.code = code]
          /\ UNCHANGED <<row, logs, audited, losses>>
       \/ PersistDiagnostic /\ UNCHANGED <<row, run>>
    /\ UNCHANGED <<source, prRetries>>

WorkerDies ==
    /\ run.at # "down" /\ run' = [Unclaimed EXCEPT !.at = "down"]
    /\ losses < MaxLosses /\ losses' = losses + 1
    /\ UNCHANGED <<source, row, logs, audited, prRetries>>

\* recoverInterruptedTask
RecoverInterrupted ==
    /\ run.at = "down" /\ run' = Unclaimed
    /\ IF row.status # "RUNNING" THEN UNCHANGED <<row, logs>>
       ELSE /\ Write(<<Stopped>>)
            /\ row' = [row EXCEPT !.status = IF row.cancel THEN "CANCELLED" ELSE "FAILED",
                                  !.state = IF row.cancel THEN "cancelled" ELSE "failed",
                                  !.code = IF row.cancel THEN "none" ELSE "WORKER_RESTARTED",
                                  !.finished = TRUE, !.before = Len(logs')]
    /\ Works

-----------------------------------------------------------------------------
(* The queue and its operator.                                               *)

ClaimTask ==
    /\ run.at = "idle" /\ row.status = "PENDING"
    /\ row' = [row EXCEPT !.status = "RUNNING", !.state = "preparing", !.started = TRUE]
    /\ Goto("checkout")
    /\ UNCHANGED logs /\ Works

RequestCancellation ==
    /\ row.status \in {"PENDING", "RUNNING"} /\ ~row.cancel
    /\ row' = [row EXCEPT !.cancel = TRUE,
                          !.status = IF @ = "PENDING" THEN "CANCELLED" ELSE @,
                          !.finished = row.status = "PENDING"]
    /\ UNCHANGED <<logs, run>> /\ Works

RequestRetry ==
    /\ row.status = "FAILED" /\ row.code = "GITHUB_PR_CREATE_FAILED" /\ ~row.retry
    /\ prRetries < MaxPrRetries /\ prRetries' = prRetries + 1
    /\ row' = [row EXCEPT !.retry = TRUE]
    /\ UNCHANGED <<source, logs, audited, run, losses>>

(* The page reads the 1000 latest audit events of the project.               *)
AuditIsPushedOut ==
    /\ audited /\ audited' = FALSE
    /\ losses < MaxLosses /\ losses' = losses + 1
    /\ UNCHANGED <<source, row, logs, run, prRetries>>

HistoryNext ==
    \/ CheckOut \/ StartCommand \/ EndCommand \/ InspectSetup \/ PlanDelivery
    \/ EnrichIssue \/ ReviseIssue \/ RevalidateIssue
    \/ BeginAgent \/ AgentReturns \/ InspectChanges \/ ValidateSetup
    \/ EnterGates \/ PassGates \/ Publish \/ OpenPullRequest \/ CloseWithSuccess
    \/ StepEndsEarly \/ CatchFailure \/ CloseWithFailure \/ CloseHistory \/ TryPullRequestAgain
    \/ WorkerDies \/ RecoverInterrupted
    \/ ClaimTask \/ RequestCancellation \/ RequestRetry \/ AuditIsPushedOut

HistorySpec == HistoryInit /\ [][HistoryNext]_historyOfTask

-----------------------------------------------------------------------------
(* The page: buildTaskTimeline.                                              *)

Shown == SubSeq(logs, 1, IF Len(logs) < PageLimit THEN Len(logs) ELSE PageLimit)

StatusOf == [waiting |-> "pending", started |-> "running", passed |-> "success",
             failed |-> "failed", warned |-> "warning", cancelled |-> "cancelled",
             noted |-> "info"]

(* taskLogToTimelineEvent: only the start and the end of a command share a  *)
(* title.                                                                    *)
EventOf(m) == [kind |-> m.kind, status |-> StatusOf[m.outcome],
               title |-> IF m.kind = "command" THEN <<m.what>> ELSE <<m.what, m.outcome>>]

\* Output is not an event.
EventsOf(ms) ==
    [k \in {k \in DOMAIN ms : ms[k].kind # "output"} |-> EventOf(ms[k])]

TaskEvent(status) ==
    [kind |-> IF status = "failed" THEN "error" ELSE "task", status |-> status,
     title |-> <<"task", status>>]

FirstEvent == TaskEvent(IF row.status = "PENDING" THEN "pending" ELSE "running")

\* terminalTaskEvent
StatusAtEnd == [SUCCESS |-> "success", FAILED |-> "failed", CANCELLED |-> "cancelled"]
HasEnded == row.finished /\ row.status \in DOMAIN StatusAtEnd
TerminalEvent == TaskEvent(StatusAtEnd[row.status])

(* The events of a page stand at places, in the order of their times: the  *)
(* row's first event at 0, its last one after the messages written before  *)
(* it, and each message at its number or, after that one, at the next.     *)
Chronology ==
    LET log == EventsOf(Shown)
        last == 1 + (IF row.before < Len(Shown) THEN row.before ELSE Len(Shown))
        MessageAt(p) == IF p < last THEN p ELSE p - 1
        messages == {p \in 1..Len(Shown) + 1 : p # last /\ MessageAt(p) \in DOMAIN log}
        places == messages \union {p \in {0} : row.status = "PENDING" \/ row.started}
                           \union {p \in {last} : HasEnded}
    IN [p \in places |-> IF p = 0 THEN FirstEvent
                         ELSE IF p = last THEN TerminalEvent
                         ELSE log[MessageAt(p)]]

Earliest(places) == CHOOSE p \in places : \A q \in places : p <= q

SetupPlaces(es) == {p \in DOMAIN es : es[p].kind = "setup"}

\* The phase that stands for the setup events of a page.
SetupPhase(es) ==
    LET Some(status) == \E p \in SetupPlaces(es) : es[p].status = status
    IN [kind |-> "setup", title |-> <<"ADE setup">>,
        status |-> IF Some("failed") THEN "failed"
                   ELSE IF Some("warning") THEN "warning" ELSE "success"]

(* groupSetupEvents: several are one phase at the place of the first.       *)
GroupSetupEvents(es) ==
    LET setup == SetupPlaces(es)
        places == (DOMAIN es \ setup) \union {Earliest(setup)}
    IN IF \A p, q \in setup : p = q THEN es
       ELSE [p \in places |-> IF p \in setup THEN SetupPhase(es) ELSE es[p]]

\* The start of a command is shown as its end, when that is the next event.
IsPaired(es, p) ==
    /\ es[p].status = "running"
    /\ \E q \in DOMAIN es :
          /\ p < q /\ \A r \in DOMAIN es : r <= p \/ q <= r
          /\ es[q].title = es[p].title /\ es[q].status \in {"success", "failed"}
PairSteps(es) == [p \in {p \in DOMAIN es : ~IsPaired(es, p)} |-> es[p]]

Failures(es) == {p \in DOMAIN es : es[p].status = "failed"}
Propagated(e) ==
    e.status = "failed"
      /\ e.title \in {<<"task", "failed">>, <<"execution", "failed">>, <<"agent", "failed">>}
Causes(es) == {p \in Failures(es) : ~Propagated(es[p])}

\* The first failure, be it a consequence of a later one.
FirstFailureAsRoot(es) == Earliest(Failures(es))

\* The first failure that is not the consequence of another, else the first.
RootFailure(es) == Earliest(IF Causes(es) # {} THEN Causes(es) ELSE Failures(es))

CollapseTimeline(events) ==
    LET es == PairSteps(GroupSetupEvents(events))
    IN [p \in {p \in DOMAIN es : Propagated(es[p]) => p = RootFailure(es)} |-> es[p]]

Timeline == CollapseTimeline(Chronology)

\* summarizeTask
SummaryStatus ==
    IF row.status = "SUCCESS" THEN "success"
    ELSE IF row.status = "FAILED" THEN IF row.state = "waiting-human" THEN "warning" ELSE "failed"
    ELSE IF row.status = "CANCELLED" THEN "cancelled"
    ELSE IF row.status = "RUNNING" THEN "running" ELSE "pending"

LogDiagnostics == {k \in DOMAIN Shown : Shown[k].what = "diagnostic"}

\* The diagnostic from the log alone.
LoggedDiagnostic == LogDiagnostics # {}

\* buildTaskDetail: the latest diagnostic of the log, else of the audit events.
ShowsDiagnostic == LogDiagnostics # {} \/ (row.status = "FAILED" /\ audited)

-----------------------------------------------------------------------------
(* Properties.                                                               *)

(* "Audit evidence remains available when the bounded raw-output log is     *)
(* full": a failure that is not a restart is explained although the output  *)
(* of the agent filled the log or the part of it the page reads, and while  *)
(* there is room although one of the two writes was lost.                   *)
FailureIsExplained ==
    /\ row.status = "FAILED" /\ row.code # "WORKER_RESTARTED"
    /\ losses <= (IF Len(logs) < LogRoom /\ Len(logs) <= PageLimit THEN 1 ELSE 0)
    => ShowsDiagnostic

(* "Propagated terminal errors are collapsed behind the first/root-cause    *)
(* failure": the page of a failed task names a failure, and a consequence   *)
(* only where it knows no cause, in whatever order the agent, the           *)
(* diagnostic, the row and the retries of its pull request reported it.     *)
CauseIsNamed ==
    SummaryStatus \in {"failed", "warning"} =>
        LET shown == Timeline
        IN /\ Failures(shown) # {}
           /\ \A k \in Failures(shown) :
                 Propagated(shown[k]) => Failures(shown) = {k} /\ Causes(EventsOf(Shown)) = {}

=============================================================================
