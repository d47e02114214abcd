------------------------------ MODULE HostRunner ------------------------------
(* The runner boundary: the worker's loop and its recovery of executions it  *)
(* lost sight of, the socket client, the host runner that checks a request   *)
(* and starts one ADE process for it, and ADE's own record of an execution.  *)
(* The production worker does not use this path yet; the runner is deployed. *)
EXTENDS Naturals, FiniteSets

CONSTANTS
    Executions,
    None,
    MaxRequests,    \* bound of the runs: requests that reach the runner
    MaxFaults       \* bound of the runs: crashes, restarts, failures, copies

ASSUME RunnerAssumption ==
    /\ None \notin Executions \union {"succeeded", "failed"}
    /\ MaxRequests \in Nat /\ MaxFaults \in Nat

VARIABLES
    executions,         \* rows of executions: the status, None before they are scheduled
    worker, todo,       \* CrashSafeWorker; the candidates recover() has yet to look at
    call,               \* the request the worker awaits, 0 for none
    jobs,               \* requests in the order they reached the runner
    runner,             \* "up", "stopping" or "down"
    consumed, active,   \* its memory: request ids, and the process of each execution
    ade,                \* ADE's record of each execution
    faults

workerVars == <<executions, worker, todo, call>>
runnerVars == <<runner, consumed, active>>
vars == <<workerVars, jobs, runnerVars, ade, faults>>

Ended == {"succeeded", "failed"}     \* a cancelled one is recorded like these
Terminal == Ended \union {"unknown"}
AdeStates == {"not-found", "running"} \union Ended
Kinds == {"advance", "reconcile"}

(* A job: what was asked, how far its handler is, what its process does,    *)
(* whether the process was sent SIGTERM, and what the client was told.      *)
Jobs ==
    [kind : Kinds, execution : Executions, request : 1..MaxRequests,
     stage : {"sent", "checked", "started", "answered"},
     process : {"none", "alive", "ended"}, terminated : BOOLEAN,
     answer : {None, "rejected", "error", "unknown", "lost"} \union AdeStates]

Sent == DOMAIN jobs

TypeOK ==
    /\ executions \in [Executions -> {None, "running"} \union Terminal]
    /\ worker \in {"down", "recovering", "idle", "cycling", "dead"}
    /\ todo \subseteq Executions
    /\ call \in 0..MaxRequests /\ (call # 0 => call \in Sent)
    /\ Cardinality(Sent) <= MaxRequests /\ jobs \in [Sent -> Jobs]
    /\ runner \in {"up", "stopping", "down"} /\ consumed \subseteq 1..MaxRequests
    /\ active \in [Executions -> 0..MaxRequests]
    /\ \A e \in Executions : active[e] # 0 =>
           jobs[active[e]].execution = e /\ jobs[active[e]].stage = "started"
    /\ ade \in [Executions -> AdeStates]
    /\ faults \in 0..MaxFaults

Init ==
    /\ executions = [e \in Executions |-> None]
    /\ worker = "down" /\ todo = {} /\ call = 0
    /\ jobs = [j \in {} |-> None]
    /\ runner = "up" /\ consumed = {} /\ active = [e \in Executions |-> 0]
    /\ ade = [e \in Executions |-> "not-found"]
    /\ faults = 0

Fault == faults < MaxFaults /\ faults' = faults + 1

-----------------------------------------------------------------------------
(* The worker.                                                             *)

\* A typed request with a new id and nonce goes out on the socket.
Send(kind, e, request) ==
    LET j == Cardinality(Sent) + 1 IN
    /\ j <= MaxRequests
    /\ jobs' = [i \in Sent \union {j} |-> IF i \in Sent THEN jobs[i] ELSE
          [kind |-> kind, execution |-> e,
           request |-> IF request = 0 THEN j ELSE request,
           stage |-> "sent", process |-> "none", terminated |-> FALSE,
           answer |-> None]]

\* A completion of a terminal execution with another time is a conflict, thrown.
Complete(e, status) ==
    IF executions[e] \in Terminal
    THEN worker' = "dead" /\ UNCHANGED <<executions, todo>>
    ELSE /\ executions' = [executions EXCEPT ![e] = status]
         /\ todo' = todo \ {e} /\ UNCHANGED worker

(* run(): the candidates are the unknown executions and those whose lease   *)
(* ran out while nobody renewed it.                                         *)
Recover ==
    /\ worker = "down" /\ worker' = "recovering"
    /\ \E S \in SUBSET {e \in Executions : executions[e] = "running"} :
          todo' = S \union {e \in Executions : executions[e] = "unknown"}
    /\ UNCHANGED <<executions, call, jobs, runnerVars, ade, faults>>

\* The candidate's project may be gone; otherwise the runner is asked.
ReconcileNext(e) ==
    /\ worker = "recovering" /\ call = 0 /\ e \in todo
    /\ \/ /\ Send("reconcile", e, 0) /\ call' = Cardinality(Sent) + 1
          /\ UNCHANGED <<executions, worker, todo, faults>>
       \/ Fault /\ Complete(e, "unknown") /\ UNCHANGED <<call, jobs>>
    /\ UNCHANGED <<runnerVars, ade>>

Recovered ==
    /\ worker = "recovering" /\ call = 0 /\ todo = {} /\ worker' = "idle"
    /\ UNCHANGED <<executions, todo, call, jobs, runnerVars, ade, faults>>

\* What an execution that ADE does not know is recorded as when it is taken for failed.
OutcomeOrFailed(answer) ==
    IF answer = "not-found" THEN "failed" ELSE IF answer \in Ended THEN answer ELSE "unknown"

\* Only an end that ADE reports is recorded as one.
Outcome(answer) == IF answer \in Ended THEN answer ELSE "unknown"

Reconciled ==
    /\ worker = "recovering" /\ call # 0 /\ jobs[call].stage = "answered"
    /\ Complete(jobs[call].execution, Outcome(jobs[call].answer)) /\ call' = 0
    /\ UNCHANGED <<jobs, runnerVars, ade, faults>>

(* runControlCycle: quota, runnable work and the choice of a project lead   *)
(* to a new execution and its advance.                                      *)
Cycle(e) ==
    /\ worker = "idle" /\ executions[e] = None /\ worker' = "cycling"
    /\ executions' = [executions EXCEPT ![e] = "running"]
    /\ Send("advance", e, 0) /\ call' = Cardinality(Sent) + 1
    /\ UNCHANGED <<todo, runnerVars, ade, faults>>

\* An advance that fails is a failed cycle: nothing is recorded of the execution.
CycleEnds ==
    /\ worker = "cycling" /\ jobs[call].stage = "answered"
    /\ worker' = "idle" /\ call' = 0
    /\ UNCHANGED <<executions, todo, jobs, runnerVars, ade, faults>>

\* The client's timer, later than the runner's, or an error of the socket.
ClientGivesUp ==
    /\ call # 0 /\ Fault /\ call' = 0
    /\ IF worker = "recovering"
       THEN Complete(jobs[call].execution, "unknown")
       ELSE worker' = "idle" /\ UNCHANGED <<executions, todo>>
    /\ UNCHANGED <<jobs, runnerVars, ade>>

WorkerStops ==
    /\ worker # "down" /\ Fault
    /\ worker' = "down" /\ todo' = {} /\ call' = 0
    /\ UNCHANGED <<executions, jobs, runnerVars, ade>>

Worker ==
    \/ Recover \/ Recovered \/ Reconciled \/ CycleEnds
    \/ \E e \in Executions : ReconcileNext(e) \/ Cycle(e)

-----------------------------------------------------------------------------
(* SecureRunner.                                                           *)

Answer(j, answer) == jobs' = [jobs EXCEPT ![j].stage = "answered", ![j].answer = answer]

\* Neither the id nor the nonce was used before.
Fresh(j) == jobs[j].request \notin consumed

(* Shape, signature, expiry, replay, limits, project, capability and input  *)
(* are checked without a pause.                                             *)
Check(j) ==
    /\ runner = "up" /\ jobs[j].stage = "sent"
    /\ \/ Fresh(j) /\ jobs' = [jobs EXCEPT ![j].stage = "checked"] /\ UNCHANGED faults
       \/ ~Fresh(j) /\ Answer(j, "rejected") /\ UNCHANGED faults
       \/ Fault /\ Answer(j, "rejected")
    /\ UNCHANGED <<workerVars, runnerVars, ade>>

(* The workspace is resolved, which takes a while, and only then the id is  *)
(* consumed and the process started.                                        *)
StartJob(j) ==
    /\ runner # "down" /\ jobs[j].stage = "checked"
    /\ consumed' = consumed \union {jobs[j].request}
    /\ active' = [active EXCEPT ![jobs[j].execution] = j]
    /\ jobs' = [jobs EXCEPT ![j].stage = "started", ![j].process = "alive"]
    /\ UNCHANGED <<workerVars, runner, ade, faults>>

\* The workspace is not contained, or the process cannot be spawned.
StartFails(j) ==
    /\ runner # "down" /\ jobs[j].stage = "checked" /\ Fault
    /\ \/ Answer(j, "rejected") /\ UNCHANGED consumed
       \/ Answer(j, "error") /\ consumed' = consumed \union {jobs[j].request}
    /\ UNCHANGED <<workerVars, runner, active, ade>>

-----------------------------------------------------------------------------
(* HostAdeRunner and LocalProcessAdeClient.                                *)

(* Every error of an advance may have left its effect behind; a query is    *)
(* safe to repeat.                                                          *)
Failure(kind) == IF kind = "advance" THEN "unknown" ELSE "error"

\* finish(): an execution's entry is removed by the process that owns it.
Release(j) ==
    active' = [active EXCEPT ![jobs[j].execution] = IF @ = j THEN 0 ELSE @]

ProcessAnswers(j, answer) ==
    jobs' = [jobs EXCEPT ![j].stage = "answered", ![j].process = "ended", ![j].answer = answer]

(* The process ends: a valid answer is passed on, a bad exit or output      *)
(* fails.  Nobody is told about a process whose handler has answered.       *)
ProcessEnds(j) ==
    /\ jobs[j].process = "alive"
    /\ IF jobs[j].stage = "started"
       THEN /\ Release(j)
            /\ \/ ~jobs[j].terminated /\ ProcessAnswers(j, ade[jobs[j].execution])
               \/ ProcessAnswers(j, Failure(jobs[j].kind))
       ELSE jobs' = [jobs EXCEPT ![j].process = "ended"] /\ UNCHANGED active
    /\ UNCHANGED <<workerVars, runner, consumed, ade, faults>>

\* A limit that answers and leaves the process alone.
GivesUp(j) ==
    /\ runner # "down" /\ jobs[j].stage = "started"
    /\ Answer(j, Failure(jobs[j].kind)) /\ Release(j)
    /\ UNCHANGED <<workerVars, runner, consumed, ade, faults>>

\* The timer or the output limit: the process group gets SIGTERM.
LimitReached(j) ==
    /\ runner # "down" /\ jobs[j].stage = "started"
    /\ jobs' = [jobs EXCEPT ![j].stage = "answered", ![j].answer = Failure(jobs[j].kind),
                            ![j].terminated = TRUE]
    /\ Release(j)
    /\ UNCHANGED <<workerVars, runner, consumed, ade, faults>>

\* Too much on stderr: SIGTERM, and the handler waits for the end.
NoisyProcess(j) ==
    /\ runner # "down" /\ jobs[j].stage = "started" /\ ~jobs[j].terminated /\ Fault
    /\ jobs' = [jobs EXCEPT ![j].terminated = TRUE]
    /\ UNCHANGED <<workerVars, runnerVars, ade>>

\* ADE works while the process of an advance lives.
AdeWorks(j) ==
    LET e == jobs[j].execution IN
    /\ jobs[j].process = "alive" /\ jobs[j].kind = "advance" /\ ade[e] \notin Ended
    /\ \E state \in {"running"} \union Ended :
          state # ade[e] /\ ade' = [ade EXCEPT ![e] = state]
    /\ UNCHANGED <<workerVars, jobs, runnerVars, faults>>

-----------------------------------------------------------------------------
(* The runner's process.                                                   *)

\* SIGTERM: cancelAll terminates what is active; the server takes nothing new.
StopRunner ==
    /\ runner = "up" /\ Fault /\ runner' = "stopping"
    /\ jobs' = [j \in Sent |->
          [jobs[j] EXCEPT !.terminated = @ \/ active[jobs[j].execution] = j]]
    /\ UNCHANGED <<workerVars, consumed, active, ade>>

\* The memory is gone, the sockets close; detached processes go on.
RunnerExits ==
    /\ \/ runner = "up" /\ Fault
       \/ /\ runner = "stopping" /\ UNCHANGED faults
          /\ \A j \in Sent : jobs[j].stage \notin {"checked", "started"}
    /\ runner' = "down"
    /\ consumed' = {} /\ active' = [e \in Executions |-> 0]
    /\ jobs' = [j \in Sent |-> IF jobs[j].stage = "answered" THEN jobs[j] ELSE
                   [jobs[j] EXCEPT !.stage = "answered", !.answer = "lost"]]
    /\ UNCHANGED <<workerVars, ade>>

\* A stale socket is removed and bound again.
StartRunner ==
    /\ runner = "down" /\ runner' = "up"
    /\ UNCHANGED <<workerVars, jobs, consumed, active, ade, faults>>

\* A request arrives again while it has not expired.
Copied(j) ==
    /\ Fault /\ Send(jobs[j].kind, jobs[j].execution, jobs[j].request)
    /\ UNCHANGED <<workerVars, runnerVars, ade>>

Runner ==
    \/ RunnerExits \/ StartRunner
    \/ \E j \in Sent : Check(j) \/ StartJob(j) \/ StartFails(j)

Next ==
    \/ Worker \/ ClientGivesUp \/ WorkerStops
    \/ Runner \/ StopRunner
    \/ \E j \in Sent :
          LimitReached(j) \/ NoisyProcess(j) \/ ProcessEnds(j) \/ AdeWorks(j) \/ Copied(j)

(* The worker and the runner go on; a request's timer fires; a process that *)
(* was sent SIGTERM ends.                                                   *)
Fairness ==
    /\ WF_vars(Worker) /\ WF_vars(Runner)
    /\ \A j \in 1..MaxRequests :
          /\ WF_vars(j \in Sent /\ LimitReached(j))
          /\ WF_vars(j \in Sent /\ jobs[j].terminated /\ ProcessEnds(j))

Spec == Init /\ [][Next]_vars /\ Fairness

-----------------------------------------------------------------------------
(* Properties.                                                             *)

(* DurableExecutionCoordinator: an execution is recorded as ended only with *)
(* the end ADE itself reached, never on a timeout, a crash, a rejection or  *)
(* an answer that was true when it was given and is not any more.           *)
RecordedEndIsAdes ==
    \A e \in Executions : executions[e] \in Ended => ade[e] = executions[e]

(* Every process the runner started ends, by itself or by its timer, also   *)
(* when another request for the same execution took over its entry.        *)
EveryProcessEnds ==
    \A j \in 1..MaxRequests :
        (j \in Sent /\ jobs[j].process = "alive") ~>
            (j \in Sent /\ (jobs[j].process = "ended" \/ jobs[j].answer = "lost"))

=============================================================================
