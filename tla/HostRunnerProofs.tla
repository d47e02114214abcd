--------------------------- MODULE HostRunnerProofs ---------------------------
(* What is recorded of an execution across the runner boundary, and who sees *)
(* to its processes, for any executions and bounds.                          *)
EXTENDS HostRunner, FiniteSetTheorems, TLAPS

\* Requests are numbered as they come; what is active has been sent.
Numbered ==
    /\ \E n \in 0..MaxRequests : Sent = 1..n
    /\ \A e \in Executions : active[e] \in Sent \union {0}

TypeInv == TypeOK /\ Numbered

-----------------------------------------------------------------------------
(* A request that is sent takes the next number and leaves the others alone. *)

\* The job that Send adds.
NewJob(kind, e, request) ==
    [kind |-> kind, execution |-> e,
     request |-> IF request = 0 THEN Cardinality(Sent) + 1 ELSE request,
     stage |-> "sent", process |-> "none", terminated |-> FALSE, answer |-> None]

(* A send adds exactly one job: the next number, or a copy of a number still
   in flight with a fresh one. *)
LEMMA SendAddsOne ==
    ASSUME TypeInv, NEW kind \in Kinds, NEW e \in Executions, NEW request \in 0..MaxRequests,
           Send(kind, e, request)
    PROVE  /\ Cardinality(Sent) + 1 \in 1..MaxRequests
           /\ Sent' = Sent \union {Cardinality(Sent) + 1}
           /\ \E n \in 0..MaxRequests : Sent' = 1..n
           /\ jobs' \in [Sent' -> Jobs]
           /\ Cardinality(Sent') <= MaxRequests
           /\ \A j \in Sent : jobs'[j] = jobs[j]
           /\ jobs'[Cardinality(Sent) + 1] = NewJob(kind, e, request)
           /\ jobs'[Cardinality(Sent) + 1].answer = None
<1>1. PICK n \in 0..MaxRequests : Sent = 1..n
  BY DEF TypeInv, Numbered
<1>2. n \in Nat /\ n <= MaxRequests /\ MaxRequests \in Nat
  BY <1>1, RunnerAssumption
<1>3. Cardinality(Sent) = n
  BY <1>1, <1>2, FS_Interval
<1>4. n + 1 <= MaxRequests
  BY <1>3 DEF Send
<1>5. DOMAIN jobs' = Sent \union {n + 1}
  BY <1>3 DEF Send
<1>6. Sent' = 1..(n + 1)
  BY <1>1, <1>2, <1>5 DEF Sent
<1>7. Cardinality(Sent') = n + 1
  BY <1>2, <1>6, FS_Interval
<1>8. \A j \in Sent : jobs'[j] = jobs[j]
  BY <1>3 DEF Send
<1>9. jobs'[n + 1] = NewJob(kind, e, request)
  BY <1>1, <1>2, <1>3 DEF Send, NewJob
<1>10. NewJob(kind, e, request) \in Jobs /\ NewJob(kind, e, request).answer = None
  BY <1>2, <1>3, <1>4 DEF NewJob, Jobs
<1>11. jobs' \in [Sent' -> Jobs]
  <2>1. jobs' = [i \in Sent' |-> jobs'[i]]
    <3>1. PICK D : jobs' = [i \in D |-> IF i \in Sent THEN jobs[i] ELSE NewJob(kind, e, request)]
      BY DEF Send, NewJob
    <3>2. D = Sent'
      BY <3>1 DEF Sent
    <3> QED
      BY <3>1, <3>2
  <2>2. ASSUME NEW i \in Sent'
        PROVE  jobs'[i] \in Jobs
    <3>1. CASE i \in Sent
      BY <3>1, <1>8 DEF TypeInv, TypeOK
    <3>2. CASE i = n + 1
      BY <3>2, <1>9, <1>10
    <3> QED
      BY <3>1, <3>2, <2>2, <1>1, <1>2, <1>6
  <2> QED
    BY <2>1, <2>2
<1> QED
  BY <1>1, <1>2, <1>3, <1>4, <1>5, <1>6, <1>7, <1>8, <1>9, <1>10, <1>11

-----------------------------------------------------------------------------
(* The types.                                                              *)

\* The parts of the types that steps disturb one at a time.
WorkerTypes ==
    /\ executions \in [Executions -> {None, "running"} \union Terminal]
    /\ worker \in {"down", "recovering", "idle", "cycling", "dead"}
    /\ todo \subseteq Executions
CallType == call \in Sent \union {0}
JobTypes ==
    /\ jobs \in [Sent -> Jobs]
    /\ \E n \in 0..MaxRequests : Sent = 1..n
ActiveTypes ==
    \A e \in Executions :
        /\ active[e] \in Sent \union {0}
        /\ active[e] # 0 => jobs[active[e]].execution = e /\ jobs[active[e]].stage = "started"
RunnerTypes ==
    /\ runner \in {"up", "stopping", "down"} /\ consumed \subseteq 1..MaxRequests
    /\ active \in [Executions -> 0..MaxRequests]
OtherTypes == ade \in [Executions -> AdeStates] /\ faults \in 0..MaxFaults

(* The typing conjuncts of the worker, the jobs, the runner and ADE together
   are the invariant the steps are proved to keep. *)
LEMMA TypeParts ==
    TypeInv <=> WorkerTypes /\ CallType /\ JobTypes /\ ActiveTypes /\ RunnerTypes /\ OtherTypes
<1>1. ASSUME NEW n \in 0..MaxRequests, Sent = 1..n
      PROVE  Cardinality(Sent) = n /\ Sent \subseteq 1..MaxRequests
  BY <1>1, RunnerAssumption, FS_Interval
<1>2. TypeInv => CallType
  BY DEF TypeInv, TypeOK, CallType
<1>3. (\E n \in 0..MaxRequests : Sent = 1..n)
          => /\ Cardinality(Sent) <= MaxRequests
             /\ CallType => call \in 0..MaxRequests /\ (call # 0 => call \in Sent)
  BY <1>1, RunnerAssumption DEF CallType
<1> QED
  BY <1>2, <1>3 DEF TypeInv, TypeOK, Numbered, WorkerTypes, JobTypes, ActiveTypes, RunnerTypes,
                    OtherTypes

(* The same of the next state. *)
LEMMA NextTypeParts ==
    WorkerTypes' /\ CallType' /\ JobTypes' /\ ActiveTypes' /\ RunnerTypes' /\ OtherTypes' => TypeInv'
  BY TypeParts, PTL

(* The initial state has its types. *)
LEMMA TypeInit == Init => TypeInv
<1> SUFFICES ASSUME Init
             PROVE  TypeInv
  OBVIOUS
<1>1. Sent = 1..0 /\ 0 \in 0..MaxRequests
  BY RunnerAssumption DEF Init, Sent
<1> QED
  BY <1>1, TypeParts, RunnerAssumption
     DEF Init, WorkerTypes, CallType, JobTypes, ActiveTypes, RunnerTypes, OtherTypes, AdeStates,
         Sent

\* A completion, or a worker that dies of it.
LEMMA CompleteTypes ==
    ASSUME WorkerTypes, NEW e \in Executions, NEW status \in Terminal, Complete(e, status)
    PROVE  WorkerTypes'
  BY DEF Complete, WorkerTypes

(* Every step of the worker, of the runner, of its processes and of the
   faults keeps the types. *)
LEMMA TypeStep == TypeInv /\ [Next]_vars => TypeInv'
<1> SUFFICES ASSUME TypeInv, [Next]_vars
             PROVE  TypeInv'
  OBVIOUS
<1>p. WorkerTypes /\ CallType /\ JobTypes /\ ActiveTypes /\ RunnerTypes /\ OtherTypes
  BY TypeParts
\* The runner's side rests.
<1>a. ASSUME UNCHANGED <<jobs, runnerVars>>
      PROVE  JobTypes' /\ ActiveTypes' /\ RunnerTypes'
  BY <1>a, <1>p DEF JobTypes, ActiveTypes, RunnerTypes, runnerVars, Sent
\* The worker's side rests.
<1>b. ASSUME UNCHANGED workerVars, Sent' = Sent
      PROVE  WorkerTypes' /\ CallType'
  BY <1>b, <1>p DEF WorkerTypes, CallType, workerVars
\* Nothing but a job changes.
<1>c. ASSUME UNCHANGED <<workerVars, runnerVars, ade>>, faults' \in 0..MaxFaults,
             Sent' = Sent, jobs' \in [Sent -> Jobs],
             \A j \in Sent : /\ jobs'[j].execution = jobs[j].execution
                             /\ jobs[j].stage = "started" => jobs'[j].stage = "started"
      PROVE  TypeInv'
  <2>1. JobTypes' /\ RunnerTypes' /\ OtherTypes'
    BY <1>c, <1>p DEF JobTypes, RunnerTypes, OtherTypes, runnerVars
  <2>3. ASSUME NEW j \in Sent
        PROVE  /\ jobs'[j].execution = jobs[j].execution
               /\ jobs[j].stage = "started" => jobs'[j].stage = "started"
    BY <1>c
  <2>2. ActiveTypes'
    <3>1. active' = active
      BY <1>c DEF runnerVars
    <3>2. ASSUME NEW e \in Executions
          PROVE  /\ active[e] \in Sent \union {0}
                 /\ active[e] # 0 => /\ jobs'[active[e]].execution = e
                                   /\ jobs'[active[e]].stage = "started"
      <4>1. /\ active[e] \in Sent \union {0}
            /\ active[e] # 0 => jobs[active[e]].execution = e /\ jobs[active[e]].stage = "started"
        BY <1>p DEF ActiveTypes
      <4>2. CASE active[e] \in Sent
        <5>1. /\ jobs'[active[e]].execution = jobs[active[e]].execution
              /\ jobs[active[e]].stage = "started" => jobs'[active[e]].stage = "started"
          BY <2>3, <4>2
        <5> QED
          BY <4>1, <5>1
      <4>3. CASE active[e] = 0
        BY <4>3
      <4> QED
        BY <4>1, <4>2, <4>3
    <3> QED
      BY <1>c, <3>1, <3>2 DEF ActiveTypes
  <2> QED
    BY <1>b, <1>c, <2>1, <2>2, NextTypeParts
<1>f. Fault => faults' \in 0..MaxFaults
  BY <1>p, RunnerAssumption DEF Fault, OtherTypes
<1>1. CASE Recover \/ Recovered \/ CycleEnds \/ WorkerStops
  <2>1. UNCHANGED <<jobs, runnerVars, ade>> /\ (UNCHANGED faults \/ Fault)
    BY <1>1 DEF Recover, Recovered, CycleEnds, WorkerStops
  <2>2. WorkerTypes' /\ CallType'
    BY <1>1, <1>p DEF Recover, Recovered, CycleEnds, WorkerStops, WorkerTypes, CallType, Sent
  <2> QED
    BY <1>a, <1>f, <1>p, <2>1, <2>2, NextTypeParts DEF OtherTypes
<1>2. CASE Reconciled \/ ClientGivesUp
  <2>1. UNCHANGED <<jobs, runnerVars, ade>> /\ (UNCHANGED faults \/ Fault) /\ call' = 0
    BY <1>2 DEF Reconciled, ClientGivesUp
  <2>2. call \in Sent /\ jobs[call].execution \in Executions
    BY <1>2, <1>p DEF Reconciled, ClientGivesUp, CallType, JobTypes, Jobs
  <2>3. WorkerTypes'
    <3>1. Outcome(jobs[call].answer) \in Terminal /\ "unknown" \in Terminal
      BY DEF Outcome, Terminal
    <3> QED
      BY <1>2, <1>p, <2>2, <3>1, CompleteTypes DEF Reconciled, ClientGivesUp, WorkerTypes
  <2> QED
    BY <1>a, <1>f, <1>p, <2>1, <2>3, NextTypeParts DEF OtherTypes, CallType
\* A request is sent.
<1>s. ASSUME NEW kind \in Kinds, NEW e \in Executions, NEW request \in 0..MaxRequests,
             Send(kind, e, request), UNCHANGED <<runnerVars, ade>>
      PROVE  /\ JobTypes' /\ ActiveTypes' /\ RunnerTypes'
             /\ Sent' = Sent \union {Cardinality(Sent) + 1}
  <2>1. JobTypes' /\ Sent' = Sent \union {Cardinality(Sent) + 1}
    BY <1>s, SendAddsOne DEF JobTypes
  <2>2. \A j \in Sent : jobs'[j] = jobs[j]
    BY <1>s, SendAddsOne
  <2>3. ActiveTypes' /\ RunnerTypes'
    BY <1>s, <1>p, <2>1, <2>2 DEF ActiveTypes, RunnerTypes, runnerVars
  <2> QED
    BY <2>1, <2>3
<1>3. ASSUME NEW e \in Executions, ReconcileNext(e)
      PROVE  TypeInv'
  <2>1. CASE /\ Send("reconcile", e, 0) /\ call' = Cardinality(Sent) + 1
             /\ UNCHANGED <<executions, worker, todo, faults>>
    <3>1. JobTypes' /\ ActiveTypes' /\ RunnerTypes' /\ Sent' = Sent \union {Cardinality(Sent) + 1}
      BY <1>s, <1>3, <2>1, RunnerAssumption DEF ReconcileNext, Kinds
    <3> QED
      BY <1>3, <1>p, <2>1, <3>1, NextTypeParts DEF ReconcileNext, WorkerTypes, CallType, OtherTypes
  <2>2. CASE Fault /\ Complete(e, "unknown") /\ UNCHANGED <<call, jobs>>
    <3>1. WorkerTypes'
      BY <1>p, <2>2, CompleteTypes DEF Terminal
    <3> QED
      BY <1>3, <1>a, <1>f, <1>p, <2>2, <3>1, NextTypeParts DEF ReconcileNext, OtherTypes,
         CallType, Sent
  <2> QED
    BY <1>3, <2>1, <2>2 DEF ReconcileNext
<1>4. ASSUME NEW e \in Executions, Cycle(e)
      PROVE  TypeInv'
  <2>1. JobTypes' /\ ActiveTypes' /\ RunnerTypes' /\ Sent' = Sent \union {Cardinality(Sent) + 1}
    BY <1>s, <1>4, RunnerAssumption DEF Cycle, Kinds
  <2> QED
    BY <1>4, <1>p, <2>1, NextTypeParts DEF Cycle, WorkerTypes, CallType, OtherTypes
<1>5. ASSUME NEW j \in Sent, Copied(j)
      PROVE  TypeInv'
  <2>1. /\ jobs[j].kind \in Kinds /\ jobs[j].execution \in Executions
        /\ jobs[j].request \in 0..MaxRequests
    BY <1>p DEF JobTypes, Jobs
  <2>2. JobTypes' /\ ActiveTypes' /\ RunnerTypes' /\ Sent' = Sent \union {Cardinality(Sent) + 1}
    BY <1>s, <1>5, <2>1 DEF Copied
  <2> QED
    BY <1>5, <1>f, <1>p, <2>2, NextTypeParts DEF Copied, WorkerTypes, CallType, OtherTypes,
       workerVars
<1>6. ASSUME NEW j \in Sent, Check(j)
      PROVE  TypeInv'
  <2>1. jobs' \in [Sent -> Jobs] /\ Sent' = Sent
    <3>1. CASE jobs' = [jobs EXCEPT ![j].stage = "checked"]
      <4> DEFINE job == [jobs[j] EXCEPT !.stage = "checked"]
      <4>1. job \in Jobs
        BY <1>p DEF JobTypes, Jobs
      <4>2. jobs' = [jobs EXCEPT ![j] = job]
        BY <3>1
      <4> HIDE DEF job
      <4> QED
        BY <1>p, <4>1, <4>2 DEF JobTypes, Sent
    <3>2. CASE Answer(j, "rejected")
      <4> DEFINE job == [jobs[j] EXCEPT !.stage = "answered", !.answer = "rejected"]
      <4>1. job \in Jobs
        BY <1>p DEF JobTypes, Jobs
      <4>2. jobs' = [jobs EXCEPT ![j] = job]
        BY <3>2 DEF Answer
      <4> HIDE DEF job
      <4> QED
        BY <1>p, <4>1, <4>2 DEF JobTypes, Sent
    <3> QED
      BY <1>6, <3>1, <3>2 DEF Check
  <2>2. \A i \in Sent : /\ jobs'[i].execution = jobs[i].execution
                        /\ jobs[i].stage = "started" => jobs'[i].stage = "started"
    <3>1. \A i \in Sent \ {j} : jobs'[i] = jobs[i]
      BY <1>6, <1>p DEF Check, Answer, JobTypes
    <3>2. jobs'[j].execution = jobs[j].execution /\ jobs[j].stage = "sent"
      BY <1>6, <1>p DEF Check, Answer, JobTypes, Jobs
    <3> QED
      BY <3>1, <3>2
  <2> QED
    BY <1>6, <1>c, <1>f, <1>p, <2>1, <2>2 DEF Check, OtherTypes
<1>7. ASSUME NEW j \in Sent, NoisyProcess(j)
      PROVE  TypeInv'
  BY <1>7, <1>c, <1>f, <1>p DEF NoisyProcess, JobTypes, Jobs, Sent
<1>8. CASE StopRunner
  <2>1. jobs' \in [Sent -> Jobs] /\ Sent' = Sent
    BY <1>8, <1>p DEF StopRunner, JobTypes, Jobs, Sent
  <2>2. \A j \in Sent : jobs'[j].execution = jobs[j].execution /\ jobs'[j].stage = jobs[j].stage
    BY <1>8, <1>p DEF StopRunner, JobTypes, Jobs
  <2>3. JobTypes' /\ ActiveTypes'
    BY <1>8, <1>p, <2>1, <2>2 DEF StopRunner, JobTypes, ActiveTypes
  <2> QED
    BY <1>8, <1>b, <1>f, <1>p, <2>1, <2>3, NextTypeParts DEF StopRunner, RunnerTypes, OtherTypes
<1>9. CASE RunnerExits
  <2>1. jobs' \in [Sent -> Jobs] /\ Sent' = Sent
    BY <1>9, <1>p DEF RunnerExits, JobTypes, Jobs, Sent
  <2>2. active' = [e \in Executions |-> 0] /\ consumed' = {} /\ runner' = "down"
    BY <1>9 DEF RunnerExits
  <2>3. JobTypes' /\ ActiveTypes' /\ RunnerTypes'
    BY <1>p, <2>1, <2>2, RunnerAssumption DEF JobTypes, ActiveTypes, RunnerTypes
  <2> QED
    BY <1>9, <1>b, <1>f, <1>p, <2>1, <2>3, NextTypeParts DEF RunnerExits, OtherTypes
<1>10. CASE StartRunner
  BY <1>10, <1>a, <1>b, <1>p, NextTypeParts
     DEF StartRunner, RunnerTypes, JobTypes, ActiveTypes, OtherTypes, Sent
\* A job starts or is answered, and its entry is taken or released.
<1>d. ASSUME NEW j \in Sent, UNCHANGED <<workerVars, runner, ade>>, faults' \in 0..MaxFaults,
             Sent' = Sent, jobs' \in [Sent -> Jobs], consumed' \subseteq 1..MaxRequests,
             \A i \in Sent \ {j} : jobs'[i] = jobs[i],
             jobs'[j].execution = jobs[j].execution,
             \/ active' = [active EXCEPT ![jobs[j].execution] = j] /\ jobs'[j].stage = "started"
             \/ Release(j)
             \/ UNCHANGED active /\ jobs[j].stage # "started"
      PROVE  TypeInv'
  <2>1. jobs[j].execution \in Executions /\ j \in 0..MaxRequests
    BY <1>p, RunnerAssumption DEF JobTypes, Jobs
  <2>2. active' \in [Executions -> 0..MaxRequests]
    BY <1>d, <1>p, <2>1, RunnerAssumption DEF RunnerTypes, Release
  <2>3. ActiveTypes'
    <3>1. ASSUME NEW e \in Executions, active'[e] # 0
          PROVE  /\ active'[e] \in Sent
                 /\ jobs'[active'[e]].execution = e /\ jobs'[active'[e]].stage = "started"
      <4>1. CASE active'[e] = j
        BY <1>d, <1>p, <2>1, <3>1, <4>1 DEF ActiveTypes, RunnerTypes, Release
      <4>2. CASE active'[e] # j
        BY <1>d, <1>p, <2>1, <3>1, <4>2 DEF ActiveTypes, RunnerTypes, Release
      <4> QED
        BY <4>1, <4>2
    <3> QED
      BY <1>d, <2>2, <3>1, RunnerAssumption DEF ActiveTypes
  <2>4. WorkerTypes' /\ CallType' /\ JobTypes' /\ RunnerTypes' /\ OtherTypes'
    BY <1>b, <1>d, <1>p, <2>2 DEF JobTypes, RunnerTypes, OtherTypes
  <2> QED
    BY <2>3, <2>4, NextTypeParts
<1>11. ASSUME NEW j \in Sent, StartJob(j)
       PROVE  TypeInv'
  <2>1. jobs' \in [Sent -> Jobs] /\ Sent' = Sent
    <3> DEFINE job == [jobs[j] EXCEPT !.stage = "started", !.process = "alive"]
    <3>1. jobs' = [jobs EXCEPT ![j] = job]
      BY <1>11 DEF StartJob
    <3>2. job \in Jobs
      BY <1>p DEF JobTypes, Jobs
    <3> HIDE DEF job
    <3> QED
      BY <1>p, <3>1, <3>2 DEF JobTypes, Sent
  <2>2. consumed' \subseteq 1..MaxRequests
    BY <1>11, <1>p DEF StartJob, JobTypes, Jobs, RunnerTypes
  <2>3. (\A i \in Sent \ {j} : jobs'[i] = jobs[i])
        /\ jobs'[j].execution = jobs[j].execution /\ jobs'[j].stage = "started"
    BY <1>11, <1>p DEF StartJob, JobTypes, Jobs
  <2> QED
    BY <1>11, <1>d, <1>p, <2>1, <2>2, <2>3 DEF StartJob, OtherTypes
<1>12. ASSUME NEW j \in Sent, StartFails(j)
       PROVE  TypeInv'
  <2>1. jobs' \in [Sent -> Jobs] /\ Sent' = Sent
    BY <1>12, <1>p DEF StartFails, Answer, JobTypes, Jobs, Sent
  <2>2. consumed' \subseteq 1..MaxRequests
    BY <1>12, <1>p DEF StartFails, JobTypes, Jobs, RunnerTypes
  <2>3. (\A i \in Sent \ {j} : jobs'[i] = jobs[i]) /\ jobs'[j].execution = jobs[j].execution
    BY <1>12, <1>p DEF StartFails, Answer, JobTypes, Jobs
  <2> QED
    BY <1>12, <1>d, <1>f, <2>1, <2>2, <2>3 DEF StartFails
<1>13. ASSUME NEW j \in Sent, LimitReached(j) \/ ProcessEnds(j)
       PROVE  TypeInv'
  <2>1. jobs' \in [Sent -> Jobs] /\ Sent' = Sent
    <3>1. Failure(jobs[j].kind) \in {"unknown", "error"}
      BY DEF Failure
    <3>2. ade[jobs[j].execution] \in AdeStates
      BY <1>p DEF JobTypes, Jobs, OtherTypes
    <3> QED
      BY <1>13, <1>p, <3>1, <3>2
         DEF LimitReached, ProcessEnds, ProcessAnswers, JobTypes, Jobs, Sent
  <2>2. (\A i \in Sent \ {j} : jobs'[i] = jobs[i]) /\ jobs'[j].execution = jobs[j].execution
    BY <1>13, <1>p DEF LimitReached, ProcessEnds, ProcessAnswers, JobTypes, Jobs
  <2>3. UNCHANGED <<workerVars, runner, consumed, ade, faults>>
        /\ (Release(j) \/ (UNCHANGED active /\ jobs[j].stage # "started"))
    BY <1>13 DEF LimitReached, ProcessEnds
  <2> QED
    BY <1>d, <1>p, <2>1, <2>2, <2>3 DEF RunnerTypes, OtherTypes
<1>14. ASSUME NEW j \in Sent, AdeWorks(j)
       PROVE  TypeInv'
  <2>1. ade' \in [Executions -> AdeStates]
    BY <1>14, <1>p DEF AdeWorks, OtherTypes, AdeStates, JobTypes, Jobs
  <2> QED
    BY <1>14, <1>a, <1>b, <1>p, <2>1, NextTypeParts DEF AdeWorks, OtherTypes, Sent
<1>15. CASE UNCHANGED vars
  BY <1>15, <1>a, <1>b, <1>p, NextTypeParts DEF vars, OtherTypes, Sent
<1> QED
  BY <1>1, <1>2, <1>3, <1>4, <1>5, <1>6, <1>7, <1>8, <1>9, <1>10, <1>11, <1>12, <1>13, <1>14,
     <1>15 DEF Next, Worker, Runner

(* The tables, the socket and the runner's memory keep their types; an      *)
(* execution's entry in the runner is a started request of that execution.  *)
THEOREM RunnerTypesHold == Spec => []TypeOK
<1>1. TypeInv => TypeOK
  BY DEF TypeInv
<1> QED
  BY <1>1, TypeInit, TypeStep, PTL DEF Spec

-----------------------------------------------------------------------------
(* What is recorded.  An end that is passed on may be recorded much later,  *)
(* so it has to stay true: ADE's own record of an end does not change.      *)
AnsweredEndIsAdes ==
    \A j \in Sent : jobs[j].answer \in Ended => ade[jobs[j].execution] = jobs[j].answer

RecordInv == AnsweredEndIsAdes /\ RecordedEndIsAdes

(* Nothing is answered or recorded at the start. *)
LEMMA RecordInit == Init => RecordInv
<1> SUFFICES ASSUME Init
             PROVE  RecordInv
  OBVIOUS
<1>1. Sent = {}
  BY DEF Init, Sent
<1>2. \A e \in Executions : executions[e] \notin Ended
  BY RunnerAssumption DEF Init, Ended
<1> QED
  BY <1>1, <1>2 DEF RecordInv, AnsweredEndIsAdes, RecordedEndIsAdes

\* A job is answered with something else than an end, or with ADE's.
LEMMA AnswersKeepRecord ==
    ASSUME TypeInv, RecordInv, UNCHANGED <<executions, ade>>, Sent' = Sent,
           \A i \in Sent : jobs'[i].execution = jobs[i].execution,
           \A i \in Sent : \/ jobs'[i].answer = jobs[i].answer
                           \/ jobs'[i].answer \notin Ended
                           \/ jobs'[i].answer = ade[jobs[i].execution]
    PROVE  RecordInv'
  BY DEF RecordInv, AnsweredEndIsAdes, RecordedEndIsAdes

\* The row of an execution gets what ADE reported, or no end at all.
LEMMA CompletionKeepsRecord ==
    ASSUME TypeInv, RecordInv, UNCHANGED <<jobs, ade>>, NEW e \in Executions, NEW status,
           Complete(e, status), status \in Ended => ade[e] = status
    PROVE  RecordInv'
<1>1. AnsweredEndIsAdes'
  BY DEF RecordInv, AnsweredEndIsAdes, Sent
<1>2. executions' = executions \/ executions' = [executions EXCEPT ![e] = status]
  BY DEF Complete
<1>3. RecordedEndIsAdes'
  BY <1>2 DEF RecordInv, RecordedEndIsAdes, TypeInv, TypeOK
<1> QED
  BY <1>1, <1>3 DEF RecordInv

(* A new request carries no answer and touches no row. *)
LEMMA SendKeepsRecord ==
    ASSUME TypeInv, RecordInv, NEW kind \in Kinds, NEW e \in Executions,
           NEW request \in 0..MaxRequests, Send(kind, e, request), UNCHANGED ade
    PROVE  AnsweredEndIsAdes'
<1>1. /\ Sent' = Sent \union {Cardinality(Sent) + 1}
      /\ \A j \in Sent : jobs'[j] = jobs[j]
      /\ jobs'[Cardinality(Sent) + 1].answer = None
  BY SendAddsOne
<1> QED
  BY <1>1, RunnerAssumption DEF RecordInv, AnsweredEndIsAdes, Ended

(* Every step keeps answers and rows to the ends ADE itself recorded. *)
LEMMA RecordStep == TypeInv /\ RecordInv /\ [Next]_vars => RecordInv'
<1> SUFFICES ASSUME TypeInv, RecordInv, [Next]_vars
             PROVE  RecordInv'
  OBVIOUS
<1>p. /\ jobs \in [Sent -> Jobs] /\ ade \in [Executions -> AdeStates] /\ call \in Sent \union {0}
      /\ executions \in [Executions -> {None, "running"} \union Terminal]
  BY TypeParts DEF JobTypes, OtherTypes, CallType, WorkerTypes
<1>1. CASE UNCHANGED <<executions, jobs, ade>>
  BY <1>1 DEF RecordInv, AnsweredEndIsAdes, RecordedEndIsAdes, Sent
<1>2. CASE Recover \/ Recovered \/ CycleEnds \/ WorkerStops \/ StartRunner \/ UNCHANGED vars
  BY <1>1, <1>2 DEF Recover, Recovered, CycleEnds, WorkerStops, StartRunner, vars, workerVars
<1>3. CASE Reconciled
  <2>1. jobs[call].execution \in Executions /\ call \in Sent
    BY <1>3, <1>p DEF Reconciled, Jobs
  <2>2. LET status == Outcome(jobs[call].answer)
        IN  status \in Ended => ade[jobs[call].execution] = status
    BY <2>1 DEF Outcome, RecordInv, AnsweredEndIsAdes, Ended
  <2> QED
    BY <1>3, <2>1, <2>2, CompletionKeepsRecord DEF Reconciled
<1>4. CASE ClientGivesUp
  <2>1. jobs[call].execution \in Executions
    BY <1>4, <1>p DEF ClientGivesUp, Jobs
  <2>2. CASE Complete(jobs[call].execution, "unknown")
    BY <1>4, <2>1, <2>2, CompletionKeepsRecord DEF ClientGivesUp, Ended
  <2>3. CASE UNCHANGED executions
    BY <1>1, <1>4, <2>3 DEF ClientGivesUp
  <2> QED
    BY <1>4, <2>2, <2>3 DEF ClientGivesUp
<1>5. ASSUME NEW e \in Executions, ReconcileNext(e)
      PROVE  RecordInv'
  <2>1. CASE Send("reconcile", e, 0) /\ UNCHANGED executions
    <3>1. AnsweredEndIsAdes'
      BY <1>5, <2>1, SendKeepsRecord, RunnerAssumption DEF ReconcileNext, Kinds
    <3> QED
      BY <1>5, <2>1, <3>1 DEF ReconcileNext, RecordInv, RecordedEndIsAdes
  <2>2. CASE Complete(e, "unknown") /\ UNCHANGED jobs
    BY <1>5, <2>2, CompletionKeepsRecord DEF ReconcileNext, Ended
  <2> QED
    BY <1>5, <2>1, <2>2 DEF ReconcileNext
<1>6. ASSUME NEW e \in Executions, Cycle(e)
      PROVE  RecordInv'
  <2>1. AnsweredEndIsAdes'
    BY <1>6, SendKeepsRecord, RunnerAssumption DEF Cycle, Kinds
  <2>2. RecordedEndIsAdes'
    BY <1>6, <1>p DEF Cycle, RecordInv, RecordedEndIsAdes, Ended
  <2> QED
    BY <2>1, <2>2 DEF RecordInv
<1>7. ASSUME NEW j \in Sent, Copied(j)
      PROVE  RecordInv'
  <2>1. /\ jobs[j].kind \in Kinds /\ jobs[j].execution \in Executions
        /\ jobs[j].request \in 0..MaxRequests
    BY <1>p DEF Jobs
  <2>2. AnsweredEndIsAdes'
    BY <1>7, <2>1, SendKeepsRecord DEF Copied
  <2> QED
    BY <1>7, <2>2 DEF Copied, RecordInv, RecordedEndIsAdes, workerVars
\* Only the answer of job j can change.
<1>a. ASSUME NEW j \in Sent, UNCHANGED <<executions, ade>>, Sent' = Sent,
             \A i \in Sent \ {j} : jobs'[i] = jobs[i],
             jobs'[j].execution = jobs[j].execution,
             \/ jobs'[j].answer = jobs[j].answer
             \/ jobs'[j].answer \notin Ended
             \/ jobs'[j].answer = ade[jobs[j].execution]
      PROVE  RecordInv'
  BY <1>a, AnswersKeepRecord
<1>8. ASSUME NEW j \in Sent, Check(j) \/ StartFails(j)
      PROVE  RecordInv'
  <2>1. UNCHANGED <<executions, ade>> /\ Sent' = Sent
    BY <1>8 DEF Check, StartFails, Answer, workerVars, Sent
  <2>2. (\A i \in Sent \ {j} : jobs'[i] = jobs[i]) /\ jobs'[j].execution = jobs[j].execution
    BY <1>8, <1>p DEF Check, StartFails, Answer, Jobs
  <2>3. jobs'[j].answer = jobs[j].answer \/ jobs'[j].answer \in {"rejected", "error"}
    BY <1>8, <1>p DEF Check, StartFails, Answer, Jobs
  <2> QED
    BY <1>a, <2>1, <2>2, <2>3 DEF Ended
<1>9. ASSUME NEW j \in Sent, StartJob(j) \/ NoisyProcess(j)
      PROVE  RecordInv'
  <2>1. UNCHANGED <<executions, ade>> /\ Sent' = Sent
    BY <1>9 DEF StartJob, NoisyProcess, workerVars, Sent
  <2>2. (\A i \in Sent \ {j} : jobs'[i] = jobs[i]) /\ jobs'[j].execution = jobs[j].execution
        /\ jobs'[j].answer = jobs[j].answer
    BY <1>9, <1>p DEF StartJob, NoisyProcess, Jobs
  <2> QED
    BY <1>a, <2>1, <2>2
<1>10. ASSUME NEW j \in Sent, LimitReached(j) \/ ProcessEnds(j)
       PROVE  RecordInv'
  <2>1. UNCHANGED <<executions, ade>> /\ Sent' = Sent
    BY <1>10 DEF LimitReached, ProcessEnds, ProcessAnswers, workerVars, Sent
  <2>2. (\A i \in Sent \ {j} : jobs'[i] = jobs[i]) /\ jobs'[j].execution = jobs[j].execution
    BY <1>10, <1>p DEF LimitReached, ProcessEnds, ProcessAnswers, Jobs
  <2>3. \/ jobs'[j].answer = jobs[j].answer
        \/ jobs'[j].answer = Failure(jobs[j].kind)
        \/ jobs'[j].answer = ade[jobs[j].execution]
    BY <1>10, <1>p DEF LimitReached, ProcessEnds, ProcessAnswers, Jobs
  <2>4. Failure(jobs[j].kind) \notin Ended
    BY DEF Failure, Ended
  <2> QED
    BY <1>a, <2>1, <2>2, <2>3, <2>4
<1>11. CASE StopRunner \/ RunnerExits
  <2>1. UNCHANGED <<executions, ade>> /\ Sent' = Sent
    BY <1>11 DEF StopRunner, RunnerExits, workerVars, Sent
  <2>2. \A j \in Sent : jobs'[j].execution = jobs[j].execution
                       /\ jobs'[j].answer \in {jobs[j].answer, "lost"}
    <3>1. CASE StopRunner
      BY <3>1, <1>p DEF StopRunner, Jobs
    <3>2. CASE RunnerExits
      <4>1. ASSUME NEW j \in Sent
            PROVE  jobs'[j] \in {jobs[j], [jobs[j] EXCEPT !.stage = "answered", !.answer = "lost"]}
        BY <3>2 DEF RunnerExits
      <4>2. ASSUME NEW job \in Jobs
            PROVE  LET lost == [job EXCEPT !.stage = "answered", !.answer = "lost"]
                   IN  lost.execution = job.execution /\ lost.answer = "lost"
        BY DEF Jobs
      <4>3. ASSUME NEW j \in Sent
            PROVE  jobs'[j].execution = jobs[j].execution
                       /\ jobs'[j].answer \in {jobs[j].answer, "lost"}
        <5>1. CASE jobs'[j] = jobs[j]
          BY <5>1
        <5>2. CASE jobs'[j] = [jobs[j] EXCEPT !.stage = "answered", !.answer = "lost"]
          BY <1>p, <4>2, <5>2
        <5> QED
          BY <4>1, <5>1, <5>2
      <4> QED
        BY <4>3
    <3> QED
      BY <1>11, <3>1, <3>2
  <2> QED
    BY <2>1, <2>2, AnswersKeepRecord DEF Ended
\* ADE moves on only from what is not an end.
<1>12. ASSUME NEW j \in Sent, AdeWorks(j)
       PROVE  RecordInv'
  <2> DEFINE e == jobs[j].execution
  <2>1. e \in Executions /\ ade[e] \notin Ended /\ UNCHANGED <<executions, jobs>>
    BY <1>12, <1>p DEF AdeWorks, Jobs, workerVars
  <2>2. \A x \in Executions \ {e} : ade'[x] = ade[x]
    BY <1>12, <1>p DEF AdeWorks
  <2>3. \A i \in Sent : jobs[i].execution \in Executions
    BY <1>p DEF Jobs
  <2> QED
    BY <2>1, <2>2, <2>3 DEF RecordInv, AnsweredEndIsAdes, RecordedEndIsAdes, Sent
<1> QED
  BY <1>2, <1>3, <1>4, <1>5, <1>6, <1>7, <1>8, <1>9, <1>10, <1>11, <1>12
     DEF Next, Worker, Runner

(* DurableExecutionCoordinator: whatever times out, crashes, is copied or   *)
(* answers late, an execution is recorded as ended only with ADE's own end. *)
THEOREM OnlyAdesEndIsRecorded == Spec => []RecordedEndIsAdes
<1>1. RecordInv => RecordedEndIsAdes
  BY DEF RecordInv
<1> QED
  BY <1>1, TypeInit, TypeStep, RecordInit, RecordStep, PTL DEF Spec

-----------------------------------------------------------------------------
(* The processes.  A handler that answers leaves a process alive only when  *)
(* it has been sent SIGTERM or the runner itself is gone.                   *)

\* How far a handler is tells what its process does.
Watched(job) ==
    /\ job.stage \in {"sent", "checked"} => job.process = "none"
    /\ job.stage = "started" => job.process = "alive"
    /\ job.process = "alive" => job.stage = "started" \/ job.terminated \/ job.answer = "lost"

\* What EveryProcessEnds needs of every state: somebody will see to the process.
NoProcessIsUnwatched == \A j \in Sent : Watched(jobs[j])

(* A process starts with its timer, and what ends the wait for it ends the   *)
(* process, terminates it, or is the end of the runner.                      *)
LEMMA WatchStep == TypeInv /\ NoProcessIsUnwatched /\ [Next]_vars => NoProcessIsUnwatched'
<1> SUFFICES ASSUME TypeInv, NoProcessIsUnwatched, [Next]_vars
             PROVE  NoProcessIsUnwatched'
  OBVIOUS
<1>p. jobs \in [Sent -> Jobs] /\ ade \in [Executions -> AdeStates]
  BY TypeParts DEF JobTypes, OtherTypes
<1>w. \A j \in Sent : Watched(jobs[j])
  BY DEF NoProcessIsUnwatched
<1>1. CASE UNCHANGED jobs
  BY <1>1, <1>w DEF NoProcessIsUnwatched, Sent
<1>2. CASE \/ Recover \/ Recovered \/ Reconciled \/ CycleEnds \/ ClientGivesUp \/ WorkerStops
           \/ StartRunner \/ UNCHANGED vars \/ \E j \in Sent : AdeWorks(j)
  BY <1>1, <1>2 DEF Recover, Recovered, Reconciled, CycleEnds, ClientGivesUp, WorkerStops,
                    StartRunner, AdeWorks, vars
\* A request that was just sent has no process yet.
<1>3. ASSUME NEW kind \in Kinds, NEW e \in Executions, NEW request \in 0..MaxRequests,
             Send(kind, e, request)
      PROVE  NoProcessIsUnwatched'
  <2>1. /\ Sent' = Sent \union {Cardinality(Sent) + 1}
        /\ \A j \in Sent : jobs'[j] = jobs[j]
        /\ jobs'[Cardinality(Sent) + 1] = NewJob(kind, e, request)
    BY <1>3, SendAddsOne
  <2>2. Watched(NewJob(kind, e, request))
    BY DEF Watched, NewJob
  <2> QED
    BY <2>1, <2>2, <1>w DEF NoProcessIsUnwatched
<1>4. ASSUME NEW e \in Executions, ReconcileNext(e) \/ Cycle(e)
      PROVE  NoProcessIsUnwatched'
  <2>1. UNCHANGED jobs \/ Send("reconcile", e, 0) \/ Send("advance", e, 0)
    BY <1>4 DEF ReconcileNext, Cycle
  <2> QED
    BY <2>1, <1>1, <1>3, RunnerAssumption DEF Kinds
<1>5. ASSUME NEW j \in Sent, Copied(j)
      PROVE  NoProcessIsUnwatched'
  <2>1. /\ jobs[j].kind \in Kinds /\ jobs[j].execution \in Executions
        /\ jobs[j].request \in 0..MaxRequests
    BY <1>p DEF Jobs
  <2> QED
    BY <1>5, <2>1, <1>3 DEF Copied
\* One handler or one process goes on.
<1>a. ASSUME NEW j \in Sent, Sent' = Sent, \A i \in Sent \ {j} : jobs'[i] = jobs[i],
             Watched(jobs'[j])
      PROVE  NoProcessIsUnwatched'
  BY <1>a, <1>w DEF NoProcessIsUnwatched
<1>6. ASSUME NEW j \in Sent,
             Check(j) \/ StartJob(j) \/ StartFails(j) \/ LimitReached(j) \/ NoisyProcess(j)
                 \/ ProcessEnds(j)
      PROVE  NoProcessIsUnwatched'
  <2>0. jobs[j] \in Jobs /\ Watched(jobs[j])
    BY <1>p, <1>w
  <2>1. Sent' = Sent /\ \A i \in Sent \ {j} : jobs'[i] = jobs[i]
    BY <1>6, <1>p DEF Check, StartJob, StartFails, LimitReached, NoisyProcess, ProcessEnds,
                      ProcessAnswers, Answer, Sent
  <2>2. CASE Check(j) \/ StartJob(j) \/ StartFails(j)
    <3>1. Watched(jobs'[j])
      BY <2>2, <2>0, <1>p DEF Check, StartJob, StartFails, Answer, Watched, Jobs
    <3> QED
      BY <3>1, <2>1, <1>a
  <2>3. CASE LimitReached(j) \/ NoisyProcess(j)
    <3>1. Watched(jobs'[j])
      BY <2>3, <2>0, <1>p DEF LimitReached, NoisyProcess, Watched, Jobs
    <3> QED
      BY <3>1, <2>1, <1>a
  <2>4. CASE ProcessEnds(j)
    <3>1. jobs'[j].process = "ended" /\ jobs'[j].stage \in {"answered", jobs[j].stage}
              /\ (jobs[j].stage = "started" => jobs'[j].stage = "answered")
      BY <2>4, <2>0, <1>p DEF ProcessEnds, ProcessAnswers, Jobs
    <3>2. Watched(jobs'[j])
      BY <2>4, <3>1, <2>0 DEF ProcessEnds, Watched, Jobs
    <3> QED
      BY <3>2, <2>1, <1>a
  <2> QED
    BY <1>6, <2>2, <2>3, <2>4
<1>7. CASE StopRunner
  <2>1. ASSUME NEW j \in Sent
        PROVE  Watched(jobs'[j])
    <3>1. jobs[j] \in Jobs /\ Watched(jobs[j])
      BY <1>p, <1>w
    <3>2. /\ jobs'[j].stage = jobs[j].stage /\ jobs'[j].process = jobs[j].process
          /\ jobs'[j].answer = jobs[j].answer /\ (jobs[j].terminated => jobs'[j].terminated)
      BY <1>7, <3>1 DEF StopRunner, Jobs
    <3> QED
      BY <3>1, <3>2 DEF Watched
  <2> QED
    BY <1>7, <2>1 DEF StopRunner, NoProcessIsUnwatched, Sent
<1>8. CASE RunnerExits
  <2>1. ASSUME NEW job \in Jobs
        PROVE  Watched([job EXCEPT !.stage = "answered", !.answer = "lost"])
    BY DEF Watched, Jobs
  <2>2. ASSUME NEW j \in Sent
        PROVE  Watched(jobs'[j])
    <3>1. jobs[j] \in Jobs /\ Watched(jobs[j])
      BY <1>p, <1>w
    <3>2. jobs'[j] \in {jobs[j], [jobs[j] EXCEPT !.stage = "answered", !.answer = "lost"]}
      BY <1>8 DEF RunnerExits
    <3> QED
      BY <2>1, <3>1, <3>2
  <2> QED
    BY <1>8, <2>2 DEF RunnerExits, NoProcessIsUnwatched, Sent
<1> QED
  BY <1>2, <1>4, <1>5, <1>6, <1>7, <1>8 DEF Next, Worker, Runner

(* HostAdeRunner: an ADE process that is alive has a handler with a timer,  *)
(* was sent SIGTERM, or has outlived the runner that started it, also when  *)
(* another request for its execution took over the entry in `active`.       *)
THEOREM ProcessesAreWatched == Spec => []NoProcessIsUnwatched
<1>1. Init => NoProcessIsUnwatched
  BY DEF Init, Sent, NoProcessIsUnwatched
<1> QED
  BY <1>1, TypeInit, TypeStep, WatchStep, PTL DEF Spec
===============================================================================
