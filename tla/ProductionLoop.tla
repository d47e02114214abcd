---------------------------- MODULE ProductionLoop ----------------------------
(* The production worker: the wake coordinator that merges notifications,    *)
(* the main loop that takes one event at a time, the quota refresh in front  *)
(* of every dispatch, and the choice between a manual task and a GitHub      *)
(* cycle.  What a task or a cycle does is modelled by ManualTasks and        *)
(* GithubDelivery; here a cycle looks at projects and a task is finished.    *)
EXTENDS Naturals, Sequences

CONSTANTS
    Projects,
    None,
    MaxTurns        \* bound of the runs: everything the environment does to the worker

ASSUME ProjectsAssumption == None \notin Projects /\ MaxTurns \in Nat

VARIABLES
    pending, waiter, flush,     \* the coordinator: merged event, wait() at work, microtask queued
    inbox,                      \* notifications on the listening connection, in order
    pc, event,                  \* the main loop and the event it took
    cached,                     \* the quota coordinator's last observation
    mode, stored,               \* rows: scheduler_mode, the latest quota snapshot
    stale, tasks,               \* GitHub changes no cycle has looked at; queued manual tasks
    usage,                      \* what the provider would answer
    lastRead,                   \* history: the level of the provider's last answer
    dropped, behind,            \* history: it is not persisted; the row is newer than cached
    turns

coordinator == <<pending, waiter, flush>>
quota == <<cached, stored, lastRead, dropped, behind>>
world == <<mode, stale, tasks, usage>>
vars == <<coordinator, inbox, pc, event, quota, world, turns>>

Events == [reason : {"startup", "quota-refresh", "reconcile", "project", "periodic"},
           project : Projects \union {None}, full : BOOLEAN]
Levels == {"normal", "draining", "blocked"}
(* An observation is due once its window has reset, and stale, if not    *)
(* expired, some time after it was made.                                 *)
Snapshots == [level : Levels, age : {"fresh", "due", "stale"}]
Dispatching == {"manual", "cycle"}

\* What is absent is neither an event nor an observation.
ASSUME NothingIsSomething == None \notin Events \union Snapshots \union Levels

TypeOK ==
    /\ pending \in Events \union {None} /\ waiter \in BOOLEAN /\ flush \in BOOLEAN
    /\ inbox \in Seq(Events)
    /\ pc \in {"down", "recovered", "waiting", "taken",
              "refresh", "read", "persist", "prune"} \union Dispatching
    /\ event \in Events \union {None}
    /\ cached \in Snapshots \union {None} /\ stored \in Snapshots \union {None}
    /\ mode \in {"running", "paused"}
    /\ stale \in [Projects -> BOOLEAN] /\ tasks \in Nat /\ usage \in Levels
    /\ lastRead \in Levels \union {None} /\ dropped \in BOOLEAN /\ behind \in BOOLEAN
    /\ turns \in 0..MaxTurns
    /\ waiter => pc = "waiting"
    /\ pc \notin {"down", "recovered", "waiting"} => event # None

Init ==
    /\ pending = None /\ waiter = FALSE /\ flush = FALSE /\ inbox = <<>>
    /\ pc = "down" /\ event = None
    /\ cached = None /\ stored = None
    /\ mode = "running" /\ stale = [p \in Projects |-> TRUE] /\ tasks = 0
    /\ usage = "normal" /\ lastRead = None /\ dropped = FALSE /\ behind = FALSE
    /\ turns = 0

Turn == turns < MaxTurns /\ turns' = turns + 1
Wakeup(reason, project, full) == [reason |-> reason, project |-> project, full |-> full]

-----------------------------------------------------------------------------
(* WorkerWakeCoordinator.                                                  *)

(* The later reason wins, a project is kept unless another one replaces it, *)
(* a full reconcile is never lost; a forced quota refresh is, with its reason. *)
Merged(e) ==
    IF pending = None THEN e
    ELSE [reason |-> e.reason,
          project |-> IF e.project # None THEN e.project ELSE pending.project,
          full |-> pending.full \/ e.full]

WakeWith(e) ==
    /\ pending' = Merged(e) /\ flush' = TRUE

Take(e) ==
    /\ event' = e /\ pc' = "taken"

\* wait() takes what is pending, or becomes the waiter with a timer.
Wait ==
    /\ pc = "recovered"
    /\ IF pending # None
       THEN Take(pending) /\ pending' = None /\ UNCHANGED waiter
       ELSE waiter' = TRUE /\ pc' = "waiting" /\ UNCHANGED <<pending, event>>
    /\ UNCHANGED <<flush, inbox, quota, world, turns>>

\* The microtask hands the merged event to the waiter, if there is one.
Flush ==
    /\ flush /\ flush' = FALSE
    /\ IF waiter /\ pending # None
       THEN Take(pending) /\ pending' = None /\ waiter' = FALSE
       ELSE UNCHANGED <<pending, waiter, event, pc>>
    /\ UNCHANGED <<inbox, quota, world, turns>>

(* The timer of wait(), set to the reconcile interval or to the reset of a  *)
(* blocked quota.  Timers run after the microtasks.                        *)
Timeout ==
    /\ waiter /\ ~flush
    /\ Take(Wakeup("periodic", None, TRUE)) /\ waiter' = FALSE
    /\ UNCHANGED <<pending, flush, inbox, quota, world, turns>>

\* The listener wakes the coordinator.  Microtasks run before the next message.
Notified ==
    /\ inbox # <<>> /\ ~flush
    /\ WakeWith(Head(inbox)) /\ inbox' = Tail(inbox)
    /\ UNCHANGED <<waiter, pc, event, quota, world, turns>>

-----------------------------------------------------------------------------
(* main(): startup and loop.                                               *)

(* The executions are reconciled before LISTEN; the startup wake asks for a *)
(* full reconcile; projects, an interrupted task and workspaces are         *)
(* recovered while notifications already arrive.                            *)
Start ==
    /\ pc = "down" /\ pc' = "recovered"
    /\ WakeWith(Wakeup("startup", None, TRUE))
    /\ UNCHANGED <<waiter, inbox, event, quota, world, turns>>

\* Back to wait(), the event gone.
Loop ==
    /\ pc' = "recovered" /\ event' = None

\* The loop skips the event unless the scheduler runs.
ReadMode ==
    /\ pc = "taken"
    /\ IF mode = "running" THEN pc' = "refresh" /\ UNCHANGED event ELSE Loop
    /\ UNCHANGED <<coordinator, inbox, quota, world, turns>>

(* The answer just read becomes the latest row, ahead of what the process    *)
(* holds, if it holds one.                                                 *)
Observation == [level |-> lastRead, age |-> "fresh"]
Appended ==
    stored' = Observation /\ dropped' = FALSE /\ behind' = (cached # None)

\* An append that is cut off may have been committed.
MayAppend ==
    \/ UNCHANGED <<stored, dropped, behind>>
    \/ pc = "persist" /\ Appended

\* The process exits with its memory: settings.get failed, or it is killed.
Crash ==
    /\ pc # "down" /\ Turn
    /\ pc' = "down" /\ event' = None /\ inbox' = <<>>
    /\ pending' = None /\ waiter' = FALSE /\ flush' = FALSE
    /\ cached' = None /\ behind' = FALSE
    /\ \/ UNCHANGED <<stored, dropped>>
       \/ pc = "persist" /\ stored' = Observation /\ dropped' = FALSE
    /\ UNCHANGED <<lastRead, world>>

\* A call of the cycle throws: worker.cycle-failed, and the event is gone.
CycleFails ==
    /\ pc \in {"refresh", "read", "persist", "prune"} \union Dispatching /\ Turn /\ Loop
    /\ MayAppend
    /\ UNCHANGED <<coordinator, inbox, cached, lastRead, world>>

-----------------------------------------------------------------------------
(* QuotaRefreshCoordinator.refresh.                                        *)

\* A reset time that is taken for a new window.
CanStartAfterReset(s) ==
    s # None /\ s.age # "stale" /\ (s.level = "blocked" => s.age = "due")

\* evaluateQuota: a stale snapshot is unknown, which may not start work.
CanStart(s) == s # None /\ s.age # "stale" /\ s.level # "blocked"
RefreshRequired(s) == s.age = "stale" \/ (s.age = "due" /\ s.level # "normal")

(* runOnce returns "quota-blocked" before it looks at anything else.       *)
Decide(s) ==
    IF CanStart(s) THEN pc' = "manual" /\ UNCHANGED event ELSE Loop

Latest == IF cached # None THEN cached ELSE stored

\* The force flag is the reason of the merged event.
Forced == event.reason = "quota-refresh"

\* The cached observation answers, or the provider is read.
Refresh ==
    /\ pc = "refresh"
    /\ IF ~Forced /\ cached # None /\ ~RefreshRequired(cached)
       THEN Decide(cached)
       ELSE pc' = "read" /\ UNCHANGED event
    /\ UNCHANGED <<coordinator, inbox, quota, world, turns>>

(* The App Server handshake answers within its timeout.  asOf is taken      *)
(* before the read, so nothing ages meanwhile.                             *)
Read ==
    /\ pc = "read" /\ pc' = "persist"
    /\ lastRead' = usage /\ dropped' = TRUE
    /\ UNCHANGED <<coordinator, inbox, event, cached, stored, behind, world, turns>>

\* The observation is appended.
Store ==
    /\ pc = "persist" /\ pc' = "prune"
    /\ Appended
    /\ UNCHANGED <<coordinator, inbox, event, cached, lastRead, world, turns>>

\* Old observations are deleted; only then is this one cached and evaluated.
Prune ==
    /\ pc = "prune"
    /\ cached' = Observation /\ behind' = FALSE /\ Decide(Observation)
    /\ UNCHANGED <<coordinator, inbox, stored, lastRead, dropped, world, turns>>

(* An error of the provider, of the append or of the deletion falls back to  *)
(* the last observation the process holds, and to the row only without one. *)
FallBack ==
    /\ pc \in {"read", "persist", "prune"} /\ Turn
    /\ UNCHANGED <<coordinator, inbox, cached, lastRead, world>>
    /\ MayAppend
    /\ Decide(Latest')

-----------------------------------------------------------------------------
(* UnifiedProductionWorker.runOnce.                                        *)

\* Tasks that only a notification runs.
ManualWhenNotified ==
    /\ pc = "manual"
    /\ IF tasks > 0 /\ event.reason # "periodic"
       THEN tasks' = tasks - 1 /\ Loop ELSE pc' = "cycle" /\ UNCHANGED <<tasks, event>>
    /\ UNCHANGED <<coordinator, inbox, quota, mode, stale, usage, turns>>

\* One durable task wins over the event that woke the worker.
Manual ==
    /\ pc = "manual"
    /\ IF tasks > 0 THEN tasks' = tasks - 1 /\ Loop ELSE pc' = "cycle" /\ UNCHANGED <<tasks, event>>
    /\ UNCHANGED <<coordinator, inbox, quota, mode, stale, usage, turns>>

\* A cycle that looks at the event's project only.
LookedAtOne == {event.project} \ {None}

\* A full cycle looks at every project, a targeted one at one, the others at none.
Looked == {p \in Projects : event.full \/ event.project = p}

Cycle ==
    /\ pc = "cycle" /\ Loop
    /\ stale' = [p \in Projects |-> stale[p] /\ p \notin Looked]
    /\ UNCHANGED <<coordinator, inbox, quota, mode, tasks, usage, turns>>

Worker ==
    \/ Start \/ Wait \/ Flush \/ Notified
    \/ ReadMode \/ Refresh \/ Read \/ Store \/ Prune \/ Manual \/ Cycle

-----------------------------------------------------------------------------
(* The environment: operators, GitHub, the provider and time.               *)

\* pg_notify reaches the sessions that listen when it commits.
Signal(e) ==
    inbox' = IF pc = "down" THEN inbox ELSE Append(inbox, e)

Environment(changed) ==
    /\ Turn
    /\ UNCHANGED <<coordinator, pc, event, lastRead, dropped, behind>>
    /\ changed

\* An issue or a pull request changes; the webhook may not reach the dashboard.
GithubChanges(p) ==
    Environment(/\ stale' = [stale EXCEPT ![p] = TRUE]
                /\ Signal(Wakeup("project", p, FALSE)) \/ UNCHANGED inbox
                /\ UNCHANGED <<mode, tasks, usage, cached, stored>>)

\* A task is created, a reconcile is commanded, a quota refresh is asked for.
Asks ==
    Environment(/\ \/ tasks' = tasks + 1 /\ Signal(Wakeup("project", None, FALSE))
                   \/ UNCHANGED tasks /\ Signal(Wakeup("reconcile", None, TRUE))
                   \/ UNCHANGED tasks /\ Signal(Wakeup("quota-refresh", None, FALSE))
                /\ UNCHANGED <<mode, stale, usage, cached, stored>>)

\* global.pause; global.resume wakes nobody.
Pause ==
    Environment(mode = "running" /\ mode' = "paused"
                /\ UNCHANGED <<inbox, stale, tasks, usage, cached, stored>>)
Resume ==
    /\ mode = "paused" /\ mode' = "running"
    /\ UNCHANGED <<coordinator, inbox, pc, event, quota, stale, tasks, usage, turns>>

Consume ==
    Environment(/\ \E level \in Levels \ {usage} : usage' = level
                /\ UNCHANGED <<inbox, mode, stale, tasks, cached, stored>>)
\* The provider's window is reset.
Recover ==
    /\ usage = "blocked" /\ usage' = "normal"
    /\ UNCHANGED <<coordinator, inbox, pc, event, quota, mode, stale, tasks, turns>>

\* Snapshots pass their reset time, then their freshness.
Older(s) ==
    IF s = None THEN None ELSE [s EXCEPT !.age = IF @ = "fresh" THEN "due" ELSE "stale"]
Age ==
    /\ pc \notin {"read", "persist", "prune"}
    /\ cached' = Older(cached) /\ stored' = Older(stored)
    /\ <<cached, stored>>' # <<cached, stored>>
    /\ UNCHANGED <<coordinator, inbox, pc, event, lastRead, dropped, behind, world, turns>>

Next ==
    \/ Worker \/ Timeout \/ Crash \/ CycleFails \/ FallBack
    \/ (\E p \in Projects : GithubChanges(p)) \/ Asks
    \/ Pause \/ Resume \/ Consume \/ Recover \/ Age

(* Node runs what is ready; timers fire and time passes; a paused scheduler *)
(* is resumed and the provider's window resets.                             *)
Fairness ==
    /\ WF_vars(Worker) /\ WF_vars(Timeout)
    /\ WF_vars(Resume) /\ WF_vars(Recover) /\ WF_vars(Age)

Spec == Init /\ [][Next]_vars /\ Fairness

-----------------------------------------------------------------------------
(* Properties.                                                             *)

(* The quota gate is durable: no dispatch follows an answer of the provider  *)
(* that refused work, whatever restarts, failing reads and ageing snapshots *)
(* lie between.  Two cases are excepted, each by name.  The answer was never *)
(* persisted (dropped).  Or it was, but the call after the append failed and *)
(* this process still goes by the older observation it holds (behind): the  *)
(* row refuses, the worker dispatches, until it restarts or the next read.  *)
BlockIsObeyed ==
    pc \in Dispatching /\ ~dropped /\ ~behind => lastRead # "blocked"

(* The periodic reconcile is authoritative: a change on GitHub is looked at *)
(* although its notification was lost, merged away, or dropped by a pause,  *)
(* a blocked quota or a manual task.                                        *)
ChangesAreSeen ==
    \A p \in Projects : stale[p] ~> ~stale[p]

\* A manual task that is queued is run, although its notification was lost.
TasksRun ==
    tasks > 0 ~> tasks = 0
=============================================================================
