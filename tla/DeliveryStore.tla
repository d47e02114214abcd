---------------------------- MODULE DeliveryStore ----------------------------
(***************************************************************************)
(* Executions and their leases as PostgreSQL keeps them                    *)
(* (packages/database/src/postgres/PostgresControlPlaneStore.ts), driven   *)
(* by the one production worker and by the dashboard.                      *)
(*                                                                         *)
(* The first part is the repository: one action per transaction, with only *)
(* the guards the SQL has.  The second part is the discipline of its       *)
(* clients: the worker owns one execution slot and calls markDispatched,   *)
(* markRunning, heartbeat and complete for the execution in that slot      *)
(* only; reconciliation completes executions nobody drives; the dashboard  *)
(* can only ask for a cancellation.  GithubDelivery, the detailed worker,  *)
(* is shown to keep that discipline.                                       *)
(***************************************************************************)
CONSTANTS
    Executions,   \* execution identities (random UUIDs: never reused)
    Items,        \* GitHub work items: project and issue number, the lease key
    Summaries,    \* what a completion records for the scheduler to read back
    None          \* absence of an item, an execution or a summary

ASSUME NoneIsDistinct ==
    /\ None \notin Executions
    /\ None \notin Items
    /\ None \notin Summaries

VARIABLES
    execStatus,       \* executions.status, "absent" before the row exists
    execWork,         \* executions.work_ref
    cancelRequested,  \* executions.cancel_requested
    resultSummary,    \* executions.result_summary
    lease,            \* the execution's lease row: "none", "held" or "released"
    leaseExpired,     \* expires_at of the lease is in the past
    slot              \* the execution the worker process drives, or None

rowVars == <<execStatus, execWork, cancelRequested, resultSummary, lease, leaseExpired>>
storeVars == <<rowVars, slot>>

InFlight == {"leased", "dispatched", "running"}
Terminal == {"succeeded", "failed", "cancelled", "unknown"}

IsInFlight(e) == execStatus[e] \in InFlight
IsTerminal(e) == execStatus[e] \in Terminal
Held(w) == {e \in Executions : lease[e] = "held" /\ execWork[e] = w}

StoreTypeOK ==
    /\ execStatus \in [Executions -> {"absent"} \union InFlight \union Terminal]
    /\ execWork \in [Executions -> Items \union {None}]
    /\ cancelRequested \in [Executions -> BOOLEAN]
    /\ resultSummary \in [Executions -> Summaries \union {None}]
    /\ lease \in [Executions -> {"none", "held", "released"}]
    /\ leaseExpired \in [Executions -> BOOLEAN]
    /\ slot \in Executions \union {None}

StoreInit ==
    /\ execStatus = [e \in Executions |-> "absent"]
    /\ execWork = [e \in Executions |-> None]
    /\ cancelRequested = [e \in Executions |-> FALSE]
    /\ resultSummary = [e \in Executions |-> None]
    /\ lease = [e \in Executions |-> "none"]
    /\ leaseExpired = [e \in Executions |-> FALSE]
    /\ slot = None

-----------------------------------------------------------------------------
(* The repository.                                                         *)

InsertLeasedExecution(e, w) ==
    /\ execStatus' = [execStatus EXCEPT ![e] = "leased"]
    /\ execWork' = [execWork EXCEPT ![e] = w]
    /\ lease' = [lease EXCEPT ![e] = "held"]
    /\ UNCHANGED <<cancelRequested, resultSummary, leaseExpired>>

\* A lease insert without the partial unique index on active lease keys.
ScheduleIgnoringHeldLeases(e, w) ==
    /\ execStatus[e] = "absent"
    /\ InsertLeasedExecution(e, w)

(* scheduleWithLease: the execution row, its lease and the status "leased" *)
(* in one transaction; a held lease on the key rolls everything back.      *)
ScheduleWithLease(e, w) ==
    /\ execStatus[e] = "absent"
    /\ Held(w) = {}
    /\ InsertLeasedExecution(e, w)

(* updateInFlightStatus: no guard on the present status.                   *)
UpdateInFlightStatus(e, s) ==
    /\ execStatus[e] # "absent"
    /\ execStatus' = [execStatus EXCEPT ![e] = s]
    /\ UNCHANGED <<execWork, cancelRequested, resultSummary, lease, leaseExpired>>

MarkDispatched(e) == UpdateInFlightStatus(e, "dispatched")
MarkRunning(e) == UpdateInFlightStatus(e, "running")

\* A completion that writes the status first and forgets the lease.
CompleteKeepingLease(e, s, summary) ==
    /\ IsInFlight(e)
    /\ execStatus' = [execStatus EXCEPT ![e] = s]
    /\ resultSummary' = [resultSummary EXCEPT ![e] = summary]
    /\ UNCHANGED <<execWork, cancelRequested, lease, leaseExpired>>

(* complete: status, summary and release in one transaction.  A completion *)
(* of a terminal execution either repeats it (nothing changes) or throws.  *)
Complete(e, s, summary) ==
    /\ IsInFlight(e)
    /\ execStatus' = [execStatus EXCEPT ![e] = s]
    /\ resultSummary' = [resultSummary EXCEPT ![e] = summary]
    /\ lease' = [lease EXCEPT ![e] = "released"]
    /\ UNCHANGED <<execWork, cancelRequested, leaseExpired>>

RequestCancel(e) ==
    /\ IsInFlight(e)
    /\ cancelRequested' = [cancelRequested EXCEPT ![e] = TRUE]
    /\ UNCHANGED <<execStatus, execWork, resultSummary, lease, leaseExpired>>

(* heartbeat: only a lease that is not released can be renewed, expired or *)
(* not.                                                                    *)
Heartbeat(e) ==
    /\ lease[e] = "held"
    /\ leaseExpired' = [leaseExpired EXCEPT ![e] = FALSE]
    /\ UNCHANGED <<execStatus, execWork, cancelRequested, resultSummary, lease>>

(* Time passes expires_at.                                                 *)
LeaseExpires(e) ==
    /\ lease[e] = "held"
    /\ leaseExpired' = [leaseExpired EXCEPT ![e] = TRUE]
    /\ UNCHANGED <<execStatus, execWork, cancelRequested, resultSummary, lease>>

(* listReconciliationCandidates, without the executions already "unknown". *)
ReconciliationCandidates ==
    {e \in Executions : IsInFlight(e) /\ lease[e] = "held" /\ leaseExpired[e]}

(* Active executions old enough to be tested for missing workflow          *)
(* evidence by reconcileMissingWorkflowStarts.                             *)
StartedExecutions == {e \in Executions : execStatus[e] \in {"dispatched", "running"}}

-----------------------------------------------------------------------------
(* Its clients.                                                            *)

WorkerSchedules(e, w) ==
    /\ slot = None
    /\ ScheduleWithLease(e, w)
    /\ slot' = e

WorkerMarks(e) ==
    /\ slot = e
    /\ \/ execStatus[e] = "leased" /\ MarkDispatched(e)
       \/ execStatus[e] = "dispatched" /\ MarkRunning(e)
    /\ UNCHANGED slot

WorkerRenews(e) ==
    /\ slot = e
    /\ Heartbeat(e)
    /\ UNCHANGED slot

(* The transaction commits; its answer reaches the worker, which moves on, *)
(* or is lost, and the worker still holds the slot.                        *)
WorkerCompletes(e, s, summary) ==
    /\ slot = e
    /\ Complete(e, s, summary)
    /\ slot' \in {slot, None}

(* The worker process dies, or the cycle throws.                           *)
WorkerLeaves ==
    /\ slot # None
    /\ slot' = None
    /\ UNCHANGED rowVars

ReconcilerCompletes(e) ==
    /\ slot = None
    /\ e \in ReconciliationCandidates \union StartedExecutions
    /\ Complete(e, "unknown", None)
    /\ UNCHANGED slot

DashboardCancels(e) == RequestCancel(e) /\ UNCHANGED slot

TimePasses(e) == LeaseExpires(e) /\ UNCHANGED slot

StoreNext ==
    \/ WorkerLeaves
    \/ \E e \in Executions :
        \/ \E w \in Items : WorkerSchedules(e, w)
        \/ WorkerMarks(e)
        \/ WorkerRenews(e)
        \/ \E s \in Terminal, summary \in Summaries \union {None} :
              WorkerCompletes(e, s, summary)
        \/ ReconcilerCompletes(e)
        \/ DashboardCancels(e)
        \/ TimePasses(e)

StoreSpec == StoreInit /\ [][StoreNext]_storeVars

-----------------------------------------------------------------------------
(* Properties.                                                             *)

(* A lease is held exactly as long as its execution is in flight: nothing  *)
(* finished blocks its issue, and nothing in flight is unprotected.        *)
LeaseHeldIffInFlight ==
    \A e \in Executions : lease[e] = "held" <=> IsInFlight(e)

(* Two executions of one issue are never in flight together, through any   *)
(* sequence of crashes, expiries, reconciliations and new schedules.       *)
OneLiveExecutionPerItem ==
    \A e, f \in Executions :
        IsInFlight(e) /\ IsInFlight(f) /\ execWork[e] = execWork[f] => e = f

(* What a terminal execution says is never rewritten: not its status, not  *)
(* the summary the scheduler reads back, not its released lease.           *)
TerminalIsFinal ==
    [][\A e \in Executions : IsTerminal(e) =>
          /\ execStatus'[e] = execStatus[e]
          /\ resultSummary'[e] = resultSummary[e]
          /\ lease'[e] = lease[e]]_storeVars

(* The tables keep the promise of WorkLease: an execution in flight is a   *)
(* live attempt at its issue.                                              *)
AttemptOf(e) ==
    IF execStatus[e] = "absent" THEN "none"
    ELSE IF IsInFlight(e) THEN "live" ELSE "over"

Attempts == INSTANCE WorkLease
    WITH attempt <- [e \in Executions |-> AttemptOf(e)], target <- execWork

KeepsWorkLease == Attempts!WL_Spec
=============================================================================
