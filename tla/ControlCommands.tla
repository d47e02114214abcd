--------------------------- MODULE ControlCommands ---------------------------
(* Control commands: the dashboard's control endpoint and the GitHub webhook *)
(* that submit them, the pipeline that validates, records, authorizes,       *)
(* applies and reports a command, and the tables it writes.                  *)
(*                                                                           *)
(* Every request is a handler of its own.  Each call to the database or to   *)
(* GitHub is one step, so handlers interleave between calls; a call may fail *)
(* with or without having taken effect, and the server may crash.            *)
EXTENDS WebhookRouting

CONSTANTS
    Requests,       \* HTTP requests, each answered once
    Commands,       \* what the dashboard may submit: [key, type, option]
    Options,        \* the answers the decision offers
    MaxFaults       \* bound of the runs: failing calls and crashes

\* Every command a request can bring, and the idempotency keys they carry.
AllCommands == Commands \union
    {Delivery[d].command : d \in {e \in Deliveries : Delivery[e].kind = "command"}}
Keys == {c.key : c \in AllCommands}

ASSUME ControlAssumption ==
    /\ None \notin Requests /\ None \notin Deliveries /\ None \notin AllCommands
    /\ None \notin {"applied", "processed"}
    /\ \A c, e \in AllCommands : c.key = e.key => c = e
    /\ MaxFaults \in Nat

VARIABLES
    commands,       \* control_commands by idempotency key: the status
    deliveries,     \* github_deliveries: status and command of each
    control,        \* the rows the commands are about
    audit,          \* audit_events about commands
    signals,        \* reasons sent on the wake-up channel
    pc, job,        \* the request handlers
    applications,   \* history: how often each command changed something
    disturbed,      \* history: keys whose receipt lost track of the application
    faults

tables == <<commands, deliveries, control, audit, signals>>
history == <<applications, disturbed>>
vars == <<tables, pc, job, history, faults>>

Types == {"project.pause", "project.resume", "project.reprioritize", "global.pause",
          "global.resume", "global.safe-mode", "github.reconcile", "runner.drain",
          "runner.disable", "runner.enable", "execution.safe-retry", "execution.cancel",
          "ade.decide"}
Statuses == {"received", "authorized", "rejected", "applied", "failed"}
Reasons == {"github-reconcile-requested", "execution-cancel-requested",
            "ade-decision-resolved", "github-webhook"}
Answered == {"applied", "denied", "error", "duplicate", "ignored", "dead"}
Places == {"idle", "route", "serve", "validate", "record", "audit authorized",
           "mark authorized", "apply", "signal", "mark applied", "audit applied",
           "mark failed", "audit failed", "record rejected", "mark rejected",
           "audit rejected", "processed", "acknowledge", "wake", "refused", "explain",
           "audit denied", "deny"} \union Answered

Controls == [project : {"enabled", "paused"}, priority : {"default", "changed"},
             mode : {"running", "paused", "safe_mode"},
             runner : {"online", "draining", "disabled"},
             decision : {"absent", "open", "resolved"}, answer : Options \union {None},
             execution : {"running", "succeeded", "refused"}, cancelRequested : BOOLEAN]

TypeOK ==
    /\ commands \in [Keys -> Statuses \union {None}]
    /\ deliveries \in [Deliveries -> {None, "received", "ignored", "rejected", "processed"}]
    /\ control \in Controls
    /\ audit \subseteq Keys \X {"authorized", "applied", "failed", "rejected"}
    /\ signals \subseteq Reasons
    /\ pc \in [Requests -> Places]
    /\ job \in [Requests -> [command : AllCommands \union {None},
                             delivery : Deliveries \union {None}]]
    /\ applications \in [Keys -> Nat] /\ disturbed \subseteq Keys
    /\ faults \in 0..MaxFaults

Init ==
    /\ commands = [k \in Keys |-> None]
    /\ deliveries = [d \in Deliveries |-> None]
    /\ control \in {c \in Controls : c = [project |-> "enabled", priority |-> "default",
          mode |-> "running", runner |-> "online", decision |-> "absent", answer |-> None,
          execution |-> "running", cancelRequested |-> FALSE]}
    /\ audit = {} /\ signals = {}
    /\ pc = [r \in Requests |-> "idle"]
    /\ job = [r \in Requests |-> [command |-> None, delivery |-> None]]
    /\ applications = [k \in Keys |-> 0] /\ disturbed = {}
    /\ faults = 0

Command(r) == job[r].command
Key(r) == Command(r).key
FromGithub(r) == job[r].delivery # None
Goes(r, place) == pc' = [pc EXCEPT ![r] = place]

-----------------------------------------------------------------------------
(* What the calls of a handler do.                                         *)

SetStatus(k, status) ==
    /\ commands' = [commands EXCEPT ![k] = status]
    /\ UNCHANGED <<deliveries, control, audit, signals, applications>>

\* recordReceipt inserts a row unless the key has one already.
RecordReceipt(k) == SetStatus(k, IF commands[k] = None THEN "received" ELSE commands[k])

Audit(k, result) ==
    /\ audit' = audit \union {<<k, result>>}
    /\ UNCHANGED <<commands, deliveries, control, signals, applications>>

SetOutcome(d, status) ==
    /\ deliveries' = [deliveries EXCEPT ![d] = status]
    /\ UNCHANGED <<commands, control, audit, signals, applications>>

Signal(reason) ==
    /\ signals' = signals \union {reason}
    /\ UNCHANGED <<commands, deliveries, control, audit, applications>>

NoEffect == UNCHANGED <<tables, applications>>

(* Whether applying c writes its row: a decision is resolved once, only an *)
(* active execution takes a cancellation.                                  *)
Writes(c) ==
    /\ c.type = "ade.decide" => control.decision = "open"
    /\ c.type = "execution.cancel" => control.execution = "running"
    /\ c.type \notin {"execution.safe-retry", "github.reconcile"}

Changed(c) ==
    CASE c.type = "project.pause" -> [control EXCEPT !.project = "paused"]
      [] c.type = "project.resume" -> [control EXCEPT !.project = "enabled"]
      [] c.type = "project.reprioritize" -> [control EXCEPT !.priority = "changed"]
      [] c.type = "global.pause" -> [control EXCEPT !.mode = "paused"]
      [] c.type = "global.resume" -> [control EXCEPT !.mode = "running"]
      [] c.type = "global.safe-mode" -> [control EXCEPT !.mode = "safe_mode"]
      [] c.type = "runner.drain" -> [control EXCEPT !.runner = "draining"]
      [] c.type = "runner.disable" -> [control EXCEPT !.runner = "disabled"]
      [] c.type = "runner.enable" -> [control EXCEPT !.runner = "online"]
      [] c.type = "execution.cancel" -> [control EXCEPT !.cancelRequested = TRUE]
      [] c.type = "ade.decide" -> [control EXCEPT !.decision = "resolved", !.answer = c.option]

\* The wake-up a command that took effect is followed by.
WakeReason(c) ==
    CASE c.type = "github.reconcile" -> "github-reconcile-requested"
      [] c.type = "execution.cancel" -> "execution-cancel-requested"
      [] c.type = "ade.decide" -> "ade-decision-resolved"
      [] OTHER -> None

\* The wake-up is all a reconciliation asks for.
IsSignal(c) == c.type = "github.reconcile"
SignalsAfter(c) == WakeReason(c) # None /\ Writes(c)

(* Nothing is left for c to do, now or later: the decision was answered, by *)
(* this command or another, the execution has ended, or it is a safe retry, *)
(* whose receipt is all it leaves.                                         *)
Settled(c) ==
    \/ c.type = "ade.decide" /\ control.decision = "resolved"
    \/ c.type = "execution.cancel" /\ control.execution # "running"
    \/ c.type = "execution.safe-retry"

ApplyEffect(c) ==
    /\ control' = IF Writes(c) THEN Changed(c) ELSE control
    /\ signals' = IF IsSignal(c) THEN signals \union {WakeReason(c)} ELSE signals
    /\ applications' = IF Writes(c) \/ IsSignal(c)
                       THEN [applications EXCEPT ![c.key] = @ + 1] ELSE applications
    /\ UNCHANGED <<commands, deliveries, audit>>

(* Where a failing call leaves the receipt of a command that was or may be *)
(* applied at another status: the validation of a replay turns applied to  *)
(* rejected, everything from the effect on ends in failed.  A crash forgets *)
(* what was applied between the effect and the receipt.                    *)
Forgetful == {"validate", "apply", "signal", "mark applied", "audit applied"}
Unrecorded == {"signal", "mark applied"}

(* One call of handler r: it answers and the handler goes on, or it fails, *)
(* after or before its effect, and the handler takes its error path.       *)
Answers(r, effect, ok) ==
    effect /\ Goes(r, ok) /\ UNCHANGED <<job, disturbed, faults>>
Fails(r, effect, failed) ==
    /\ faults < MaxFaults /\ faults' = faults + 1
    /\ effect \/ NoEffect
    /\ Goes(r, failed)
    /\ disturbed' = IF pc[r] \in Forgetful THEN disturbed \union {Key(r)} ELSE disturbed
    /\ UNCHANGED job
Call(r, place, effect, ok, failed) ==
    pc[r] = place /\ (Answers(r, effect, ok) \/ Fails(r, effect, failed))

-----------------------------------------------------------------------------
(* The entries.                                                            *)

(* POST /api/control: a request that is not authenticated, not allowed to  *)
(* mutate or of another origin leaves an audit record only.                *)
Submit(r, c, allowed) ==
    /\ pc[r] = "idle"
    /\ IF allowed
       THEN job' = [job EXCEPT ![r].command = c] /\ Goes(r, "validate")
       ELSE UNCHANGED job /\ Goes(r, "denied")
    /\ UNCHANGED <<tables, history, faults>>

\* The unique delivery_id admits one insert.
IsNew(d) == deliveries[d] = None

(* POST /api/github/webhook: what cannot be verified leaves no trace, else *)
(* the insert of the delivery's row decides who handles it.                *)
Deliver(r, d) ==
    /\ pc[r] = "idle" /\ Accepted(d)
    /\ IF IsNew(d)
       THEN /\ deliveries' = [deliveries EXCEPT ![d] = "received"]
            /\ job' = [job EXCEPT ![r].delivery = d] /\ Goes(r, "route")
       ELSE UNCHANGED <<deliveries, job>> /\ Goes(r, "duplicate")
    /\ UNCHANGED <<commands, control, audit, signals, history, faults>>
Refused(r, d) ==
    /\ pc[r] = "idle" /\ ~Accepted(d)
    /\ Goes(r, "denied")
    /\ UNCHANGED <<tables, job, history, faults>>

\* Where an event leads: nothing to do, a stranger or an error, a query or a
\* refresh, a command.
Leads(event) ==
    CASE event.kind = "nothing" -> "ignored"
      [] event.kind # "nothing" /\ ~event.admitted -> "audit denied"
      [] event.kind \in {"issues", "status"} /\ event.admitted -> "serve"
      [] event.kind = "command" /\ event.admitted -> "validate"

(* The project is looked up, the event is read and its sender is checked.  *)
Route(r) ==
    LET event == Delivery[job[r].delivery] IN
    /\ pc[r] = "route"
    /\ Goes(r, Leads(event))
    /\ IF Leads(event) = "ignored" THEN SetOutcome(job[r].delivery, "ignored") ELSE NoEffect
    /\ IF Leads(event) = "validate"
       THEN job' = [job EXCEPT ![r].command = event.command]
       ELSE UNCHANGED job
    /\ UNCHANGED <<disturbed, faults>>

\* The lookup fails.
RouteFails(r) ==
    /\ pc[r] = "route" /\ faults < MaxFaults /\ faults' = faults + 1
    /\ Goes(r, "audit denied")
    /\ UNCHANGED <<tables, job, history>>

(* Issue and pull-request events refresh the project's work items; @ade    *)
(* status is answered by a comment and an audit record.                    *)
Serve(r) == Call(r, "serve", NoEffect, "processed", "audit denied")

-----------------------------------------------------------------------------
(* submitControlCommand.                                                   *)

\* An exception that is swallowed on the way to the webhook's ending.
ThrowsNothing(r) == IF FromGithub(r) THEN "processed" ELSE "error"

\* What follows an exception, at the entry the handler came through.
Throws(r) == IF FromGithub(r) THEN "refused" ELSE "error"
Succeeds(r) == IF FromGithub(r) THEN "processed" ELSE "applied"

(* resolvePayload recomputes from the rows what the request may not say: an *)
(* active execution is cancelled, a refused one retried, an exposed decision *)
(* answered.                                                               *)
Resolvable(c) ==
    /\ c.type = "execution.cancel" => control.execution = "running"
    /\ c.type = "execution.safe-retry" => control.execution = "refused"
    /\ c.type = "ade.decide" => control.decision # "absent" /\ c.option \in Options

ReadsRows(c) == c.type \in {"execution.cancel", "execution.safe-retry", "ade.decide"}

\* validateCommand knows the type.
Valid(c) == c.type \in Types /\ Resolvable(c)

Validate(r) ==
    /\ pc[r] = "validate"
    /\ \/ Answers(r, NoEffect, IF Valid(Command(r)) THEN "record" ELSE "record rejected")
       \/ ReadsRows(Command(r)) /\ Fails(r, NoEffect, "record rejected")

RecordRejected(r) ==
    Call(r, "record rejected", RecordReceipt(Key(r)), "mark rejected", Throws(r))
MarkRejected(r) ==
    Call(r, "mark rejected", SetStatus(Key(r), "rejected"), "audit rejected", Throws(r))
AuditRejected(r) ==
    Call(r, "audit rejected", Audit(Key(r), "rejected"), Throws(r), Throws(r))

(* The handlers of a command between the reading of its receipt and the    *)
(* writing of its application.                                             *)
Window == {"audit authorized", "mark authorized", "apply", "signal", "mark applied"}
InWindow(s, k) == Command(s) # None /\ Key(s) = k /\ pc[s] \in Window

(* The receipt is no claim: a handler that reads it while another is about  *)
(* to apply the command enters the window as well.                         *)
Enter(r) ==
    /\ RecordReceipt(Key(r)) /\ Goes(r, "audit authorized")
    /\ disturbed' = IF \E s \in Requests : InWindow(s, Key(r))
                    THEN disturbed \union {Key(r)} ELSE disturbed
    /\ UNCHANGED <<job, faults>>

\* Replays that are applied again.
RecordAndApply(r) ==
    pc[r] = "record" /\ (Enter(r) \/ Fails(r, RecordReceipt(Key(r)), Throws(r)))
(* The receipt of a key that was applied answers the request.              *)
Record(r) ==
    /\ pc[r] = "record"
    /\ \/ IF commands[Key(r)] = "applied"
          THEN Answers(r, RecordReceipt(Key(r)), Succeeds(r))
          ELSE Enter(r)
       \/ Fails(r, RecordReceipt(Key(r)), Throws(r))
AuditAuthorized(r) ==
    Call(r, "audit authorized", Audit(Key(r), "authorized"), "mark authorized", Throws(r))
MarkAuthorized(r) ==
    Call(r, "mark authorized", SetStatus(Key(r), "authorized"), "apply", Throws(r))
Apply(r) ==
    Call(r, "apply", ApplyEffect(Command(r)),
         IF SignalsAfter(Command(r)) THEN "signal" ELSE "mark applied", "mark failed")
SignalWake(r) ==
    Call(r, "signal", Signal(WakeReason(Command(r))), "mark applied", "mark failed")
MarkApplied(r) ==
    Call(r, "mark applied", SetStatus(Key(r), "applied"), "audit applied", "mark failed")
AuditApplied(r) ==
    Call(r, "audit applied", Audit(Key(r), "applied"), Succeeds(r), "mark failed")
MarkFailed(r) ==
    Call(r, "mark failed", SetStatus(Key(r), "failed"), "audit failed", Throws(r))
AuditFailed(r) ==
    Call(r, "audit failed", Audit(Key(r), "failed"), Throws(r), Throws(r))

-----------------------------------------------------------------------------
(* The webhook's ending.                                                   *)

(* The exception handler of dispatch also catches a failure of the outcome *)
(* or of the acknowledgement of a command that was applied.                *)
Processed(r) ==
    Call(r, "processed", SetOutcome(job[r].delivery, "processed"),
         IF Command(r) = None THEN "wake" ELSE "acknowledge",
         IF Command(r) = None THEN "audit denied" ELSE "refused")
Acknowledge(r) == Call(r, "acknowledge", NoEffect, "wake", "refused")
Wake(r) == Call(r, "wake", Signal("github-webhook"), "applied", "error")
Refuse(r) ==
    Call(r, "refused", SetOutcome(job[r].delivery, "rejected"), "explain", "audit denied")
Explain(r) == Call(r, "explain", NoEffect, "denied", "audit denied")

\* The outer exception handler.
AuditDenied(r) == Call(r, "audit denied", NoEffect, "deny", "error")
Deny(r) == Call(r, "deny", SetOutcome(job[r].delivery, "rejected"), "denied", "error")

Handle(r) ==
    \/ Route(r) \/ RouteFails(r) \/ Serve(r)
    \/ Validate(r) \/ RecordRejected(r) \/ MarkRejected(r) \/ AuditRejected(r)
    \/ Record(r) \/ AuditAuthorized(r) \/ MarkAuthorized(r) \/ Apply(r) \/ SignalWake(r)
    \/ MarkApplied(r) \/ AuditApplied(r) \/ MarkFailed(r) \/ AuditFailed(r)
    \/ Processed(r) \/ Acknowledge(r) \/ Wake(r) \/ Refuse(r) \/ Explain(r)
    \/ AuditDenied(r) \/ Deny(r)

-----------------------------------------------------------------------------
(* The rest of the system.                                                 *)

\* The server dies with its handlers.
Crash ==
    /\ faults < MaxFaults /\ faults' = faults + 1
    /\ pc' = [r \in Requests |-> IF pc[r] \in Answered \union {"idle"} THEN pc[r] ELSE "dead"]
    /\ disturbed' = disturbed \union
           {Key(r) : r \in {s \in Requests : pc[s] \in Unrecorded}}
    /\ UNCHANGED <<tables, job, applications>>

\* The worker completes the execution, or records the decision ADE asks for.
Worker ==
    /\ \/ /\ control.execution = "running"
          /\ \E s \in {"succeeded", "refused"} : control' = [control EXCEPT !.execution = s]
       \/ control.decision = "absent" /\ control' = [control EXCEPT !.decision = "open"]
    /\ UNCHANGED <<commands, deliveries, audit, signals, pc, job, history, faults>>

Next ==
    \/ \E r \in Requests :
          \/ \E c \in Commands, allowed \in BOOLEAN : Submit(r, c, allowed)
          \/ \E d \in Deliveries : Deliver(r, d) \/ Refused(r, d)
          \/ Handle(r)
    \/ Crash
    \/ Worker

Spec == Init /\ [][Next]_vars

-----------------------------------------------------------------------------
(* Properties.                                                             *)

(* recordReceipt and the applied check of submitControlCommand: however     *)
(* often a request or the comment that carries it is repeated, in parallel  *)
(* or later, the command changes the rows once, unless a call failed where  *)
(* it takes the receipt away from an application (Forgetful, Unrecorded) or *)
(* two handlers were between the receipt and the application at once.      *)
AppliedOnce ==
    \A k \in Keys \ disturbed : applications[k] <= 1

(* A receipt says applied, GitHub's delivery processed and the request is  *)
(* answered as applied only for a command that changed something, now or   *)
(* through an earlier request, or that had nothing left to do: the answer   *)
(* of a decision that has one, the cancellation of an execution that has   *)
(* ended, a safe retry.  That it was this command's answer the decision    *)
(* took is not said.                                                       *)
TookEffect(c) == applications[c.key] > 0 \/ Settled(c)
AppliedOrSettled ==
    /\ \A c \in AllCommands : commands[c.key] = "applied" => TookEffect(c)
    /\ \A d \in Deliveries :
          deliveries[d] = "processed" /\ Delivery[d].kind = "command"
              => TookEffect(Delivery[d].command)
    /\ \A r \in Requests :
          pc[r] = "applied" /\ Command(r) # None => TookEffect(Command(r))

=============================================================================
