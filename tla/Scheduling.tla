----------------------------- MODULE Scheduling -----------------------------
(***************************************************************************)
(* Which issue of which project runs next.  The worker reconciles GitHub   *)
(* into the work projection, chooses a project (packages/core/src/index.ts *)
(* evaluateSchedule) from what it read, and only later leases the chosen   *)
(* issue.  Meanwhile operators order the issue queue, hold issues, remove  *)
(* and readmit them, and pause whatever they like, and the overview page   *)
(* explains the same choice from its own reading of the same rows.         *)
(*                                                                         *)
(* Time is reduced to what the scheduler compares: whether a projection    *)
(* has expired, whether a backoff is over, and the order of successes.  A  *)
(* revision of an issue is reduced to two questions: has this revision     *)
(* been attempted, and is the projected revision still GitHub's.           *)
(***************************************************************************)
EXTENDS Integers, Sequences, FiniteSets, FiniteSetsExt, SequencesExt

CONSTANTS
  Projects,       \* project ids, in the order localeCompare gives them
  Issues,         \* issue numbers
  Owner,          \* the project of an issue
  Priority,       \* the priority its metadata declares
  DependsOn,      \* the issues its metadata names as dependencies
  Admitted,       \* issues whose body carries ready metadata at the start
  Operators,      \* requests of the queue page at work at a time
  Outcomes,       \* bound: how the runs of an issue may end
  MaxPosition,    \* bound: the largest queue position handed out
  Operated,       \* bound: the issues operators and humans act on
  MaxActs         \* bound: actions of operators, humans on GitHub, and faults

ASSUME SchedulingAssumption ==
  /\ Projects \subseteq Nat /\ Issues \subseteq Nat /\ IsFiniteSet(Issues)
  /\ Owner \in [Issues -> Projects]
  /\ Priority \in [Issues -> 0..100] /\ DependsOn \in [Issues -> SUBSET Issues]
  /\ Outcomes \in [Issues -> SUBSET {"succeeded", "failed", "cancelled", "unknown"}]
  /\ Admitted \subseteq Issues /\ Operated \subseteq Issues
  /\ MaxPosition \in Nat /\ MaxActs \in Nat

VARIABLES
  github,         \* issue: what GitHub says of it
  rows,           \* issue: its row of github_work_items
  profile,        \* project: its github_work_profiles row and the age of its rows
  backoff,        \* projects whose reconciliation is deferred (worker memory)
  preference,     \* issue: its row of github_issue_queue_preferences
  requests,       \* the queue page's requests, where each of them is
  removed,        \* issues in github_work_removals
  readmitting,    \* removed issues whose body has been reset, removal still there
  settings,       \* scheduler mode, project states, the runner and the quota
  successes,      \* issues by their last recorded success, oldest first
  worker,         \* what the worker is in the middle of
  acts,           \* how many bounded actions have been taken
  overtaken       \* history: who succeeded while a project stayed eligible

vars == <<github, rows, profile, backoff, preference, requests, removed, readmitting,
          settings, successes, worker, acts, overtaken>>

IssuesOf(p) == {i \in Issues : Owner[i] = p}

States == {"none", "ready", "running", "waiting-human", "blocked", "cancelled",
           "failed", "completed"}
Held == 0          \* run_when_available = false, queue_position NULL
Unset == -1        \* no preference row

(* The decision that a marker and its copies name.  A spent one is resumed  *)
(* by no run: a finished run was, it was deleted, or nobody ever stored it. *)
Decisions == {"none", "open", "resolved", "spent"}

NoRow == [stored |-> FALSE, present |-> FALSE, state |-> "none", asks |-> "none",
          current |-> FALSE, attempted |-> FALSE]
Idle == [step |-> "idle"]
NoRequest == [kind |-> "none", project |-> 0, page |-> <<>>, todo |-> {},
              order |-> <<>>, read |-> FALSE]

Rows == [stored : BOOLEAN, present : BOOLEAN, state : States, asks : Decisions,
         current : BOOLEAN, attempted : BOOLEAN]
\* A reconciliation brings home the rows of its project's issues.  A run resumes
\* the decision of its project, which may be another issue's.
Workers ==
  {Idle} \cup [step : {"fetched"}, project : Projects, seen : [Issues -> Rows]]
         \cup [step : {"chosen"}, issue : Issues, resumes : SUBSET Issues, replaced : BOOLEAN]
         \cup [step : {"running"}, issue : Issues, resumes : SUBSET Issues]
\* The page a request has loaded, which of its issues are still to be stored, the
\* issues to enable in the order wanted, and whether it may store the next one.
Requests ==
  [kind : {"none", "patch", "reorder", "recommendation"}, project : Nat,
   page : Seq(Issues), todo : SUBSET Issues, order : Seq(Issues), read : BOOLEAN]
Settings == [mode : {"running", "paused"}, control : [Projects -> {"enabled", "paused"}],
             runner : {"online", "draining"}, quota : {"normal", "throttled"},
             evaluated : {"normal", "throttled"}]

TypeOK ==
  /\ github \in [Issues -> [open : BOOLEAN, state : States, asks : Decisions,
                            attempted : BOOLEAN]]
  /\ rows \in [Issues -> Rows]
  /\ profile \in [Projects -> [compatible : {"unread", "yes", "no"},
                               ade : BOOLEAN, fresh : BOOLEAN]]
  /\ backoff \subseteq Projects
  /\ preference \in [Issues -> -1..MaxPosition]
  /\ requests \in [Operators -> Requests]
  /\ removed \subseteq Issues /\ readmitting \subseteq removed
  /\ settings \in Settings
  /\ successes \in Seq(Issues)
  /\ worker \in Workers
  /\ acts \in 0..MaxActs
  /\ overtaken \in [Projects -> SUBSET Projects]

Init ==
  /\ github = [i \in Issues |-> [open |-> TRUE, attempted |-> FALSE, asks |-> "none",
                                 state |-> IF i \in Admitted THEN "ready" ELSE "none"]]
  /\ rows = [i \in Issues |-> NoRow]
  /\ profile = [p \in Projects |-> [compatible |-> "unread", ade |-> TRUE, fresh |-> FALSE]]
  /\ backoff = {} /\ removed = {} /\ readmitting = {}
  /\ preference = [i \in Issues |-> Unset]
  /\ requests = [o \in Operators |-> NoRequest]
  /\ settings = [mode |-> "running", control |-> [p \in Projects |-> "enabled"],
                 runner |-> "online", quota |-> "normal", evaluated |-> "normal"]
  /\ successes = <<>> /\ worker = Idle /\ acts = 0
  /\ overtaken = [p \in Projects |-> {}]

-----------------------------------------------------------------------------
(* The choice. *)

Present(p) == {i \in IssuesOf(p) : rows[i].present}
Wanted(i) == preference[i] # Held

InState(p, state) == {i \in Present(p) : rows[i].state = state}

\* A dependency is satisfied by a completed issue of the same project's projection.
Satisfied(i) == DependsOn[i] \subseteq InState(Owner[i], "completed")
Ready(p) == {i \in InState(p, "ready") : Wanted(i) /\ Satisfied(i)}
Dependent(p) == {i \in InState(p, "ready") : Wanted(i) /\ ~Satisfied(i)}

\* The rows are listed by declared priority, then by number.
First(S) == CHOOSE i \in S : \A j \in S \ {i} :
  Priority[i] > Priority[j] \/ (Priority[i] = Priority[j] /\ i < j)

\* A queued issue stands before one without a position; then the declared
\* priority decides, then the issue number.
QueueRank(i) == IF preference[i] > 0 THEN preference[i] ELSE MaxPosition + 1
RunsBefore(i, j) ==
  \/ QueueRank(i) < QueueRank(j)
  \/ QueueRank(i) = QueueRank(j) /\ Priority[i] > Priority[j]
  \/ QueueRank(i) = QueueRank(j) /\ Priority[i] = Priority[j] /\ i < j
Item(p) == CHOOSE i \in Ready(p) : \A j \in Ready(p) \ {i} : RunsBefore(i, j)

\* Mutant: the readiness check sits in the overview instead of the worker.
ReadableByWorker(p, reader) ==
  /\ profile[p].compatible = "yes"
  /\ reader = "overview" => profile[p].ade
Readable(p, reader) ==
  /\ profile[p].compatible = "yes"
  /\ reader = "worker" => profile[p].ade

\* The decision a project is resumed by: that of its first issue that waits and
\* names one, once it is resolved and as long as no finished run has resumed it.
Asking(p) == {i \in InState(p, "waiting-human") : rows[i].asks # "none"}
Resumed(p) == {i \in Asking(p) : i = First(Asking(p)) /\ rows[i].asks = "resolved"}

\* selectGithubWork, with the item it names, if any.
Named(available, items) == [available |-> available, items |-> {First(items)}]
Choice(p) ==
  IF Ready(p) # {} THEN [available |-> "ready", items |-> {Item(p)}]
  ELSE IF InState(p, "waiting-human") # {}
       THEN Named("waiting-human", InState(p, "waiting-human"))
  ELSE IF InState(p, "running") # {} THEN Named("reconciling", InState(p, "running"))
  ELSE IF InState(p, "failed") # {} THEN Named("failed", InState(p, "failed"))
  ELSE IF InState(p, "cancelled") # {} THEN Named("blocked", InState(p, "cancelled"))
  ELSE IF InState(p, "blocked") # {} THEN Named("blocked", InState(p, "blocked"))
  ELSE IF Dependent(p) # {} THEN Named("waiting-dependency", Dependent(p))
  ELSE IF InState(p, "ready") # {} THEN Named("held", InState(p, "ready"))
  ELSE [available |-> "completed", items |-> {}]

\* Only the worker knows that a resolved decision makes a project ready again,
\* with whatever item was selected.
Resumes(p, reader) == reader = "worker" /\ Resumed(p) # {}
Selection(p, reader) ==
  LET none(available) == [available |-> available, items |-> {}]
  IN IF ~Readable(p, reader)  THEN none("unknown")
     ELSE IF Present(p) = {}  THEN none("completed")
     ELSE IF ~profile[p].fresh THEN none("stale")
     ELSE IF Resumes(p, reader) THEN [available |-> "ready", items |-> Choice(p).items]
     ELSE Choice(p)

\* The priority of a candidate is its issue's; the project's own is never read.
CandidateItem(p) == CHOOSE i \in Choice(p).items : TRUE
CandidatePriority(p) == Priority[CandidateItem(p)]

HasActiveLease(p) == worker.step = "running" /\ Owner[worker.issue] = p

\* The worker schedules on the state stored with the last observation, the
\* overview evaluates that observation again with the policy of now.
QuotaOf(reader) == IF reader = "worker" THEN settings.quota ELSE settings.evaluated

\* The first gate that is closed, in the order candidateExclusion tries them.
Exclusion(p, reader) ==
  LET chosen == Selection(p, reader) IN
  IF settings.mode # "running" THEN "global"
  ELSE IF settings.control[p] # "enabled" THEN "project"
  ELSE IF chosen.available \in {"waiting-human", "waiting-dependency", "reconciling"}
       THEN chosen.available
  ELSE IF ~Resumes(p, reader) /\ \E i \in chosen.items : rows[i].attempted
       THEN "reconcile-first"
  ELSE IF chosen.available # "ready" THEN chosen.available
  ELSE IF HasActiveLease(p) THEN "lease-active"
  ELSE IF \/ QuotaOf(reader) \in {"blocked", "draining"}
          \/ QuotaOf(reader) = "throttled" /\ CandidatePriority(p) < 50 THEN "quota"
  ELSE IF settings.runner # "online" THEN "no-compatible-runner"
  ELSE "none"

Eligible(p) == Exclusion(p, "worker") = "none"

\* Mutant: candidates are built without their last success.
NeverSucceeded(p) == 0
LastSuccess(p) ==
  Max({0} \cup {k \in DOMAIN successes : Owner[successes[k]] = p})

GoesBefore(p, q) ==
  \/ CandidatePriority(p) > CandidatePriority(q)
  \/ /\ CandidatePriority(p) = CandidatePriority(q)
     /\ \/ LastSuccess(p) < LastSuccess(q)
        \/ LastSuccess(p) = LastSuccess(q) /\ p < q

Selected(p) == Eligible(p) /\ \A q \in Projects \ {p} : Eligible(q) => GoesBefore(p, q)

-----------------------------------------------------------------------------
(* The worker: one thread, so a reconciliation and a cycle never overlap,  *)
(* while every other actor may act between two of its steps.               *)

Act == acts < MaxActs /\ acts' = acts + 1

\* A write to an issue starts a revision nothing has attempted; rows and a
\* reconciliation under way still hold the previous one.
Outdated(i) ==
  /\ rows' = [rows EXCEPT ![i].current = FALSE]
  /\ worker' = IF worker.step = "fetched"
               THEN [worker EXCEPT !.seen[i].current = FALSE] ELSE worker
WriteIssue(i, open, state, asks) ==
  /\ github' = [github EXCEPT ![i] = [open |-> open, state |-> state, asks |-> asks,
                                      attempted |-> FALSE]]
  /\ Outdated(i)

\* Closed issues are listed too; an issue without metadata is no work item.
Fetch(p) ==
  /\ worker = Idle /\ p \notin backoff
  /\ LET listed == {i \in IssuesOf(p) : github[i].state # "none"}
         row(i) == [stored |-> TRUE, present |-> TRUE, state |-> github[i].state,
                    asks |-> github[i].asks, current |-> TRUE,
                    attempted |-> github[i].attempted]
     IN worker' = [step |-> "fetched", project |-> p,
                   seen |-> [i \in Issues |-> IF i \in listed THEN row(i) ELSE NoRow]]
  /\ UNCHANGED <<github, rows, profile, backoff, preference, requests, removed, readmitting,
                 settings, successes, acts>>

AbsentRow(r) == IF r.stored THEN [NoRow EXCEPT !.stored = TRUE] ELSE NoRow
\* Mutant: the removals are not looked up.
ProjectedUnchecked(i, seen) ==
  IF seen[i].present THEN seen[i] ELSE AbsentRow(rows[i])
Projected(i, seen) ==
  IF seen[i].present /\ i \notin removed THEN seen[i] ELSE AbsentRow(rows[i])
StoreProjection(p, seen, compatible) ==
  /\ rows' = [i \in Issues |-> IF Owner[i] = p THEN Projected(i, seen) ELSE rows[i]]
  /\ profile' = [profile EXCEPT ![p].compatible = compatible, ![p].fresh = TRUE]

Reconcile ==
  /\ worker.step = "fetched"
  /\ StoreProjection(worker.project, worker.seen, "yes")
  /\ backoff' = backoff \ {worker.project}
  /\ worker' = Idle
  /\ UNCHANGED <<github, preference, requests, removed, readmitting, settings, successes, acts>>

\* A failed read defers the project, a repository without a valid profile
\* does not; either empties its projection.
ReconciliationFails(p, deferred) ==
  /\ Act
  /\ worker = Idle /\ p \notin backoff
  /\ StoreProjection(p, [i \in Issues |-> NoRow], "no")
  /\ backoff' = IF deferred THEN backoff \cup {p} ELSE backoff
  /\ UNCHANGED <<github, preference, requests, removed, readmitting, settings, successes, worker>>

Choose(p) ==
  /\ worker = Idle /\ Selected(p)
  /\ worker' = [step |-> "chosen", issue |-> CandidateItem(p), resumes |-> Resumed(p),
                replaced |-> FALSE]
  /\ UNCHANGED <<github, rows, profile, backoff, preference, requests, removed, readmitting,
                 settings, successes, acts>>

\* The lease is taken under the project's lock, for the row the cycle read.
RowStillThere == ~worker.replaced /\ rows[worker.issue].present
ScheduleWithLease ==
  /\ worker.step = "chosen"
  /\ worker' = IF worker.issue \notin removed /\ RowStillThere
               THEN [step |-> "running", issue |-> worker.issue, resumes |-> worker.resumes]
               ELSE Idle
  /\ UNCHANGED <<github, rows, profile, backoff, preference, requests, removed, readmitting,
                 settings, successes, acts>>

\* What the executor returns is recorded with the revision it attempted and the
\* decision it resumed; what the cycle's catch records names neither ("unknown").
Recorded(status) == status # "unknown"
Spent(named) == IF named.asks = "resolved" THEN [named EXCEPT !.asks = "spent"] ELSE named
SpentBy(status, named) ==
  [i \in Issues |-> IF Recorded(status) /\ i \in worker.resumes THEN Spent(named[i]) ELSE named[i]]

WithoutIssue(s, i) ==
  IF i \in Range(s) THEN RemoveAt(s, CHOOSE k \in DOMAIN s : s[k] = i) ELSE s
RecordSuccess(i) == Append(WithoutIssue(successes, i), i)

\* The marker a run leaves: it claimed the issue, asks for a decision, waits for
\* the merge of its pull request, or took its claim back.
Left(i, status) ==
  LET mark(state, asks) == [open |-> TRUE, state |-> state, asks |-> asks, attempted |-> FALSE]
      waiting == {mark("waiting-human", asks) : asks \in {"open", github[i].asks}}
  IN CASE status = "succeeded" -> waiting
       [] status = "cancelled" -> waiting \cup {mark("running", github[i].asks),
                                                mark("cancelled", "none")}
       [] OTHER                -> waiting \cup {mark("running", github[i].asks)}

\* The executor ends with the issue written (it refuses a closed one, and a
\* decision that is not the issue's own, before it writes) ...
RunEndsWritten(status) ==
  LET i == worker.issue IN
  /\ worker.step = "running" /\ status \in Outcomes[i]
  /\ github[i].open /\ worker.resumes \subseteq {i}
  /\ \E mark \in Left(i, status) : github' = SpentBy(status, [github EXCEPT ![i] = mark])
  /\ rows' = SpentBy(status, [rows EXCEPT ![i].current = FALSE,
                                          ![i].attempted = @ \/ Recorded(status)])
  /\ successes' = IF status = "succeeded" THEN RecordSuccess(i) ELSE successes
  /\ worker' = Idle
  /\ UNCHANGED <<profile, backoff, preference, requests, removed, readmitting, settings, acts>>

\* ... or it fails before its first write, at the revision it was given.
RunEndsUnwritten(status) ==
  LET i == worker.issue IN
  /\ worker.step = "running" /\ status \in Outcomes[i] \ {"succeeded"}
  /\ rows' = SpentBy(status, [rows EXCEPT ![i].attempted = @ \/ Recorded(status)])
  /\ github' = SpentBy(status,
       [github EXCEPT ![i].attempted = @ \/ (Recorded(status) /\ rows[i].current)])
  /\ worker' = Idle
  /\ UNCHANGED <<profile, backoff, preference, requests, removed, readmitting, settings,
                 successes, acts>>

-----------------------------------------------------------------------------
(* The dashboard. *)

\* admitGithubIssue: the body is written when it carries no metadata, and reset
\* when the issue had been removed.
Admission(i) ==
  /\ github[i].open
  /\ IF i \in removed \/ github[i].state = "none"
     THEN WriteIssue(i, TRUE, "ready", "none") ELSE UNCHANGED <<github, rows, worker>>
  /\ readmitting' = IF i \in removed THEN readmitting \cup {i} ELSE readmitting

\* POST /api/tasks with an issue.
AdmitIssue(i) ==
  /\ Act
  /\ settings.control[Owner[i]] = "enabled"
  /\ Admission(i)
  /\ UNCHANGED <<profile, backoff, preference, requests, removed, settings, successes>>

Readmit(i) ==
  /\ i \in readmitting
  /\ removed' = removed \ {i} /\ readmitting' = readmitting \ {i}
  /\ UNCHANGED <<github, rows, profile, backoff, preference, requests, settings, successes,
                 worker, acts>>

\* DELETE of a work item: never while it runs; its executions and its decision
\* go with it, and with them the success the aging counts and the attempts.
Forgotten(named) ==
  [named EXCEPT !.attempted = FALSE, !.asks = IF @ = "none" THEN @ ELSE "spent"]
RemoveIssue(i) ==
  /\ Act
  /\ i \notin removed /\ rows[i].stored
  /\ ~(worker.step = "running" /\ worker.issue = i)
  /\ removed' = removed \cup {i}
  /\ rows' = [rows EXCEPT ![i] = NoRow]
  /\ github' = [github EXCEPT ![i] = Forgotten(@)]
  /\ successes' = WithoutIssue(successes, i)
  /\ worker' = IF worker.step = "chosen" /\ worker.issue = i
               THEN [worker EXCEPT !.replaced = TRUE]
               ELSE IF worker.step = "fetched"
               THEN [worker EXCEPT !.seen[i] = Forgotten(@)] ELSE worker
  /\ UNCHANGED <<profile, backoff, preference, requests, readmitting, settings>>

\* setQueuePreference: a newly enabled issue goes to the end of the queue.
\* Mutant: the maximum is taken over the rows that are not enabled.
LastHeldPosition(prefs, p) ==
  Max({0} \cup {prefs[i] : i \in {j \in IssuesOf(p) : prefs[j] = Held}})
LastPosition(prefs, p) == Max({0} \cup {prefs[i] : i \in IssuesOf(p)})
WithPreference(prefs, i, on) ==
  [prefs EXCEPT ![i] = IF ~on THEN Held
                       ELSE IF @ > 0 THEN @ ELSE LastPosition(prefs, Owner[i]) + 1]

\* What the queue page shows of an issue.
Listed(p) == {i \in IssuesOf(p) : github[i].open}
Current(i) == rows[i].present /\ profile[Owner[i]].fresh
RunWhenAvailable(i) ==
  preference[i] > 0 \/ (preference[i] = Unset /\ rows[i].present /\ rows[i].state = "ready")
Enabled(p) == {i \in Listed(p) : RunWhenAvailable(i)}

InBounds(prefs) == \A i \in Issues : prefs[i] <= MaxPosition

\* reorderQueue: the order has to name every enabled issue exactly once.
StoreEnabled(prefs, p) == {i \in IssuesOf(p) : prefs[i] > 0}
Reordered(prefs, order) ==
  [i \in Issues |-> IF i \in Range(order)
                    THEN CHOOSE k \in DOMAIN order : order[k] = i ELSE prefs[i]]
ReorderOrKeep(prefs, p, order) ==
  IF StoreEnabled(prefs, p) = Range(order) THEN Reordered(prefs, order) ELSE prefs

ShownBefore(i, j) ==
  IF RunWhenAvailable(i) = RunWhenAvailable(j) THEN RunsBefore(i, j) ELSE RunWhenAvailable(i)
InPageOrder(items) == \A j, k \in DOMAIN items : j < k => ShownBefore(items[j], items[k])

\* A request loads the page, and everybody else acts between its later steps.
Asks(o, request) ==
  /\ requests[o] = NoRequest
  /\ requests' = [requests EXCEPT ![o] = request]
  /\ UNCHANGED <<github, rows, profile, backoff, preference, removed, readmitting,
                 settings, successes, worker>>

\* PATCH of the issue queue.
SetQueuePreference(o, i, on) ==
  /\ Act
  /\ settings.control[Owner[i]] = "enabled" /\ github[i].open /\ Current(i)
  /\ Asks(o, [kind |-> "patch", project |-> Owner[i], page |-> <<i>>, todo |-> {i},
              order |-> IF on THEN <<i>> ELSE <<>>, read |-> ~on])

\* PUT of the issue queue: the order names what the page shows enabled.
ReorderQueue(o, p) ==
  /\ Act
  /\ settings.control[p] = "enabled"
  /\ \A i \in Enabled(p) : Current(i)
  /\ \E order, items \in SetToSeqs(Enabled(p)) :
       /\ InPageOrder(items)
       /\ Asks(o, [kind |-> "reorder", project |-> p, page |-> items, todo |-> Enabled(p),
                   order |-> order, read |-> FALSE])

\* PUT of the recommendation: ready issues by declared priority, every other
\* listed issue held.
Recommended(p) == {i \in Listed(p) : Current(i) /\ rows[i].state = "ready"}
ByPriority(order) ==
  \A j, k \in DOMAIN order : j < k => Priority[order[j]] >= Priority[order[k]]
ApplyRecommendation(o, p) ==
  /\ Act
  /\ settings.control[p] = "enabled"
  /\ \A i \in Listed(p) : rows[i].present => Current(i)
  /\ \E order \in SetToSeqs(Recommended(p)), items \in SetToSeqs(Listed(p)) :
       /\ order # <<>> /\ ByPriority(order) /\ InPageOrder(items)
       /\ Asks(o, [kind |-> "recommendation", project |-> p, page |-> items,
                   todo |-> Listed(p), order |-> order, read |-> FALSE])

\* The admission of an issue that is enabled; its Readmit comes before the store.
AdmitQueued(o) ==
  /\ requests[o].kind = "patch" /\ ~requests[o].read
  /\ \E i \in requests[o].todo : Admission(i)
  /\ requests' = [requests EXCEPT ![o].read = TRUE]
  /\ UNCHANGED <<profile, backoff, preference, removed, settings, successes, acts>>

\* Both PUTs store only what differs: the reorder asks before each issue whether
\* it has a preference at all, the recommendation reads all of them once.
Upcoming(r) == r.page[Min({k \in DOMAIN r.page : r.page[k] \in r.todo})]
Differs(i, order) == preference[i] = Unset \/ (preference[i] > 0) # (i \in Range(order))
ReadPreferences(o) ==
  LET r == requests[o] IN
  /\ r.kind \in {"reorder", "recommendation"} /\ ~r.read /\ r.todo # {}
  /\ requests' =
       [requests EXCEPT ![o] =
          IF r.kind = "recommendation"
          THEN [r EXCEPT !.todo = {i \in r.todo : Differs(i, r.order)}, !.read = TRUE]
          ELSE IF preference[Upcoming(r)] = Unset THEN [r EXCEPT !.read = TRUE]
          ELSE [r EXCEPT !.todo = @ \ {Upcoming(r)}]]
  /\ UNCHANGED <<github, rows, profile, backoff, preference, removed, readmitting,
                 settings, successes, worker, acts>>

\* One setQueuePreference, under the project's lock.
StorePreference(o) ==
  LET r == requests[o]
      i == Upcoming(r)
  IN
  /\ r.read /\ r.todo # {}
  /\ i \notin readmitting \/ r.kind # "patch"
  /\ preference' = WithPreference(preference, i, i \in Range(r.order))
  /\ InBounds(preference')
  /\ requests' = [requests EXCEPT ![o] =
       IF r.kind = "patch" THEN NoRequest
       ELSE [r EXCEPT !.todo = @ \ {i}, !.read = (r.kind = "recommendation")]]
  /\ UNCHANGED <<github, rows, profile, backoff, removed, readmitting, settings,
                 successes, worker, acts>>

\* The last transaction of a PUT; what it stored before stays when it is refused.
StoreOrder(o) ==
  LET r == requests[o] IN
  /\ r.kind \in {"reorder", "recommendation"} /\ r.todo = {}
  /\ preference' = ReorderOrKeep(preference, r.project, r.order)
  /\ InBounds(preference')
  /\ requests' = [requests EXCEPT ![o] = NoRequest]
  /\ UNCHANGED <<github, rows, profile, backoff, removed, readmitting, settings,
                 successes, worker, acts>>

\* A call of the request fails, or the dashboard stops.
RequestFails(o) ==
  /\ Act
  /\ requests[o] # NoRequest
  /\ requests' = [requests EXCEPT ![o] = NoRequest]
  /\ UNCHANGED <<github, rows, profile, backoff, preference, removed, readmitting,
                 settings, successes, worker>>

\* The command ade.decide, and every copy of a marker that names the decision.
Resolve(named) == IF named.asks = "open" THEN [named EXCEPT !.asks = "resolved"] ELSE named
ResolveDecision(i) ==
  /\ Act
  /\ "open" \in {github[i].asks, rows[i].asks}
  /\ github' = [github EXCEPT ![i] = Resolve(@)]
  /\ rows' = [rows EXCEPT ![i] = Resolve(@)]
  /\ worker' = IF worker.step = "fetched"
               THEN [worker EXCEPT !.seen[i] = Resolve(@)] ELSE worker
  /\ UNCHANGED <<profile, backoff, preference, requests, removed, readmitting, settings,
                 successes>>

-----------------------------------------------------------------------------
(* Everybody else. *)

\* A human edits the state in the marker of an open issue ...
EditMarker(i, state) ==
  /\ Act
  /\ github[i].open /\ github[i].state \notin {"none", state}
  /\ WriteIssue(i, TRUE, state, github[i].asks)
  /\ UNCHANGED <<profile, backoff, preference, requests, removed, readmitting, settings, successes>>

\* ... closes an issue, by merging its pull request when that is what it waits for ...
AwaitsMerge(i) == github[i].state = "waiting-human" /\ github[i].asks \notin {"open", "resolved"}
CloseIssue(i) ==
  /\ Act
  /\ github[i].open /\ github[i].state # "none"
  /\ IF AwaitsMerge(i) THEN WriteIssue(i, FALSE, "completed", "none")
     ELSE WriteIssue(i, FALSE, github[i].state, github[i].asks)
  /\ UNCHANGED <<profile, backoff, preference, requests, removed, readmitting, settings, successes>>

\* ... or pushes to the pull request or closes it unmerged: the webhook blocks
\* the issue behind a reconciliation that no decision is stored for.
BlockIssue(i) ==
  /\ Act
  /\ rows[i].present /\ AwaitsMerge(i) /\ github[i].open
  /\ WriteIssue(i, TRUE, "blocked", "spent")
  /\ UNCHANGED <<profile, backoff, preference, requests, removed, readmitting, settings, successes>>

ProjectionExpires(p) ==
  /\ Act
  /\ profile[p].fresh
  /\ profile' = [profile EXCEPT ![p].fresh = FALSE]
  /\ UNCHANGED <<github, rows, backoff, preference, requests, removed, readmitting, settings,
                 successes, worker>>

BackoffEnds(p) ==
  /\ p \in backoff /\ backoff' = backoff \ {p}
  /\ UNCHANGED <<github, rows, profile, preference, requests, removed, readmitting, settings,
                 successes, worker, acts>>

\* An initialisation task of the manual path records what it found.
RecordAdeReadiness(p, ade) ==
  /\ Act
  /\ profile[p].compatible # "unread" /\ profile[p].ade # ade
  /\ profile' = [profile EXCEPT ![p].ade = ade]
  /\ UNCHANGED <<github, rows, backoff, preference, requests, removed, readmitting, settings,
                 successes, worker>>

\* Commands change the mode, a project or the runner; a quota observation is
\* stored with its state, and an edited policy changes only later evaluations.
Disturbed == {Owner[i] : i \in Operated}

ChangeMode == settings' = [settings EXCEPT !.mode = IF @ = "running" THEN "paused" ELSE "running"]
ChangeControl(p) ==
  settings' = [settings EXCEPT !.control[p] = IF @ = "enabled" THEN "paused" ELSE "enabled"]
DrainRunner == settings' = [settings EXCEPT !.runner = "draining"]
\* A starting worker puts its runner back online, a drained one too.
EnsureLocalRunner == settings' = [settings EXCEPT !.runner = "online"]
ObserveQuota(q) == settings' = [settings EXCEPT !.quota = q, !.evaluated = q]
EditPolicy(q) == settings' = [settings EXCEPT !.evaluated = q]
ChangeSettings ==
  /\ Act
  /\ \/ ChangeMode \/ DrainRunner \/ EnsureLocalRunner
     \/ \E p \in Disturbed : ChangeControl(p)
     \/ \E q \in {"normal", "throttled"} : ObserveQuota(q) \/ EditPolicy(q)
  /\ UNCHANGED <<github, rows, profile, backoff, preference, requests, removed, readmitting,
                 successes, worker>>

WorkerStep ==
  \/ \E p \in Projects : Fetch(p) \/ Choose(p)
  \/ Reconcile \/ ScheduleWithLease
  \/ \E status \in {"succeeded", "failed", "cancelled", "unknown"} :
       RunEndsWritten(status) \/ RunEndsUnwritten(status)
RequestStep(o) ==
  \/ \E i \in Operated, on \in BOOLEAN : SetQueuePreference(o, i, on)
  \/ \E p \in Disturbed : ReorderQueue(o, p) \/ ApplyRecommendation(o, p)
  \/ AdmitQueued(o) \/ ReadPreferences(o) \/ StorePreference(o) \/ StoreOrder(o)
  \/ RequestFails(o)
DashboardStep ==
  \/ \E i \in Operated :
       AdmitIssue(i) \/ Readmit(i) \/ RemoveIssue(i) \/ ResolveDecision(i)
  \/ \E o \in Operators : RequestStep(o)
  \/ ChangeSettings
EnvironmentStep ==
  \/ \E i \in Operated :
       \/ EditMarker(i, "ready") \/ EditMarker(i, "failed")
       \/ CloseIssue(i) \/ BlockIssue(i)
  \/ \E p \in Disturbed :
       \/ ProjectionExpires(p) \/ BackoffEnds(p)
       \/ \E b \in BOOLEAN : ReconciliationFails(p, b) \/ RecordAdeReadiness(p, b)

Successful == successes' # successes /\ Len(successes') >= Len(successes)
Winner == Owner[successes'[Len(successes')]]
\* A project leaves the count when it is not eligible, and a removal, which
\* erases successes, starts every count again.
Counted(p) == IF Successful THEN overtaken[p] \cup ({Winner} \ {p}) ELSE overtaken[p]
Overtake ==
  overtaken' = [p \in Projects |->
                  {q \in Counted(p) : removed' \subseteq removed /\ Eligible(p)'}]

Next == (WorkerStep \/ DashboardStep \/ EnvironmentStep) /\ Overtake
Spec == Init /\ [][Next]_vars

-----------------------------------------------------------------------------
(* Properties. *)

\* Aging keeps equal priorities fair: while a project stays eligible, another
\* of no higher priority is chosen only until its first success (the aging
\* tie-break of compareSchedulerCandidates and the history toCandidate reads).
OvertakenOnce ==
  [][\A p, q \in Projects :
       (worker'.step = "chosen" /\ worker # worker' /\ worker.step = "idle"
        /\ Owner[worker'.issue] = q /\ q \in overtaken[p] /\ Eligible(p))
         => CandidatePriority(q) > CandidatePriority(p)]_vars

\* An issue an operator removed is neither projected nor run again before it
\* is readmitted, whatever reconciliation, admission or cycle was under way
\* (remove, reconcile, readmit and scheduleWithLease share one lock).
RemovedStaysRemoved ==
  \A i \in removed : ~rows[i].stored /\ ~(worker.step = "running" /\ worker.issue = i)

\* Holding, enabling, materialising and reordering, by requests that stop or
\* interleave between their transactions, a refused reorder included, never put
\* two issues of a project at one position (setQueuePreference, reorderQueue).
PositionsDistinct ==
  \A i, j \in Issues :
    (i # j /\ Owner[i] = Owner[j] /\ preference[i] > 0) => preference[i] # preference[j]

\* The overview never explains away a project the worker would dispatch, except
\* by the quota, which it evaluates anew, and for a project that is resumed by a
\* resolved decision, which the overview does not know of (readModel.ts and
\* GithubWorkOrchestrator.ts read the same rows).
NothingRunsUnseen ==
  \A p \in Projects : Eligible(p) =>
    LET shown == Exclusion(p, "overview")
    IN shown \in {"none", "quota"}
       \/ (Resumed(p) # {} /\ shown \in {"waiting-human", "reconcile-first"})

\* An order that names every enabled, open issue exactly once is accepted: what
\* the store has enabled once the page's issues are materialised is that set
\* (issue-queue/route.ts PUT, the message of its conflict).
CompleteOrderIsAccepted ==
  \A p \in Projects :
    (settings.control[p] = "enabled" /\ \A i \in Enabled(p) : Current(i))
      => StoreEnabled(preference, p) \cup Enabled(p) = Enabled(p)
=============================================================================
