---------------------------- MODULE DeliveryStages ----------------------------
(* One delivery session in a checkout: the commands of AdeDeliveryRuntime,   *)
(* the coding agent and the profile reviewers, each a child process in the   *)
(* same workspace, up to the commit; the deadline that aborts them; and the  *)
(* bot comment that tells an issue about a session that failed.  What the    *)
(* executors write to GitHub and to the workflow is in GithubDelivery.       *)
EXTENDS Naturals, FiniteSets

CONSTANTS
    Profiles,       \* profiles the plan selects: 1..Profiles, reviewed in this order
    Allowed,        \* values of the plan's maximumCorrectionAttempts
    MaxEdits,       \* bound of the runs: edits of the checkout in a session
    MaxSessions,    \* bound of the runs
    MaxFaults       \* bound of the runs: failing calls, crashes

ASSUME StagesAssumption ==
    /\ Profiles \in Nat /\ Allowed \subseteq 0..5
    /\ MaxEdits \in Nat /\ MaxSessions \in Nat /\ MaxFaults \in Nat

VARIABLES
    pc, child, aborted,
    plan,               \* what ADE resolved: corrections allowed, publication open
    attempt, reviewer,  \* the loop of runPostAgentGates
    tree, index, head,  \* versions of the files, of what is staged, and of the commit
    blocking,           \* open blocking findings: profile and attempt
    checked,            \* history: the version the last deterministic review passed
    approved,           \* history: the attempt in which a profile last let it pass
    purpose,            \* what the comment at work is about
    created, known,     \* bot comments made on the issue; the one github_bot_comments names
    unrecorded,         \* history: comments that exist and whose record failed
    sessions, faults

checkout == <<tree, index, head>>
gateVars == <<plan, attempt, reviewer, blocking, checked, approved>>
commentVars == <<purpose, created, known, unrecorded>>
vars == <<pc, child, aborted, checkout, gateVars, commentVars, sessions, faults>>

Reviewers == 1..Profiles
Preparing == {"version", "config", "context", "pack", "setup"}
AgentSteps == {"implement", "profiles", "correct"}
CommandSteps == {"plan"} \union Preparing \union AgentSteps
                    \union {"stage", "deterministic", "commit"}
Purposes == {"failure", "waiting-human"}
NotifySteps == {"find", "create", "update", "remember"}
Over == {"idle", "down", "committed"} \union NotifySteps
Blocked == "failed blocked"

TypeOK ==
    /\ pc \in CommandSteps \union Over \union {"gate", "failed", Blocked}
    /\ child \in {"none", "running", "signalled", "killed"} /\ aborted \in BOOLEAN
    /\ (child # "none" => pc \in CommandSteps)
    /\ plan \in [allowed : Allowed, ready : BOOLEAN]
    /\ attempt \in 0..5 /\ reviewer \in 0..Profiles
    /\ tree \in 0..MaxEdits /\ index \in 0..tree /\ head \in 0..index
    /\ blocking \subseteq [profile : Reviewers, attempt : 1..attempt]
    /\ checked \in 0..tree /\ approved \in [Reviewers -> 0..attempt]
    /\ purpose \in Purposes
    /\ created \in [Purposes -> Nat] /\ known \in [Purposes -> Nat]
    /\ unrecorded \in [Purposes -> Nat]
    /\ sessions \in 0..MaxSessions /\ faults \in 0..MaxFaults

Init ==
    /\ pc = "idle" /\ child = "none" /\ aborted = FALSE
    /\ plan \in [allowed : Allowed, ready : BOOLEAN]
    /\ attempt = 0 /\ reviewer = 0 /\ blocking = {}
    /\ tree = 0 /\ index = 0 /\ head = 0
    /\ checked = 0 /\ approved = [r \in Reviewers |-> 0]
    /\ purpose = "failure" /\ created = [p \in Purposes |-> 0]
    /\ known = created /\ unrecorded = created
    /\ sessions = 0 /\ faults = 0

Fault == faults < MaxFaults /\ faults' = faults + 1

-----------------------------------------------------------------------------
(* A session starts on a clean checkout; ADE decides what its plan allows.  *)

StartSession ==
    /\ pc = "idle" /\ sessions < MaxSessions /\ sessions' = sessions + 1
    /\ pc' = "plan" /\ aborted' = FALSE
    /\ plan' \in [allowed : Allowed, ready : BOOLEAN]
    /\ attempt' = 0 /\ reviewer' = 0 /\ blocking' = {}
    /\ tree' = 0 /\ index' = 0 /\ head' = 0
    /\ checked' = 0 /\ approved' = [r \in Reviewers |-> 0]
    /\ UNCHANGED <<child, commentVars, faults>>

\* The comment at work exists, and nothing will ever name it.
Unrecorded == unrecorded' = [unrecorded EXCEPT ![purpose] = @ + 1]

\* A worker that dies leaves its children; the next one clones anew.
Crash ==
    /\ pc \notin {"idle", "down"} /\ Fault /\ pc' = "down" /\ child' = "none"
    /\ IF pc = "remember" THEN Unrecorded ELSE UNCHANGED unrecorded
    /\ UNCHANGED <<aborted, checkout, gateVars, purpose, created, known, sessions>>

Restart ==
    /\ pc = "down" /\ pc' = "idle"
    /\ UNCHANGED <<child, aborted, checkout, gateVars, commentVars, sessions, faults>>

-----------------------------------------------------------------------------
(* NodeCommandRunner.                                                      *)

(* run() throws when the signal was aborted before; otherwise the command   *)
(* is spawned.                                                              *)
Spawn ==
    /\ pc \in CommandSteps /\ child = "none"
    /\ IF aborted THEN pc' = "failed" /\ UNCHANGED child
                  ELSE child' = "running" /\ UNCHANGED pc
    /\ UNCHANGED <<aborted, checkout, gateVars, commentVars, sessions, faults>>

\* An operator cancels or a deadline passes: SIGTERM for the process group.
Abort ==
    /\ pc \in CommandSteps \union {"gate"} /\ ~aborted /\ aborted' = TRUE
    /\ child' = IF child = "running" THEN "signalled" ELSE child
    /\ UNCHANGED <<pc, checkout, gateVars, commentVars, sessions, faults>>

\* A terminate() that trusts the child to obey SIGTERM.
NeverForced == FALSE /\ UNCHANGED vars

\* SIGKILL after the grace period.
ForceKill ==
    /\ child = "signalled" /\ child' = "killed"
    /\ UNCHANGED <<pc, aborted, checkout, gateVars, commentVars, sessions, faults>>

\* The child exits in its own time, as long as nobody killed it.
Exits == child \in {"running", "signalled"}

(* An agent works in a workspace-write sandbox; that a reviewer edits the   *)
(* files it reviews is not prevented.                                       *)
AgentEdits ==
    /\ pc \in AgentSteps /\ child \in {"running", "signalled"}
    /\ tree < MaxEdits /\ tree' = tree + 1
    /\ UNCHANGED <<pc, child, aborted, index, head, gateVars, commentVars, sessions, faults>>

(* run() settles when the child has closed, and throws when the signal was  *)
(* aborted meanwhile, whatever the command did.                             *)
Closed(ended) == ended /\ child' = "none" /\ UNCHANGED <<aborted, commentVars, sessions>>

-----------------------------------------------------------------------------
(* What each command leads to.                                             *)

Successor ==
    [s \in {"plan"} \union Preparing |->
        CASE s = "plan" -> "version" [] s = "version" -> "config"
          [] s = "config" -> "context" [] s = "context" -> "pack"
          [] s = "pack" -> "setup" [] s = "setup" -> "implement"]

\* The command did its work and nobody aborted it.
Goes(next) == ~aborted /\ pc' = next /\ UNCHANGED faults

(* The plan is not one to develop, the runtime is another one, the context  *)
(* cannot be built, the setup is not ready, a review fails.                 *)
Fails == pc' = "failed" /\ IF aborted THEN UNCHANGED faults ELSE Fault

Prepares(ended) ==
    /\ pc \in DOMAIN Successor /\ Closed(ended)
    /\ (Goes(Successor[pc]) \/ Fails)
    /\ UNCHANGED <<checkout, gateVars>>

\* A provider that changed nothing is a failure of its own.
Implements(ended) ==
    /\ pc = "implement" /\ Closed(ended)
    /\ IF tree = 0 THEN pc' = "failed" /\ UNCHANGED faults ELSE (Goes("stage") \/ Fails)
    /\ UNCHANGED <<checkout, gateVars>>

\* git add --all.
Staged == tree

(* The top of the loop: one more attempt, and everything is staged.         *)
Stages(ended) ==
    /\ pc = "stage" /\ Closed(ended)
    /\ attempt' = attempt + 1 /\ reviewer' = 0
    /\ \/ Goes("deterministic") /\ index' = Staged
       \/ Fails /\ index' \in {index, Staged}
    /\ UNCHANGED <<tree, head, plan, blocking, checked, approved>>

(* ade review --staged --run-tools.                                        *)
Validates(ended) ==
    /\ pc = "deterministic" /\ Closed(ended)
    /\ \/ Goes(IF Profiles = 0 THEN "gate" ELSE "profiles")
          /\ checked' = index /\ reviewer' = IF Profiles = 0 THEN 0 ELSE 1
       \/ Fails /\ UNCHANGED <<checked, reviewer>>
    /\ UNCHANGED <<checkout, plan, attempt, blocking, approved>>

\* Corrections that are counted apart from the first pass.
Corrections == plan.allowed + 1

\* Zero means no correction retry, never "skip the first validation pass".
MaximumAttempts == IF plan.allowed > 1 THEN plan.allowed ELSE 1

\* No profile has an open blocking finding in this attempt.
Passes(blockers) == \A b \in blockers : b.attempt # attempt

AfterReviews(blockers) ==
    IF Passes(blockers) THEN "gate"
    ELSE IF attempt >= MaximumAttempts THEN Blocked ELSE "correct"

(* A profile's answer: findings, or output without any, which lets it pass. *)
Reviews(ended) ==
    /\ pc = "profiles" /\ Closed(ended)
    /\ \/ \E open \in BOOLEAN :
             LET blockers == IF open THEN blocking \union {[profile |-> reviewer, attempt |-> attempt]}
                                     ELSE blocking
             IN /\ blocking' = blockers
                /\ approved' = IF open THEN approved ELSE [approved EXCEPT ![reviewer] = attempt]
                /\ IF reviewer < Profiles
                   THEN Goes("profiles") /\ reviewer' = reviewer + 1
                   ELSE Goes(AfterReviews(blockers)) /\ UNCHANGED reviewer
       \/ Fails /\ UNCHANGED <<blocking, approved, reviewer>>
    /\ UNCHANGED <<checkout, plan, attempt, checked>>

Corrects(ended) ==
    /\ pc = "correct" /\ Closed(ended)
    /\ (Goes("stage") \/ Fails)
    /\ UNCHANGED <<checkout, gateVars>>

(* throwIfAborted and the plan's publication gate, without a pause.         *)
Gate ==
    /\ pc = "gate"
    /\ pc' = IF aborted \/ ~plan.ready THEN "failed" ELSE "commit"
    /\ UNCHANGED <<child, aborted, checkout, gateVars, commentVars, sessions, faults>>

\* A commit of the files instead of the index.
CommittedFiles == tree

Committed == index

\* An aborted commit may have been made.
Commits(ended) ==
    /\ pc = "commit" /\ Closed(ended)
    /\ \/ Goes("committed") /\ head' = Committed
       \/ Fails /\ head' \in {head, Committed}
    /\ UNCHANGED <<tree, index, gateVars>>

Step(ended) ==
    \/ Prepares(ended) \/ Implements(ended) \/ Stages(ended) \/ Validates(ended)
    \/ Reviews(ended) \/ Corrects(ended) \/ Commits(ended)

\* By itself, or because it was killed.
CommandExits == Step(Exits)
CommandKilled == Step(child = "killed")

-----------------------------------------------------------------------------
(* GithubWorkNotifier: one comment for each issue and purpose.             *)

Notifies(next) ==
    /\ pc' = next
    /\ UNCHANGED <<child, aborted, checkout, gateVars, sessions>>

\* The lookup begins, for one purpose.
Post(about) == purpose' = about /\ UNCHANGED <<created, known, unrecorded, faults>>

(* A failed session is announced, whatever it failed of; one that was       *)
(* aborted ends cancelled or unknown, and in silence.                       *)
Announce ==
    /\ pc \in {"failed", Blocked}
    /\ Notifies(IF aborted THEN "idle" ELSE "find")
    /\ Post("failure")

(* notifyAttentionChanges: a reconciliation finds that an issue which failed *)
(* or waits for a human was touched.                                        *)
AnnounceChange ==
    /\ pc = "idle" /\ sessions > 0 /\ Notifies("find")
    /\ \E about \in Purposes : Post(about)

\* Creates a comment although the lookup failed.
FindOrCreate ==
    /\ pc = "find"
    /\ \/ Notifies(IF known[purpose] = 0 THEN "create" ELSE "update") /\ UNCHANGED faults
       \/ Notifies("create") /\ Fault
    /\ UNCHANGED commentVars

\* A lookup that fails ends the notification: nothing is created without it.
FindComment ==
    /\ pc = "find"
    /\ \/ Notifies(IF known[purpose] = 0 THEN "create" ELSE "update") /\ UNCHANGED faults
       \/ Notifies("idle") /\ Fault
    /\ UNCHANGED commentVars

\* A known comment is only ever updated, also when that fails.
UpdateComment ==
    /\ pc = "update" /\ Notifies("idle")
    /\ (UNCHANGED faults \/ Fault)
    /\ UNCHANGED commentVars

\* The issue has one more comment.
Creates == created' = [created EXCEPT ![purpose] = @ + 1]

\* A creation that fails may have been carried out.
CreateComment ==
    /\ pc = "create"
    /\ \/ Notifies("remember") /\ Creates /\ UNCHANGED <<faults, unrecorded>>
       \/ Notifies("idle") /\ Fault /\ UNCHANGED <<created, unrecorded>>
       \/ Notifies("idle") /\ Fault /\ Creates /\ Unrecorded
    /\ UNCHANGED <<purpose, known>>

\* remember() names the comment that was created; when it fails it may have.
RememberComment ==
    /\ pc = "remember" /\ Notifies("idle")
    /\ \/ /\ known' = [known EXCEPT ![purpose] = created[purpose]]
          /\ UNCHANGED unrecorded /\ (UNCHANGED faults \/ Fault)
       \/ UNCHANGED known /\ Fault /\ Unrecorded
    /\ UNCHANGED <<purpose, created>>

SessionEnds ==
    /\ pc = "committed" /\ Notifies("idle") /\ UNCHANGED <<commentVars, faults>>

Session ==
    \/ Spawn \/ Gate \/ Announce \/ FindComment \/ UpdateComment \/ CreateComment
    \/ RememberComment \/ SessionEnds \/ Restart

Next ==
    \/ Session \/ StartSession \/ AnnounceChange \/ Abort \/ ForceKill \/ AgentEdits \/ Crash
    \/ CommandExits \/ CommandKilled

(* The worker goes on, a deadline passes, the grace period ends, and the    *)
(* system reports a killed child.  No command is assumed to end by itself.  *)
Fairness ==
    /\ WF_vars(Session) /\ WF_vars(Abort) /\ WF_vars(ForceKill) /\ WF_vars(CommandKilled)

Spec == Init /\ [][Next]_vars /\ Fairness

-----------------------------------------------------------------------------
(* Properties.                                                             *)

(* runPostAgentGates and the commit: what is committed is exactly what the  *)
(* deterministic review of the last attempt passed, every selected profile  *)
(* let that attempt pass, and ADE had opened the publication gate, however  *)
(* often agents and reviewers edited the checkout in between.               *)
CommittedIsReviewed ==
    head # 0 =>
        /\ head = checked /\ plan.ready
        /\ \A r \in Reviewers : approved[r] = attempt

(* NodeCommandRunner and the deadlines: no session lasts for ever, also     *)
(* when an agent hangs and ignores SIGTERM.                                 *)
EverySessionEnds == (pc \in CommandSteps) ~> (pc \in Over)

(* upsertBotComment: changes about the same subject "reuse a single comment *)
(* instead of appending an unbounded thread".  For each purpose an issue    *)
(* has one comment, and one more for each time a comment was created and    *)
(* its record in github_bot_comments failed: the answer or the record was   *)
(* lost, or the worker died in between.  No other failure, of a command, a  *)
(* lookup or an update, explains another comment.                           *)
OneComment ==
    \A p \in Purposes : created[p] <= 1 + unrecorded[p]

\* The stages of packages/core, as the session goes through them.
StageOf ==
    CASE pc \in Preparing -> "ready-for-dev"
      [] pc \in {"implement", "correct", "stage"} -> "implementation"
      [] pc = "deterministic" -> "deterministic-validation"
      [] pc \in {"profiles", "gate"} -> "profile-reviews"
      [] pc \in {"commit", "committed"} -> "pr-ready"
      [] pc = Blocked -> "blocked"
      [] OTHER -> "issue-enrichment"

CorrectionsOf ==
    CASE StageOf \in {"implementation", "blocked"} -> attempt
      [] StageOf \in {"deterministic-validation", "profile-reviews", "pr-ready"} -> attempt - 1
      [] OTHER -> 0

Pipeline == INSTANCE DeliveryPipeline WITH
    Limits <- 0..4,
    stage <- StageOf, reviewAttempt <- CorrectionsOf,
    maxReviewAttempts <- IF plan.allowed > 1 THEN plan.allowed - 1 ELSE 0

(* AdeDeliveryRuntime goes through the gates that packages/core states: no  *)
(* stage is skipped, not after a correction either, and a session is        *)
(* blocked only when it has used up its corrections, which are one less     *)
(* than the plan allows.                                                    *)
KeepsPipeline == Pipeline!Spec

=============================================================================
