--------------------------- MODULE ProjectLifecycle ---------------------------
(* Projects from registration to deletion: the dashboard's routes, the       *)
(* provisioning passes that clone a project's checkout, and the deletion     *)
(* processor in the worker's loop.  A timer starts a pass every 30 seconds   *)
(* without waiting for the one before it, and an executor that finds no      *)
(* checkout provisions its project itself: several visits may be at one      *)
(* project, beside each other and beside the loop.                           *)
EXTENDS Naturals, SequencesExt

CONSTANTS
    Slugs,          \* a project's slug is also the path of its checkout
    Repos, None,
    Offered,        \* bound of the runs: what is registered, slugs with their repositories
    Passes,         \* provisioning passes at work at a time, timers' and executors'
    MaxFaults       \* bound of the runs: crashes, failing commands

ASSUME LifecycleAssumption == None \notin Slugs \union Repos \union Passes /\ MaxFaults \in Nat

VARIABLES
    rows,           \* projects: the repository registered under a slug, if any
    requests,       \* project_deletion_requests, oldest first
    checkout,       \* what is at the project's path
    visit,          \* where each pass is, with the project's row as it has read it
    worker,         \* the worker's loop: where it is, and in which project
    contended,      \* history: projects whose deletion took an unfinished clone for the checkout
    faults

vars == <<rows, requests, checkout, visit, worker, contended, faults>>

Registered(s) == rows[s] # None
\* A clone at work is known by its pass.
Absent == [repo |-> None, complete |-> FALSE, by |-> None]
Resting == [at |-> "idle", slug |-> None, repo |-> None]

TypeOK ==
    /\ rows \in [Slugs -> Repos \union {None}]
    /\ requests \in Seq(Slugs) /\ IsInjective(requests)
    /\ \A s \in ToSet(requests) : Registered(s)
    /\ checkout \in [Slugs -> [repo : Repos \union {None}, complete : BOOLEAN,
                               by : Passes \union {None}]]
    /\ visit \in [Passes -> [at : {"idle", "look", "authorize", "clone", "cloning"},
                             slug : Slugs \union {None}, repo : Repos \union {None}]]
    /\ worker \in [at : {"down", "idle", "found", "verified", "removed"},
                    slug : Slugs \union {None}]
    /\ contended \subseteq Slugs /\ faults \in 0..MaxFaults

Init ==
    /\ rows = [s \in Slugs |-> None] /\ requests = <<>>
    /\ checkout = [s \in Slugs |-> Absent]
    /\ visit = [p \in Passes |-> Resting]
    /\ worker = [at |-> "idle", slug |-> None]
    /\ contended = {} /\ faults = 0

Fault == faults < MaxFaults /\ faults' = faults + 1

-----------------------------------------------------------------------------
(* The dashboard.                                                          *)

(* buildProjectOnboardingPlan looks for the repository and the slug among   *)
(* the projects; before the insert another handler may register either, and *)
(* the database refuses only the slug.                                      *)
Register(s, r) ==
    /\ ~Registered(s) /\ <<s, r>> \in Offered
    /\ rows' = [rows EXCEPT ![s] = r]
    /\ UNCHANGED <<requests, checkout, visit, worker, contended, faults>>

\* A second request for the project keeps the first.
RequestDeletion(s) ==
    /\ Registered(s) /\ ~Contains(requests, s)
    /\ requests' = Append(requests, s)
    /\ UNCHANGED <<rows, checkout, visit, worker, contended, faults>>

-----------------------------------------------------------------------------
(* provisionProjectCheckout, for a timer's pass or an executor.             *)

\* A clone is at work in s.
Cloning(s) == \E p \in Passes : visit[p].at = "cloning" /\ visit[p].slug = s

(* A deletion that took an unfinished clone for the checkout is felt until  *)
(* it has removed what is at the path and no clone is at work there.        *)
Contended(projects) ==
    contended' = {s \in projects : worker' = [at |-> "verified", slug |-> s] \/ Cloning(s)'}

VisitMoves(p, next) ==
    /\ visit' = [visit EXCEPT ![p] = next]
    /\ UNCHANGED <<rows, requests, worker>> /\ Contended(contended)

\* The pass works on the list of projects it read when it started.
StartVisit(s, p) ==
    /\ visit[p].at = "idle" /\ worker.at # "down" /\ Registered(s)
    /\ VisitMoves(p, [at |-> "look", slug |-> s, repo |-> rows[s]])
    /\ UNCHANGED <<checkout, faults>>

(* An existing checkout is ready, be it half cloned, or its origin is       *)
(* another repository and the project is deferred; either way the pass      *)
(* changes nothing.                                                        *)
Look(p) ==
    /\ visit[p].at = "look"
    /\ VisitMoves(p, IF checkout[visit[p].slug] = Absent
                     THEN [visit[p] EXCEPT !.at = "authorize"] ELSE Resting)
    /\ UNCHANGED <<checkout, faults>>

\* A runner that asks for a checkout, as it does for fetch and push.
WithCheckout(repo) == \E s \in Slugs : rows[s] = repo /\ checkout[s] # Absent

\* GithubAppGitRunner gives a token only to the repository of a registered project.
Known(repo) == \E s \in Slugs : rows[s] = repo

\* The preflight and the clone look the repository up, and a token is minted.
Authorize(p) ==
    /\ visit[p].at = "authorize"
    /\ \/ /\ VisitMoves(p, IF Known(visit[p].repo) THEN [visit[p] EXCEPT !.at = "clone"] ELSE Resting)
          /\ UNCHANGED faults
       \/ Fault /\ VisitMoves(p, Resting)
    /\ UNCHANGED checkout

\* git creates the directory, and refuses one that is not empty.
StartClone(p) ==
    /\ visit[p].at = "clone"
    /\ IF checkout[visit[p].slug] = Absent
       THEN /\ checkout' = [checkout EXCEPT
                  ![visit[p].slug] = [repo |-> visit[p].repo, complete |-> FALSE, by |-> p]]
            /\ VisitMoves(p, [visit[p] EXCEPT !.at = "cloning"])
       ELSE UNCHANGED checkout /\ VisitMoves(p, Resting)
    /\ UNCHANGED faults

(* A clone that fails removes what is at its path.  One whose directory is   *)
(* gone fails, and what is at its path may be somebody else's by now.       *)
EndClone(p) ==
    /\ visit[p].at = "cloning" /\ VisitMoves(p, Resting)
    /\ LET s == visit[p].slug
       IN \/ /\ checkout[s].by = p /\ UNCHANGED faults
             /\ checkout' = [checkout EXCEPT ![s].complete = TRUE, ![s].by = None]
          \/ /\ checkout' = [checkout EXCEPT ![s] = Absent]
             /\ IF checkout[s].by = p THEN Fault ELSE UNCHANGED faults

-----------------------------------------------------------------------------
(* The worker's loop: ProjectDeletionProcessor comes before all other work. *)

Works(at, slug) ==
    /\ worker' = [at |-> at, slug |-> slug]
    /\ UNCHANGED visit
    /\ Contended(IF at = "verified" /\ checkout[slug].by # None THEN contended \union {slug}
                 ELSE contended)

\* A queue read from its end.
Newest == Last(requests)

\* ORDER BY requested_at, the first row.
Oldest == Head(requests)

FindRequest ==
    /\ worker.at = "idle" /\ requests # <<>> /\ Works("found", Oldest)
    /\ UNCHANGED <<rows, requests, checkout, faults>>

\* A checkout that is taken for the project's because of its path.
AnyOrigin(s) == TRUE

\* The origin is the registered repository.
Matches(s) == checkout[s].repo = rows[s]

\* A checkout of something else is refused, and the cycle fails.
VerifyCheckout ==
    /\ worker.at = "found"
    /\ LET s == worker.slug
       IN \/ checkout[s] = Absent /\ Works("removed", s) /\ UNCHANGED faults
          \/ checkout[s] # Absent /\ Matches(s) /\ Works("verified", s) /\ UNCHANGED faults
          \/ checkout[s] # Absent /\ ~Matches(s) /\ Works("idle", None) /\ UNCHANGED faults
          \/ Works("idle", None) /\ Fault
    /\ UNCHANGED <<rows, requests, checkout>>

RemoveCheckout ==
    /\ worker.at = "verified" /\ Works("removed", worker.slug)
    /\ checkout' = [checkout EXCEPT ![worker.slug] = Absent]
    /\ UNCHANGED <<rows, requests, faults>>

\* The foreign key cascades: a project has at most one request.
Cascaded(s) == RemoveFirst(requests, s)

EraseProject ==
    /\ worker.at = "removed" /\ Works("idle", None)
    /\ rows' = [rows EXCEPT ![worker.slug] = None]
    /\ requests' = Cascaded(worker.slug)
    /\ UNCHANGED <<checkout, faults>>

\* The clones die with the container, and leave what they have.
CrashWorker ==
    /\ worker.at # "down" /\ Fault
    /\ worker' = [at |-> "down", slug |-> None]
    /\ visit' = [p \in Passes |-> Resting]
    /\ checkout' = [s \in Slugs |-> [checkout[s] EXCEPT !.by = None]]
    /\ contended' = {}
    /\ UNCHANGED <<rows, requests>>

RestartWorker ==
    /\ worker.at = "down" /\ Works("idle", None)
    /\ UNCHANGED <<rows, requests, checkout, faults>>

Dashboard == \E s \in Slugs : RequestDeletion(s) \/ \E r \in Repos : Register(s, r)

\* A visit goes on.
Visit(p) == Look(p) \/ Authorize(p) \/ StartClone(p) \/ EndClone(p)
Visited(s) == \E p \in Passes : StartVisit(s, p)

Loop == FindRequest \/ VerifyCheckout \/ RemoveCheckout \/ EraseProject \/ RestartWorker

Next ==
    \/ Dashboard \/ Loop \/ CrashWorker
    \/ (\E s \in Slugs : Visited(s)) \/ (\E p \in Passes : Visit(p))

(* The worker's loop goes on, a visit under way ends, and the timer, which  *)
(* waits for no pass, has every project visited again and again.           *)
Fairness ==
    /\ WF_vars(Loop)
    /\ \A p \in Passes : WF_vars(Visit(p))
    /\ \A s \in Slugs : SF_vars(Visited(s))

Spec == Init /\ [][Next]_vars /\ Fairness

-----------------------------------------------------------------------------
(* Properties.                                                             *)

(* removeCheckout "removes only a registered checkout": whatever passes     *)
(* clone meanwhile, a complete checkout is removed only for a project whose *)
(* deletion was requested, and only when it is of that project's repository.*)
(* The exception, by name: a deletion took a clone at work for the checkout *)
(* and removed the directory under it.  That clone fails, and its cleanup   *)
(* takes what is at the path by then, which may be the complete checkout of *)
(* the project registered there since.                                      *)
OnlyItsCheckoutIsRemoved ==
    [][\A s \in Slugs :
          checkout[s].complete /\ checkout'[s] = Absent =>
             \/ Contains(requests, s) /\ checkout[s].repo = rows[s]
             \/ s \in contended]_vars

\* A request that cannot be served: another repository is at the project's path.
Stuck == \E s \in ToSet(requests) : checkout[s] # Absent /\ checkout[s].repo # rows[s]

(* ProjectDeletionProcessor: a requested deletion is carried out, across    *)
(* crashes and failing commands and whatever else the worker has to do,     *)
(* unless a request cannot be served: that one holds up every other.        *)
DeletionIsCarriedOut ==
    \A s \in Slugs : Contains(requests, s) ~> (~Registered(s) \/ Stuck)

\* What is at the path is of another repository, or a clone that nobody finishes.
Broken(s) ==
    /\ checkout[s] # Absent
    /\ checkout[s].repo # rows[s] \/ (~checkout[s].complete /\ checkout[s].by = None)

(* provisionRegisteredProjects: a registered project gets its checkout,     *)
(* whatever becomes of the projects beside it, unless its path is taken or  *)
(* was left half cloned, or its deletion took a clone at work for the       *)
(* checkout: from then on the clones of two passes may remove each other's  *)
(* directory for ever.                                                      *)
ProjectIsProvisioned ==
    \A s \in Slugs :
        Registered(s) ~> \/ ~Registered(s) \/ checkout[s].complete
                         \/ Broken(s) \/ s \in contended

=============================================================================
