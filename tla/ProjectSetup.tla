----------------------------- MODULE ProjectSetup ------------------------------
(* From a registered repository to a project ADE may work on: the setup      *)
(* request of the dashboard (labels, setup pull request, initialization      *)
(* task), the worker's initialization, the proof it leaves in                *)
(* github_work_profiles beside the orchestrator's refreshes, and the advice  *)
(* of the project page, which an operator follows.                           *)
EXTENDS Naturals, FiniteSets, SequencesExt

CONSTANTS
    SetupRequests,      \* handlers of POST setup, which may overlap
    Labels,             \* REQUIRED_LABELS
    StartingContents,   \* bound of the runs: what a registered repository may hold
    MaxActs,            \* bound of the runs: foreign changes, second tabs
    MaxSetupFaults      \* bound of the runs: failing calls, crashes

ASSUME SetupAssumption == MaxActs \in Nat /\ MaxSetupFaults \in Nat

VARIABLES
    labels,         \* GitHub: the labels there are
    files,          \* GitHub: what the default branch holds
    head,           \* GitHub: revision of the default branch
    setupPulls,     \* GitHub: open setup pull requests, oldest first
    repairOpen,     \* GitHub: a pull request of an initialization task is open
    profileRow,     \* github_work_profiles
    initTask,       \* v0_tasks: the initialization
    initialization, \* the worker: where it is, with which checkout
    request,        \* the handlers
    adeVersion,     \* the ADE runtime, of the worker and of the dashboard's config
    versionKnown,   \* the dashboard's config names the version it expects
    overlapped,     \* history: a request began while another one ran
    setupActs, setupFaults

repositoryVars == <<labels, files, head, setupPulls, repairOpen>>
taskVars == <<profileRow, initTask, initialization>>
setupCounters == <<overlapped, setupActs, setupFaults>>
setupVars == <<repositoryVars, taskVars, request, adeVersion, versionKnown, setupCounters>>

\* "ade" stands for what ADE itself checks and the dashboard does not look at.
Mandatory == {"profile", "instructions", "skills"}
Paths == Mandatory \union {"template", "ade"}

NoRow == [status |-> "absent", ref |-> 0, version |-> 0, contract |-> FALSE]
Quiet == [at |-> "idle", labels |-> {}, files |-> {}]
NoCheckout == [at |-> "idle", rev |-> 0, complete |-> FALSE, version |-> 0]

SetupTypeOK ==
    /\ labels \subseteq Labels
    /\ files \in [Paths -> {"missing", "invalid", "present"}]
    /\ head \in Nat \ {0}
    /\ setupPulls \in Seq([adds : SUBSET Paths, overwrites : SUBSET Paths])
    /\ repairOpen \in BOOLEAN
    /\ profileRow \in [status : {"absent", "setup-required", "compatible", "incompatible"},
                       ref : Nat, version : Nat, contract : BOOLEAN]
    /\ initTask \in {"none", "pending", "running"}
    /\ initialization \in
            [at : {"idle", "inspecting", "recording", "repairing", "completing"},
             rev : Nat, complete : BOOLEAN, version : Nat]
    /\ request \in [SetupRequests ->
            [at : {"idle", "inspecting", "labelling", "looking", "creating", "rechecking",
                   "activating"},
             labels : SUBSET Labels, files : SUBSET Paths]]
    /\ adeVersion \in Nat \ {0} /\ versionKnown \in BOOLEAN /\ overlapped \in BOOLEAN
    /\ setupActs \in 0..MaxActs /\ setupFaults \in 0..MaxSetupFaults

SetupInit ==
    /\ labels = {} /\ setupPulls = <<>> /\ repairOpen = FALSE /\ head = 1
    /\ \E present \in StartingContents :
          files = [p \in Paths |-> IF p \in present THEN "present" ELSE "missing"]
    /\ profileRow = NoRow /\ initTask = "none" /\ initialization = NoCheckout
    /\ request = [r \in SetupRequests |-> Quiet]
    /\ adeVersion = 1 /\ versionKnown \in BOOLEAN
    /\ overlapped = FALSE /\ setupActs = 0 /\ setupFaults = 0

SetupFault == setupFaults < MaxSetupFaults /\ setupFaults' = setupFaults + 1
NoSetupFault == UNCHANGED setupFaults
Act == setupActs < MaxActs /\ setupActs' = setupActs + 1

-----------------------------------------------------------------------------
(* inspectProjectSetup, of the repository as it is and the proof there is. *)

\* Skill directories are looked for where a valid profile declares them, or
\* where the profile that is planned would.
MissingFiles ==
    {p \in Paths \ {"ade"} :
        files[p] = "missing" /\ (p = "skills" => files["profile"] # "invalid")}

MissingLabels == Labels \ labels

RepositoryReady ==
    MissingLabels = {} /\ \A p \in Mandatory : files[p] = "present"

\* The proof is tied to versions where they are known, to the revision otherwise.
ProofStatus ==
    IF profileRow.ref = 0 THEN "unknown"
    ELSE IF profileRow.status # "compatible" THEN "incompatible"
    ELSE IF (IF versionKnown THEN profileRow.contract /\ profileRow.version = adeVersion
             ELSE profileRow.ref = head)
         THEN "fresh" ELSE "stale"

SetupReady == RepositoryReady /\ ProofStatus = "fresh"

\* The page of the project: what it asks its reader to do next.
Advice ==
    IF initTask # "none" THEN "wait"
    ELSE IF files["profile"] = "invalid" THEN "fix"
    ELSE IF ~RepositoryReady THEN IF setupPulls # <<>> THEN "review" ELSE "prepare"
    ELSE IF ProofStatus # "fresh" THEN "prepare"
    ELSE "done"

-----------------------------------------------------------------------------
(* The handler of a setup request: prepareProjectActivation.               *)

InFlightRequests == {r \in SetupRequests : request[r].at # "idle"}
Handle(r, next) == request' = [request EXCEPT ![r] = next]
Throws(r) == SetupFault /\ Handle(r, Quiet)

\* The operator does what the page says; a second tab may do it again meanwhile.
Press(r) ==
    /\ request[r].at = "idle" /\ Advice = "prepare"
    /\ Handle(r, [Quiet EXCEPT !.at = "inspecting"])
    /\ IF InFlightRequests = {} THEN UNCHANGED <<overlapped, setupActs>>
       ELSE Act /\ overlapped' = TRUE
    /\ UNCHANGED <<repositoryVars, taskVars, adeVersion, versionKnown, setupFaults>>

\* What is left of a plan: labels, then files, then the second inspection.
Planned(missing, planned) ==
    [at |-> IF missing # {} THEN "labelling" ELSE IF planned # {} THEN "looking"
            ELSE "rechecking",
     labels |-> missing, files |-> planned]

\* An inspection that fails is answered with empty lists and the request goes on.
InspectBefore(r) ==
    /\ request[r].at = "inspecting"
    /\ \/ NoSetupFault /\ Handle(r, Planned(MissingLabels, MissingFiles))
       \/ SetupFault /\ Handle(r, Planned({}, {}))
    /\ UNCHANGED <<repositoryVars, taskVars, adeVersion, versionKnown, overlapped, setupActs>>

(* One label after the other; GitHub refuses a label that exists by now,    *)
(* and a failing call ends the request.                                     *)
CreateLabel(r) ==
    /\ request[r].at = "labelling"
    /\ \E l \in request[r].labels :
          \/ /\ l \notin labels /\ labels' = labels \union {l} /\ NoSetupFault
             /\ Handle(r, Planned(request[r].labels \ {l}, request[r].files))
          \/ l \in labels /\ UNCHANGED labels /\ Handle(r, Quiet) /\ NoSetupFault
          \/ labels' \in {labels, labels \union {l}} /\ Throws(r)
    /\ UNCHANGED <<files, head, setupPulls, repairOpen, taskVars, adeVersion, versionKnown,
                   overlapped, setupActs>>

\* A pull request for every request that has files to add.
OpenUnlooked(r) ==
    /\ request[r].at = "looking"
    /\ Handle(r, [request[r] EXCEPT !.at = "creating"]) /\ NoSetupFault
    /\ UNCHANGED <<repositoryVars, taskVars, adeVersion, versionKnown, overlapped, setupActs>>

(* findOpenSetupPullRequest: an open one, whatever it holds, is enough.     *)
FindSetupPull(r) ==
    /\ request[r].at = "looking"
    /\ \/ NoSetupFault /\ Handle(r, [request[r] EXCEPT
                !.at = IF setupPulls # <<>> THEN "rechecking" ELSE "creating"])
       \/ Throws(r)
    /\ UNCHANGED <<repositoryVars, taskVars, adeVersion, versionKnown, overlapped, setupActs>>

(* createSetupPullRequest: a branch of its own from the present head, with  *)
(* the files that were missing when they were looked for.                   *)
CreateSetupPull(r) ==
    /\ request[r].at = "creating"
    /\ LET there == {p \in request[r].files : files[p] # "missing"}
           pull == [adds |-> request[r].files \ there, overwrites |-> there]
       IN \/ /\ setupPulls' = Append(setupPulls, pull)
             /\ Handle(r, [request[r] EXCEPT !.at = "rechecking"]) /\ NoSetupFault
          \/ setupPulls' \in {setupPulls, Append(setupPulls, pull)} /\ Throws(r)
    /\ UNCHANGED <<labels, files, head, repairOpen, taskVars, adeVersion, versionKnown,
                   overlapped, setupActs>>

(* The second inspection, without the proof: only a repository that is      *)
(* ready now is initialized.                                                *)
Recheck(r) ==
    /\ request[r].at = "rechecking"
    /\ \/ NoSetupFault /\ Handle(r, [Quiet EXCEPT
                !.at = IF RepositoryReady THEN "activating" ELSE "idle"])
       \/ Throws(r)
    /\ UNCHANGED <<repositoryVars, taskVars, adeVersion, versionKnown, overlapped, setupActs>>

(* The third, with the proof: unless it is fresh a task is created, also    *)
(* when the inspection fails; the index on active tasks refuses a second.   *)
Activate(r) ==
    /\ request[r].at = "activating" /\ Handle(r, Quiet)
    /\ \/ SetupReady /\ NoSetupFault /\ UNCHANGED initTask
       \/ /\ initTask' = IF initTask = "none" THEN "pending" ELSE initTask
          /\ IF SetupReady THEN SetupFault ELSE NoSetupFault
    /\ UNCHANGED <<repositoryVars, profileRow, initialization, adeVersion, versionKnown,
                   overlapped, setupActs>>

-----------------------------------------------------------------------------
(* The worker: the initialization task and the refresh of the project.     *)

At(at) == initialization.at = at
Goes(at) == initialization' = [initialization EXCEPT !.at = at]

\* An initialization that fails ends its task; the next one begins anew.
Fails == SetupFault /\ initialization' = NoCheckout /\ initTask' = "none"

\* recordAdeReadiness changes a row and makes none.
Recorded(status) ==
    IF profileRow.status = "absent" THEN profileRow
    ELSE [profileRow EXCEPT !.status = status, !.ref = initialization.rev,
                            !.version = initialization.version]

CheckOut ==
    /\ initTask = "pending" /\ At("idle") /\ initTask' = "running"
    /\ initialization' = [at |-> "inspecting", rev |-> head, version |-> adeVersion,
                          complete |-> \A p \in Mandatory \union {"ade"} : files[p] = "present"]
    /\ UNCHANGED <<repositoryVars, profileRow, request, adeVersion, versionKnown, setupCounters>>

(* ADE evaluates the checkout; an incomplete setup is recorded and repaired.*)
InspectSetup ==
    /\ At("inspecting")
    /\ \/ NoSetupFault /\ initialization.complete
          /\ Goes("recording") /\ UNCHANGED <<profileRow, initTask>>
       \/ NoSetupFault /\ ~initialization.complete
          /\ Goes("repairing") /\ profileRow' = Recorded("incompatible") /\ UNCHANGED initTask
       \/ Fails /\ UNCHANGED profileRow
    /\ UNCHANGED <<repositoryVars, request, adeVersion, versionKnown, overlapped, setupActs>>

(* completeReadySetup: the proof, then the end of the task.                 *)
RecordReadiness ==
    /\ At("recording")
    /\ \/ profileRow' = Recorded("compatible") /\ Goes("completing")
          /\ NoSetupFault /\ UNCHANGED initTask
       \/ profileRow' \in {profileRow, Recorded("compatible")} /\ Fails
    /\ UNCHANGED <<repositoryVars, request, adeVersion, versionKnown, overlapped, setupActs>>

(* The agent repairs the configuration and its pull request is opened; it   *)
(* records nothing, since the default branch is not what it validated.      *)
Repair ==
    /\ At("repairing") /\ UNCHANGED profileRow
    /\ \/ repairOpen' = TRUE /\ Goes("completing") /\ NoSetupFault /\ UNCHANGED initTask
       \/ repairOpen' \in {repairOpen, TRUE} /\ Fails
    /\ UNCHANGED <<labels, files, head, setupPulls, request, adeVersion, versionKnown,
                   overlapped, setupActs>>

CompleteInitialization ==
    /\ At("completing") /\ initTask' = "none" /\ initialization' = NoCheckout
    /\ UNCHANGED <<repositoryVars, profileRow, request, adeVersion, versionKnown, setupCounters>>

\* Every refresh writes the readiness columns with their defaults.
ResetRow ==
    [status |-> "setup-required", ref |-> 0, version |-> 0,
     contract |-> files["profile"] = "present"]

(* reconcile writes what was read of the profile; the readiness columns are *)
(* left to recordAdeReadiness unless the row is new.                        *)
RefreshedRow ==
    IF profileRow.status = "absent"
    THEN [status |-> "setup-required", ref |-> 0, version |-> 0,
          contract |-> files["profile"] = "present"]
    ELSE [profileRow EXCEPT !.contract = files["profile"] = "present"]

RefreshProfile ==
    /\ profileRow' = RefreshedRow
    /\ UNCHANGED <<repositoryVars, initTask, initialization, request, adeVersion, versionKnown,
                   setupCounters>>

(* A refresh that fails stores a profile without a contract.                *)
DeferRefresh ==
    /\ profileRow' = [RefreshedRow EXCEPT !.contract = FALSE] /\ SetupFault
    /\ UNCHANGED <<repositoryVars, initTask, initialization, request, adeVersion, versionKnown,
                   overlapped, setupActs>>

-----------------------------------------------------------------------------
(* People.                                                                 *)

Mergeable(pull) ==
    /\ \A p \in pull.adds : files[p] = "missing"
    /\ \A p \in pull.overwrites : files[p] # "missing"

(* The operator reviews what the page points to: merged, or closed when its *)
(* files were added otherwise.                                              *)
ReviewSetupPull ==
    /\ setupPulls # <<>> /\ setupPulls' = Tail(setupPulls)
    /\ LET pull == Head(setupPulls)
       IN IF Mergeable(pull)
          THEN /\ files' = [p \in Paths |->
                     IF p \in pull.adds \union pull.overwrites THEN "present" ELSE files[p]]
               /\ head' = head + 1
          ELSE UNCHANGED <<files, head>>
    /\ UNCHANGED <<labels, repairOpen, taskVars, request, adeVersion, versionKnown, setupCounters>>

MergeRepair ==
    /\ repairOpen /\ repairOpen' = FALSE
    /\ files' = [files EXCEPT !["ade"] = "present"] /\ head' = head + 1
    /\ UNCHANGED <<labels, setupPulls, taskVars, request, adeVersion, versionKnown, setupCounters>>

FixProfile ==
    /\ Advice = "fix" /\ files' = [files EXCEPT !["profile"] = "present"] /\ head' = head + 1
    /\ UNCHANGED <<labels, setupPulls, repairOpen, taskVars, request, adeVersion, versionKnown,
                   setupCounters>>

\* Somebody else pushes, deletes a label, closes the pull request or upgrades ADE.
Disturb ==
    /\ Act
    /\ \/ /\ \E p \in Paths : \E content \in {"missing", "present", "invalid"} \ {files[p]} :
                /\ content = "invalid" => p = "profile"
                /\ files' = [files EXCEPT ![p] = content] /\ head' = head + 1
          /\ UNCHANGED <<labels, setupPulls, adeVersion>>
       \/ \E l \in labels : labels' = labels \ {l} /\ UNCHANGED <<files, head, setupPulls, adeVersion>>
       \/ setupPulls # <<>> /\ setupPulls' = Tail(setupPulls)
          /\ UNCHANGED <<labels, files, head, adeVersion>>
       \/ adeVersion' = adeVersion + 1 /\ UNCHANGED <<labels, files, head, setupPulls>>
    /\ UNCHANGED <<repairOpen, taskVars, request, versionKnown, overlapped, setupFaults>>

-----------------------------------------------------------------------------
Handler(r) ==
    \/ InspectBefore(r) \/ CreateLabel(r) \/ FindSetupPull(r) \/ CreateSetupPull(r)
    \/ Recheck(r) \/ Activate(r)

Initialization ==
    CheckOut \/ InspectSetup \/ RecordReadiness \/ Repair \/ CompleteInitialization

SetupNext ==
    \/ Initialization \/ RefreshProfile \/ DeferRefresh
    \/ ReviewSetupPull \/ MergeRepair \/ FixProfile \/ Disturb
    \/ \E r \in SetupRequests : Press(r) \/ Handler(r)

(* Handlers and tasks go on, the worker refreshes every project time and    *)
(* again, and the operator does what the page says.                         *)
SetupFairness ==
    /\ WF_setupVars(Initialization) /\ WF_setupVars(RefreshProfile)
    /\ WF_setupVars(ReviewSetupPull) /\ WF_setupVars(MergeRepair) /\ WF_setupVars(FixProfile)
    /\ WF_setupVars(\E r \in SetupRequests : Press(r) /\ InFlightRequests = {})
    /\ \A r \in SetupRequests : WF_setupVars(Handler(r))

SetupSpec == SetupInit /\ [][SetupNext]_setupVars /\ SetupFairness

-----------------------------------------------------------------------------
(* Properties.                                                             *)

(* prepareProjectSetup asks a reviewer once: however many requests are      *)
(* made, fail or lose their answers, one setup pull request is open at most,*)
(* unless two requests overlapped.                                          *)
OneSetupPullRequest == ~overlapped => Len(setupPulls) <= 1

(* The page's advice is enough: an operator who presses its button, merges  *)
(* the pull requests it names and repairs the profile gets a project that   *)
(* is ready and stays so, through lost answers, failing refreshes, crashes, *)
(* an initialization before the first refresh (whose proof is lost), foreign*)
(* pushes and an upgrade of ADE, once these have stopped.                   *)
AdviceSuffices == <>[](Advice = "done")
=============================================================================
