------------------------------ MODULE MCProjects ------------------------------
(* One run for the two parts of a project's onboarding, its checkout and its *)
(* repository setup: they share no state, so each is checked while the other *)
(* rests.                                                                    *)
EXTENDS ProjectLifecycle, ProjectSetup

VARIABLE part

\* At one project's path either repository is registered, at the other's one.
Pairs ==
    LET s == CHOOSE x \in Slugs : TRUE
    IN ({s} \X Repos) \union ((Slugs \ {s}) \X {CHOOSE r \in Repos : TRUE})

\* Nothing yet, or all but a skill directory and what only ADE looks at.
Contents == {{}, {"profile", "instructions", "template"}}

allVars == <<vars, setupVars, part>>

\* A project whose setup is done, for the behaviours of the checkouts.
SetupRests ==
    /\ labels = Labels /\ setupPulls = <<>> /\ repairOpen = FALSE /\ head = 1
    /\ files = [p \in Paths |-> "present"]
    /\ profileRow = [status |-> "compatible", ref |-> 1, version |-> 1, contract |-> TRUE]
    /\ initTask = "none" /\ initialization = NoCheckout
    /\ request = [r \in SetupRequests |-> Quiet]
    /\ adeVersion = 1 /\ versionKnown = TRUE
    /\ overlapped = FALSE /\ setupActs = 0 /\ setupFaults = 0

MCInit ==
    /\ Init
    /\ \/ part = "checkout" /\ SetupRests
       \/ part = "setup" /\ SetupInit

MCNext ==
    /\ UNCHANGED part
    /\ \/ part = "checkout" /\ Next /\ UNCHANGED setupVars
       \/ part = "setup" /\ SetupNext /\ UNCHANGED vars

MCSpec == MCInit /\ [][MCNext]_allVars /\ Fairness /\ SetupFairness
=============================================================================
