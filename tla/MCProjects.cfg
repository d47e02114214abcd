SPECIFICATION MCSpec
CONSTANTS
    Slugs = {s1, s2}
    Repos = {r1, r2}
    None = None
    Offered <- Pairs
    Passes = {v1, v2}
    MaxFaults = 1
    SetupRequests = {q1, q2}
    Labels = {l1}
    StartingContents <- Contents
    MaxActs = 1
    MaxSetupFaults = 1
INVARIANTS
    OneSetupPullRequest
PROPERTIES
    OnlyItsCheckoutIsRemoved
    DeletionIsCarriedOut
    ProjectIsProvisioned
    AdviceSuffices
CHECK_DEADLOCK FALSE
