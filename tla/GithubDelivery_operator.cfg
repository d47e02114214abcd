SPECIFICATION SafetySpec
CONSTANTS
    e1 = e1
    e2 = e2
    p1 = p1
    None = None
    Executions <- TwoExecutions
    Items <- TwoIssues
    Projects <- OneProject
    ProjectOf <- SameProject
    Priority <- SamePriority
    DependsOn <- SecondNeedsFirst
    Summaries <- MCSummaries
    MaxEdits = 1
    MaxCancels = 0
    MaxCrashes = 1
    MaxOutages = 0
INVARIANTS
    ProviderRunsNeedAHuman
    CompletedOnlyAfterMerge
    DependenciesMergedFirst
CHECK_DEADLOCK FALSE
