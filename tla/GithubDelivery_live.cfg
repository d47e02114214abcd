SPECIFICATION Spec
CONSTANTS
    e1 = e1
    e2 = e2
    p1 = p1
    None = None
    Executions <- TwoExecutions
    Items <- OneIssue
    Projects <- OneProject
    ProjectOf <- SameProject
    Priority <- SamePriority
    DependsOn <- NoDependency
    Summaries <- MCSummaries
    MaxEdits = 0
    MaxCancels = 1
    MaxCrashes = 1
    MaxOutages = 0
INVARIANTS
    WaitingIssueIsAnswerable
    RunIsShown
    OfferedDecisionIsAwaited
PROPERTIES
    EveryRunEnds
    MergedIssueCompletes
CHECK_DEADLOCK FALSE
