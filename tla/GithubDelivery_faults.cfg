SPECIFICATION SafetySpec
CONSTANTS
    e1 = e1
    e2 = e2
    p1 = p1
    None = None
    Executions <- TwoExecutions
    Items <- OneIssue
    Projects <- OneProject
    ProjectOf <- SameProject
    Priority <- SamePriority
    DependsOn <- NoDependency
    Summaries <- MCSummaries
    MaxEdits = 0
    MaxCancels = 1
    MaxCrashes = 0
    MaxOutages = 2
INVARIANTS
    NoOrphanWithoutFault
PROPERTIES
    KeepsStoreDiscipline
CHECK_DEADLOCK FALSE
