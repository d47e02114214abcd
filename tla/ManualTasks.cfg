SPECIFICATION MCSpec
CONSTANTS
    p1 = p1
    p2 = p2
    None = None
    Tasks <- TwoTasks
    Projects <- TwoProjects
    ProjectOf <- OwnProject
    Initializations <- SecondOnly
    Unremovable <- SecondProject
    MaxRetries = 1
    MaxFaults = 1
    LogRoom = 23
    PageLimit = 22
    MaxEnrichments = 2
    MaxPrRetries = 1
    MaxLosses = 1
INVARIANTS
    AgentRunsOnce
    SuccessIsPublished
    CancelledIsNotPublished
    FailureIsExplained
    CauseIsNamed
PROPERTIES
    OutcomeIsKept
    EveryTaskEnds
    RetryIsAnswered
CHECK_DEADLOCK FALSE
