SPECIFICATION Spec
CONSTANTS
    Profiles = 2
    Allowed = {0, 1, 2, 3}
    MaxEdits = 3
    MaxSessions = 2
    MaxFaults = 1
INVARIANTS
    CommittedIsReviewed
    OneComment
PROPERTIES
    EverySessionEnds
    KeepsPipeline
CHECK_DEADLOCK FALSE
