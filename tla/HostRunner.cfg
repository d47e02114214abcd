SPECIFICATION Spec
CONSTANTS
    Executions = {e1}
    None = None
    MaxRequests = 3
    MaxFaults = 2
INVARIANTS
    RecordedEndIsAdes
PROPERTIES
    EveryProcessEnds
CHECK_DEADLOCK FALSE
