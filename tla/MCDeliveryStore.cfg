SPECIFICATION StoreSpec
CONSTANTS
    e1 = e1
    e2 = e2
    e3 = e3
    i1 = i1
    i2 = i2
    attempted = attempted
    None = None
    Executions <- MCExecutions
    Items <- MCItems
    Summaries <- MCSummaries
SYMMETRY Interchangeable
INVARIANTS
    LeaseHeldIffInFlight
PROPERTIES
    KeepsWorkLease
CHECK_DEADLOCK FALSE
