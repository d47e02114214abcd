SPECIFICATION Spec
CONSTANTS
    r1 = r1
    r2 = r2
    r3 = r3
    None = None
    Requests <- MCRequests
    Commands <- OperatorCommands
    Deliveries <- MCDeliveries
    Event <- MCEvent
    Policy <- MCPolicy
    MaxScannedLines = 200
    Options <- MCOptions
    MaxFaults = 1
SYMMETRY Symmetry
VIEW Seen
INVARIANTS
    AppliedOnce
    AppliedOrSettled
CHECK_DEADLOCK FALSE
