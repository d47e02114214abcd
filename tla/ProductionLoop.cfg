SPECIFICATION Spec
CONSTANTS
    Projects = {p1, p2}
    None = None
    MaxTurns = 3
INVARIANTS
    BlockIsObeyed
PROPERTIES
    ChangesAreSeen
    TasksRun
