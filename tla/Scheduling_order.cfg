\* An order naming every enabled, open issue once is refused by the store.
CONSTANTS
  Projects = {1, 2}
  Issues = {1, 2, 3}
  Owner <- OwnerOf
  Priority <- PriorityOf
  DependsOn <- DependsOnOf
  Outcomes <- OutcomesOf
  Admitted = {1, 2, 3}
  Operators = {o1, o2}
  MaxPosition = 4
  Operated = {1, 2}
  MaxActs = 2
SYMMETRY Interchangeable
SPECIFICATION Spec
INVARIANTS
  CompleteOrderIsAccepted
CHECK_DEADLOCK FALSE
