SPECIFICATION Spec
CONSTANTS
  MaxLength = 5
  Comments = FALSE
INVARIANTS
  OneExpression
  ClosedCommandIsComplete
\* A command is refused or read, and that is the end of it.
CHECK_DEADLOCK FALSE
