SPECIFICATION FairSpec
CONSTANTS
  Operations = {"command", "interactive", "testInterrupt"}
  Behaviours = {"ask", "exit"}
  MaxCommands = 4
  MaxInterrupts = 1
INVARIANTS
  TypeOK
  SkipsOnlyPastReplies
PROPERTIES
  CallReturns
