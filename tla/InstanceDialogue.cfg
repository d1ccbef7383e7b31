SPECIFICATION FairSpec
CONSTANTS
  Operations = {"interactive"}
  Behaviours = {"ask", "reset", "exit"}
  MaxCommands = 5
  MaxInterrupts = 0
PROPERTIES
  ServiceSpec
