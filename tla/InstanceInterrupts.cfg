SPECIFICATION FairSpec
CONSTANTS
  Operations = {"command", "interactive", "testInterrupt"}
  Behaviours = {"exit"}
  MaxCommands = 4
  MaxInterrupts = 2
INVARIANTS
  ReadsOwnReply
  IdleInSync
  OneCommandAtATime
PROPERTIES
  ServiceSpec
