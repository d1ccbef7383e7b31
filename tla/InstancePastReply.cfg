SPECIFICATION Spec
CONSTANTS
  Operations = {"command"}
  Behaviours = {"ask"}
  MaxCommands = 4
  MaxInterrupts = 0
INVARIANTS
  CallerGetsOwnReply
