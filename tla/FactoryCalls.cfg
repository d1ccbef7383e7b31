SPECIFICATION FairSpec
CONSTANTS
  Calls = {1, 2, 3, 4}
  Others = {}
  Factory = factory
  Services = {factory}
  Objects = {factory, 1, 2, 3, 4}
  Identities = {factory, 0, 1, 2, 3, 4}
  Users = {anybody}
  Certified = {}
  Clients = {anybody}
  ClientId <- OwnName
  Key <- OwnKey
  PasswordCheck = FALSE
  SSLCheck = FALSE
  Launches = {1, 2}
  Endless = {}
  None = None
INVARIANTS TypeOK SoleUse NoProcessLeft OwnDirectory CrashNeedsRestart
PROPERTIES ProcessServiceSpec DestroyEndsProcess
