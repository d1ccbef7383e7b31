SPECIFICATION FairSpec
CONSTANTS
  Calls = {1, 2, 3}
  Others = {}
  Factory = factory
  Services = {factory}
  Objects = {factory, 1, 2, 3}
  Identities = {factory, 0, 1, 2, 3}
  Users = {anybody}
  Certified = {}
  Clients = {anybody}
  ClientId <- OwnName
  Key <- OwnKey
  PasswordCheck = FALSE
  SSLCheck = FALSE
  Launches = {1}
  Endless = {2}
  None = None
PROPERTY DestroyEndsProcess
