SPECIFICATION FairSpec
CONSTANTS
  Calls = {1, 2}
  Signals = {h1}
  Others = {h1, main}
  Main = main
  First = simple
  Second = slave
  Services = {simple, slave}
  Objects = {simple, slave, 1, 2}
  Identities = {simple, slave, 1, 2}
  First_client = client1
  Second_client = client2
  Clients = {client1, client2}
  Users <- TwoUsers
  Certified <- OneCertified
  ClientId <- ClientOf
  Key <- KeyOf
  ClientLists <- ListsOfOne
  PasswordCheck = TRUE
  SSLCheck = TRUE
  None = None
  Order <- FirstThenSecond
  Taken = {simple}
  Slaves = {slave}
  MaxLost = 1
INVARIANTS TypeOK OnlyAuthorized NoCallAfterDestruction StopsInReverse StoppedHasNoServant PublishedIsReachable StoppedIsUnlisted

PROPERTY NodeEnds
