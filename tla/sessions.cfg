SPECIFICATION Spec
CONSTANTS
  f1 = f1
  f2 = f2
  f3 = f3
  m1 = m1
  m2 = m2
  alice = alice
  bob = bob
  pw = pw
  Fds = {f1, f2, f3}
  Names = {alice, bob}
  Passwds = {pw}
  Msgs = {m1}
  InitUsers <- TwoUsers
  StackInts <- StackValues
  SentAtColumn = TRUE
  Relogin = FALSE
  MaxUsers = 3
  MaxCrashes = 1
  NoFd = NoFd
  NoName = NoName
  NoMsg = NoMsg
SYMMETRY Symmetry
INVARIANTS
  TypeOK
  RoutedToOwnSocket
  NoRouteToDeadSocket
  LoggedInIsReachable
