SPECIFICATION Spec
CONSTANTS
  f1 = f1
  f2 = f2
  f3 = f3
  m1 = m1
  m2 = m2
  alice = alice
  bob = bob
  pw = pw
  Fds = {f1, f2}
  Names = {alice, bob}
  Passwds = {pw}
  Msgs = {m1, m2}
  InitUsers <- OneUser
  StackInts <- StackValues
  SentAtColumn = TRUE
  Relogin = FALSE
  MaxUsers = 2
  MaxCrashes = 1
  NoFd = NoFd
  NoName = NoName
  NoMsg = NoMsg
SYMMETRY Symmetry
INVARIANT
  WrittenAtMostOnce
PROPERTIES
  
  OnlyFetchedRowsDeleted
  ImplementsMessageLife
