SPECIFICATION Spec
CONSTANTS
  c1 = c1
  c2 = c2
  c3 = c3
  alice = alice
  bob = bob
  carol = carol
  Calls = {c1, c2}
  Names = {alice, bob, carol}
  InitUsers <- TwoUsers
  StackInts <- StackValues
  MaxUsers = 2
  MaxCrashes = 0
  NoCall = NoCall
  NoName = NoName
INVARIANT
  UnknownNameRefused
