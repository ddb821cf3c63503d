SPECIFICATION FairSpec
CONSTANTS
  c1 = c1
  c2 = c2
  c3 = c3
  alice = alice
  bob = bob
  carol = carol
  Calls = {c1, c2}
  Names = {alice, bob}
  InitUsers <- OneUser
  StackInts <- StackValues
  MaxUsers = 2
  MaxCrashes = 1
  NoCall = NoCall
  NoName = NoName
INVARIANTS
  OneHandlerAtATime
  
  WritesNamedPair
PROPERTY
  CallReturns
