SPECIFICATION FairSpec
CONSTANTS
  p1 = p1
  p2 = p2
  p3 = p3
  Conns = {p1, p2, p3}
  Listen = Listen
  Backlog = 2
  MaxFds = 2
  MaxEvents = 2
INVARIANTS
  EventsAreCurrent
  BacklogAccounted
PROPERTIES
  EverySocketIsServed
  AcceptedUnlessStranded
