SPECIFICATION Spec
CONSTANTS
  p1 = p1  i1 = i1
  Path = {p1}
  Item = {i1}
  NoDoc = NoDoc
  Mutation <- SetAndJoin
  MaxListeners = 2
  MaxCommits = 3
  MaxInFlight = 2
  MaxMishaps = 1
INVARIANTS TypeOK PageCatchesUp NobodyIsForgotten TrackerAssertions
PROPERTIES NeverOlder PageShowsServerInTheEnd FirstEvent
CHECK_DEADLOCK FALSE
