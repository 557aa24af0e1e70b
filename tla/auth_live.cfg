SPECIFICATION FairSpec
CONSTANTS
  MaxTokens = 5
  Calls = {c1, c2}
  Flights = {f1, f2}
  MaxSends = 2
  Faults = {"lost", "restart", "signout"}
  NoFlight = NoFlight
INVARIANTS TypeOK SingleFlight
PROPERTIES PhaseFollowsSession RefreshEnds
CHECK_DEADLOCK FALSE
