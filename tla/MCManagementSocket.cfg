\* Three daemons, one client of each kind in turn.
CONSTANTS
  Daemons = {d1, d2, d3}
  Clients = {c}
SPECIFICATION FairSpec
CHECK_DEADLOCK FALSE
INVARIANTS
  PathLeadsToServer
  NoStaleSocket
  ExitCodeIsTrue
PROPERTY ClientEnds
