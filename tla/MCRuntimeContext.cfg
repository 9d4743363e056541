CONSTANTS
  p = p
  q = q
  Profiles = {p, q}
  Controls = {}
  MaxLayer = 3
  Files <- MCFiles
  NoConfig = NoConfig
  NoContext = NoContext
  MaxRevision = 4
SPECIFICATION BoundedSpec
CHECK_DEADLOCK FALSE
INVARIANTS
  SelectedProfileExists
  CyclesAreInverse
PROPERTIES
  ReloadKeepsValidSelection
