CONSTANTS
  p = p
  q = q
  r = r
  k = k
  none = none
  Profiles = {p, q, r}
  MaxLayer = 2
  Controls = {k}
  Actions <- MCActions
  Files <- MCFiles
  MaxEdits = 3
SPECIFICATION BoundedSpec
CHECK_DEADLOCK FALSE
INVARIANTS
  CleanIsUnchanged
  EmptyDiffIsUnchanged
  RenamesAreNotEdits
PROPERTY NamesStayResolved
