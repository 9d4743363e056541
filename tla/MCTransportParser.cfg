CONSTANTS
  F13 = F13
  F14 = F14
  F1 = F1
  A1 = A1
  A2 = A2
  AL = AL
  AP = AP
  Codes = {F13, F14, F1}
  Shift = Shift
  Other = Other
  Controls = {A1, A2, AL, AP}
  Codebook <- MCCodebook
  Timeout = 2
  MaxTime = 5
SPECIFICATION BoundedSpec
INVARIANTS
  HeldIsDown
PROPERTIES
  Alternates
  LateShiftIsForgotten
