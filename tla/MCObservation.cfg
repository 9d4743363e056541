CONSTANTS
  F13 = F13
  A1 = A1
  AL = AL
  Codes = {F13}
  Shift = Shift
  Other = Other
  Controls = {A1, AL}
  Codebook <- MCCodebook
  Timeout = 1
  MaxTime = 2
  Interfaces = {keyboard, mouse}
  Keyboard = keyboard
  MaxInput = 3
SPECIFICATION FairSpec
INVARIANTS
  EndsClean
  ReleasedWhenOver
  SeenIsHeld
PROPERTIES
  InTimeOrder
  WaitEnds
  ImplementsContract
