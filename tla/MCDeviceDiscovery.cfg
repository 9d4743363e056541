SPECIFICATION Spec
CONSTANTS
  Ports = {p1, p2}
  Kinds <- MCKinds
  MaxPlugs = 2
INVARIANTS
  NeverGuesses
  ReadsOneDevice
PROPERTIES
  FindsIt
