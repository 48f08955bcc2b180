CONSTANTS
  Pointer = {c1, c2, c3, c4, c5, c6, c7}
  MinSize = 2
  ElementSize = 2
  Header = 1
  Modulus = 64
  Memory = 16
SPECIFICATION Spec
INVARIANTS
  Apart
  NoneLost
  SlotsFit
PROPERTIES
  Implements
