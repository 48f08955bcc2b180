CONSTANTS
  Rule = {"r", "s"}
  MaxIndex = 2
  MaxObject = 3
  MaxCap = 7
  Grown <- MCGrown
SPECIFICATION Spec
INVARIANTS
  ObjectsSound
PROPERTIES
  Implements
  Bounded
