CONSTANTS
  Rule <- MCRule
  Code <- MCCode
  Grammar <- MCGrammar
  Compared <- MCCompared
  Inputs <- MCInputs
  Slot <- MCSlot
  CaptIndex <- MCCaptIndex
  Char <- Letters
  MarkerText <- NoMarkers
  StartRules = {"Outer"}
  MaxLen = 1
  MaxPos = 1
  MaxParse = 1
  MaxDepth = 20
SPECIFICATION Spec
INVARIANTS
  ReevaluatedOnce
