CONSTANTS
  Rule <- MCRule
  Code <- MCCode
  Grammar <- MCGrammar
  Compared <- MCCompared
  Inputs <- MCInputs
  Slot <- MCSlot
  CaptIndex <- MCCaptIndex
  Char <- Letters
  MarkerText <- NoMarkers
  StartRules = {"Ahead"}
  MaxLen = 3
  MaxPos = 3
  MaxParse = 2
  MaxDepth = 20
SPECIFICATION Spec
INVARIANTS
  MemoForItsPosition
