CONSTANTS
  Rule <- MCRule
  StartRules <- MCStart
  Code <- MCCode
  Grammar <- MCGrammar
  Inputs <- MCInputs
  Slot <- MCSlot
  CaptIndex <- MCCaptIndex
  Char <- Letters
  Compared <- MCCompared
  MarkerText <- MCMarkerText
  Value <- Values
  UserCode <- MCUserCode
  MaxLen = 3
  MaxPos = 3
  MaxParse = 2
  MaxDepth = 2
SPECIFICATION MarkedSpec
INVARIANTS
  CodeWellFormed
  ReachClaims
  MarkedAsMeant
