CONSTANTS
  Rule <- MCRule
  Code <- MCCode
  Grammar <- MCGrammar
  Compared <- MCCompared
  Inputs <- MCInputs
  Slot <- MCSlot
  CaptIndex <- MCCaptIndex
  Char <- Letters
  MarkerText <- NoMarkers
  StartRules = {"Word", "List", "Top", "Quote", "Tok", "Corner", "Tangle", "Ring", "Idler"}
  MaxLen = 5
  MaxPos = 5
  MaxParse = 4
  MaxDepth = 20
SPECIFICATION FairSpec
INVARIANTS
  Inductive
  NoDangling
  EachFreedOnce
  MarkersOfCalls
  GrowthInOrder
  ResultIsPeg
  ActionsOfMatch
  MemoIsPeg
PROPERTIES
  MemoStable
  ParseEnds
