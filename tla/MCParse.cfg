CONSTANTS
  Texts <- MCTexts
  Identifier <- MCIdentifier
  Number <- MCNumber
  Class <- MCClass
  String <- MCString
  Code <- MCCode
  EOL <- MCEOL
  Value <- MCValue
  Faults <- MCFaults
  Hash <- MCHash
  Markers <- MCMarkers
  MaxRules = 3
SPECIFICATION Spec
INVARIANTS
  NodesOwned
  TextRead
  ListsOfRule
  DefinitionFound
  KeptAreNeeded
  UsesSeen
  ErrorsCounted
