CONSTANTS
  Files <- MCFiles
  Behinds <- MCBehinds
  Marks <- MCMarks
  Macros <- MCMacros
  Markers <- MCMarkers
  Captures <- MCCaptures
  ReadMethods <- MCReads
  WriteMethods <- MCWrites
  MaxErrors = 1
  MaxMarks = 1
  Turned <- MCTurned
  LineMax = 3
  LiteralMax = 3
  CodeMax = 3
SPECIFICATION Spec
INVARIANTS
  PositionsRight
  EndsFound
  DecodersAgree
  MatchesAsWritten
  CodeWritten
