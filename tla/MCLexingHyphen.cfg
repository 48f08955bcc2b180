CONSTANTS
  Files <- Hyphened
  Behinds <- NoByte
  Marks <- MCMarks
  Macros <- MCMacros
  Markers <- MCMarkers
  Captures <- MCCaptures
  ReadMethods <- MCReads
  WriteMethods <- MCWrites
  MaxErrors = 1
  MaxMarks = 1
  Turned = {}
  LineMax = 3
  LiteralMax = 3
  CodeMax = 3
SPECIFICATION Spec
INVARIANT HyphenAtTheEnd
