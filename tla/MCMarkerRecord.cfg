CONSTANTS
  Rule = {"r", "s"}
  Recursive = {"s"}
  Value = {"v"}
  Memoizing = {"s"}
  End = 2
  MaxDepth = 2
  MaxSaved = 3
SPECIFICATION Spec
INVARIANTS
  ShiftLeavesOne
PROPERTIES
  RolledBack
  NothingAhead
