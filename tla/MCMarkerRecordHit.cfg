CONSTANTS
  Rule = {"r"}
  Recursive = {}
  Value = {"v"}
  Memoizing = {"r"}
  End = 2
  MaxDepth = 3
  MaxSaved = 3
SPECIFICATION Spec
PROPERTIES
  RolledBackAfterReuse
