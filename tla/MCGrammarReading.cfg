CONSTANTS
  main = main
  lib = lib
  sub = sub
  none = none
  absent = absent
  denied = denied
  File <- MCFile
  Root = main
  Path <- MCPath
  Opened <- MCOpened
  Contents <- MCContents
  Setting <- MCSetting
  Behind <- MCBehind
  Packcc <- MCPackcc
  Unterminated <- MCUnterminated
SPECIFICATION Spec
INVARIANTS
  ReadOnce
  ExpandedInPlace
  ErrorsKept
  SettingsOfRoot
PROPERTIES
  VersionCounts
