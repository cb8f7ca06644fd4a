SPECIFICATION ListSpec
CONSTANTS
  Size = 2
  Places = 11
  Start <- MCStart
  Rows = 5
  Removals = 2
INVARIANTS DriftBounded EndIsTheEnd OwnChangesShown
