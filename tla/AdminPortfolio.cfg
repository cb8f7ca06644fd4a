SPECIFICATION Spec
CONSTANTS
  t1 = t1
  t2 = t2
  c1 = c1
  c2 = c2
  Ticker <- MCTicker
  MaxRows = 3
  Whole = 2
  Typed <- MCTyped
  Text <- MCText
  Call <- MCCall
  MaxCommits = 2
SYMMETRY Symmetry
INVARIANTS HistoryTells AllocationBounded EditorIsTheSavedOne OwnChangesShown
PROPERTY FieldsKept
