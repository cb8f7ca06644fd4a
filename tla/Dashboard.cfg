SPECIFICATION Spec
CONSTANTS
  e1 = e1
  e2 = e2
  Event <- MCEvent
  MaxTimers = 2
SYMMETRY Symmetry
INVARIANTS ToldOnce OwnChangesShown
PROPERTIES DecisionStands TimerPopsItsScreen
