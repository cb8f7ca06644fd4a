CONSTANTS
  Me = me
  Here = here
  Tx = {t1}
  Attempt = {a1, a2}
  Restore = restore
SPECIFICATION Spec
SYMMETRY Symmetry
INVARIANTS
  FinishedIsRecorded
  SuccessIsTrue
  RetryIsSafe
