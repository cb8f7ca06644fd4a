CONSTANTS
  User = {u1, u2}
  Tx = {t1, t2}
  Session = {s1, s2}
  MaxTime = 1
  MaxEvents = 3
SPECIFICATION Spec
SYMMETRY Symmetry
INVARIANTS
  PaymentsBelongToOwner
  CancellationsBounded
PROPERTIES
  CancelNotLost
