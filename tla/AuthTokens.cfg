CONSTANTS
  User = {u1}
  Token = {t1, t2, t3, t4}
  Code = {c1, c2}
  Session = {s1, s2}
  MaxEra = 1
SPECIFICATION Spec
SYMMETRY Symmetry
CHECK_DEADLOCK FALSE
INVARIANTS
  RotationBounded
  OldSessionsBounded
  AtMostOneLiveCode
  CodeUseBounded
