CONSTANTS
  User = {u1}
  Portfolio = {p1}
  Session = {s1, s2}
  MaxVersion = 2
  MaxTrades = 1
SPECIFICATION HSpec
SYMMETRY Symmetry
INVARIANTS
  TypeOK
  MembershipsBounded
  NoOrphanRows
  ToggleLogTells
PROPERTIES
  JoinsWereAllowed
  BuysMatchAllowedJoin
