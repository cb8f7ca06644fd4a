CONSTANTS
  User = {u1, u2}
  Portfolio = {p1}
  Session = {s1}
  MaxVersion = 1
  MaxTrades = 1
SPECIFICATION Spec
PROPERTIES
  KeepsPromise
