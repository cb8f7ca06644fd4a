CONSTANTS
  Call = {r1, r2}
  Me = me
  Device = device
  SignIn = {}
  SignOut = {}
  MaxPair = 3
SPECIFICATION FairSpec
INVARIANTS
  SingleFlight
  PresentsLiveToken
PROPERTIES
  CallSettles
