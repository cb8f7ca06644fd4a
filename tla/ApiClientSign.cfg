CONSTANTS
  Call = {}
  Me = me
  Device = device
  SignIn = {in}
  SignOut = {out}
  MaxPair = 3
SPECIFICATION ClientSpec
INVARIANTS
  SignOutHolds
