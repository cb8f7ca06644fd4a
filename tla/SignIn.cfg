SPECIFICATION Spec
CONSTANTS
  a1 = a1
  a2 = a2
  s1 = s1
  s2 = s2
  Account <- MCAccount
  Slot <- MCSlot
  MyList = my
  MaxFlows = 2
SYMMETRY Symmetry
INVARIANTS UserHoldsKey DataIsOwners ForcedUserChanges SignedOutStaysOut
