SPECIFICATION Spec
CONSTANTS
  User <- MCUser
  Me = "ann"
  Text <- MCText
  MaxCommits = 2
INVARIANTS LastSiteAdminStays PasswordReachesItsUser
PROPERTY EditsKept
