CONSTANTS
  u1 = u1  u2 = u2  u3 = u3  p1 = p1  p2 = p2  s1 = s1  s2 = s2  i1 = i1
  Users <- Pair
  Procs <- MCProcs
  Spaces = {s1, s2}
  Invites = {i1}
  Serial = TRUE
  Admins = {u1}
  Limits <- MCLimits
  SpaceQuota = 1
  MaxUsed = 2
  Traffic <- Inviting
SYMMETRY SpaceSymmetry
SPECIFICATION Spec
PROPERTY DeadInvitesStayUnused
PROPERTY JoiningNeverDowngrades
PROPERTY CreatingStaysWithinQuota
