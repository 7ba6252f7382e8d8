CONSTANTS
  u1 = u1  u2 = u2  u3 = u3  p1 = p1  p2 = p2  s1 = s1  s2 = s2  i1 = i1
  Users <- MCUsers
  Procs <- MCProcs
  Spaces = {s1}
  Invites = {i1}
  Serial = FALSE
  Admins = {u1}
  Limits = {1, 2}
  SpaceQuota = 0
  MaxUsed = 1
  Traffic <- Accepting
SYMMETRY Symmetry
SPECIFICATION Spec
INVARIANT UsedWithinLimit
INVARIANT NobodyInDeletedSpaces
