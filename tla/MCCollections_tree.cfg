CONSTANTS
  u1 = u1  u2 = u2  u3 = u3  c1 = c1  c2 = c2  c3 = c3  c4 = c4  p1 = p1  p2 = p2  Top = Top
  Users <- One
  Collections <- Four
  Procs <- Both
  Serial = TRUE
  Quota = 3
  GivenRoles = {}
  Restricted = {FALSE}
  Traffic <- Tree
SYMMETRY Symmetry
SPECIFICATION Spec
INVARIANT TypeOK
INVARIANT TreeIsRooted
INVARIANT WithinCollectionQuota
PROPERTY RestoredIsVisible
