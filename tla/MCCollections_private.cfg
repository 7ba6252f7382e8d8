CONSTANTS
  u1 = u1  u2 = u2  u3 = u3  c1 = c1  c2 = c2  c3 = c3  c4 = c4  p1 = p1  p2 = p2  Top = Top
  Users <- Pair
  Collections <- Two
  Procs <- Both
  Serial = TRUE
  Quota = 0
  GivenRoles = {"CONTRIBUTOR", "OWNER"}
  Restricted = {TRUE, FALSE}
  Traffic <- Private
SYMMETRY Symmetry
SPECIFICATION Spec
INVARIANT AccessOnlyForMembers
INVARIANT PrivateHasMembers
PROPERTY TakesNothingHidden
PROPERTY LeavingTakesNothingSeen
