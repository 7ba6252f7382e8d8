CONSTANTS
  u1 = u1   pw1 = pw1  pw2 = pw2  l1 = l1  l2 = l2   p1 = p1  p2 = p2
  Users = {u1}
  Passwords <- Two
  Links = {l1, l2}
  Procs <- MCProcs
  MaxVersion = 2
  MaxFirst = 2
SYMMETRY Symmetry
SPECIFICATION Spec
INVARIANT TypeOK
INVARIANT RevokedStaysOut
INVARIANT SignedInIsConfirmed
INVARIANT FirstSpaceWithConfirmation
