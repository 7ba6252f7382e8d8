------------------------------ MODULE MCSpaces ------------------------------
(* Small instances of Spaces for TLC. *)
EXTENDS Spaces, TLC

CONSTANTS u1, u2, u3, p1, p2, s1, s2, i1

MCUsers  == {u1, u2, u3}
MCProcs  == {p1, p2}

\* u1 may be an instance admin; the others are alike, like the processes.
Symmetry == Permutations({p1, p2}) \cup Permutations({u2, u3})

Managing == {"CreateSpace", "LeaveSpace", "UpdateSpaceMember", "RemoveSpaceMember",
             "DeleteSpace", "JoinSpace", "UpdateSpace"}
Membership == Managing \cup {"DeleteAccount", "DeleteUser"}
Inviting == {"CreateSpace", "CreateInvite", "AcceptInvite", "DeleteInvite",
             "UpdateSpaceMember", "LeaveSpace", "DeleteUser", "DeleteSpace"}
Accepting == {"CreateSpace", "CreateInvite", "AcceptInvite", "DeleteSpace"}
Pair     == {u1, u2}
MCLimits == {1, Unlimited}

\* With two people nobody is like u1, but the spaces are alike.
SpaceSymmetry == Permutations(Procs) \cup Permutations(Spaces)
=============================================================================
