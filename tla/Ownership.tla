----------------------------- MODULE Ownership -----------------------------
(***************************************************************************)
(* What the service promises about who owns a space, whatever requests     *)
(* arrive: a space begins with the person who created it as its owner, is  *)
(* never without an owner until it is deleted, and never comes back.       *)
(* Owners are made by owners, or inherit from the last one whose account   *)
(* goes; an owner loses a space by leaving it to other owners, by another  *)
(* owner's decision, or by leaving the instance.                           *)
(***************************************************************************)
CONSTANTS Users, Spaces

VARIABLES
  alive,   \* spaces that exist
  born,    \* ids that were ever taken for a space
  ready,   \* ids taken for spaces that are being created
  owners   \* who owns each space

vars == <<alive, born, ready, owners>>

Init ==
  /\ alive = {}
  /\ born = {}
  /\ ready = {}
  /\ owners = [s \in Spaces |-> {}]

\* An id is taken some time before its space appears, and never again.
Reserve(s) ==
  /\ s \notin born
  /\ born' = born \cup {s}
  /\ ready' = ready \cup {s}
  /\ UNCHANGED <<alive, owners>>

\* The space does not appear after all; its id is lost.
Forget(s) ==
  /\ s \in ready
  /\ ready' = ready \ {s}
  /\ UNCHANGED <<alive, born, owners>>

Create(s, u) ==
  /\ s \in ready
  /\ ready' = ready \ {s}
  /\ alive' = alive \cup {s}
  /\ owners' = [owners EXCEPT ![s] = {u}]
  /\ UNCHANGED born

Grant(s, by, u) ==
  /\ by \in owners[s]
  /\ owners' = [owners EXCEPT ![s] = @ \cup {u}]
  /\ UNCHANGED <<alive, born, ready>>

Renounce(s, u) ==
  /\ owners[s] \ {u} # {}
  /\ owners' = [owners EXCEPT ![s] = @ \ {u}]
  /\ UNCHANGED <<alive, born, ready>>

Revoke(s, by, u) ==
  /\ {by, u} \subseteq owners[s]
  /\ by # u
  /\ owners' = [owners EXCEPT ![s] = @ \ {u}]
  /\ UNCHANGED <<alive, born, ready>>

Delete(s) ==
  /\ s \in alive
  /\ alive' = alive \ {s}
  /\ owners' = [owners EXCEPT ![s] = {}]
  /\ UNCHANGED <<born, ready>>

\* An account goes: the spaces it owned are deleted, keep their other owners,
\* or get an heir.
Depart(u) ==
  \E gone \in SUBSET {s \in alive : owners[s] = {u}} :
  \E heir \in [{s \in alive \ gone : owners[s] = {u}} -> Users \ {u}] :
    /\ alive' = alive \ gone
    /\ owners' = [s \in Spaces |-> IF s \in gone THEN {}
                                   ELSE IF s \in DOMAIN heir THEN {heir[s]}
                                   ELSE owners[s] \ {u}]
    /\ UNCHANGED <<born, ready>>

Next ==
  \/ \E s \in Spaces : Reserve(s) \/ Forget(s) \/ Delete(s)
  \/ \E s \in Spaces, u \in Users : Create(s, u) \/ Renounce(s, u)
  \/ \E s \in Spaces, by, u \in Users : Grant(s, by, u) \/ Revoke(s, by, u)
  \/ \E u \in Users : Depart(u)

Spec == Init /\ [][Next]_vars

-----------------------------------------------------------------------------
(* What follows from it.                                                   *)

\* Exactly the living spaces have owners.
OwnedWhileAlive == \A s \in Spaces : s \in alive <=> owners[s] # {}
=============================================================================
