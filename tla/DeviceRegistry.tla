--------------------------- MODULE DeviceRegistry ---------------------------
(***************************************************************************)
(* What enrolment promises to the rest of the server: a device belongs to  *)
(* no family or to exactly one, for ever; the guardians who see it are its *)
(* family's owner and whoever one of its guardians has added, and nobody   *)
(* is ever dropped.  Restarts are invisible.                               *)
(***************************************************************************)
EXTENDS Naturals

CONSTANTS Accounts, Devices

VARIABLE guardiansOf  \* device -> the accounts that see it ({}: not enrolled)

Init == guardiansOf = [d \in Devices |-> {}]

\* An unclaimed device joins the family of one account.
Enrol(d, a) ==
    /\ guardiansOf[d] = {}
    /\ guardiansOf' = [guardiansOf EXCEPT ![d] = {a}]

\* A guardian of the device adds another.
Share(d, a, g) ==
    /\ a \in guardiansOf[d]
    /\ guardiansOf' = [guardiansOf EXCEPT ![d] = @ \union {g}]

Next ==
    \/ \E d \in Devices, a \in Accounts : Enrol(d, a)
    \/ \E d \in Devices, a, g \in Accounts : Share(d, a, g)

Spec == Init /\ [][Next]_guardiansOf
=============================================================================
