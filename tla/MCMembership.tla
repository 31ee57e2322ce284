---------------------------- MODULE MCMembership ----------------------------
(* Small instances of Membership for TLC.                                  *)
EXTENDS Membership, TLC

\* Users, invitation ids, house ids and call slots are interchangeable: no
\* action or property names one of them.
Symmetry == Permutations(User) \cup Permutations(House)
                \cup Permutations(Invitation) \cup Permutations(Request)


DeclinedAsDeclared == {"pending", "accepted", "decline"}     \* invitation.entity.ts:43
DeclinedAsWritten == {"pending", "accepted", "declined"}     \* status.enum.ts:4

=============================================================================
