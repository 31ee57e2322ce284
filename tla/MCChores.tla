------------------------------- MODULE MCChores -------------------------------
(* Small instances of Chores for TLC.                                      *)
EXTENDS Chores, TLC

\* Users, tasks and call slots are interchangeable; houses and housework, whose
\* numbers are compared, are not.
Symmetry == Permutations(User) \cup Permutations(Task) \cup Permutations(Request)

=============================================================================
