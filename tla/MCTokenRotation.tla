--------------------------- MODULE MCTokenRotation ---------------------------
(* Small instances of TokenRotation for TLC.                               *)
EXTENDS TokenRotation, TLC

\* Users, pairs and call slots are interchangeable.
Symmetry == Permutations(User) \cup Permutations(Pair) \cup Permutations(Request)

Revokers == {r \in Request : request[r].step \in {"keysReply", "revokeDelete"}}

\* Bound: one revocation at a time, and one pair less while it is in progress.
RevocationBound ==
    Revokers # {} =>
        /\ Cardinality(Revokers) = 1
        /\ Cardinality(Minted) + Cardinality(Reissuing) < Cardinality(Pair)

\* Calls that begin are all that can break the bound.
BoundedNext ==
    \/ \E u \in User : Login(u) /\ RevocationBound'
    \/ \E r \in Request : (BeginReissue(r) \/ BeginRevoke(r)) /\ RevocationBound'
    \/ \E r \in Request : Resume(r)
    \/ Serve
    \/ Expire
    \/ Crash

BoundedSpec == Init /\ [][BoundedNext]_vars

=============================================================================
