------------------------------- MODULE Roster -------------------------------
(***************************************************************************)
(* What the membership code promises, without calls, statuses or rows: who *)
(* belongs to a house and how that changes.  Each change is one step here, *)
(* however many statements of however many interleaved calls it takes in   *)
(* Membership.                                                             *)
(***************************************************************************)
CONSTANTS User, House

VARIABLES
    open,     \* houses somebody has founded and nobody has closed
    closed,   \* houses that are closed
    place,    \* place[h][u]: where user u stands with respect to house h
    offered   \* offered[h]: users who have ever been offered a place in h

vars == <<open, closed, place, offered>>

Place == {"outside", "inside", "gone"}

Init ==
    /\ open = {}
    /\ closed = {}
    /\ place = [h \in House |-> [u \in User |-> "outside"]]
    /\ offered = [h \in House |-> {}]

Found(h, u) ==
    /\ h \notin open \cup closed
    /\ open' = open \cup {h}
    /\ place' = [place EXCEPT ![h][u] = "inside"]
    /\ UNCHANGED <<closed, offered>>

\* The one who offers has belonged to the house; a removal that overtakes the
\* offer does not withdraw it.
Offer(h, u) ==
    /\ \E sender \in User : place[h][sender] # "outside"
    /\ offered' = [offered EXCEPT ![h] = @ \cup {u}]
    /\ UNCHANGED <<open, closed, place>>

\* Nobody comes in without an offer, and nobody comes back.
Enter(h, u) ==
    /\ u \in offered[h]
    /\ place[h][u] = "outside"
    /\ place' = [place EXCEPT ![h][u] = "inside"]
    /\ UNCHANGED <<open, closed, offered>>

Leave(h, u) ==
    /\ place[h][u] = "inside"
    /\ place' = [place EXCEPT ![h][u] = "gone"]
    /\ UNCHANGED <<open, closed, offered>>

\* Those who leave with the house; others may stay behind in it.
Close(h, leaving) ==
    /\ h \in open \cup closed
    /\ \A u \in leaving : place[h][u] # "outside"
    /\ open' = open \ {h}
    /\ closed' = closed \cup {h}
    /\ place' = [place EXCEPT ![h] =
                    [u \in User |-> IF u \in leaving THEN "gone" ELSE @[u]]]
    /\ UNCHANGED offered

Next ==
    \E h \in House :
        \/ \E u \in User : Found(h, u) \/ Offer(h, u) \/ Enter(h, u) \/ Leave(h, u)
        \/ \E leaving \in SUBSET User : Close(h, leaving)

Spec == Init /\ [][Next]_vars

=============================================================================
