------------------------------- MODULE Ledger -------------------------------
(***************************************************************************)
(* What the token code promises, without keys, commands or calls: the life *)
(* of every pair of tokens, as far as an exchange of its refresh token     *)
(* goes.  A pair goes one way, however the commands of concurrent calls    *)
(* interleave in TokenRotation.                                            *)
(***************************************************************************)
CONSTANTS User, Pair, NULL

VARIABLES
    pair,    \* pair[p]: its owner and the pair it was exchanged for, or NULL
    status   \* status[p]: where its refresh token is in its life

vars == <<pair, status>>

\* "issued": handed out, not yet on the whitelist; "live": may be exchanged.
Status == {"unminted", "issued", "live", "gone"}

Init ==
    /\ pair = [p \in Pair |-> NULL]
    /\ status = [p \in Pair |-> "unminted"]

\* A new pair begins its life.
Mint(p, u, parent) ==
    /\ status[p] = "unminted"
    /\ pair' = [pair EXCEPT ![p] = [owner |-> u, parent |-> parent]]
    /\ status' = [status EXCEPT ![p] = "issued"]

Login(p, u) == Mint(p, u, NULL)

\* A pair that is exchanged is no longer live, and its heir has its owner.
Exchange(p, c) ==
    /\ status[p] = "gone"
    /\ Mint(c, pair[p].owner, p)

Activate(p) ==
    /\ status[p] = "issued"
    /\ status' = [status EXCEPT ![p] = "live"]
    /\ UNCHANGED pair

\* Exchanged, revoked or past its TTL.
Retire(p) ==
    /\ status[p] = "live"
    /\ status' = [status EXCEPT ![p] = "gone"]
    /\ UNCHANGED pair

\* A process that ends takes with it what has not reached the whitelist.
Lose ==
    /\ status' = [p \in Pair |-> IF status[p] = "issued" THEN "gone" ELSE status[p]]
    /\ UNCHANGED pair

Next ==
    \/ \E p \in Pair :
        \/ \E u \in User : Login(p, u)
        \/ \E c \in Pair : Exchange(p, c)
        \/ Activate(p)
        \/ Retire(p)
    \/ Lose

Spec == Init /\ [][Next]_vars

=============================================================================
