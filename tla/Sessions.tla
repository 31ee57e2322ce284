------------------------------- MODULE Sessions -------------------------------
(***************************************************************************)
(* Signing in and out: the routes of AuthController (auth.controller.ts)   *)
(* behind GoogleStrategy and JwtRefreshStrategy, over UserService          *)
(* (user.service.ts) and the tokens.  What becomes of a pair of tokens on  *)
(* the server is the steps of Ledger, which TokenRotation implements.      *)
(*                                                                         *)
(* As in Membership, a call is a slot of "request" and each of its         *)
(* statements one action.                                                  *)
(***************************************************************************)
EXTENDS Naturals, FiniteSets

CONSTANTS
    Email,     \* Google accounts: people, with all of their devices
    User,      \* ids the user table can hand out
    Pair,      \* pairs of tokens that can be minted: the bound of the model
    Request,   \* calls that can be in progress at the same time
    NULL

ASSUME SessionsAssumption ==
    /\ NULL \notin Email \cup User \cup Pair
    /\ NULL \notin [owner : User, parent : Pair \cup {NULL}]

VARIABLES
    account,       \* account[u]: the e-mail address in row u of the user table
    pair, status,  \* of Ledger
    holds,         \* holds[e]: pairs whose tokens e has been sent
    request,       \* the call in each slot
    signedOut,     \* history: pairs whose holder was told of a logout with them
    cutOff         \* history: people whose login the end of the process cut off

vars == <<account, pair, status, holds, request, signedOut, cutOff>>

Tokens == INSTANCE Ledger

-----------------------------------------------------------------------------
\* "refresh" is the pair of the refresh token in the cookies, or in a login the pair
\* it has minted; "matched": the access token is of the same pair.
Call == [step : {"idle", "insert", "mint", "loggedIn", "found", "reissued"},
         email : Email \cup {NULL}, user : User \cup {NULL},
         route : {"refresh", "logout", NULL},
         refresh : Pair \cup {NULL}, matched : BOOLEAN]

Idle == [step |-> "idle", email |-> NULL, user |-> NULL, route |-> NULL,
         refresh |-> NULL, matched |-> FALSE]

At(r, step) == request[r].step = step
Finish(r) == request' = [request EXCEPT ![r] = Idle]

\* Ids are random, and nothing depends on which one comes next.
OneOf(S) == {x \in S : x = CHOOSE y \in S : TRUE}
NewUser == OneOf({u \in User : account[u] = NULL})
NewPair == OneOf({p \in Pair : status[p] = "unminted"})

\* The calls that sign somebody in, from the first query to the answer.
SignsIn(r, e) == request[r].email = e /\ request[r].step \in {"insert", "mint", "loggedIn"}

\* Bound: every login in progress has a pair left to mint.
PairsLeft ==
    Cardinality({r \in Request : request[r].step \in {"insert", "mint"}})
        < Cardinality({p \in Pair : status[p] = "unminted"})

-----------------------------------------------------------------------------
(* GET google/redirect: registerUser, generateTokensAndSaveToRedis, and the *)
(* two cookies.                                                            *)

\* Fault: the e-mail is undefined, and a find without conditions takes any row.
FindUserByEmail_Any(e) == {u \in User : account[u] # NULL}

FindUserByEmail(e) == {u \in User : account[u] = e}

RegisterUser(r) ==
    /\ At(r, "idle")
    /\ PairsLeft
    /\ \E e \in Email :
        \/ \E u \in FindUserByEmail(e) :
            request' = [request EXCEPT ![r] = [Idle EXCEPT !.step = "mint",
                                                          !.email = e, !.user = u]]
        \/ /\ FindUserByEmail(e) = {}
           /\ request' = [request EXCEPT ![r] = [Idle EXCEPT !.step = "insert",
                                                            !.email = e]]
    /\ UNCHANGED <<account, pair, status, holds, signedOut, cutOff>>

\* Fault: the column has no unique index.
UniqueEmail_NoIndex(e) == TRUE

UniqueEmail(e) == \A u \in User : account[u] # e

\* Fault: what save() resolves with is not returned.
CreateUser_NoReturn(r) ==
    /\ At(r, "insert")
    /\ \/ /\ UniqueEmail(request[r].email)
          /\ \E u \in NewUser :
                /\ account' = [account EXCEPT ![u] = request[r].email]
                /\ request' = [request EXCEPT ![r].step = "mint"]
       \/ /\ ~UniqueEmail(request[r].email)
          /\ Finish(r)
          /\ UNCHANGED account
    /\ UNCHANGED <<pair, status, holds, signedOut, cutOff>>

\* The INSERT fails when another login has inserted the address meanwhile.
CreateUser(r) ==
    /\ At(r, "insert")
    /\ \/ /\ UniqueEmail(request[r].email)
          /\ \E u \in NewUser :
                /\ account' = [account EXCEPT ![u] = request[r].email]
                /\ request' = [request EXCEPT ![r].step = "mint", ![r].user = u]
       \/ /\ ~UniqueEmail(request[r].email)
          /\ Finish(r)
          /\ UNCHANGED account
    /\ UNCHANGED <<pair, status, holds, signedOut, cutOff>>

LoginMint(r) ==
    /\ At(r, "mint")
    /\ \E p \in NewPair :
        /\ Tokens!Login(p, request[r].user)
        /\ request' = [request EXCEPT ![r].step = "loggedIn", ![r].refresh = p]
    /\ UNCHANGED <<account, holds, signedOut, cutOff>>

\* Fault: the answer sets no cookies.
GoogleAuthCallback_NoCookies(r) ==
    /\ At(r, "loggedIn")
    /\ Finish(r)
    /\ UNCHANGED <<account, pair, status, holds, signedOut, cutOff>>

GoogleAuthCallback(r) ==
    /\ At(r, "loggedIn")
    /\ holds' = [holds EXCEPT ![request[r].email] = @ \cup {request[r].refresh}]
    /\ Finish(r)
    /\ UNCHANGED <<account, pair, status, signedOut, cutOff>>

-----------------------------------------------------------------------------
(* POST google/refresh and google/profile/logout/:userId.  The guard reads  *)
(* three cookies: refresh_token, which no route sets, so that only a client *)
(* that adds it itself comes any further, and whose owner becomes the user  *)
(* of the call; refresh-token and access-token.  Where one of them is       *)
(* missing the reissue is refused before it has asked anybody.             *)

\* The refresh token is on the whitelist of the user; where it is not, the call is
\* refused and has changed nothing.
FindRefresh(r) ==
    /\ At(r, "idle")
    /\ \E e \in Email, route \in {"refresh", "logout"} :
       \E guard, refresh, access \in holds[e] :
            /\ pair[refresh].owner = pair[guard].owner
            /\ status[refresh] = "live"
            /\ request' = [request EXCEPT ![r] =
                    [Idle EXCEPT !.step = "found", !.email = e, !.route = route,
                                 !.refresh = refresh, !.matched = (access = refresh)]]
    /\ UNCHANGED <<account, pair, status, holds, signedOut, cutOff>>

\* Fault: logout does not look at the result of the guard.
Refuse_LoggedOut(r) ==
    /\ Finish(r)
    /\ signedOut' =
            IF request[r].route = "logout"
            THEN signedOut \cup {request[r].refresh} ELSE signedOut
    /\ UNCHANGED <<account, pair, status, holds, cutOff>>

\* A refused reissue passes the guard with a result that has no tokens: refresh
\* ignores it, and logout throws where it reads them.
Refuse(r) ==
    /\ Finish(r)
    /\ UNCHANGED <<account, pair, status, holds, signedOut, cutOff>>

\* The access token is on the blacklist (TokenRotation keeps it), or is that of
\* another pair.
RefuseFound(r) ==
    /\ At(r, "found")
    /\ Refuse(r)

\* The new pair is minted after the answer of the blacklist, which comes when the
\* refresh token has left the whitelist.
ReissueMint(r) ==
    /\ At(r, "found")
    /\ PairsLeft
    /\ request[r].matched
    /\ \E c \in NewPair :
        /\ Tokens!Exchange(request[r].refresh, c)
        /\ request' = [request EXCEPT ![r].step = "reissued"]
    /\ UNCHANGED <<account, holds, signedOut, cutOff>>

\* The new tokens are read and dropped, the cookies cleared.
LogOut(r) ==
    /\ At(r, "reissued")
    /\ request[r].route = "logout"
    /\ signedOut' = signedOut \cup {request[r].refresh}
    /\ Finish(r)
    /\ UNCHANGED <<account, pair, status, holds, cutOff>>

\* Fault: the new tokens are answered.
ReissuanceAccessToken_Answered(r) ==
    /\ At(r, "reissued")
    /\ request[r].route = "refresh"
    /\ holds' = [holds EXCEPT ![request[r].email] =
                    @ \cup {c \in Pair : pair[c] # NULL /\ pair[c].parent = request[r].refresh}]
    /\ Finish(r)
    /\ UNCHANGED <<account, pair, status, signedOut, cutOff>>

\* The handler of refresh is empty: the new tokens are answered to nobody.
ReissuanceAccessToken(r) ==
    /\ At(r, "reissued")
    /\ request[r].route = "refresh"
    /\ Finish(r)
    /\ UNCHANGED <<account, pair, status, holds, signedOut, cutOff>>

-----------------------------------------------------------------------------
(* The whitelist, the clock and the process.                               *)

Activate ==
    /\ \E p \in Pair : Tokens!Activate(p)
    /\ UNCHANGED <<account, holds, request, signedOut, cutOff>>

Retire ==
    /\ \E p \in Pair : Tokens!Retire(p)
    /\ UNCHANGED <<account, holds, request, signedOut, cutOff>>

Crash ==
    /\ Tokens!Lose
    /\ request' = [r \in Request |-> Idle]
    /\ cutOff' = cutOff \cup {e \in Email : \/ \E r \in Request : SignsIn(r, e)
                                           \/ \E p \in holds[e] : status[p] = "issued"}
    /\ UNCHANGED <<account, holds, signedOut>>

-----------------------------------------------------------------------------
Init ==
    /\ account = [u \in User |-> NULL]
    /\ Tokens!Init
    /\ holds = [e \in Email |-> {}]
    /\ request = [r \in Request |-> Idle]
    /\ signedOut = {}
    /\ cutOff = {}

\* The next statement of a login, and of a reissue.
LoginStep(r) == CreateUser(r) \/ LoginMint(r) \/ GoogleAuthCallback(r)
ReissueStep(r) == \/ RefuseFound(r)
                  \/ ReissueMint(r) \/ LogOut(r) \/ ReissuanceAccessToken(r)

Next == \/ \E r \in Request : \/ RegisterUser(r) \/ FindRefresh(r)
                              \/ LoginStep(r) \/ ReissueStep(r)
        \/ Activate \/ Retire \/ Crash

Spec == Init /\ [][Next]_vars

\* The database and Redis answer, and the event loop resumes the login.
FairSpec == /\ Spec
            /\ WF_vars(Activate)
            /\ \A r \in Request : WF_vars(LoginStep(r))

-----------------------------------------------------------------------------
(* Properties.                                                             *)

\* Every row, cookie and call has its shape.
TypeOK ==
    /\ account \in [User -> Email \cup {NULL}]
    /\ pair \in [Pair -> [owner : User, parent : Pair \cup {NULL}] \cup {NULL}]
    /\ status \in [Pair -> Tokens!Status]
    /\ holds \in [Email -> SUBSET Pair]
    /\ request \in [Request -> Call]
    /\ signedOut \subseteq Pair
    /\ cutOff \subseteq Email

\* Two first logins of one person both find no row and both insert: the user
\* table ends with one row for the address all the same.
OneRowPerEmail ==
    \A u, v \in User : account[u] # NULL /\ account[u] = account[v] => u = v

\* Between the row a login has found or inserted and the cookies it answers with
\* lie several awaits of it and of others: the tokens a person holds name a row
\* with that person's address, whoever else was signing in.
HeldTokensNameHolder ==
    \A e \in Email : \A p \in holds[e] :
        pair[p] # NULL /\ account[pair[p].owner] = e

Heirs(p) == {c \in Pair : pair[c] # NULL /\ pair[c].parent = p}

\* A logout that is answered is final: the refresh token it was made with is off
\* the whitelist for good, though the reissue inside of it minted new tokens that
\* are on it, for nobody holds those.  A logout whose reissue was refused, and
\* may have left the token where it was, is not answered.
LogoutIsFinal ==
    \A p \in signedOut :
        /\ status[p] = "gone"
        /\ \A c \in Heirs(p), e \in Email : c \notin holds[e]

\* The new tokens of a reissue reach nobody (the handler of refresh is empty,
\* that of logout drops them), so a session lives for one refresh token: what
\* has been minted by a reissue is never exchanged in its turn.
LineageEndsAtHeir ==
    \A c \in Pair : pair[c] # NULL /\ pair[c].parent # NULL => Heirs(c) = {}

\* Whoever signs in, and is not cut off by the end of the process, gets tokens that
\* come onto the whitelist, if not from this login, which may lose the race for
\* the row, then from the login that has won it.
SomeLoginSucceeds ==
    \A r \in Request, e \in Email :
        SignsIn(r, e) ~> \/ \E p \in holds[e] : status[p] \in {"live", "gone"}
                         \/ e \in cutOff

=============================================================================
