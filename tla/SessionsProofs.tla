---------------------------- MODULE SessionsProofs ----------------------------
(* What TLAPS proves about Sessions, for every value of its constants.     *)
EXTENDS Sessions, TLAPS

-----------------------------------------------------------------------------
(* The inductive invariant.                                                *)

Row == [owner : User, parent : Pair \cup {NULL}]

\* Row u of the user table is that of e.
NameOf(u, e) == u \in User /\ account[u] = e

\* p was minted by a login of e.
LoginOf(p, e) ==
    /\ p \in Pair /\ e \in Email
    /\ pair[p] # NULL
    /\ pair[p].parent = NULL
    /\ NameOf(pair[p].owner, e)

CallFact(r) ==
    LET call == request[r]
    IN  /\ call.step \in {"insert", "mint", "loggedIn"} => call.email \in Email
        /\ call.step = "mint" => NameOf(call.user, call.email)
        /\ call.step = "loggedIn" => LoginOf(call.refresh, call.email)
        /\ call.step \in {"found", "reissued"} => LoginOf(call.refresh, call.email)
        /\ call.step = "reissued" => status[call.refresh] = "gone"

MintedOnce == \A p \in Pair : status[p] = "unminted" <=> pair[p] = NULL

\* Tokens are held by those whose login has minted them, and by nobody else.
HeldByLogin == \A e \in Email : \A p \in holds[e] : LoginOf(p, e)

\* What has been exchanged was minted by a login.
ParentIsLogin ==
    \A c \in Pair : pair[c] # NULL /\ pair[c].parent # NULL =>
        /\ pair[pair[c].parent] # NULL
        /\ pair[pair[c].parent].parent = NULL

SignedOutIsGone == \A p \in signedOut : status[p] = "gone"

IInv == /\ TypeOK
        /\ \A r \in Request : CallFact(r)
        /\ MintedOnce
        /\ HeldByLogin
        /\ ParentIsLogin
        /\ SignedOutIsGone
        /\ OneRowPerEmail

-----------------------------------------------------------------------------
(* What the steps do to the tables, whoever takes them.                    *)

\* Rows stay, gone is gone, and what a call relies on stays true.
Grows ==
    /\ \A u \in User : account[u] # NULL => account'[u] = account[u]
    /\ \A p \in Pair : pair[p] # NULL => pair'[p] = pair[p]
    /\ \A p \in Pair : status[p] = "gone" => status'[p] = "gone"

LEMMA GrowsKeeps ==
    ASSUME SessionsAssumption, IInv, Grows
    PROVE  /\ \A u, e : e \in Email /\ NameOf(u, e) => NameOf(u, e)'
           /\ \A p, e : LoginOf(p, e) => LoginOf(p, e)'
BY DEF SessionsAssumption, Grows, NameOf, LoginOf

LEMMA CallKept ==
    ASSUME SessionsAssumption, IInv, Grows, NEW r \in Request, request'[r] = request[r]
    PROVE  CallFact(r)'
<1>1. CallFact(r) /\ request[r] \in Call
  BY DEF IInv, TypeOK
<1> QED BY <1>1, GrowsKeeps DEF CallFact, LoginOf, Grows

LEMMA IdleFact ==
    ASSUME NEW r \in Request, request'[r] = Idle
    PROVE  CallFact(r)' /\ Idle \in Call
BY DEF CallFact, Idle, Call

\* Who waits for whom: one call moves, the others stay.
LEMMA OthersKept ==
    ASSUME SessionsAssumption, IInv, Grows, NEW r \in Request, NEW call \in Call,
           request' = [request EXCEPT ![r] = call], CallFact(r)'
    PROVE  /\ \A s \in Request : CallFact(s)'
           /\ request' \in [Request -> Call]
<1>1. \A s \in Request : s # r => request'[s] = request[s]
  BY DEF IInv, TypeOK
<1> QED BY <1>1, CallKept DEF IInv, TypeOK

LEMMA MintKeeps ==
    ASSUME SessionsAssumption, IInv, NEW p \in Pair, NEW u \in User,
           NEW parent \in Pair \cup {NULL}, Tokens!Mint(p, u, parent)
    PROVE  /\ Grows <=> \A v \in User : account[v] # NULL => account'[v] = account[v]
           /\ pair'[p] = [owner |-> u, parent |-> parent] /\ pair'[p] # NULL
           /\ \A q \in Pair \ {p} : pair'[q] = pair[q]
           /\ pair' \in [Pair -> Row \cup {NULL}]
           /\ status' \in [Pair -> Tokens!Status]
           /\ MintedOnce'
           /\ pair[p] = NULL
<1>1. /\ pair \in [Pair -> Row \cup {NULL}] /\ status \in [Pair -> Tokens!Status]
      /\ status[p] = "unminted"
      /\ pair' = [pair EXCEPT ![p] = [owner |-> u, parent |-> parent]]
      /\ status' = [status EXCEPT ![p] = "issued"]
  BY DEF IInv, TypeOK, Row, Tokens!Mint
<1>2. [owner |-> u, parent |-> parent] \in Row /\ NULL \notin Row
  BY DEF Row, SessionsAssumption
<1>3. pair[p] = NULL
  BY <1>1 DEF IInv, MintedOnce
<1>4. "issued" \in Tokens!Status
  BY DEF Tokens!Status
<1> QED BY <1>1, <1>2, <1>3, <1>4 DEF IInv, MintedOnce, Grows

-----------------------------------------------------------------------------
(* The steps.                                                              *)

\* The parts that speak of pairs alone.
PairsKept == /\ MintedOnce' /\ ParentIsLogin'
             /\ pair' \in [Pair -> Row \cup {NULL}]
             /\ status' \in [Pair -> Tokens!Status]

LEMMA PairsStay ==
    ASSUME IInv, UNCHANGED <<pair, status>>
    PROVE  PairsKept
BY DEF IInv, TypeOK, MintedOnce, ParentIsLogin, PairsKept, Row

LEMMA HeldKept ==
    ASSUME SessionsAssumption, IInv, Grows, UNCHANGED <<holds, signedOut>>
    PROVE  HeldByLogin' /\ SignedOutIsGone' /\ holds' \in [Email -> SUBSET Pair]
           /\ signedOut' \subseteq Pair
BY GrowsKeeps DEF IInv, TypeOK, HeldByLogin, SignedOutIsGone, Grows

LEMMA RegisterKeeps ==
    ASSUME SessionsAssumption, IInv, NEW r \in Request, RegisterUser(r)
    PROVE  IInv'
<1>1. UNCHANGED <<account, pair, status, holds, signedOut, cutOff>> /\ Grows
  BY DEF RegisterUser, Grows
<1>2. PICK e \in Email :
        \/ \E u \in FindUserByEmail(e) :
            request' = [request EXCEPT ![r] = [Idle EXCEPT !.step = "mint",
                                                          !.email = e, !.user = u]]
        \/ request' = [request EXCEPT ![r] = [Idle EXCEPT !.step = "insert", !.email = e]]
  BY DEF RegisterUser
<1>3. ASSUME NEW call \in Call, request' = [request EXCEPT ![r] = call], CallFact(r)'
      PROVE  IInv'
  <2>1. (\A s \in Request : CallFact(s)') /\ request' \in [Request -> Call]
    BY <1>1, <1>3, OthersKept
  <2> QED BY <1>1, <2>1, PairsStay, HeldKept
          DEF IInv, TypeOK, OneRowPerEmail, PairsKept, Row
<1>4. ASSUME NEW u \in FindUserByEmail(e),
             request' = [request EXCEPT ![r] = [Idle EXCEPT !.step = "mint",
                                                           !.email = e, !.user = u]]
      PROVE  IInv'
  <2>1. PICK call : call = [Idle EXCEPT !.step = "mint", !.email = e, !.user = u]
    OBVIOUS
  <2>2. call \in Call /\ NameOf(u, e)
    BY <2>1 DEF Idle, Call, FindUserByEmail, NameOf
  <2>3. request'[r] = call
    BY <1>4, <2>1 DEF IInv, TypeOK
  <2>4. call.step = "mint" /\ call.email = e /\ call.user = u
    BY <2>1 DEF Idle
  <2>5. CallFact(r)'
    BY <1>1, <2>2, <2>3, <2>4 DEF CallFact, NameOf
  <2> QED BY <1>3, <1>4, <2>1, <2>2, <2>5
<1>5. ASSUME request' = [request EXCEPT ![r] = [Idle EXCEPT !.step = "insert", !.email = e]]
      PROVE  IInv'
  <2>1. PICK call : call = [Idle EXCEPT !.step = "insert", !.email = e]
    OBVIOUS
  <2>2. call \in Call /\ call.step = "insert" /\ call.email = e
    BY <2>1 DEF Idle, Call
  <2>3. request'[r] = call
    BY <1>5, <2>1 DEF IInv, TypeOK
  <2>4. CallFact(r)'
    BY <2>2, <2>3 DEF CallFact
  <2> QED BY <1>3, <1>5, <2>1, <2>2, <2>4
<1> QED BY <1>2, <1>4, <1>5

\* A call that ends and leaves the tables alone.
LEMMA EndKeeps ==
    ASSUME SessionsAssumption, IInv, NEW r \in Request, Finish(r),
           UNCHANGED <<account, pair, status, cutOff>>,
           HeldByLogin', SignedOutIsGone', holds' \in [Email -> SUBSET Pair],
           signedOut' \subseteq Pair
    PROVE  IInv'
<1>1. Grows
  BY DEF Grows
<1>2. request'[r] = Idle
  BY DEF Finish, IInv, TypeOK
<1>3. (\A s \in Request : CallFact(s)') /\ request' \in [Request -> Call]
  BY <1>1, <1>2, IdleFact, OthersKept DEF Finish
<1> QED BY <1>3, PairsStay DEF IInv, TypeOK, OneRowPerEmail, PairsKept, Row

LEMMA CreateKeeps ==
    ASSUME SessionsAssumption, IInv, NEW r \in Request, CreateUser(r)
    PROVE  IInv'
<1> DEFINE e == request[r].email
<1>1. UNCHANGED <<pair, status, holds, signedOut, cutOff>> /\ e \in Email
  BY DEF CreateUser, IInv, CallFact, At
<1>2. ASSUME NEW u \in User, account[u] = NULL, UniqueEmail(e),
             account' = [account EXCEPT ![u] = e],
             request' = [request EXCEPT ![r].step = "mint", ![r].user = u]
      PROVE  IInv'
  <2>1. Grows
    BY <1>1, <1>2 DEF Grows, IInv, TypeOK
  <2>2. account' \in [User -> Email \cup {NULL}] /\ OneRowPerEmail'
    BY <1>1, <1>2 DEF IInv, TypeOK, OneRowPerEmail, UniqueEmail
  <2>3. PICK call : call = [request[r] EXCEPT !.step = "mint", !.user = u]
    OBVIOUS
  <2>4. request[r] \in Call
    BY DEF IInv, TypeOK
  <2>5. call \in Call /\ call.step = "mint" /\ call.email = e /\ call.user = u
    BY <2>3, <2>4 DEF Call
  <2>6. request' = [request EXCEPT ![r] = call] /\ request'[r] = call
    BY <1>2, <2>3 DEF IInv, TypeOK
  <2>7. account'[u] = e
    BY <1>2 DEF IInv, TypeOK
  <2>8. CallFact(r)'
    BY <1>1, <2>5, <2>6, <2>7 DEF CallFact, NameOf
  <2>9. (\A s \in Request : CallFact(s)') /\ request' \in [Request -> Call]
    BY <2>1, <2>5, <2>6, <2>8, OthersKept
  <2> QED BY <1>1, <2>1, <2>2, <2>9, PairsStay, HeldKept DEF IInv, TypeOK, PairsKept, Row
<1>3. ASSUME Finish(r), UNCHANGED account
      PROVE  IInv'
  <2>1. Grows
    BY <1>1, <1>3 DEF Grows
  <2> QED BY <1>1, <1>3, <2>1, HeldKept, EndKeeps
<1> QED BY <1>2, <1>3 DEF CreateUser, NewUser, OneOf

LEMMA LoginMintKeeps ==
    ASSUME SessionsAssumption, IInv, NEW r \in Request, LoginMint(r)
    PROVE  IInv'
<1>0. PICK u, e : u = request[r].user /\ e = request[r].email
  OBVIOUS
<1>1. /\ UNCHANGED <<account, holds, signedOut, cutOff>>
      /\ u \in User /\ e \in Email /\ account[u] = e
  BY <1>0 DEF LoginMint, IInv, CallFact, At, NameOf
<1>2. PICK p \in Pair :
        /\ Tokens!Mint(p, u, NULL)
        /\ request' = [request EXCEPT ![r].step = "loggedIn", ![r].refresh = p]
  BY <1>0 DEF LoginMint, NewPair, OneOf, Tokens!Login
<1>3. Grows
  BY <1>1, <1>2, MintKeeps
<1>4. /\ pair'[p] = [owner |-> u, parent |-> NULL] /\ pair'[p] # NULL
      /\ \A q \in Pair \ {p} : pair'[q] = pair[q]
      /\ pair' \in [Pair -> Row \cup {NULL}]
      /\ status' \in [Pair -> Tokens!Status] /\ MintedOnce'
      /\ pair[p] = NULL
  BY <1>1, <1>2, MintKeeps
<1>5. ParentIsLogin'
  BY <1>4 DEF IInv, TypeOK, ParentIsLogin, Row, SessionsAssumption
<1>6. PICK call : call = [request[r] EXCEPT !.step = "loggedIn", !.refresh = p]
  OBVIOUS
<1>7. request[r] \in Call
  BY DEF IInv, TypeOK
<1>8. call \in Call /\ call.step = "loggedIn" /\ call.email = e /\ call.refresh = p
  BY <1>0, <1>6, <1>7 DEF Call
<1>9. request' = [request EXCEPT ![r] = call] /\ request'[r] = call
  BY <1>2, <1>6 DEF IInv, TypeOK
<1>10. LoginOf(p, e)'
  BY <1>1, <1>4 DEF LoginOf, NameOf
<1>11. CallFact(r)'
  BY <1>1, <1>8, <1>9, <1>10 DEF CallFact, LoginOf, NameOf
<1>12. (\A s \in Request : CallFact(s)') /\ request' \in [Request -> Call]
  BY <1>3, <1>8, <1>9, <1>11, OthersKept
<1> QED BY <1>1, <1>3, <1>4, <1>5, <1>12, HeldKept DEF IInv, TypeOK, OneRowPerEmail, Row

LEMMA CallbackKeeps ==
    ASSUME SessionsAssumption, IInv, NEW r \in Request, GoogleAuthCallback(r)
    PROVE  IInv'
<1> DEFINE e == request[r].email
           p == request[r].refresh
<1>1. /\ holds' = [holds EXCEPT ![e] = @ \cup {p}] /\ Finish(r)
      /\ UNCHANGED <<account, pair, status, signedOut, cutOff>>
      /\ LoginOf(p, e)
  BY DEF GoogleAuthCallback, IInv, CallFact, At
<1>2. p \in Pair /\ e \in Email
  BY <1>1 DEF LoginOf
<1> HIDE DEF e, p
<1>3. holds' \in [Email -> SUBSET Pair] /\ HeldByLogin'
  BY <1>1, <1>2 DEF IInv, TypeOK, HeldByLogin, LoginOf, NameOf
<1>4. SignedOutIsGone' /\ signedOut' \subseteq Pair
  BY <1>1 DEF IInv, TypeOK, SignedOutIsGone
<1> QED BY <1>1, <1>3, <1>4, EndKeeps

LEMMA FindRefreshKeeps ==
    ASSUME SessionsAssumption, IInv, NEW r \in Request, FindRefresh(r)
    PROVE  IInv'
<1>1. UNCHANGED <<account, pair, status, holds, signedOut, cutOff>> /\ Grows
  BY DEF FindRefresh, Grows
<1>2. PICK e \in Email, route \in {"refresh", "logout"} :
      \E guard, refresh, access \in holds[e] :
        /\ pair[refresh].owner = pair[guard].owner
        /\ status[refresh] = "live"
        /\ request' = [request EXCEPT ![r] =
            [Idle EXCEPT !.step = "found", !.email = e, !.route = route,
                         !.refresh = refresh, !.matched = (access = refresh)]]
  BY Zenon DEF FindRefresh
<1>3. PICK refresh \in holds[e], matched \in BOOLEAN :
        request' = [request EXCEPT ![r] =
            [Idle EXCEPT !.step = "found", !.email = e, !.route = route,
                         !.refresh = refresh, !.matched = matched]]
  BY <1>2, Zenon
<1>4. PICK call : call = [Idle EXCEPT !.step = "found", !.email = e, !.route = route,
                                      !.refresh = refresh, !.matched = matched]
  OBVIOUS
<1>5. refresh \in Pair /\ LoginOf(refresh, e)
  BY DEF IInv, TypeOK, HeldByLogin
<1>6. call \in Call /\ call.step = "found" /\ call.email = e /\ call.refresh = refresh
  BY <1>4, <1>5 DEF Idle, Call
<1>7. request' = [request EXCEPT ![r] = call] /\ request'[r] = call
  BY <1>3, <1>4 DEF IInv, TypeOK
<1>8. CallFact(r)'
  BY <1>1, <1>5, <1>6, <1>7 DEF CallFact, LoginOf, NameOf
<1>9. (\A s \in Request : CallFact(s)') /\ request' \in [Request -> Call]
  BY <1>1, <1>6, <1>7, <1>8, OthersKept
<1> QED BY <1>1, <1>9, PairsStay, HeldKept DEF IInv, TypeOK, OneRowPerEmail, PairsKept, Row

LEMMA ReissueMintKeeps ==
    ASSUME SessionsAssumption, IInv, NEW r \in Request, ReissueMint(r)
    PROVE  IInv'
<1>0. PICK p, e : p = request[r].refresh /\ e = request[r].email
  OBVIOUS
<1>1. UNCHANGED <<account, holds, signedOut, cutOff>> /\ LoginOf(p, e)
  BY <1>0 DEF ReissueMint, IInv, CallFact, At
<1>2. PICK c \in Pair :
        /\ status[p] = "gone"
        /\ Tokens!Mint(c, pair[p].owner, p)
        /\ request' = [request EXCEPT ![r].step = "reissued"]
  BY <1>0 DEF ReissueMint, NewPair, OneOf, Tokens!Exchange
<1>3. p \in Pair /\ pair[p].owner \in User /\ pair[p] # NULL /\ pair[p].parent = NULL
  BY <1>1 DEF LoginOf, NameOf
<1>4. Grows
  BY <1>1, <1>2, <1>3, MintKeeps
<1>5. /\ pair'[c] = [owner |-> pair[p].owner, parent |-> p]
      /\ \A q \in Pair \ {c} : pair'[q] = pair[q]
      /\ pair' \in [Pair -> Row \cup {NULL}]
      /\ status' \in [Pair -> Tokens!Status] /\ MintedOnce'
      /\ pair[c] = NULL
  BY <1>1, <1>2, <1>3, MintKeeps
<1>6. ParentIsLogin'
  <2> SUFFICES ASSUME NEW d \in Pair, pair'[d] # NULL, pair'[d].parent # NULL
               PROVE  /\ pair'[pair'[d].parent] # NULL
                      /\ pair'[pair'[d].parent].parent = NULL
    BY DEF ParentIsLogin
  <2>1. CASE d = c
    <3>1. pair'[d].parent = p /\ p # c /\ pair'[p] = pair[p]
      BY <1>3, <1>5, <2>1
    <3> QED BY <1>3, <3>1
  <2>2. CASE d # c
    <3>1. pair'[d] = pair[d] /\ pair[d].parent \in Pair
      BY <1>5, <2>2 DEF Row
    <3>2. pair[pair[d].parent] # NULL /\ pair[pair[d].parent].parent = NULL
      BY <3>1 DEF IInv, ParentIsLogin
    <3>3. pair'[pair[d].parent] = pair[pair[d].parent]
      BY <1>5, <3>1, <3>2
    <3> QED BY <3>1, <3>2, <3>3
  <2> QED BY <2>1, <2>2
<1>7. PICK call : call = [request[r] EXCEPT !.step = "reissued"]
  OBVIOUS
<1>8. request[r] \in Call
  BY DEF IInv, TypeOK
<1>9. call \in Call /\ call.step = "reissued" /\ call.email = e /\ call.refresh = p
  BY <1>0, <1>7, <1>8 DEF Call
<1>10. request' = [request EXCEPT ![r] = call] /\ request'[r] = call
  BY <1>2, <1>7 DEF IInv, TypeOK
<1>11. LoginOf(p, e)' /\ status'[p] = "gone"
  BY <1>1, <1>2, <1>3, <1>4, GrowsKeeps DEF Grows
<1>12. CallFact(r)'
  BY <1>9, <1>10, <1>11 DEF CallFact, LoginOf
<1>13. (\A s \in Request : CallFact(s)') /\ request' \in [Request -> Call]
  BY <1>4, <1>9, <1>10, <1>12, OthersKept
<1> QED BY <1>1, <1>4, <1>5, <1>6, <1>13, HeldKept DEF IInv, TypeOK, OneRowPerEmail, Row

LEMMA LogOutKeeps ==
    ASSUME SessionsAssumption, IInv, NEW r \in Request, LogOut(r)
    PROVE  IInv'
<1>1. /\ signedOut' = signedOut \cup {request[r].refresh} /\ Finish(r)
      /\ UNCHANGED <<account, pair, status, holds, cutOff>>
      /\ LoginOf(request[r].refresh, request[r].email)
      /\ status[request[r].refresh] = "gone"
  BY DEF LogOut, IInv, CallFact, At
<1>2. signedOut' \subseteq Pair /\ SignedOutIsGone'
  BY <1>1 DEF IInv, TypeOK, SignedOutIsGone, LoginOf
<1>3. HeldByLogin' /\ holds' \in [Email -> SUBSET Pair]
  BY <1>1 DEF IInv, TypeOK, HeldByLogin, LoginOf, NameOf
<1> QED BY <1>1, <1>2, <1>3, EndKeeps

LEMMA StatusKeeps ==
    ASSUME SessionsAssumption, IInv,
           Activate \/ Retire \/ Crash
    PROVE  IInv'
<1>1. /\ UNCHANGED <<account, pair, holds, signedOut>>
      /\ cutOff' \subseteq Email
  BY DEF Activate, Retire, Crash, Tokens!Activate, Tokens!Retire, Tokens!Lose, IInv, TypeOK
<1>2. /\ status' \in [Pair -> Tokens!Status]
      /\ \A p \in Pair : status[p] = "gone" => status'[p] = "gone"
      /\ \A p \in Pair : status'[p] = "unminted" <=> status[p] = "unminted"
  BY DEF Activate, Retire, Crash, Tokens!Activate, Tokens!Retire, Tokens!Lose,
         Tokens!Status, IInv, TypeOK
<1>3. Grows
  BY <1>1, <1>2 DEF Grows
<1>4. (\A r \in Request : CallFact(r)') /\ request' \in [Request -> Call]
  <2>1. CASE UNCHANGED request
    BY <1>3, <2>1, CallKept DEF IInv, TypeOK
  <2>2. CASE Crash
    BY <2>2, IdleFact DEF Crash, Idle, Call
  <2> QED BY <2>1, <2>2 DEF Activate, Retire
<1> QED BY <1>1, <1>2, <1>3, <1>4, HeldKept
        DEF IInv, TypeOK, MintedOnce, ParentIsLogin, OneRowPerEmail

LEMMA NextKeeps ==
    ASSUME SessionsAssumption, IInv, [Next]_vars
    PROVE  IInv'
<1>1. ASSUME NEW r \in Request, RefuseFound(r) \/ ReissuanceAccessToken(r)
      PROVE  IInv'
  <2>1. Finish(r) /\ UNCHANGED <<account, pair, status, holds, signedOut, cutOff>> /\ Grows
    BY <1>1 DEF RefuseFound, Refuse, ReissuanceAccessToken, Grows
  <2> QED BY <2>1, HeldKept, EndKeeps
<1>2. CASE UNCHANGED vars
  <2>1. Grows
    BY <1>2 DEF Grows, vars
  <2>2. \A r \in Request : CallFact(r)'
    BY <1>2, <2>1, CallKept DEF vars
  <2> QED BY <1>2, <2>1, <2>2, PairsStay, HeldKept
          DEF vars, IInv, TypeOK, OneRowPerEmail, PairsKept
<1> QED BY <1>1, <1>2, RegisterKeeps, CreateKeeps, LoginMintKeeps, CallbackKeeps,
           FindRefreshKeeps, ReissueMintKeeps, LogOutKeeps, StatusKeeps
        DEF Next, LoginStep, ReissueStep

LEMMA InitHolds ==
    ASSUME SessionsAssumption, Init
    PROVE  IInv
<1> USE DEF Init, Tokens!Init
<1>1. TypeOK
  BY DEF TypeOK, Idle, Call, Tokens!Status
<1>2. \A r \in Request : CallFact(r)
  BY DEF CallFact, Idle
<1>3. MintedOnce /\ HeldByLogin /\ ParentIsLogin /\ SignedOutIsGone /\ OneRowPerEmail
  BY DEF MintedOnce, HeldByLogin, ParentIsLogin, SignedOutIsGone, OneRowPerEmail
<1> QED BY <1>1, <1>2, <1>3 DEF IInv

LEMMA Invariant == Spec => []IInv
<1>1. Init => IInv
  BY InitHolds, SessionsAssumption
<1>2. IInv /\ [Next]_vars => IInv'
  BY NextKeeps, SessionsAssumption
<1> QED BY <1>1, <1>2, PTL DEF Spec

-----------------------------------------------------------------------------
(* Theorems.                                                               *)

\* Every row of user, every cookie and every call of login, refresh and logout has the
\* shape its columns and local variables have in the code: a login that goes on knows the
\* row it has found or inserted.
THEOREM TypeCorrect == Spec => []TypeOK
<1>1. IInv => TypeOK
  BY DEF IInv
<1> QED BY <1>1, Invariant, PTL

\* However many first logins of one address find no row and insert one: the user table
\* keeps one.
THEOREM OneRowCorrect == Spec => []OneRowPerEmail
<1>1. IInv => OneRowPerEmail
  BY DEF IInv
<1> QED BY <1>1, Invariant, PTL

\* The tokens a person holds name a row of that person, whoever else signs in.
THEOREM HoldersNamed == Spec => []HeldTokensNameHolder
<1>1. IInv => HeldTokensNameHolder
  BY DEF IInv, HeldByLogin, LoginOf, NameOf, HeldTokensNameHolder
<1> QED BY <1>1, Invariant, PTL

\* After a logout that was answered neither its refresh token nor one minted for
\* it can be used by anybody.
THEOREM LogoutFinal == Spec => []LogoutIsFinal
<1>1. IInv => LogoutIsFinal
  <2> SUFFICES ASSUME IInv, NEW p \in signedOut
               PROVE  /\ status[p] = "gone"
                      /\ \A c \in Heirs(p), e \in Email : c \notin holds[e]
    BY DEF LogoutIsFinal
  <2>1. status[p] = "gone" /\ p # NULL
    BY SessionsAssumption DEF IInv, TypeOK, SignedOutIsGone, SessionsAssumption
  <2>2. \A c \in Heirs(p), e \in Email : c \notin holds[e]
    BY <2>1 DEF IInv, HeldByLogin, LoginOf, Heirs
  <2> QED BY <2>1, <2>2
<1> QED BY <1>1, Invariant, PTL

\* What a reissue has minted is never exchanged.
THEOREM LineageShort == Spec => []LineageEndsAtHeir
<1>1. IInv => LineageEndsAtHeir
  <2> SUFFICES ASSUME IInv, NEW c \in Pair, pair[c] # NULL, pair[c].parent # NULL,
                      NEW d \in Heirs(c)
               PROVE  FALSE
    BY DEF LineageEndsAtHeir
  <2>1. d \in Pair /\ pair[d] # NULL /\ pair[d].parent = c /\ c # NULL
    BY SessionsAssumption DEF Heirs, SessionsAssumption
  <2> QED BY <2>1 DEF IInv, ParentIsLogin
<1> QED BY <1>1, Invariant, PTL

=============================================================================
