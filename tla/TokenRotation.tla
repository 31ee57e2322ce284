---------------------------- MODULE TokenRotation ----------------------------
(***************************************************************************)
(* Login tokens and their rotation: AuthService (auth.service.ts) over     *)
(* RedisService (redis.service.ts).                                        *)
(*                                                                         *)
(* A login or a reissue mints a pair: a refresh token and the access token *)
(* that carries its id (refreshTokenId).  Redis holds a key for a refresh  *)
(* token that may still be exchanged (whitelist) and for an access token   *)
(* that has been exchanged (blacklist).                                    *)
(*                                                                         *)
(* All commands travel on the one connection of the process and are served *)
(* in the order they were issued.  save() and delete() of RedisService do  *)
(* not await their command: their callers go on while it is queued.        *)
(***************************************************************************)
EXTENDS Naturals, FiniteSets, Sequences

CONSTANTS
    User,
    Pair,       \* pairs of tokens that can be minted: the bound of the model
    Request,    \* calls that can be in progress at the same time
    Revoking,   \* TRUE: something calls revokeEveryTokenByUser (no route does)
    Expiry,     \* TRUE: keys may reach their TTL
    Crashes,    \* TRUE: the process may end and start again
    NULL

PairRow == [owner : User, parent : Pair \cup {NULL}]

ASSUME TokenAssumption ==
    /\ NULL \notin User \cup Pair \cup Request
    /\ NULL \notin PairRow
    /\ Revoking \in BOOLEAN
    /\ Expiry \in BOOLEAN
    /\ Crashes \in BOOLEAN
    /\ IsFiniteSet(Pair)
    /\ IsFiniteSet(Request)

VARIABLES
    pair,      \* pair[p]: NULL until it is minted, then its owner and the pair
               \* it was exchanged for (NULL after a login)
    redis,     \* the keys that exist
    queue,     \* commands that have been issued and not yet served
    request,   \* the call in each slot
    dropped,   \* history: access keys that expired or were deleted
    revoked    \* history: pairs minted before a revocation of their owner that
               \* has issued all of its commands

vars == <<pair, redis, queue, request, dropped, revoked>>

-----------------------------------------------------------------------------
\* Fault: the key does not name the user of the call.
RefreshKey_AnyUser(u, p) == <<"refreshToken", CHOOSE v \in User : TRUE, p>>

RefreshKey(u, p) == <<"refreshToken", u, p>>
AccessKey(u, p) == <<"accessToken", u, p>>
Key == {"refreshToken", "accessToken"} \X User \X Pair

\* A command, and the call that waits for its answer, if one does.
Command == [op : {"get", "set", "del"}, key : Key, request : Request \cup {NULL}]
            \cup [op : {"keys"}, user : User, request : Request]

Get(key, r) == [op |-> "get", key |-> key, request |-> r]
Set(key) == [op |-> "set", key |-> key, request |-> NULL]
Del(key) == [op |-> "del", key |-> key, request |-> NULL]
KeysOf(u, r) == [op |-> "keys", user |-> u, request |-> r]

\* "user" is payload.userId of the token passport has verified; "refresh" and
\* "access" are the pairs of the two tokens handed to validateTokens.
Call == [step : {"idle", "refreshReply", "refreshDeleted", "accessReply",
                 "accessListed", "keysReply", "revokeDelete"},
         user : User \cup {NULL},
         refresh : Pair \cup {NULL}, access : Pair \cup {NULL},
         keys : SUBSET Key, older : SUBSET Pair]

Idle == [step |-> "idle", user |-> NULL, refresh |-> NULL, access |-> NULL,
         keys |-> {}, older |-> {}]

At(r, step) == request[r].step = step
Goto(r, step) == request' = [request EXCEPT ![r].step = step]
Finish(r) == request' = [request EXCEPT ![r] = Idle]

Issue(command) == queue' = Append(queue, command)

Minted == {p \in Pair : pair[p] # NULL}
Owns(u, p) == pair[p] # NULL /\ pair[p].owner = u

\* Bound: every reissue in progress has a pair left to mint.
Reissuing == {r \in Request : request[r].step \in
                {"refreshReply", "refreshDeleted", "accessReply", "accessListed"}}
PairsLeft == Cardinality(Reissuing) < Cardinality(Pair \ Minted)

\* generateTokensAndSaveToRedis: two signatures, then the whitelist key.
Mint(u, parent) ==
    \E p \in Pair \ Minted :
        /\ pair' = [pair EXCEPT ![p] = [owner |-> u, parent |-> parent]]
        /\ Issue(Set(RefreshKey(u, p)))

-----------------------------------------------------------------------------
(* Calls.                                                                  *)

Login(u) ==
    /\ PairsLeft
    /\ Mint(u, NULL)
    /\ UNCHANGED <<redis, request, dropped, revoked>>

\* reissueTokensAndSaveToRedis after both signatures are verified.  The tokens
\* of the call are any that have been minted: an access token is accepted after
\* its expiry, and nothing before the queries relates the two and the user.
BeginReissue(r) ==
    /\ At(r, "idle")
    /\ PairsLeft
    /\ \E u \in User, refresh, access \in Minted :
        /\ \E p \in Minted : Owns(u, p)
        /\ request' = [request EXCEPT ![r] =
                [Idle EXCEPT !.step = "refreshReply", !.user = u,
                             !.refresh = refresh, !.access = access]]
        /\ Issue(Get(RefreshKey(u, refresh), r))
    /\ UNCHANGED <<pair, redis, dropped, revoked>>

\* Fault: the whitelist key stays.
RefreshFound_Kept(r, key) ==
    /\ queue' = Tail(queue)
    /\ Goto(r, "refreshDeleted")

\* The refresh key is there: delete() issues the command that removes it.
RefreshFound(r, key) ==
    /\ queue' = Append(Tail(queue), Del(key))
    /\ Goto(r, "refreshDeleted")

RefreshMissing(r) ==
    /\ queue' = Tail(queue)
    /\ Finish(r)

AskBlackList(r) ==
    /\ At(r, "refreshDeleted")
    /\ Issue(Get(AccessKey(request[r].user, request[r].access), r))
    /\ Goto(r, "accessReply")
    /\ UNCHANGED <<pair, redis, dropped, revoked>>

AccessFound(r) ==
    /\ queue' = Tail(queue)
    /\ Finish(r)

\* Fault: the access token is not put on the blacklist.
AccessMissing_Unlisted(r, key) ==
    /\ queue' = Tail(queue)
    /\ Goto(r, "accessListed")

AccessMissing(r, key) ==
    /\ queue' = Append(Tail(queue), Set(key))
    /\ Goto(r, "accessListed")

\* Only now are the two tokens compared: those that do not belong together
\* have both been used up.
IsMatchedTokenWithJti(r) == request[r].access = request[r].refresh

\* Fault: the new tokens are handed out without their whitelist key.
Exchange_Unsaved(r) ==
    /\ At(r, "accessListed")
    /\ IsMatchedTokenWithJti(r)
    /\ \E p \in Pair \ Minted :
        pair' = [pair EXCEPT ![p] =
                    [owner |-> request[r].user, parent |-> request[r].refresh]]
    /\ Finish(r)
    /\ UNCHANGED <<redis, queue, dropped, revoked>>

\* Fault: an answer that does not reach the client is minted once more.
Exchange_Retried(r) ==
    /\ At(r, "accessListed")
    /\ IsMatchedTokenWithJti(r)
    /\ Mint(request[r].user, request[r].refresh)
    /\ UNCHANGED <<redis, request, dropped, revoked>>

Exchange(r) ==
    /\ At(r, "accessListed")
    /\ IsMatchedTokenWithJti(r)
    /\ Mint(request[r].user, request[r].refresh)
    /\ Finish(r)
    /\ UNCHANGED <<redis, dropped, revoked>>

RefuseMismatch(r) ==
    /\ At(r, "accessListed")
    /\ ~IsMatchedTokenWithJti(r)
    /\ Finish(r)
    /\ UNCHANGED <<pair, redis, queue, dropped, revoked>>

\* revokeEveryTokenByUser: KEYS, then one DEL per key it has answered.
BeginRevoke(r) ==
    /\ Revoking
    /\ At(r, "idle")
    /\ \E u \in User :
        /\ request' = [request EXCEPT ![r] =
                [Idle EXCEPT !.step = "keysReply", !.user = u,
                             !.older = {p \in Pair : Owns(u, p)}]]
        /\ Issue(KeysOf(u, r))
    /\ UNCHANGED <<pair, redis, dropped, revoked>>

RevokeDelete(r) ==
    /\ At(r, "revokeDelete")
    /\ \E key \in request[r].keys :
        /\ Issue(Del(key))
        /\ request' = [request EXCEPT ![r].keys = @ \ {key}]
    /\ UNCHANGED <<pair, redis, dropped, revoked>>

EndRevoke(r) ==
    /\ At(r, "revokeDelete")
    /\ request[r].keys = {}
    /\ revoked' = revoked \cup request[r].older
    /\ Finish(r)
    /\ UNCHANGED <<pair, redis, queue, dropped>>

-----------------------------------------------------------------------------
(* Redis serves the oldest command; the call that waits for the answer      *)
(* resumes with it.                                                        *)

IsAccessKey(key) == key[1] = "accessToken"

Remove(keys) ==
    /\ redis' = redis \ keys
    /\ dropped' = dropped \cup {key \in redis \cap keys : IsAccessKey(key)}

Oldest(op) == queue # <<>> /\ Head(queue).op = op

ServeSet ==
    /\ Oldest("set")
    /\ redis' = redis \cup {Head(queue).key}
    /\ queue' = Tail(queue)
    /\ UNCHANGED <<pair, request, dropped, revoked>>

ServeDel ==
    /\ Oldest("del")
    /\ Remove({Head(queue).key})
    /\ queue' = Tail(queue)
    /\ UNCHANGED <<pair, request, revoked>>

ServeGet ==
    /\ Oldest("get")
    /\ LET r == Head(queue).request
           key == Head(queue).key
       IN  \/ At(r, "refreshReply") /\ key \in redis /\ RefreshFound(r, key)
           \/ At(r, "refreshReply") /\ key \notin redis /\ RefreshMissing(r)
           \/ At(r, "accessReply") /\ key \in redis /\ AccessFound(r)
           \/ At(r, "accessReply") /\ key \notin redis /\ AccessMissing(r, key)
    /\ UNCHANGED <<pair, redis, dropped, revoked>>

\* Fault: the pattern misses the refresh tokens.
ServeKeys_AccessOnly ==
    /\ Oldest("keys")
    /\ request' = [request EXCEPT
            ![Head(queue).request].step = "revokeDelete",
            ![Head(queue).request].keys =
                {key \in redis : key[2] = Head(queue).user /\ IsAccessKey(key)}]
    /\ queue' = Tail(queue)
    /\ UNCHANGED <<pair, redis, dropped, revoked>>

\* The pattern matches every key of the user, blacklisted access tokens too.
ServeKeys ==
    /\ Oldest("keys")
    /\ request' = [request EXCEPT
            ![Head(queue).request].step = "revokeDelete",
            ![Head(queue).request].keys = {key \in redis : key[2] = Head(queue).user}]
    /\ queue' = Tail(queue)
    /\ UNCHANGED <<pair, redis, dropped, revoked>>

Serve == ServeSet \/ ServeDel \/ ServeGet \/ ServeKeys

\* A key reaches the TTL it was set with.
Expire ==
    /\ Expiry
    /\ \E key \in redis : Remove({key})
    /\ UNCHANGED <<pair, queue, request, revoked>>

\* Fault: the connection is replaced, and the calls that wait are not told.
Crash_Reconnect ==
    /\ Crashes
    /\ queue' = <<>>
    /\ revoked' = {p \in revoked : RefreshKey(pair[p].owner, p) \notin redis}
    /\ UNCHANGED <<pair, redis, request, dropped>>

\* The end of the process (a command that fails after its caller has gone on
\* is an unhandled rejection, which ends it too): the calls in progress and the
\* commands not yet served are lost, the tokens and the keys stay.
Crash ==
    /\ Crashes
    /\ queue' = <<>>
    /\ request' = [r \in Request |-> Idle]
    /\ revoked' = {p \in revoked : RefreshKey(pair[p].owner, p) \notin redis}
    /\ UNCHANGED <<pair, redis, dropped>>

-----------------------------------------------------------------------------
Init ==
    /\ pair = [p \in Pair |-> NULL]
    /\ redis = {}
    /\ queue = <<>>
    /\ request = [r \in Request |-> Idle]
    /\ dropped = {}
    /\ revoked = {}

\* The statements a call executes without waiting for Redis.
Resume(r) == \/ AskBlackList(r) \/ Exchange(r) \/ RefuseMismatch(r)
             \/ RevokeDelete(r) \/ EndRevoke(r)

Next == \/ \E u \in User : Login(u)
        \/ \E r \in Request : BeginReissue(r) \/ BeginRevoke(r) \/ Resume(r)
        \/ Serve
        \/ Expire
        \/ Crash

Spec == Init /\ [][Next]_vars

\* Redis answers, and the event loop runs what it has woken up.
FairSpec == /\ Spec
            /\ WF_vars(Serve)
            /\ \A r \in Request : WF_vars(Resume(r))

-----------------------------------------------------------------------------
(* Properties.                                                             *)

Awaited(r) == {i \in DOMAIN queue : queue[i].request = r}

\* Every key, command, call and pair has the shape the code gives it, and a
\* call has exactly one command in the queue while it waits for an answer, and
\* none while it does not.
TypeOK ==
    /\ pair \in [Pair -> PairRow \cup {NULL}]
    /\ redis \subseteq Key
    /\ queue \in Seq(Command)
    /\ request \in [Request -> Call]
    /\ dropped \subseteq Key
    /\ revoked \subseteq Minted
    /\ \A r \in Request :
        IF request[r].step \in {"refreshReply", "accessReply", "keysReply"}
        THEN \E i \in DOMAIN queue : Awaited(r) = {i}
        ELSE Awaited(r) = {}

Heirs(p) == {c \in Minted : pair[c].parent = p}
Exchangeable(p) == RefreshKey(pair[p].owner, p) \in redis
Queued(command) == \E i \in DOMAIN queue : queue[i] = command

\* A refresh token that has been exchanged is off the whitelist and stays off
\* it, though delete() does not wait for its DEL: the GET of the blacklist that
\* every exchange waits for travels behind it, and no late SET puts it back.
SpentIsGone == \A p \in Minted : Heirs(p) # {} => ~Exchangeable(p)

\* Calls that present one refresh token at the same time can all find it before
\* the first DEL is served, and each is given a new pair; over the whole life
\* of the token no more of them than there can be calls in progress.
ExchangesBounded ==
    \A p \in Minted : Cardinality(Heirs(p)) <= Cardinality(Request)

\* A session that goes on has given up its last access token: when the heir's
\* refresh token is on the whitelist, the access token it was exchanged for has
\* been put on the blacklist before, and left it by its TTL or a revocation only.
HeirAfterBlackList ==
    \A c \in Minted :
        pair[c].parent # NULL /\ Exchangeable(c) =>
            AccessKey(pair[c].owner, pair[c].parent) \in redis \cup dropped

\* The user, the refresh token and the access token of a reissue come from three
\* places; a pair is only ever exchanged for a pair of the same user.
LineageKeepsOwner ==
    \A c \in Minted :
        pair[c].parent # NULL => Owns(pair[c].owner, pair[c].parent)

\* Once a revocation has issued its last command, a token minted before it began
\* is off the whitelist or about to be removed, and no reissue puts it back.
RevokedStaysRevoked ==
    \A p \in revoked :
        Exchangeable(p) => Queued(Del(RefreshKey(pair[p].owner, p)))

\* A reissue that presents the two tokens of one live pair, the access token
\* never exchanged, to a process that does not crash, in no one's company, is
\* answered with a pair whose refresh token comes onto the whitelist.
HonestCall(r, p) ==
    /\ At(r, "refreshReply")
    /\ request[r].refresh = p /\ request[r].access = p
    /\ Owns(request[r].user, p)
    /\ Exchangeable(p) /\ ~Queued(Del(RefreshKey(request[r].user, p)))
    /\ AccessKey(request[r].user, p) \notin redis
    /\ ~Queued(Set(AccessKey(request[r].user, p)))
HonestReissueSucceeds ==
    \A r \in Request, p \in Pair :
        HonestCall(r, p) ~> \E c \in Heirs(p) : Exchangeable(c)

\* The keys and the queue, seen as the life of every pair.
Status(p) ==
    IF pair[p] = NULL THEN "unminted"
    ELSE IF Exchangeable(p) THEN "live"
    ELSE IF Queued(Set(RefreshKey(pair[p].owner, p))) THEN "issued" ELSE "gone"

L == INSTANCE Ledger WITH status <- [p \in Pair |-> Status(p)]

\* Whatever the calls, Redis, the clock and a crash do in whatever order, a pair
\* only goes forward from issued to live to gone: no late SET brings back what a
\* DEL that nobody awaited has removed, none reaches the whitelist twice, and
\* only a pair that has left it is exchanged, for a pair of the same user.
ImplementsLedger == L!Spec

=============================================================================
