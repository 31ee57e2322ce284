------------------------- MODULE TokenRotationProofs -------------------------
(* What TLAPS proves about TokenRotation, for every value of its constants. *)
EXTENDS TokenRotation, TLAPS

-----------------------------------------------------------------------------
(* The inductive invariant.  A command is known by its position in the     *)
(* queue: what is nearer to the head is served earlier.                    *)

Position == 1 .. Len(queue)
IsSet(i, key) == queue[i].op = "set" /\ queue[i].key = key
IsDel(i, key) == queue[i].op = "del" /\ queue[i].key = key

Waiting == {"refreshReply", "accessReply", "keysReply"}
Found == {"refreshDeleted", "accessReply", "accessListed"}
Reissue == {"refreshReply"} \cup Found

Shape ==
    /\ pair \in [Pair -> PairRow \cup {NULL}]
    /\ redis \subseteq Key
    /\ queue \in Seq(Command)
    /\ request \in [Request -> Call]
    /\ dropped \subseteq Key
    /\ revoked \subseteq Minted

\* What a call holds has been minted.
CallFact(r) ==
    /\ request[r].step # "idle" => request[r].user \in User
    /\ request[r].step \in Reissue =>
        request[r].refresh \in Minted /\ request[r].access \in Minted
    /\ request[r].step \in Found => Owns(request[r].user, request[r].refresh)
    /\ \A p \in request[r].older : Owns(request[r].user, p)

\* A command that somebody waits for asks what he waits for.
CommandFact(i) ==
    LET command == queue[i]
        r == command.request
    IN  /\ command.op = "get" =>
            /\ r \in Request
            /\ \/ /\ At(r, "refreshReply")
                  /\ command.key = RefreshKey(request[r].user, request[r].refresh)
               \/ /\ At(r, "accessReply")
                  /\ command.key = AccessKey(request[r].user, request[r].access)
        /\ command.op = "keys" => At(r, "keysReply") /\ command.user = request[r].user
        /\ command.op \in {"set", "del"} => r = NULL

\* Who waits, waits for one command.
OneCommandEach ==
    /\ \A i, j \in Position :
        queue[i].request # NULL /\ queue[i].request = queue[j].request => i = j
    /\ \A r \in Request : request[r].step \in Waiting =>
        \E i \in Position : queue[i].request = r

\* A whitelist key names the owner of its pair.
KeysOwned ==
    \A u \in User, p \in Pair :
        /\ RefreshKey(u, p) \in redis => Owns(u, p)
        /\ \A i \in Position : IsSet(i, RefreshKey(u, p)) => Owns(u, p)

\* Until the one SET of its key is served, nobody has found a refresh token.
SetOnce ==
    \A u \in User, p \in Pair : \A i \in Position : IsSet(i, RefreshKey(u, p)) =>
        /\ RefreshKey(u, p) \notin redis
        /\ Heirs(p) = {}
        /\ \A r \in Request : request[r].step \in Found => request[r].refresh # p
        /\ \A j \in Position : IsSet(j, RefreshKey(u, p)) => i = j
        /\ p \notin revoked

\* From the answer on, the key is off the whitelist or its DEL is queued, before
\* the GET of the blacklist; from that answer on, it is off.
DelFact(r) ==
    LET key == RefreshKey(request[r].user, request[r].refresh)
    IN  /\ At(r, "refreshDeleted") =>
            key \notin redis \/ \E i \in Position : IsDel(i, key)
        /\ At(r, "accessReply") =>
            \/ key \notin redis
            \/ \E i, j \in Position : i < j /\ IsDel(i, key) /\ queue[j].request = r
        /\ At(r, "accessListed") => key \notin redis

\* The blacklist key is there, or has been, or its SET is queued; before the SET
\* of the heir's whitelist key.
Listed(key) == key \in redis \cup dropped

ListFact(r) ==
    LET key == AccessKey(request[r].user, request[r].access)
    IN  At(r, "accessListed") => Listed(key) \/ \E i \in Position : IsSet(i, key)

HeirFact ==
    \A c \in Minted : \A i \in Position :
        pair[c].parent # NULL /\ IsSet(i, RefreshKey(pair[c].owner, c)) =>
            LET key == AccessKey(pair[c].owner, pair[c].parent)
            IN  Listed(key) \/ \E j \in Position : j < i /\ IsSet(j, key)

\* A revocation has seen every older key, or has it still to see.
RevokeFact(r) ==
    \A p \in request[r].older :
        LET key == RefreshKey(request[r].user, p)
        IN  /\ At(r, "keysReply") =>
                \A i, j \in Position : IsSet(i, key) /\ queue[j].request = r => i < j
            /\ At(r, "revokeDelete") =>
                /\ \A i \in Position : ~IsSet(i, key)
                /\ key \in redis =>
                    key \in request[r].keys \/ \E i \in Position : IsDel(i, key)

RevokedFact ==
    \A p \in revoked :
        Exchangeable(p) => \E i \in Position : IsDel(i, RefreshKey(pair[p].owner, p))

IInv == /\ Shape
        /\ \A r \in Request : CallFact(r) /\ DelFact(r) /\ ListFact(r) /\ RevokeFact(r)
        /\ \A i \in Position : CommandFact(i)
        /\ OneCommandEach
        /\ KeysOwned
        /\ SetOnce
        /\ HeirFact
        /\ RevokedFact
        /\ LineageKeepsOwner
        /\ SpentIsGone
        /\ HeirAfterBlackList

-----------------------------------------------------------------------------
(* Keys and commands.                                                      *)

LEMMA KeyFacts ==
    ASSUME NEW u \in User, NEW p \in Pair
    PROVE  /\ RefreshKey(u, p) \in Key /\ AccessKey(u, p) \in Key
           /\ RefreshKey(u, p)[2] = u
           /\ ~IsAccessKey(RefreshKey(u, p)) /\ IsAccessKey(AccessKey(u, p))
           /\ \A v, q : RefreshKey(v, q) = RefreshKey(u, p) => v = u /\ q = p
           /\ \A v, q : AccessKey(v, q) # RefreshKey(u, p)
BY DEF RefreshKey, AccessKey, Key, IsAccessKey

LEMMA CommandType ==
    /\ \A key \in Key : Set(key) \in Command /\ Del(key) \in Command
    /\ \A key \in Key, r \in Request : Get(key, r) \in Command
    /\ \A u \in User, r \in Request : KeysOf(u, r) \in Command
BY DEF Command, Set, Del, Get, KeysOf

LEMMA IdleType == Idle \in Call
BY DEF Idle, Call

LEMMA CallType ==
    ASSUME NEW call \in Call, NEW keys \in SUBSET Key,
           NEW step \in {"refreshDeleted", "accessReply", "accessListed", "revokeDelete"}
    PROVE  /\ [call EXCEPT !.step = step] \in Call
           /\ [call EXCEPT !.keys = keys] \in Call
           /\ [call EXCEPT !.step = step, !.keys = keys] \in Call
<1>1. [call EXCEPT !.step = step] \in Call
  BY DEF Call
<1>2. \A c \in Call : [c EXCEPT !.keys = keys] \in Call
  BY DEF Call
<1>3. [call EXCEPT !.step = step, !.keys = keys] =
        [[call EXCEPT !.step = step] EXCEPT !.keys = keys]
  OBVIOUS
<1> QED BY <1>1, <1>2, <1>3

\* k commands have been served, and those of "added" (one at most) are new.
QueueStep(k, added) ==
    /\ queue' \in Seq(Command)
    /\ \A i \in Position : i > k => i - k \in Position' /\ queue'[i - k] = queue[i]
    /\ \A j \in Position' :
        \/ j + k \in Position /\ queue'[j] = queue[j + k]
        \/ j = Len(queue) + 1 - k /\ queue'[j] \in added
    /\ \A c \in added : /\ Len(queue) + 1 - k \in Position'
                         /\ queue'[Len(queue) + 1 - k] = c

LEMMA QueueKept ==
    ASSUME queue \in Seq(Command), queue' = queue
    PROVE  QueueStep(0, {})
BY DEF QueueStep, Position

LEMMA QueueIssue ==
    ASSUME queue \in Seq(Command), NEW c \in Command, queue' = Append(queue, c)
    PROVE  QueueStep(0, {c})
BY DEF QueueStep, Position

LEMMA QueueServe ==
    ASSUME queue \in Seq(Command), queue # <<>>, queue' = Tail(queue)
    PROVE  QueueStep(1, {}) /\ 1 \in Position /\ queue[1] = Head(queue)
BY DEF QueueStep, Position

LEMMA QueueServeIssue ==
    ASSUME queue \in Seq(Command), queue # <<>>, NEW c \in Command,
           queue' = Append(Tail(queue), c)
    PROVE  QueueStep(1, {c}) /\ 1 \in Position /\ queue[1] = Head(queue)
BY DEF QueueStep, Position

-----------------------------------------------------------------------------
(* The steps, with what they do to the queue in terms of positions.        *)

MintStep(u, parent, p) ==
    /\ p \in Pair \ Minted
    /\ pair' = [pair EXCEPT ![p] = [owner |-> u, parent |-> parent]]
    /\ QueueStep(0, {Set(RefreshKey(u, p))})

LoginStep(u, p) == MintStep(u, NULL, p) /\ UNCHANGED <<redis, request, dropped, revoked>>

BeginReissueStep(r, u, refresh, access) ==
    /\ At(r, "idle")
    /\ refresh \in Minted /\ access \in Minted
    /\ request' = [request EXCEPT ![r] =
            [Idle EXCEPT !.step = "refreshReply", !.user = u,
                         !.refresh = refresh, !.access = access]]
    /\ QueueStep(0, {Get(RefreshKey(u, refresh), r)})
    /\ UNCHANGED <<pair, redis, dropped, revoked>>

AskStep(r) ==
    /\ At(r, "refreshDeleted")
    /\ QueueStep(0, {Get(AccessKey(request[r].user, request[r].access), r)})
    /\ Goto(r, "accessReply")
    /\ UNCHANGED <<pair, redis, dropped, revoked>>

ExchangeStep(r, p) ==
    /\ At(r, "accessListed")
    /\ request[r].access = request[r].refresh
    /\ MintStep(request[r].user, request[r].refresh, p)
    /\ Finish(r)
    /\ UNCHANGED <<redis, dropped, revoked>>

RefuseStep(r) ==
    /\ At(r, "accessListed")
    /\ QueueStep(0, {})
    /\ Finish(r)
    /\ UNCHANGED <<pair, redis, dropped, revoked>>

BeginRevokeStep(r, u) ==
    /\ At(r, "idle")
    /\ request' = [request EXCEPT ![r] =
            [Idle EXCEPT !.step = "keysReply", !.user = u,
                         !.older = {p \in Pair : Owns(u, p)}]]
    /\ QueueStep(0, {KeysOf(u, r)})
    /\ UNCHANGED <<pair, redis, dropped, revoked>>

RevokeDeleteStep(r, key) ==
    /\ At(r, "revokeDelete")
    /\ key \in request[r].keys
    /\ QueueStep(0, {Del(key)})
    /\ request' = [request EXCEPT ![r].keys = @ \ {key}]
    /\ UNCHANGED <<pair, redis, dropped, revoked>>

EndRevokeStep(r) == EndRevoke(r) /\ QueueStep(0, {})

Served(op) == QueueStep(1, {}) /\ 1 \in Position /\ queue[1].op = op

ServeSetStep ==
    /\ Served("set")
    /\ redis' = redis \cup {queue[1].key}
    /\ UNCHANGED <<pair, request, dropped, revoked>>

ServeDelStep ==
    /\ Served("del")
    /\ Remove({queue[1].key})
    /\ UNCHANGED <<pair, request, revoked>>

Answered(r) ==
    /\ 1 \in Position
    /\ queue[1].op = "get" /\ queue[1].request = r
    /\ UNCHANGED <<pair, redis, dropped, revoked>>

FoundStep(r) ==
    LET key == RefreshKey(request[r].user, request[r].refresh)
    IN  /\ Answered(r)
        /\ At(r, "refreshReply")
        /\ key \in redis
        /\ QueueStep(1, {Del(key)})
        /\ Goto(r, "refreshDeleted")

MissingStep(r) ==
    /\ Answered(r)
    /\ request[r].step \in {"refreshReply", "accessReply"}
    /\ QueueStep(1, {})
    /\ Finish(r)

ListStep(r) ==
    LET key == AccessKey(request[r].user, request[r].access)
    IN  /\ Answered(r)
        /\ At(r, "accessReply")
        /\ QueueStep(1, {Set(key)})
        /\ Goto(r, "accessListed")

ServeKeysStep(r) ==
    /\ Served("keys")
    /\ queue[1].request = r
    /\ At(r, "keysReply")
    /\ request' = [request EXCEPT
            ![r].step = "revokeDelete",
            ![r].keys = {key \in redis : key[2] = request[r].user}]
    /\ UNCHANGED <<pair, redis, dropped, revoked>>

ExpireStep(key) ==
    /\ key \in redis
    /\ Remove({key})
    /\ QueueStep(0, {})
    /\ UNCHANGED <<pair, request, revoked>>

StutterStep == QueueStep(0, {}) /\ UNCHANGED vars

\* Steps of one call.
CallStep(r) ==
    \/ \E u \in User, p, q \in Pair : BeginReissueStep(r, u, p, q)
    \/ AskStep(r)
    \/ \E p \in Pair : ExchangeStep(r, p)
    \/ RefuseStep(r)
    \/ \E u \in User : BeginRevokeStep(r, u)
    \/ \E key \in Key : RevokeDeleteStep(r, key)
    \/ EndRevokeStep(r)
    \/ FoundStep(r) \/ MissingStep(r) \/ ListStep(r) \/ ServeKeysStep(r)

Step ==
    \/ \E u \in User, p \in Pair : LoginStep(u, p)
    \/ \E r \in Request : CallStep(r)
    \/ ServeSetStep \/ ServeDelStep
    \/ \E key \in Key : ExpireStep(key)
    \/ StutterStep

LEMMA MintIsStep ==
    ASSUME Shape, NEW u \in User, NEW parent, Mint(u, parent)
    PROVE  \E p \in Pair : MintStep(u, parent, p)
<1>1. PICK p \in Pair \ Minted :
        /\ pair' = [pair EXCEPT ![p] = [owner |-> u, parent |-> parent]]
        /\ queue' = Append(queue, Set(RefreshKey(u, p)))
  BY DEF Mint, Issue
<1>2. Set(RefreshKey(u, p)) \in Command
  BY KeyFacts, CommandType
<1>3. QueueStep(0, {Set(RefreshKey(u, p))})
  BY <1>1, <1>2, QueueIssue DEF Shape
<1> QED BY <1>1, <1>3 DEF MintStep

\* The call that waits for the command at the head is where the command says.
LEMMA ServeGetIsStep ==
    ASSUME IInv, ServeGet
    PROVE  \E r \in Request : FoundStep(r) \/ MissingStep(r) \/ ListStep(r)
<1> DEFINE r == Head(queue).request
           key == Head(queue).key
<1>1. queue \in Seq(Command) /\ queue # <<>> /\ Head(queue).op = "get"
  BY DEF IInv, Shape, ServeGet, Oldest
<1>2. 1 \in Position /\ queue[1] = Head(queue)
  BY <1>1 DEF Position
<1>3. r \in Request
  BY <1>1, <1>2 DEF IInv, CommandFact
<1>4. /\ At(r, "refreshReply") => key = RefreshKey(request[r].user, request[r].refresh)
      /\ At(r, "accessReply") => key = AccessKey(request[r].user, request[r].access)
  BY <1>1, <1>2 DEF IInv, CommandFact, At
<1>5. key \in Key
  BY <1>1, <1>2 DEF Command, Position
<1>6. Answered(r)
  BY <1>1, <1>2 DEF Answered, ServeGet
<1>7. Set(key) \in Command /\ Del(key) \in Command
  BY <1>5, CommandType
<1> HIDE DEF r, key
<1>8. CASE At(r, "refreshReply") /\ key \in redis /\ RefreshFound(r, key)
  <2>1. QueueStep(1, {Del(key)})
    BY <1>1, <1>7, <1>8, QueueServeIssue DEF RefreshFound
  <2> QED BY <1>3, <1>4, <1>6, <1>8, <2>1 DEF RefreshFound, FoundStep
<1>9. CASE At(r, "refreshReply") /\ RefreshMissing(r)
  <2>1. QueueStep(1, {})
    BY <1>1, <1>9, QueueServe DEF RefreshMissing
  <2> QED BY <1>3, <1>6, <1>9, <2>1 DEF RefreshMissing, MissingStep, At
<1>10. CASE At(r, "accessReply") /\ AccessFound(r)
  <2>1. QueueStep(1, {})
    BY <1>1, <1>10, QueueServe DEF AccessFound
  <2> QED BY <1>3, <1>6, <1>10, <2>1 DEF AccessFound, MissingStep, At
<1>11. CASE At(r, "accessReply") /\ AccessMissing(r, key)
  <2>1. QueueStep(1, {Set(key)})
    BY <1>1, <1>7, <1>11, QueueServeIssue DEF AccessMissing
  <2> QED BY <1>3, <1>4, <1>6, <1>11, <2>1 DEF AccessMissing, ListStep
<1> QED BY <1>8, <1>9, <1>10, <1>11 DEF ServeGet, r, key

LEMMA NextIsStep ==
    ASSUME TokenAssumption, IInv, [Next]_vars
    PROVE  Step \/ Crash
<1> USE DEF IInv, Shape
<1>1. ASSUME NEW u \in User, Login(u)
      PROVE  Step
  BY <1>1, MintIsStep DEF Login, LoginStep, Step
<1>2. ASSUME NEW r \in Request, BeginReissue(r)
      PROVE  Step
  <2>1. PICK u \in User, p, q \in Minted :
            /\ request' = [request EXCEPT ![r] =
                    [Idle EXCEPT !.step = "refreshReply", !.user = u,
                                 !.refresh = p, !.access = q]]
            /\ queue' = Append(queue, Get(RefreshKey(u, p), r))
    BY <1>2 DEF BeginReissue, Issue
  <2>2. p \in Pair /\ q \in Pair
    BY DEF Minted
  <2>3. Get(RefreshKey(u, p), r) \in Command
    BY <2>2, KeyFacts, CommandType
  <2>4. QueueStep(0, {Get(RefreshKey(u, p), r)})
    BY <2>1, <2>3, QueueIssue
  <2>5. BeginReissueStep(r, u, p, q)
    BY <1>2, <2>1, <2>4 DEF BeginReissue, BeginReissueStep
  <2> QED BY <2>2, <2>5 DEF Step, CallStep
<1>3. ASSUME NEW r \in Request, AskBlackList(r)
      PROVE  Step
  <2>1. request[r].user \in User /\ request[r].access \in Pair
    BY <1>3 DEF CallFact, AskBlackList, At, Reissue, Found, Minted
  <2>2. Get(AccessKey(request[r].user, request[r].access), r) \in Command
    BY <2>1, KeyFacts, CommandType
  <2>3. AskStep(r)
    BY <1>3, <2>2, QueueIssue DEF AskBlackList, AskStep, Issue
  <2> QED BY <2>3 DEF Step, CallStep
<1>4. ASSUME NEW r \in Request, Exchange(r)
      PROVE  Step
  <2>1. request[r].user \in User
    BY <1>4 DEF CallFact, Exchange, At
  <2>2. PICK p \in Pair : MintStep(request[r].user, request[r].refresh, p)
    BY <1>4, <2>1, MintIsStep DEF Exchange
  <2>3. ExchangeStep(r, p)
    BY <1>4, <2>2 DEF Exchange, ExchangeStep, IsMatchedTokenWithJti
  <2> QED BY <2>3 DEF Step, CallStep
<1>5. ASSUME NEW r \in Request, RefuseMismatch(r)
      PROVE  Step
  BY <1>5, QueueKept DEF RefuseMismatch, RefuseStep, Step, CallStep
<1>6. ASSUME NEW r \in Request, BeginRevoke(r)
      PROVE  Step
  <2>1. PICK u \in User :
            /\ request' = [request EXCEPT ![r] =
                    [Idle EXCEPT !.step = "keysReply", !.user = u,
                                 !.older = {p \in Pair : Owns(u, p)}]]
            /\ queue' = Append(queue, KeysOf(u, r))
    BY <1>6 DEF BeginRevoke, Issue
  <2>2. QueueStep(0, {KeysOf(u, r)})
    BY <2>1, CommandType, QueueIssue
  <2> QED BY <1>6, <2>1, <2>2 DEF BeginRevoke, BeginRevokeStep, Step, CallStep
<1>7. ASSUME NEW r \in Request, RevokeDelete(r)
      PROVE  Step
  <2>1. PICK key \in request[r].keys :
            /\ queue' = Append(queue, Del(key))
            /\ request' = [request EXCEPT ![r].keys = @ \ {key}]
    BY <1>7 DEF RevokeDelete, Issue
  <2>2. key \in Key
    BY DEF Call
  <2>3. QueueStep(0, {Del(key)})
    BY <2>1, <2>2, CommandType, QueueIssue
  <2> QED BY <1>7, <2>1, <2>2, <2>3 DEF RevokeDelete, RevokeDeleteStep, Step, CallStep
<1>8. ASSUME NEW r \in Request, EndRevoke(r)
      PROVE  Step
  BY <1>8, QueueKept DEF EndRevoke, EndRevokeStep, Step, CallStep
<1>9. ASSUME ServeSet
      PROVE  Step
  BY <1>9, QueueServe DEF ServeSet, ServeSetStep, Served, Oldest, Step
<1>10. ASSUME ServeDel
       PROVE  Step
  BY <1>10, QueueServe DEF ServeDel, ServeDelStep, Served, Oldest, Step
<1>11. ASSUME ServeGet
       PROVE  Step
  BY <1>11, ServeGetIsStep DEF Step, CallStep
<1>12. ASSUME ServeKeys
       PROVE  Step
  <2>1. /\ QueueStep(1, {}) /\ 1 \in Position /\ queue[1] = Head(queue)
        /\ queue[1].op = "keys"
    BY <1>12, QueueServe DEF ServeKeys, Oldest
  <2>2. queue[1].request \in Request
    BY <2>1 DEF Command, Position
  <2>3. At(queue[1].request, "keysReply") /\ queue[1].user = request[queue[1].request].user
    BY <2>1 DEF CommandFact
  <2>4. ServeKeysStep(queue[1].request)
    BY <1>12, <2>1, <2>3 DEF ServeKeys, ServeKeysStep, Served
  <2> QED BY <2>2, <2>4 DEF Step, CallStep
<1>13. ASSUME Expire
       PROVE  Step
  BY <1>13, QueueKept DEF Expire, ExpireStep, Step
<1>14. ASSUME UNCHANGED vars
       PROVE  Step
  BY <1>14, QueueKept DEF vars, StutterStep, Step
<1> QED BY <1>1, <1>2, <1>3, <1>4, <1>5, <1>6, <1>7, <1>8, <1>9, <1>10, <1>11, <1>12,
           <1>13, <1>14 DEF Next, Resume, Serve

-----------------------------------------------------------------------------
(* What a step does to the pairs, the keys and the queue, whoever takes it.  *)

RemoveStep(k, key) ==
    /\ Remove({key})
    /\ QueueStep(k, {})
    /\ k = 1 => 1 \in Position /\ IsDel(1, key)
    /\ UNCHANGED <<pair, request, revoked>>

\* No whitelist key is set, and none of the commands served sets or deletes.
QuietStep(k, added) ==
    /\ QueueStep(k, added)
    /\ \A c \in added : c.op = "set" => IsAccessKey(c.key)
    /\ k = 1 => 1 \in Position /\ queue[1].op \in {"get", "keys"}
    /\ UNCHANGED <<pair, redis, dropped>>

\* The refresh token has been found, and the access token listed.
Exchanged(u, p) ==
    /\ p \in Pair /\ Owns(u, p)
    /\ RefreshKey(u, p) \notin redis
    /\ \A i \in Position : ~IsSet(i, RefreshKey(u, p))
    /\ Listed(AccessKey(u, p)) \/ \E i \in Position : IsSet(i, AccessKey(u, p))

NewStep(u, parent, p) ==
    /\ MintStep(u, parent, p)
    /\ parent = NULL \/ Exchanged(u, parent)
    /\ UNCHANGED <<redis, dropped, revoked>>

Effect ==
    \/ \E u \in User, parent \in Pair \cup {NULL}, p \in Pair : NewStep(u, parent, p)
    \/ ServeSetStep
    \/ \E k \in {0, 1}, key \in Key : RemoveStep(k, key)
    \/ \E k \in {0, 1} : \E added : QuietStep(k, added)

LEMMA StepHasEffect ==
    ASSUME TokenAssumption, IInv, Step
    PROVE  Effect
<1> USE DEF IInv, Shape
<1>1. ASSUME NEW r \in Request, CallStep(r)
      PROVE  Effect
  <2>1. ASSUME NEW u \in User, NEW p \in Pair, NEW q \in Pair, BeginReissueStep(r, u, p, q)
        PROVE  QuietStep(0, {Get(RefreshKey(u, p), r)})
    BY <2>1 DEF BeginReissueStep, QuietStep, Get
  <2>2. ASSUME AskStep(r)
        PROVE  QuietStep(0, {Get(AccessKey(request[r].user, request[r].access), r)})
    BY <2>2 DEF AskStep, QuietStep, Get
  <2>3. ASSUME RefuseStep(r) \/ EndRevokeStep(r)
        PROVE  QuietStep(0, {})
    BY <2>3 DEF RefuseStep, EndRevokeStep, EndRevoke, QuietStep
  <2>4. ASSUME NEW u \in User, BeginRevokeStep(r, u)
        PROVE  QuietStep(0, {KeysOf(u, r)})
    BY <2>4 DEF BeginRevokeStep, QuietStep, KeysOf
  <2>5. ASSUME NEW key, RevokeDeleteStep(r, key)
        PROVE  QuietStep(0, {Del(key)})
    BY <2>5 DEF RevokeDeleteStep, QuietStep, Del
  <2>6. ASSUME FoundStep(r)
        PROVE  QuietStep(1, {Del(RefreshKey(request[r].user, request[r].refresh))})
    BY <2>6 DEF FoundStep, Answered, QuietStep, Del
  <2>7. ASSUME MissingStep(r)
        PROVE  QuietStep(1, {})
    BY <2>7 DEF MissingStep, Answered, QuietStep
  <2>8. ASSUME ListStep(r)
        PROVE  QuietStep(1, {Set(AccessKey(request[r].user, request[r].access))})
    BY <2>8 DEF ListStep, Answered, QuietStep, Set, AccessKey, IsAccessKey
  <2>9. ASSUME ServeKeysStep(r)
        PROVE  QuietStep(1, {})
    BY <2>9 DEF ServeKeysStep, Served, QuietStep
  <2>10. ASSUME NEW p \in Pair, ExchangeStep(r, p)
         PROVE  /\ request[r].user \in User /\ request[r].refresh \in Pair
                /\ NewStep(request[r].user, request[r].refresh, p)
    <3> DEFINE u == request[r].user
               parent == request[r].refresh
    <3>1. u \in User /\ parent \in Pair /\ Owns(u, parent)
      BY <2>10 DEF ExchangeStep, At, CallFact, Reissue, Found, Minted
    <3>2. RefreshKey(u, parent) \notin redis
      BY <2>10 DEF ExchangeStep, DelFact
    <3>3. \A i \in Position : ~IsSet(i, RefreshKey(u, parent))
      BY <2>10, <3>1 DEF ExchangeStep, At, SetOnce, Found
    <3>4. \/ Listed(AccessKey(u, parent))
          \/ \E i \in Position : IsSet(i, AccessKey(u, parent))
      BY <2>10 DEF ExchangeStep, ListFact
    <3> QED BY <2>10, <3>1, <3>2, <3>3, <3>4 DEF ExchangeStep, NewStep, Exchanged
  <2> QED BY <1>1, <2>1, <2>2, <2>3, <2>4, <2>5, <2>6, <2>7, <2>8, <2>9, <2>10
          DEF CallStep, Effect
<1>2. ASSUME ServeDelStep
      PROVE  Effect
  <2>1. queue[1].key \in Key
    BY <1>2 DEF ServeDelStep, Served, Position, Command
  <2>2. RemoveStep(1, queue[1].key)
    BY <1>2 DEF ServeDelStep, Served, RemoveStep, IsDel
  <2> QED BY <2>1, <2>2 DEF Effect
<1>3. ASSUME NEW key \in Key, ExpireStep(key)
      PROVE  Effect
  <2>1. RemoveStep(0, key)
    BY <1>3 DEF ExpireStep, RemoveStep
  <2> QED BY <2>1 DEF Effect
<1>4. ASSUME StutterStep
      PROVE  Effect
  <2>1. QuietStep(0, {})
    BY <1>4 DEF StutterStep, vars, QuietStep
  <2> QED BY <2>1 DEF Effect
<1>5. ASSUME NEW u \in User, NEW p \in Pair, LoginStep(u, p)
      PROVE  Effect
  <2>1. NewStep(u, NULL, p)
    BY <1>5 DEF LoginStep, NewStep
  <2> QED BY <2>1 DEF Effect
<1> QED BY <1>1, <1>2, <1>3, <1>4, <1>5 DEF Step, Effect

\* The pairs that have been minted stay.
LEMMA PairGrows ==
    ASSUME IInv, Effect
    PROVE  /\ pair' \in [Pair -> PairRow \cup {NULL}]
           /\ Minted \subseteq Minted'
           /\ \A p \in Minted : pair'[p] = pair[p]
           /\ \A u : \A p \in Pair : Owns(u, p) => Owns(u, p)'
<1>1. ASSUME NEW u \in User, NEW parent \in Pair \cup {NULL}, NEW p \in Pair,
             NewStep(u, parent, p)
      PROVE  /\ pair' \in [Pair -> PairRow \cup {NULL}]
             /\ \A q \in Minted : pair'[q] = pair[q]
  BY <1>1 DEF IInv, Shape, NewStep, MintStep, Minted, PairRow
<1>2. /\ pair' \in [Pair -> PairRow \cup {NULL}]
      /\ \A q \in Minted : pair'[q] = pair[q]
  BY <1>1 DEF IInv, Shape, Effect, ServeSetStep, RemoveStep, QuietStep
<1> QED BY <1>2 DEF Minted, Owns

\* Nothing refers to a pair that has not been minted.
LEMMA NewPair ==
    ASSUME TokenAssumption, IInv, NEW p \in Pair \ Minted
    PROVE  /\ \A u \in User : /\ RefreshKey(u, p) \notin redis
                              /\ \A i \in Position : ~IsSet(i, RefreshKey(u, p))
           /\ \A u : ~Owns(u, p)
           /\ \A c \in Minted : pair[c].parent # p
           /\ p \notin revoked
BY DEF IInv, Shape, KeysOwned, LineageKeepsOwner, Minted, Owns

-----------------------------------------------------------------------------
(* The parts of the invariant that speak of no call.                       *)

LEMMA LineageKept ==
    ASSUME TokenAssumption, IInv, Effect
    PROVE  LineageKeepsOwner'
<1>1. ASSUME NEW u \in User, NEW parent \in Pair \cup {NULL}, NEW p \in Pair,
             NewStep(u, parent, p)
      PROVE  LineageKeepsOwner'
  <2> SUFFICES ASSUME NEW c \in Minted', pair'[c].parent # NULL
               PROVE  Owns(pair[c].owner, pair[c].parent)'
    BY DEF LineageKeepsOwner
  <2>1. CASE c = p
    <3>1. pair'[c].owner = u /\ pair'[c].parent = parent
      BY <1>1, <2>1 DEF NewStep, MintStep, IInv, Shape
    <3>2. parent \in Pair /\ Owns(u, parent)
      BY <1>1, <3>1 DEF NewStep, Exchanged
    <3> QED BY <3>1, <3>2, PairGrows DEF Owns
  <2>2. CASE c # p
    <3>1. c \in Minted /\ pair'[c] = pair[c]
      BY <1>1, <2>2 DEF NewStep, MintStep, IInv, Shape, Minted
    <3>2. /\ Owns(pair[c].owner, pair[c].parent)
          /\ pair[c].owner \in User /\ pair[c].parent \in Pair
      BY <3>1 DEF IInv, Shape, LineageKeepsOwner, Minted, PairRow
    <3> QED BY <3>1, <3>2, PairGrows DEF Owns
  <2> QED BY <2>1, <2>2
<1>2. ASSUME UNCHANGED pair
      PROVE  LineageKeepsOwner'
  BY <1>2 DEF IInv, LineageKeepsOwner, Minted, Owns
<1> QED BY <1>1, <1>2 DEF Effect, ServeSetStep, RemoveStep, QuietStep

LEMMA KeysOwnedKept ==
    ASSUME TokenAssumption, IInv, Effect
    PROVE  KeysOwned'
<1> SUFFICES ASSUME NEW u \in User, NEW p \in Pair
             PROVE  /\ RefreshKey(u, p) \in redis' => Owns(u, p)'
                    /\ \A i \in Position' : IsSet(i, RefreshKey(u, p))' => Owns(u, p)'
  BY DEF KeysOwned, RefreshKey
<1> DEFINE key == RefreshKey(u, p)
<1>1. /\ key \in redis => Owns(u, p)'
      /\ \A i \in Position : IsSet(i, key) => Owns(u, p)'
  BY PairGrows DEF IInv, KeysOwned
<1>2. ~IsAccessKey(key)
  BY KeyFacts
<1> HIDE DEF key
<1>3. ASSUME NEW v \in User, NEW parent \in Pair \cup {NULL}, NEW q \in Pair,
             NewStep(v, parent, q)
      PROVE  /\ redis' = redis
             /\ \A i \in Position' : IsSet(i, key)' => Owns(u, p)'
  <2>1. Owns(v, q)'
    BY <1>3 DEF NewStep, MintStep, IInv, Shape, Owns, TokenAssumption, PairRow
  <2>2. ASSUME NEW i \in Position', IsSet(i, key)'
        PROVE  (i \in Position /\ IsSet(i, key)) \/ key = RefreshKey(v, q)
    BY <1>3, <2>2 DEF NewStep, MintStep, QueueStep, Position, IsSet, Set
  <2>3. key = RefreshKey(v, q) => u = v /\ p = q
    BY KeyFacts DEF key
  <2> QED BY <1>1, <1>3, <2>1, <2>2, <2>3 DEF NewStep
<1>4. ASSUME ServeSetStep
      PROVE  /\ key \in redis' => Owns(u, p)'
             /\ \A i \in Position' : IsSet(i, key)' => Owns(u, p)'
  BY <1>1, <1>4 DEF ServeSetStep, Served, QueueStep, Position, IsSet
<1>5. ASSUME NEW k \in {0, 1}, NEW del, RemoveStep(k, del)
      PROVE  /\ key \in redis' => Owns(u, p)'
             /\ \A i \in Position' : IsSet(i, key)' => Owns(u, p)'
  BY <1>1, <1>5 DEF RemoveStep, Remove, QueueStep, Position, IsSet
<1>6. ASSUME NEW k \in {0, 1}, NEW added, QuietStep(k, added)
      PROVE  /\ key \in redis' => Owns(u, p)'
             /\ \A i \in Position' : IsSet(i, key)' => Owns(u, p)'
  BY <1>1, <1>2, <1>6 DEF QuietStep, QueueStep, Position, IsSet
<1> QED BY <1>1, <1>3, <1>4, <1>5, <1>6 DEF Effect, key

\* The parent of a new pair is the only one that gets an heir.
LEMMA HeirsGrow ==
    ASSUME TokenAssumption, IInv, Effect, NEW p \in Minted', Heirs(p)' # {},
           p \notin Minted \/ Heirs(p) = {}
    PROVE  /\ p \in Minted
           /\ \E u \in User, q \in Pair : NewStep(u, p, q)
<1>1. PICK c \in Minted' : pair'[c].parent = p
  BY DEF Heirs
<1>2. c \notin Minted
  BY <1>1, PairGrows, NewPair DEF Heirs, Minted
<1>3. PICK u \in User, parent \in Pair \cup {NULL}, q \in Pair : NewStep(u, parent, q)
  BY <1>1, <1>2 DEF Effect, ServeSetStep, RemoveStep, QuietStep, Minted
<1>4. c = q /\ parent = p
  BY <1>1, <1>2, <1>3 DEF NewStep, MintStep, Minted, IInv, Shape
<1>5. p \in Minted
  BY <1>1, <1>3, <1>4 DEF NewStep, Exchanged, Owns, Minted, TokenAssumption
<1> QED BY <1>3, <1>4, <1>5

LEMMA SpentKept ==
    ASSUME TokenAssumption, IInv, Effect
    PROVE  SpentIsGone'
<1> SUFFICES ASSUME NEW p \in Minted', Heirs(p)' # {}
             PROVE  RefreshKey(pair'[p].owner, p) \notin redis'
  BY DEF SpentIsGone, Exchangeable, RefreshKey
<1>1. CASE p \in Minted /\ Heirs(p) # {}
  <2> DEFINE u == pair[p].owner
             key == RefreshKey(u, p)
  <2>1. pair'[p].owner = u /\ u \in User /\ p \in Pair
    BY <1>1, PairGrows DEF IInv, Shape, Minted, PairRow
  <2>2. key \notin redis
    BY <1>1 DEF IInv, SpentIsGone, Exchangeable
  <2>3. \A i \in Position : ~IsSet(i, key)
    BY <1>1, <2>1 DEF IInv, SetOnce
  <2> HIDE DEF u, key
  <2>4. key \notin redis'
    BY <2>2, <2>3 DEF Effect, NewStep, ServeSetStep, Served, IsSet, RemoveStep, Remove, QuietStep
  <2> QED BY <2>1, <2>4 DEF key
<1>2. CASE p \notin Minted \/ Heirs(p) = {}
  <2>1. PICK u \in User, q \in Pair : NewStep(u, p, q)
    BY <1>2, HeirsGrow
  <2>2. p \in Minted /\ pair'[p] = pair[p]
    BY <1>2, HeirsGrow, PairGrows
  <2>3. Exchanged(u, p)
    BY <2>1, <2>2 DEF NewStep, TokenAssumption, Minted
  <2> QED BY <2>1, <2>2, <2>3 DEF NewStep, Exchanged, Owns
<1> QED BY <1>1, <1>2

\* An access key that has been listed stays so, or leaves a trace.
LEMMA ListedKept ==
    ASSUME IInv, Effect, NEW u \in User, NEW p \in Pair
    PROVE  LET key == AccessKey(u, p)
           IN  /\ Listed(key) => Listed(key)'
               /\ ServeSetStep /\ IsSet(1, key) => Listed(key)'
<1> DEFINE key == AccessKey(u, p)
<1>1. IsAccessKey(key)
  BY KeyFacts
<1> HIDE DEF key
<1>2. Listed(key) => Listed(key)'
  BY <1>1 DEF Listed, Effect, NewStep, ServeSetStep, RemoveStep, Remove, QuietStep
<1>3. ServeSetStep /\ IsSet(1, key) => Listed(key)'
  BY DEF Listed, ServeSetStep, IsSet
<1> QED BY <1>2, <1>3 DEF key

LEMMA HeirFactKept ==
    ASSUME TokenAssumption, IInv, Effect
    PROVE  HeirFact'
<1> SUFFICES ASSUME NEW c \in Minted', NEW i \in Position',
                    NEW u \in User, NEW parent \in Pair,
                    pair'[c].owner = u, pair'[c].parent = parent,
                    IsSet(i, RefreshKey(u, c))'
             PROVE  \/ Listed(AccessKey(u, parent))'
                    \/ \E j \in Position' : j < i /\ IsSet(j, AccessKey(u, parent))'
  BY PairGrows DEF HeirFact, Minted, PairRow
<1> DEFINE own == RefreshKey(u, c)
           key == AccessKey(u, parent)
<1>1. IsSet(i, own)'
  OBVIOUS
<1>2. c \in Pair
  BY DEF Minted
<1>3. ~IsAccessKey(own) /\ IsAccessKey(key)
  BY <1>2, KeyFacts
<1>4. /\ Listed(key) => Listed(key)'
      /\ ServeSetStep /\ IsSet(1, key) => Listed(key)'
  BY <1>2, ListedKept
<1>5. ASSUME NEW k \in {0, 1}, i + k \in Position, IsSet(i + k, own)
      PROVE  \/ Listed(key)
             \/ \E j \in Position : j < i + k /\ IsSet(j, key)
  <2>1. c \in Minted
    BY <1>2, <1>5 DEF IInv, KeysOwned, Owns, Minted
  <2>2. pair'[c] = pair[c]
    BY <2>1, PairGrows
  <2> QED BY <1>5, <2>1, <2>2 DEF IInv, HeirFact
<1> HIDE DEF own, key
<1> DEFINE Goal == Listed(key)' \/ \E j \in Position' : j < i /\ IsSet(j, key)'
<1>6. ASSUME NEW k \in {0, 1}, NEW added, QueueStep(k, added), NEW j \in Position, j < i + k,
              j > k, IsSet(j, key)
       PROVE  Goal
  <2>1. j - k \in Position' /\ j - k < i /\ IsSet(j - k, key)'
    BY <1>6 DEF QueueStep, Position, IsSet
  <2> QED BY <2>1
<1>7. ASSUME NEW v \in User, NEW p \in Pair \cup {NULL}, NEW q \in Pair, NewStep(v, p, q)
      PROVE  Goal
  <2>1. CASE i \in Position /\ IsSet(i, own)
    <3>1. Listed(key) \/ \E j \in Position : j < i /\ IsSet(j, key)
      BY <1>5, <2>1 DEF Position
    <3> QED BY <1>4, <1>7, <3>1 DEF NewStep, MintStep, QueueStep, Position, IsSet
  <2>2. CASE ~(i \in Position /\ IsSet(i, own))
    <3>1. i = Len(queue) + 1 /\ own = RefreshKey(v, q)
      BY <1>1, <1>7, <2>2 DEF NewStep, MintStep, QueueStep, Position, IsSet, Set
    <3>2. c = q /\ u = v
      BY <1>2, <3>1, KeyFacts DEF own
    <3>3. parent = p /\ p # NULL
      BY <1>2, <1>7, <3>2 DEF NewStep, MintStep, IInv, Shape, TokenAssumption
    <3>4. Listed(key) \/ \E j \in Position : IsSet(j, key)
      BY <1>7, <3>2, <3>3 DEF NewStep, Exchanged, key
    <3> QED BY <1>4, <1>7, <3>1, <3>4 DEF NewStep, MintStep, QueueStep, Position, IsSet, IInv, Shape
  <2> QED BY <2>1, <2>2
<1>8. ASSUME ServeSetStep
      PROVE  Goal
  <2>1. i + 1 \in Position /\ IsSet(i + 1, own)
    BY <1>1, <1>8 DEF ServeSetStep, Served, QueueStep, IsSet
  <2>2. Listed(key) \/ \E j \in Position : j < i + 1 /\ IsSet(j, key)
    BY <1>5, <2>1
  <2>3. ASSUME NEW j \in Position, IsSet(j, key), j <= 1
        PROVE  IsSet(1, key)
    BY <2>3 DEF Position
  <2> QED BY <1>4, <1>8, <1>6, <2>2, <2>3 DEF ServeSetStep, Served, Position
<1>9. ASSUME NEW k \in {0, 1}, NEW del, RemoveStep(k, del)
      PROVE  Goal
  <2>1. i + k \in Position /\ IsSet(i + k, own)
    BY <1>1, <1>9 DEF RemoveStep, QueueStep, IsSet
  <2>2. Listed(key) \/ \E j \in Position : j < i + k /\ IsSet(j, key)
    BY <1>5, <2>1
  <2>3. ASSUME NEW j \in Position, IsSet(j, key)
        PROVE  j > k
    BY <1>9, <2>3 DEF RemoveStep, Position, IsSet, IsDel
  <2> QED BY <1>4, <1>9, <1>6, <2>2, <2>3 DEF RemoveStep
<1>10. ASSUME NEW k \in {0, 1}, NEW added, QuietStep(k, added)
      PROVE  Goal
  <2>1. i + k \in Position /\ IsSet(i + k, own)
    BY <1>1, <1>3, <1>10 DEF QuietStep, QueueStep, IsSet
  <2>2. Listed(key) \/ \E j \in Position : j < i + k /\ IsSet(j, key)
    BY <1>5, <2>1
  <2>3. ASSUME NEW j \in Position, IsSet(j, key)
        PROVE  j > k
    BY <1>10, <2>3 DEF QuietStep, Position, IsSet
  <2> QED BY <1>4, <1>10, <1>6, <2>2, <2>3 DEF QuietStep
<1> QED BY <1>7, <1>8, <1>9, <1>10 DEF Effect, key

LEMMA HeirAfterKept ==
    ASSUME TokenAssumption, IInv, Effect
    PROVE  HeirAfterBlackList'
<1> SUFFICES ASSUME NEW c \in Minted', NEW u \in User, NEW parent \in Pair,
                    pair'[c].owner = u, pair'[c].parent = parent,
                    RefreshKey(u, c) \in redis'
             PROVE  Listed(AccessKey(u, parent))'
  BY PairGrows DEF HeirAfterBlackList, Listed, Exchangeable, Minted, PairRow
<1> DEFINE own == RefreshKey(u, c)
           key == AccessKey(u, parent)
<1>1. c \in Pair
  BY DEF Minted
<1>2. Listed(key) => Listed(key)'
  BY <1>1, ListedKept
<1>3. own \in redis \/ (ServeSetStep /\ 1 \in Position /\ IsSet(1, own))
  <2>1. CASE ServeSetStep
    BY <2>1 DEF ServeSetStep, Served, IsSet
  <2>2. CASE ~ServeSetStep
    BY <2>2 DEF Effect, NewStep, RemoveStep, Remove, QuietStep
  <2> QED BY <2>1, <2>2
<1>4. c \in Minted /\ pair'[c] = pair[c]
  BY <1>1, <1>3, PairGrows DEF IInv, KeysOwned, Owns, Minted
<1>5. Listed(key)
  BY <1>3, <1>4 DEF IInv, HeirAfterBlackList, HeirFact, Listed, Exchangeable, Position
<1> QED BY <1>2, <1>5

LEMMA RevokedFactKept ==
    ASSUME TokenAssumption, IInv, Step
    PROVE  RevokedFact'
<1>1. Effect
  BY StepHasEffect
<1> SUFFICES ASSUME NEW p \in revoked', NEW u, pair'[p].owner = u,
                    RefreshKey(u, p) \in redis'
             PROVE  \E i \in Position' : IsDel(i, RefreshKey(u, p))'
  BY DEF RevokedFact, Exchangeable
<1> DEFINE key == RefreshKey(u, p)
<1>2. CASE p \in revoked
  <2>1. p \in Minted /\ pair'[p] = pair[p] /\ u \in User /\ p \in Pair
    BY <1>1, <1>2, PairGrows DEF IInv, Shape, Minted, PairRow
  <2>2. key \in redis /\ \A i \in Position : ~IsSet(i, key)
    BY <1>1, <1>2, <2>1 DEF Effect, NewStep, ServeSetStep, Served, IsSet, RemoveStep,
                             Remove, QuietStep, IInv, SetOnce
  <2>3. PICK i \in Position : IsDel(i, key)
    BY <1>2, <2>1, <2>2 DEF IInv, RevokedFact, Exchangeable
  <2>4. key \in redis'
    OBVIOUS
  <2> HIDE DEF key
  <2>5. \E j \in Position' : IsDel(j, key)'
    <3>1. CASE \E v \in User, q \in Pair \cup {NULL}, r \in Pair : NewStep(v, q, r)
      BY <2>3, <3>1 DEF NewStep, MintStep, QueueStep, Position, IsDel
    <3>2. CASE ServeSetStep
      BY <2>3, <3>2 DEF ServeSetStep, Served, QueueStep, Position, IsDel
    <3>3. CASE \E k \in {0, 1}, del \in Key : RemoveStep(k, del)
      <4>1. PICK k \in {0, 1}, del \in Key : RemoveStep(k, del)
        BY <3>3
      <4>2. i > k
        BY <2>3, <2>4, <4>1 DEF RemoveStep, Remove, Position, IsDel
      <4>3. i - k \in Position' /\ IsDel(i - k, key)'
        BY <2>3, <4>1, <4>2 DEF RemoveStep, QueueStep, IsDel
      <4> QED BY <4>3
    <3>4. CASE \E k \in {0, 1} : \E added : QuietStep(k, added)
      BY <2>3, <3>4 DEF QuietStep, QueueStep, Position, IsDel
    <3> QED BY <1>1, <3>1, <3>2, <3>3, <3>4 DEF Effect
  <2> QED BY <2>5 DEF key
<1>3. CASE p \notin revoked
  <2>1. PICK r \in Request : EndRevokeStep(r)
    BY <1>3 DEF Step, CallStep, LoginStep, BeginReissueStep, AskStep, ExchangeStep,
                RefuseStep, BeginRevokeStep, RevokeDeleteStep, FoundStep, MissingStep,
                ListStep, Answered, ServeKeysStep, ServeSetStep, ServeDelStep, ExpireStep,
                StutterStep, vars
  <2>2. p \in request[r].older
    BY <1>3, <2>1 DEF EndRevokeStep, EndRevoke
  <2>3. /\ Owns(request[r].user, p) /\ request[r].user \in User /\ p \in Pair
        /\ pair' = pair /\ redis' = redis /\ QueueStep(0, {})
    BY <2>1, <2>2 DEF EndRevokeStep, EndRevoke, IInv, Shape, Call, CallFact, At
  <2>4. u = request[r].user
    BY <2>3 DEF Owns
  <2>5. PICK i \in Position : IsDel(i, key)
    BY <2>1, <2>2, <2>3, <2>4 DEF EndRevokeStep, EndRevoke, IInv, RevokeFact
  <2> HIDE DEF key
  <2>6. IsDel(i, key)' /\ i \in Position'
    BY <2>3, <2>5 DEF QueueStep, Position, IsDel
  <2> QED BY <2>6 DEF key
<1> QED BY <1>2, <1>3

-----------------------------------------------------------------------------
(* The call that a step resumes, and the others.                           *)

LEMMA OtherCalls ==
    ASSUME IInv, NEW r \in Request, NEW s \in Request, CallStep(r), s # r
    PROVE  request'[s] = request[s]
BY DEF IInv, Shape, CallStep, BeginReissueStep, AskStep, ExchangeStep, RefuseStep,
       BeginRevokeStep, RevokeDeleteStep, EndRevokeStep, EndRevoke, FoundStep,
       MissingStep, ListStep, ServeKeysStep, Goto, Finish

\* A step touches one call at most.
LEMMA CallOfStep ==
    ASSUME IInv, Step, NEW s \in Request, request'[s] # request[s]
    PROVE  CallStep(s)
BY OtherCalls DEF Step, LoginStep, ServeSetStep, ServeDelStep, ExpireStep, StutterStep, vars

\* What a call turns into.
Becomes(r, step) ==
    /\ request'[r].step = step
    /\ request'[r].user = request[r].user
    /\ request'[r].refresh = request[r].refresh
    /\ request'[r].access = request[r].access
    /\ request'[r].older = request[r].older

BecomesNew(r, step, u, older) ==
    /\ request'[r].step = step
    /\ request'[r].user = u
    /\ request'[r].older = older

CallTurn(r) ==
    \/ \E u \in User, p, q \in Pair :
        /\ BeginReissueStep(r, u, p, q)
        /\ BecomesNew(r, "refreshReply", u, {})
        /\ request'[r].refresh = p /\ request'[r].access = q
    \/ AskStep(r) /\ Becomes(r, "accessReply")
    \/ BecomesNew(r, "idle", NULL, {})
    \/ \E u \in User :
        /\ BeginRevokeStep(r, u)
        /\ BecomesNew(r, "keysReply", u, {p \in Pair : Owns(u, p)})
    \/ \E key \in Key :
        /\ RevokeDeleteStep(r, key)
        /\ Becomes(r, "revokeDelete")
        /\ request'[r].keys = request[r].keys \ {key}
    \/ FoundStep(r) /\ Becomes(r, "refreshDeleted")
    \/ ListStep(r) /\ Becomes(r, "accessListed")
    \/ /\ ServeKeysStep(r)
       /\ Becomes(r, "revokeDelete")
       /\ request'[r].keys = {key \in redis : key[2] = request[r].user}

LEMMA CallTurns ==
    ASSUME IInv, NEW r \in Request, CallStep(r)
    PROVE  CallTurn(r)
<1> USE DEF IInv, Shape, Call, Becomes, BecomesNew
<1>1. ASSUME NEW u \in User, NEW p \in Pair, NEW q \in Pair, BeginReissueStep(r, u, p, q)
      PROVE  CallTurn(r)
  <2>1. /\ BecomesNew(r, "refreshReply", u, {})
        /\ request'[r].refresh = p /\ request'[r].access = q
    BY <1>1 DEF BeginReissueStep, Idle
  <2> QED BY <1>1, <2>1 DEF CallTurn
<1>2. ASSUME AskStep(r)
      PROVE  CallTurn(r)
  BY <1>2 DEF AskStep, Goto, CallTurn
<1>3. ASSUME RefuseStep(r) \/ EndRevokeStep(r) \/ MissingStep(r)
              \/ \E p \in Pair : ExchangeStep(r, p)
      PROVE  CallTurn(r)
  <2>1. request' = [request EXCEPT ![r] = Idle]
    BY <1>3 DEF RefuseStep, EndRevokeStep, EndRevoke, MissingStep, ExchangeStep, Finish
  <2>2. BecomesNew(r, "idle", NULL, {})
    BY <2>1 DEF Idle
  <2> QED BY <2>2 DEF CallTurn
<1>4. ASSUME NEW u \in User, BeginRevokeStep(r, u)
      PROVE  CallTurn(r)
  <2>1. BecomesNew(r, "keysReply", u, {p \in Pair : Owns(u, p)})
    BY <1>4 DEF BeginRevokeStep, Idle
  <2> QED BY <1>4, <2>1 DEF CallTurn
<1>5. ASSUME NEW key \in Key, RevokeDeleteStep(r, key)
      PROVE  CallTurn(r)
  <2>1. Becomes(r, "revokeDelete") /\ request'[r].keys = request[r].keys \ {key}
    BY <1>5 DEF RevokeDeleteStep, At
  <2> QED BY <1>5, <2>1 DEF CallTurn
<1>6. ASSUME FoundStep(r)
      PROVE  CallTurn(r)
  BY <1>6 DEF FoundStep, Goto, CallTurn
<1>7. ASSUME ListStep(r)
      PROVE  CallTurn(r)
  BY <1>7 DEF ListStep, Goto, CallTurn
<1>8. ASSUME ServeKeysStep(r)
      PROVE  CallTurn(r)
  <2>1. /\ Becomes(r, "revokeDelete")
        /\ request'[r].keys = {key \in redis : key[2] = request[r].user}
    BY <1>8 DEF ServeKeysStep
  <2> QED BY <1>8, <2>1 DEF CallTurn
<1> QED BY <1>1, <1>2, <1>3, <1>4, <1>5, <1>6, <1>7, <1>8 DEF CallStep

LEMMA CallFactKept ==
    ASSUME TokenAssumption, IInv, Step, NEW s \in Request
    PROVE  CallFact(s)'
<1>1. Effect
  BY StepHasEffect
<1>2. \A u : \A p \in Pair : Owns(u, p) => Owns(u, p)'
  BY <1>1, PairGrows
<1>3. Minted \subseteq Minted' /\ Minted \subseteq Pair
  BY <1>1, PairGrows DEF Minted
<1>4. CallFact(s) /\ request[s] \in Call
  BY DEF IInv, Shape
<1>5. CASE request'[s] = request[s]
  BY <1>2, <1>3, <1>4, <1>5 DEF CallFact, Call, Reissue, Found
<1>6. CASE request'[s] # request[s]
  <2>1. CallStep(s)
    BY <1>6, CallOfStep
  <2>2. CASE \E u \in User, p, q \in Pair :
                /\ BeginReissueStep(s, u, p, q)
                /\ BecomesNew(s, "refreshReply", u, {})
                /\ request'[s].refresh = p /\ request'[s].access = q
    BY <1>3, <2>2 DEF BecomesNew, BeginReissueStep, CallFact, Reissue, Found
  <2>3. CASE AskStep(s) /\ Becomes(s, "accessReply")
    BY <1>2, <1>3, <1>4, <2>3 DEF AskStep, At, Becomes, CallFact, Call, Reissue, Found
  <2>4. CASE BecomesNew(s, "idle", NULL, {})
    BY <2>4 DEF BecomesNew, CallFact, Reissue, Found
  <2>5. CASE \E u \in User : /\ BeginRevokeStep(s, u)
                             /\ BecomesNew(s, "keysReply", u, {p \in Pair : Owns(u, p)})
    BY <1>2, <2>5 DEF BecomesNew, CallFact, Reissue, Found
  <2>6. CASE \E key \in Key : RevokeDeleteStep(s, key) /\ Becomes(s, "revokeDelete")
    BY <1>2, <1>4, <2>6 DEF RevokeDeleteStep, At, Becomes, CallFact, Call, Reissue, Found
  <2>7. CASE FoundStep(s) /\ Becomes(s, "refreshDeleted")
    <3>1. request[s].user \in User /\ request[s].refresh \in Minted /\ request[s].access \in Minted
      BY <1>4, <2>7 DEF FoundStep, At, CallFact, Reissue
    <3>2. Owns(request[s].user, request[s].refresh)
      BY <1>3, <2>7, <3>1 DEF FoundStep, IInv, KeysOwned
    <3> QED BY <1>2, <1>3, <1>4, <2>7, <3>1, <3>2 DEF Becomes, CallFact, Call, Reissue, Found
  <2>8. CASE ListStep(s) /\ Becomes(s, "accessListed")
    BY <1>2, <1>3, <1>4, <2>8 DEF ListStep, At, Becomes, CallFact, Call, Reissue, Found
  <2>9. CASE ServeKeysStep(s) /\ Becomes(s, "revokeDelete")
    BY <1>2, <1>4, <2>9 DEF ServeKeysStep, At, Becomes, CallFact, Call, Reissue, Found
  <2> QED BY <2>1, <2>2, <2>3, <2>4, <2>5, <2>6, <2>7, <2>8, <2>9, CallTurns DEF CallTurn
<1> QED BY <1>5, <1>6

\* What is in the list of a call is a key; the calls and the queue keep their types.
LEMMA ShapeKept ==
    ASSUME TokenAssumption, IInv, Step
    PROVE  Shape'
<1> USE DEF IInv, Shape
<1>1. Effect /\ queue' \in Seq(Command)
  BY StepHasEffect DEF Effect, NewStep, MintStep, ServeSetStep, Served, RemoveStep,
                           QuietStep, QueueStep
<1>2. pair' \in [Pair -> PairRow \cup {NULL}] /\ Minted \subseteq Minted'
  BY <1>1, PairGrows
<1>3. redis' \subseteq Key /\ dropped' \subseteq Key
  <2>1. CASE ServeSetStep
    BY <2>1 DEF ServeSetStep, Served, Position, Command
  <2>2. CASE ~ServeSetStep
    BY <1>1, <2>2 DEF Effect, NewStep, RemoveStep, Remove, QuietStep
  <2> QED BY <2>1, <2>2
<1>4. revoked' \subseteq Minted'
  <2>1. CASE revoked' = revoked
    BY <1>2, <2>1
  <2>2. CASE \E r \in Request : EndRevokeStep(r)
    BY <1>2, <2>2 DEF EndRevokeStep, EndRevoke, CallFact, Owns, Minted, Call
  <2> QED BY <2>1, <2>2 DEF Step, CallStep, LoginStep, BeginReissueStep, AskStep,
             ExchangeStep, RefuseStep, BeginRevokeStep, RevokeDeleteStep, FoundStep,
             MissingStep, ListStep, Answered, ServeKeysStep, ServeSetStep, ServeDelStep,
             Remove, ExpireStep, StutterStep, vars
<1>5. ASSUME NEW r \in Request, CallStep(r)
      PROVE  request' \in [Request -> Call]
  <2>1. ASSUME NEW u \in User, NEW p \in Pair, NEW q \in Pair, BeginReissueStep(r, u, p, q)
        PROVE  request' \in [Request -> Call]
    BY <2>1 DEF BeginReissueStep, Idle, Call
  <2>2. ASSUME RefuseStep(r) \/ EndRevokeStep(r) \/ MissingStep(r)
                \/ \E p \in Pair : ExchangeStep(r, p)
        PROVE  request' \in [Request -> Call]
    BY <2>2, IdleType DEF RefuseStep, EndRevokeStep, EndRevoke, MissingStep, ExchangeStep, Finish
  <2>3. ASSUME NEW u \in User, BeginRevokeStep(r, u)
        PROVE  request' \in [Request -> Call]
    BY <2>3 DEF BeginRevokeStep, Idle, Call
  <2>4. ASSUME AskStep(r) \/ FoundStep(r) \/ ListStep(r)
        PROVE  request' \in [Request -> Call]
    <3>1. PICK step \in {"refreshDeleted", "accessReply", "accessListed"} : Goto(r, step)
      BY <2>4 DEF AskStep, FoundStep, ListStep
    <3>2. [request[r] EXCEPT !.step = step] \in Call
      BY CallType
    <3> QED BY <3>1, <3>2 DEF Goto
  <2>5. ASSUME ServeKeysStep(r)
        PROVE  request' \in [Request -> Call]
    <3> DEFINE keys == {key \in redis : key[2] = request[r].user}
    <3>1. keys \subseteq Key
      OBVIOUS
    <3> HIDE DEF keys
    <3>2. [request[r] EXCEPT !.step = "revokeDelete", !.keys = keys] \in Call
      BY <3>1, CallType
    <3>3. request' = [request EXCEPT ![r] =
                [request[r] EXCEPT !.step = "revokeDelete", !.keys = keys]]
      BY <2>5 DEF ServeKeysStep, keys
    <3> QED BY <3>2, <3>3
  <2>6. ASSUME NEW key \in Key, RevokeDeleteStep(r, key)
        PROVE  request' \in [Request -> Call]
    <3> DEFINE keys == request[r].keys \ {key}
    <3>1. keys \subseteq Key
      BY DEF Call
    <3> HIDE DEF keys
    <3>2. [request[r] EXCEPT !.keys = keys] \in Call
      BY <3>1, CallType
    <3>3. request' = [request EXCEPT ![r] = [request[r] EXCEPT !.keys = keys]]
      BY <2>6 DEF RevokeDeleteStep, keys
    <3> QED BY <3>2, <3>3
  <2> QED BY <1>5, <2>1, <2>2, <2>3, <2>4, <2>5, <2>6 DEF CallStep
<1>6. request' \in [Request -> Call]
  BY <1>5 DEF Step, LoginStep, ServeSetStep, ServeDelStep, ExpireStep, StutterStep, vars
<1> QED BY <1>1, <1>2, <1>3, <1>4, <1>6

-----------------------------------------------------------------------------
(* Who waits for what.                                                     *)

\* The command that the step of call r issues, in the state that results.
AskedBy(c, r) ==
    \/ c.op \in {"set", "del"} /\ c.request = NULL
    \/ /\ c.op = "get" /\ c.request = r
       /\ \/ /\ request'[r].step = "refreshReply"
             /\ c.key = RefreshKey(request'[r].user, request'[r].refresh)
          \/ /\ request'[r].step = "accessReply"
             /\ c.key = AccessKey(request'[r].user, request'[r].access)
    \/ /\ c.op = "keys" /\ c.request = r
       /\ request'[r].step = "keysReply" /\ c.user = request'[r].user

\* A whitelist key is only set for a pair that has not been minted.
FreshSet(c) ==
    c.op = "set" => \/ IsAccessKey(c.key)
                    \/ \E v \in User, q \in Pair \ Minted : c.key = RefreshKey(v, q)

\* A call is resumed by the answer it waits for, or waits for none.
CallQueue(r, k, added) ==
    /\ QueueStep(k, added)
    /\ \A c \in added : FreshSet(c)
    /\ \A i \in Position : queue[i].request = r <=> (k = 1 /\ i = 1)
    /\ \A c \in added : AskedBy(c, r)
    /\ request'[r].step \in Waiting => \E c \in added : c.request = r

LEMMA NobodyWaits ==
    ASSUME TokenAssumption, IInv, NEW r \in Request, request[r].step \notin Waiting
    PROVE  \A i \in Position : queue[i].request # r
<1> SUFFICES ASSUME NEW i \in Position, queue[i].request = r
             PROVE  FALSE
  OBVIOUS
<1>1. queue[i] \in Command /\ CommandFact(i) /\ r # NULL
  BY DEF IInv, Shape, Position, TokenAssumption
<1>2. queue[i].op \in {"get", "set", "del", "keys"}
  BY <1>1 DEF Command
<1> QED BY <1>1, <1>2 DEF CommandFact, At, Waiting

LEMMA CallHasQueue ==
    ASSUME TokenAssumption, IInv, NEW r \in Request, CallStep(r)
    PROVE  \E k \in {0, 1} : \E added : CallQueue(r, k, added)
<1> USE DEF IInv, Shape
<1>1. ASSUME request[r].step \notin Waiting, NEW added, QueueStep(0, added),
             \A c \in added : AskedBy(c, r) /\ FreshSet(c),
             request'[r].step \in Waiting => \E c \in added : c.request = r
      PROVE  CallQueue(r, 0, added)
  BY <1>1, NobodyWaits DEF CallQueue
<1>2. ASSUME 1 \in Position, queue[1].request = r, NEW added, QueueStep(1, added),
             \A c \in added : AskedBy(c, r) /\ FreshSet(c),
             request'[r].step \notin Waiting
      PROVE  CallQueue(r, 1, added)
  BY <1>2 DEF CallQueue, OneCommandEach, TokenAssumption
<1>3. ASSUME NEW u \in User, NEW p \in Pair, NEW q \in Pair, BeginReissueStep(r, u, p, q)
      PROVE  CallQueue(r, 0, {Get(RefreshKey(u, p), r)})
  <2>1. request'[r].step = "refreshReply" /\ request'[r].user = u /\ request'[r].refresh = p
    BY <1>3 DEF BeginReissueStep, Idle
  <2>2. AskedBy(Get(RefreshKey(u, p), r), r) /\ Get(RefreshKey(u, p), r).request = r
    BY <2>1 DEF AskedBy, Get
  <2>3. FreshSet(Get(RefreshKey(u, p), r))
    BY DEF FreshSet, Get
  <2> QED BY <1>1, <1>3, <2>2, <2>3 DEF BeginReissueStep, At, Waiting
<1>4. ASSUME AskStep(r)
      PROVE  CallQueue(r, 0, {Get(AccessKey(request[r].user, request[r].access), r)})
  <2> DEFINE c == Get(AccessKey(request[r].user, request[r].access), r)
  <2>1. Becomes(r, "accessReply")
    BY <1>4 DEF AskStep, Goto, Becomes, Call
  <2>2. AskedBy(c, r) /\ c.request = r
    BY <2>1 DEF AskedBy, Get, Becomes
  <2>3. FreshSet(c)
    BY DEF FreshSet, Get
  <2> QED BY <1>1, <1>4, <2>2, <2>3 DEF AskStep, At, Waiting
<1>5. ASSUME NEW u \in User, BeginRevokeStep(r, u)
      PROVE  CallQueue(r, 0, {KeysOf(u, r)})
  <2>1. request'[r].step = "keysReply" /\ request'[r].user = u
    BY <1>5 DEF BeginRevokeStep, Idle
  <2>2. AskedBy(KeysOf(u, r), r) /\ KeysOf(u, r).request = r
    BY <2>1 DEF AskedBy, KeysOf
  <2>3. FreshSet(KeysOf(u, r))
    BY DEF FreshSet, KeysOf
  <2> QED BY <1>1, <1>5, <2>2, <2>3 DEF BeginRevokeStep, At, Waiting
<1>6. ASSUME NEW p \in Pair, ExchangeStep(r, p)
      PROVE  CallQueue(r, 0, {Set(RefreshKey(request[r].user, p))})
  <2>1. request'[r].step = "idle"
    BY <1>6 DEF ExchangeStep, Finish, Idle
  <2>2. request[r].user \in User
    BY <1>6 DEF ExchangeStep, At, CallFact
  <2>3. FreshSet(Set(RefreshKey(request[r].user, p)))
    BY <1>6, <2>2 DEF ExchangeStep, MintStep, FreshSet, Set
  <2> QED BY <1>1, <1>6, <2>1, <2>3 DEF ExchangeStep, MintStep, At, Waiting, AskedBy, Set
<1>7. ASSUME RefuseStep(r) \/ EndRevokeStep(r)
      PROVE  CallQueue(r, 0, {})
  <2>1. request'[r].step = "idle"
    BY <1>7 DEF RefuseStep, EndRevokeStep, EndRevoke, Finish, Idle
  <2> QED BY <1>1, <1>7, <2>1 DEF RefuseStep, EndRevokeStep, EndRevoke, At, Waiting
<1>8. ASSUME NEW key \in Key, RevokeDeleteStep(r, key)
      PROVE  CallQueue(r, 0, {Del(key)})
  <2>1. request'[r].step = "revokeDelete"
    BY <1>8 DEF RevokeDeleteStep, At, Call
  <2> QED BY <1>1, <1>8, <2>1 DEF RevokeDeleteStep, At, Waiting, AskedBy, FreshSet, Del
<1>9. ASSUME FoundStep(r)
      PROVE  CallQueue(r, 1, {Del(RefreshKey(request[r].user, request[r].refresh))})
  <2>1. request'[r].step = "refreshDeleted"
    BY <1>9 DEF FoundStep, Goto, Call
  <2> QED BY <1>2, <1>9, <2>1 DEF FoundStep, Answered, Waiting, AskedBy, FreshSet, Del
<1>10. ASSUME MissingStep(r)
       PROVE  CallQueue(r, 1, {})
  <2>1. request'[r].step = "idle"
    BY <1>10 DEF MissingStep, Finish, Idle
  <2> QED BY <1>2, <1>10, <2>1 DEF MissingStep, Answered, Waiting
<1>11. ASSUME ListStep(r)
       PROVE  CallQueue(r, 1, {Set(AccessKey(request[r].user, request[r].access))})
  <2>1. request'[r].step = "accessListed"
    BY <1>11 DEF ListStep, Goto, Call
  <2>2. FreshSet(Set(AccessKey(request[r].user, request[r].access)))
    BY DEF FreshSet, Set, AccessKey, IsAccessKey
  <2> QED BY <1>2, <1>11, <2>1, <2>2 DEF ListStep, Answered, Waiting, AskedBy, Set
<1>12. ASSUME ServeKeysStep(r)
       PROVE  CallQueue(r, 1, {})
  <2>1. request'[r].step = "revokeDelete"
    BY <1>12 DEF ServeKeysStep, Call
  <2> QED BY <1>2, <1>12, <2>1 DEF ServeKeysStep, Served, Waiting
<1> HIDE DEF IInv, Shape
<1> QED BY <1>3, <1>4, <1>5, <1>6, <1>7, <1>8, <1>9, <1>10, <1>11, <1>12 DEF CallStep

\* The other steps serve a command that nobody waits for.
LoneQueue(k, added) ==
    /\ QueueStep(k, added)
    /\ request' = request
    /\ k = 1 => queue[1].request = NULL
    /\ \A c \in added : c.op = "set" /\ c.request = NULL /\ FreshSet(c)

LEMMA LoneHasQueue ==
    ASSUME TokenAssumption, IInv, Step, \A r \in Request : ~CallStep(r)
    PROVE  \E k \in {0, 1} : \E added : LoneQueue(k, added)
<1>1. ASSUME NEW u \in User, NEW p \in Pair, LoginStep(u, p)
      PROVE  LoneQueue(0, {Set(RefreshKey(u, p))})
  BY <1>1 DEF LoginStep, MintStep, LoneQueue, FreshSet, Set
<1>2. ASSUME ServeSetStep \/ ServeDelStep
      PROVE  LoneQueue(1, {})
  <2>1. 1 \in Position /\ queue[1].op \in {"set", "del"} /\ QueueStep(1, {}) /\ request' = request
    BY <1>2 DEF ServeSetStep, ServeDelStep, Served
  <2>2. queue[1].request = NULL
    BY <2>1 DEF IInv, CommandFact
  <2> QED BY <2>1, <2>2 DEF LoneQueue
<1>3. ASSUME StutterStep \/ \E key \in Key : ExpireStep(key)
      PROVE  LoneQueue(0, {})
  <2>1. QueueStep(0, {}) /\ request' = request
    BY <1>3 DEF StutterStep, vars, ExpireStep
  <2> QED BY <2>1 DEF LoneQueue
<1> QED BY <1>1, <1>2, <1>3 DEF Step

LEMMA CommandFactKept ==
    ASSUME TokenAssumption, IInv, Step, NEW j \in Position'
    PROVE  CommandFact(j)'
<1> USE DEF IInv
<1>1. ASSUME NEW r \in Request, CallStep(r)
      PROVE  CommandFact(j)'
  <2>1. PICK k, added : k \in {0, 1} /\ CallQueue(r, k, added)
    BY <1>1, CallHasQueue
  <2>2. ASSUME j + k \in Position, queue'[j] = queue[j + k]
        PROVE  CommandFact(j)'
    <3>1. queue[j + k].request # r
      BY <2>1, <2>2 DEF CallQueue, Position
    <3>2. CommandFact(j + k)
      BY <2>2
    <3>3. \A s \in Request : s # r => request'[s] = request[s]
      BY <1>1, OtherCalls
    <3>4. queue[j + k].op = "keys" => queue[j + k].request \in Request
      BY <2>2 DEF Shape, Position, Command
    <3> QED BY <2>2, <3>1, <3>2, <3>3, <3>4 DEF CommandFact, At
  <2>3. ASSUME queue'[j] \in added
        PROVE  CommandFact(j)'
    BY <2>1, <2>3 DEF CallQueue, AskedBy, CommandFact, At
  <2> QED BY <2>1, <2>2, <2>3 DEF CallQueue, QueueStep
<1>2. ASSUME \A r \in Request : ~CallStep(r)
      PROVE  CommandFact(j)'
  <2>1. PICK k, added : k \in {0, 1} /\ LoneQueue(k, added)
    BY <1>2, LoneHasQueue
  <2>2. ASSUME j + k \in Position, queue'[j] = queue[j + k]
        PROVE  CommandFact(j)'
    BY <2>1, <2>2 DEF LoneQueue, CommandFact, At
  <2>3. ASSUME queue'[j] \in added
        PROVE  CommandFact(j)'
    BY <2>1, <2>3 DEF LoneQueue, CommandFact
  <2> QED BY <2>1, <2>2, <2>3 DEF LoneQueue, QueueStep
<1> QED BY <1>1, <1>2

LEMMA OneCommandKept ==
    ASSUME TokenAssumption, IInv, Step
    PROVE  OneCommandEach'
<1> USE DEF IInv
<1>1. ASSUME NEW r \in Request, CallStep(r)
      PROVE  OneCommandEach'
  <2>1. PICK k, added : k \in {0, 1} /\ CallQueue(r, k, added)
    BY <1>1, CallHasQueue
  <2>2. ASSUME NEW i \in Position', NEW j \in Position',
               queue'[i].request # NULL, queue'[i].request = queue'[j].request
        PROVE  i = j
    <3> DEFINE Old(n) == n + k \in Position /\ queue'[n] = queue[n + k]
               New(n) == n = Len(queue) + 1 - k /\ queue'[n] \in added
    <3>1. (Old(i) \/ New(i)) /\ (Old(j) \/ New(j))
      BY <2>1 DEF CallQueue, QueueStep
    <3>2. CASE Old(i) /\ Old(j)
      <4>1. i + k = j + k
        BY <2>2, <3>2 DEF OneCommandEach
      <4> QED BY <2>1, <4>1 DEF Position
    <3>3. CASE New(i) /\ New(j)
      BY <3>3
    <3>4. ASSUME NEW m \in Position', NEW n \in Position', Old(m), New(n), queue'[n].request # NULL
          PROVE  queue'[m].request # queue'[n].request
      <4>1. queue'[n].request = r
        BY <2>1, <3>4 DEF CallQueue, AskedBy
      <4>2. queue[m + k].request # r
        BY <2>1, <3>4 DEF CallQueue, Position
      <4> QED BY <3>4, <4>1, <4>2
    <3> QED BY <2>2, <3>1, <3>2, <3>3, <3>4
  <2>3. ASSUME NEW s \in Request, request'[s].step \in Waiting
        PROVE  \E i \in Position' : queue'[i].request = s
    <3>1. CASE s = r
      BY <2>1, <2>3, <3>1 DEF CallQueue, QueueStep
    <3>2. CASE s # r
      <4>1. PICK i \in Position : queue[i].request = s
        BY <1>1, <2>3, <3>2, OtherCalls DEF OneCommandEach
      <4>2. i > k
        BY <2>1, <3>2, <4>1 DEF CallQueue, Position
      <4> QED BY <2>1, <4>1, <4>2 DEF CallQueue, QueueStep
    <3> QED BY <3>1, <3>2
  <2> QED BY <2>2, <2>3 DEF OneCommandEach
<1>2. ASSUME \A r \in Request : ~CallStep(r)
      PROVE  OneCommandEach'
  <2>1. PICK k, added : k \in {0, 1} /\ LoneQueue(k, added)
    BY <1>2, LoneHasQueue
  <2>2. ASSUME NEW i \in Position', NEW j \in Position',
               queue'[i].request # NULL, queue'[i].request = queue'[j].request
        PROVE  i = j
    <3>1. /\ i + k \in Position /\ queue'[i] = queue[i + k]
          /\ j + k \in Position /\ queue'[j] = queue[j + k]
      BY <2>1, <2>2 DEF LoneQueue, QueueStep
    <3>2. i + k = j + k
      BY <2>2, <3>1 DEF OneCommandEach
    <3> QED BY <2>1, <3>2 DEF Position
  <2>3. ASSUME NEW s \in Request, request'[s].step \in Waiting
        PROVE  \E i \in Position' : queue'[i].request = s
    <3>1. PICK i \in Position : queue[i].request = s
      BY <2>1, <2>3 DEF LoneQueue, OneCommandEach
    <3>2. i > k
      BY <2>1, <3>1 DEF LoneQueue, Position, TokenAssumption
    <3> QED BY <2>1, <3>1, <3>2 DEF LoneQueue, QueueStep
  <2> QED BY <2>2, <2>3 DEF OneCommandEach
<1> QED BY <1>1, <1>2

-----------------------------------------------------------------------------
(* The parts that speak of a call and of the keys it has to do with.       *)

\* A whitelist key comes into the queue, and from there into Redis, by the step
\* that mints its pair.
KeyComes(key, k) ==
    /\ \A i \in Position' : IsSet(i, key)' => i + k \in Position /\ IsSet(i + k, key)
    /\ key \in redis' => key \in redis \/ (k = 1 /\ 1 \in Position /\ IsSet(1, key))

LEMMA OldKey ==
    ASSUME TokenAssumption, IInv, Effect, NEW u \in User, NEW p \in Pair,
           \A v \in User, parent \in Pair \cup {NULL} : ~NewStep(v, parent, p)
    PROVE  \E k \in {0, 1} : KeyComes(RefreshKey(u, p), k)
<1> DEFINE key == RefreshKey(u, p)
<1>1. ~IsAccessKey(key)
  BY KeyFacts
<1>2. ASSUME NEW v \in User, NEW q \in Pair, key = RefreshKey(v, q)
      PROVE  q = p
  BY <1>2, KeyFacts
<1> HIDE DEF key
<1>3. ASSUME NEW v \in User, NEW parent \in Pair \cup {NULL}, NEW q \in Pair,
             NewStep(v, parent, q)
      PROVE  KeyComes(key, 0)
  <2>1. key # RefreshKey(v, q)
    BY <1>2, <1>3
  <2> QED BY <1>3, <2>1 DEF NewStep, MintStep, QueueStep, Set, KeyComes, IsSet
<1>4. ASSUME ServeSetStep
      PROVE  KeyComes(key, 1)
  BY <1>4 DEF ServeSetStep, Served, QueueStep, KeyComes, IsSet
<1>5. ASSUME NEW k \in {0, 1}, NEW del, RemoveStep(k, del)
      PROVE  KeyComes(key, k)
  BY <1>5 DEF RemoveStep, Remove, QueueStep, KeyComes, IsSet
<1>6. ASSUME NEW k \in {0, 1}, NEW added, QuietStep(k, added)
      PROVE  KeyComes(key, k)
  BY <1>1, <1>6 DEF QuietStep, QueueStep, KeyComes, IsSet
<1> QED BY <1>3, <1>4, <1>5, <1>6 DEF Effect, key

\* A queued DEL moves up, or is served and the key is gone.
LEMMA DelMoves ==
    ASSUME Effect, NEW key, NEW i \in Position, IsDel(i, key)
    PROVE  \E k \in {0, 1} : \E added : QueueStep(k, added) /\ (i > k \/ key \notin redis')
<1>1. ASSUME NEW u, NEW parent, NEW p, NewStep(u, parent, p)
      PROVE  \E added : QueueStep(0, added)
  BY <1>1 DEF NewStep, MintStep
<1>2. ASSUME ServeSetStep
      PROVE  QueueStep(1, {}) /\ i > 1
  BY <1>2 DEF ServeSetStep, Served, IsDel, Position
<1>3. ASSUME NEW k \in {0, 1}, NEW del, RemoveStep(k, del)
      PROVE  QueueStep(k, {}) /\ (i > k \/ key \notin redis')
  BY <1>3 DEF RemoveStep, Remove, IsDel, Position
<1>4. ASSUME NEW k \in {0, 1}, NEW added, QuietStep(k, added)
      PROVE  QueueStep(k, added) /\ i > k
  BY <1>4 DEF QuietStep, IsDel, Position
<1>5. i > 0
  BY DEF Position
<1> QED BY <1>1, <1>2, <1>3, <1>4, <1>5 DEF Effect

\* A reissue whose refresh token has been found goes on with it.
LEMMA FoundKept ==
    ASSUME IInv, Step, NEW r \in Request, request'[r].step \in Found
    PROVE  /\ request'[r].refresh = request[r].refresh /\ request'[r].user = request[r].user
           /\ request[r].step \in Found \/ FoundStep(r)
           /\ request[r].user \in User /\ request[r].refresh \in Minted
<1>1. CASE request'[r] = request[r]
  BY <1>1 DEF IInv, CallFact, Found, Reissue
<1>2. CASE request'[r] # request[r]
  <2>1. CallTurn(r)
    BY <1>2, CallOfStep, CallTurns
  <2>2. \/ AskStep(r) /\ Becomes(r, "accessReply")
        \/ FoundStep(r) /\ Becomes(r, "refreshDeleted")
        \/ ListStep(r) /\ Becomes(r, "accessListed")
    BY <2>1 DEF CallTurn, Becomes, BecomesNew, Found
  <2> QED BY <2>2 DEF AskStep, FoundStep, ListStep, At, Becomes, IInv, CallFact, Found, Reissue
<1> QED BY <1>1, <1>2

LEMMA SetOnceKept ==
    ASSUME TokenAssumption, IInv, Step
    PROVE  SetOnce'
<1> USE DEF IInv
<1>1. Effect /\ Shape'
  BY StepHasEffect, ShapeKept
<1> SUFFICES ASSUME NEW u \in User, NEW p \in Pair, NEW i \in Position',
                    IsSet(i, RefreshKey(u, p))'
             PROVE  /\ RefreshKey(u, p) \notin redis'
                    /\ Heirs(p)' = {}
                    /\ \A r \in Request : request'[r].step \in Found => request'[r].refresh # p
                    /\ \A j \in Position' : IsSet(j, RefreshKey(u, p))' => i = j
                    /\ p \notin revoked'
  BY DEF SetOnce
<1> DEFINE key == RefreshKey(u, p)
<1>2. CASE \E v \in User, parent \in Pair \cup {NULL} : NewStep(v, parent, p)
  <2>1. PICK v \in User, parent \in Pair \cup {NULL} : NewStep(v, parent, p)
    BY <1>2
  <2>2. p \in Pair \ Minted /\ p \in Minted'
    BY <1>1, <2>1 DEF NewStep, MintStep, Shape, Minted, PairRow, TokenAssumption
  <2>3. /\ key \notin redis /\ p \notin revoked
        /\ \A j \in Position : ~IsSet(j, key)
    BY <2>2, NewPair
  <2>4. Heirs(p)' = {}
    BY <1>1, <2>2, HeirsGrow
  <2>5. \A r \in Request : request'[r].step \in Found => request'[r].refresh # p
    BY <2>2, FoundKept
  <2>6. \A j \in Position' : IsSet(j, key)' => j = Len(queue) + 1
    BY <2>1, <2>3 DEF NewStep, MintStep, QueueStep, Position, IsSet
  <2> QED BY <2>1, <2>3, <2>4, <2>5, <2>6 DEF NewStep
<1>3. CASE \A v \in User, parent \in Pair \cup {NULL} : ~NewStep(v, parent, p)
  <2>1. PICK k \in {0, 1} : KeyComes(key, k)
    BY <1>1, <1>3, OldKey
  <2>2. i + k \in Position /\ IsSet(i + k, key)
    BY <2>1 DEF KeyComes
  <2>3. /\ key \notin redis /\ Heirs(p) = {} /\ p \notin revoked
        /\ \A r \in Request : request[r].step \in Found => request[r].refresh # p
        /\ \A j \in Position : IsSet(j, key) => i + k = j
    BY <2>2 DEF SetOnce
  <2>4. Owns(u, p)
    BY <2>2 DEF KeysOwned
  <2>5. key \notin redis'
    BY <2>1, <2>3 DEF KeyComes, Position
  <2>6. ASSUME NEW c \in Heirs(p)'
        PROVE  FALSE
    <3>1. p \in Minted'
      BY <1>1, <2>4, PairGrows DEF Owns, Minted
    <3>2. PICK v \in User, q \in Pair : NewStep(v, p, q)
      BY <1>1, <2>3, <2>6, <3>1, HeirsGrow
    <3>3. Exchanged(v, p)
      BY <3>2 DEF NewStep, TokenAssumption
    <3> QED BY <2>2, <2>4, <3>3 DEF Exchanged, Owns
  <2>7. ASSUME NEW r \in Request, request'[r].step \in Found, request'[r].refresh = p
        PROVE  FALSE
    <3>1. FoundStep(r) /\ request[r].refresh = p /\ request[r].user \in User
      BY <2>3, <2>7, FoundKept
    <3>2. RefreshKey(request[r].user, p) \in redis
      BY <3>1 DEF FoundStep
    <3>3. request[r].user = u
      BY <2>4, <3>1, <3>2 DEF KeysOwned, Owns
    <3> QED BY <2>3, <3>2, <3>3
  <2>8. ASSUME NEW j \in Position', IsSet(j, key)'
        PROVE  i = j
    BY <2>1, <2>3, <2>8 DEF KeyComes, Position
  <2>9. ASSUME p \in revoked'
        PROVE  FALSE
    <3>1. PICK r \in Request : EndRevokeStep(r)
      BY <2>3, <2>9 DEF Step, CallStep, LoginStep, BeginReissueStep, AskStep,
             ExchangeStep, RefuseStep, BeginRevokeStep, RevokeDeleteStep, FoundStep,
             MissingStep, ListStep, Answered, ServeKeysStep, ServeSetStep, ServeDelStep,
             Remove, ExpireStep, StutterStep, vars
    <3>2. p \in request[r].older /\ At(r, "revokeDelete")
      BY <2>3, <2>9, <3>1 DEF EndRevokeStep, EndRevoke
    <3>3. request[r].user = u
      BY <2>4, <3>2 DEF CallFact, Owns
    <3> QED BY <2>2, <3>2, <3>3 DEF RevokeFact
  <2> HIDE DEF key
  <2> QED BY <2>5, <2>6, <2>7, <2>8, <2>9 DEF key
<1> QED BY <1>2, <1>3

LEMMA DelFactKept ==
    ASSUME TokenAssumption, IInv, Step, NEW s \in Request
    PROVE  DelFact(s)'
<1> USE DEF IInv
<1>1. Effect
  BY StepHasEffect
<1> SUFFICES ASSUME request'[s].step \in Found
             PROVE  DelFact(s)'
  BY DEF DelFact, At, Found
<1> DEFINE p == request[s].refresh
           key == RefreshKey(request[s].user, p)
<1>2. /\ request'[s].refresh = p /\ request'[s].user = request[s].user
      /\ request[s].step \in Found \/ FoundStep(s)
      /\ request[s].user \in User /\ p \in Minted
  BY FoundKept
<1>3. ASSUME NEW d, d = key, request'[s] = request[s]
      PROVE  DelFact(s)'
  <2>1. request[s].step \in Found /\ d = RefreshKey(request[s].user, request[s].refresh)
    BY <1>3
  <2>2. \A i \in Position : ~IsSet(i, d)
    BY <1>2, <2>1 DEF SetOnce, Minted
  <2>3. PICK k \in {0, 1} : KeyComes(d, k)
    BY <1>1, <1>2, <2>1, OldKey DEF NewStep, MintStep, Minted
  <2>4. d \notin redis => d \notin redis'
    BY <2>2, <2>3 DEF KeyComes
  <2>5. ASSUME NEW i \in Position, IsDel(i, d), d \in redis'
        PROVE  \E n \in {0, 1} : \E added : QueueStep(n, added) /\ i > n
    BY <1>1, <2>5, DelMoves
  <2>6. /\ At(s, "refreshDeleted") =>
            d \notin redis' \/ \E i \in Position' : IsDel(i, d)'
        /\ At(s, "accessReply") =>
            \/ d \notin redis'
            \/ \E i, j \in Position' : i < j /\ IsDel(i, d)' /\ queue'[j].request = s
    <3>1. ASSUME d \in redis', NEW i \in Position, IsDel(i, d)
          PROVE  /\ \E j \in Position' : IsDel(j, d)'
                 /\ \A j \in Position : i < j /\ queue[j].request = s =>
                        \E m, n \in Position' : m < n /\ IsDel(m, d)' /\ queue'[n].request = s
      <4>1. PICK n, added : n \in {0, 1} /\ QueueStep(n, added) /\ i > n
        BY <2>5, <3>1
      <4>2. i - n \in Position' /\ IsDel(i - n, d)'
        BY <3>1, <4>1 DEF QueueStep, IsDel
      <4>3. ASSUME NEW j \in Position, i < j, queue[j].request = s
            PROVE  j - n \in Position' /\ i - n < j - n /\ queue'[j - n].request = s
        BY <4>1, <4>3 DEF QueueStep, Position
      <4> QED BY <4>2, <4>3
    <3>2. DelFact(s)
      OBVIOUS
    <3> QED BY <2>1, <2>4, <3>1, <3>2 DEF DelFact
  <2>7. At(s, "accessListed") => d \notin redis'
    BY <2>1, <2>4 DEF DelFact
  <2> QED BY <1>3, <2>1, <2>6, <2>7 DEF DelFact, At
<1>4. ASSUME request'[s] # request[s]
      PROVE  DelFact(s)'
  <2>1. CallTurn(s)
    BY <1>4, CallOfStep, CallTurns
  <2>2. PICK d : d = key
    OBVIOUS
  <2>3. d = RefreshKey(request'[s].user, request'[s].refresh)
    BY <1>2, <2>2
  <2>4. CASE AskStep(s) /\ Becomes(s, "accessReply")
    <3>1. redis' = redis /\ (d \notin redis \/ \E i \in Position : IsDel(i, d))
      BY <2>2, <2>4 DEF AskStep, DelFact
    <3>2. PICK c : c = Get(AccessKey(request[s].user, request[s].access), s)
      OBVIOUS
    <3>3. QueueStep(0, {c}) /\ c.request = s
      BY <2>4, <3>2 DEF AskStep, Get
    <3>4. ASSUME NEW i \in Position, IsDel(i, d)
          PROVE  \E m, n \in Position' : m < n /\ IsDel(m, d)' /\ queue'[n].request = s
      BY <3>4, <3>3 DEF QueueStep, Position, IsDel, Shape
    <3> QED BY <2>3, <2>4, <3>1, <3>4 DEF DelFact, Becomes, At
  <2>5. CASE FoundStep(s) /\ Becomes(s, "refreshDeleted")
    <3>1. \E i \in Position' : IsDel(i, d)'
      BY <2>2, <2>5 DEF FoundStep, QueueStep, IsDel, Del
    <3> QED BY <2>3, <2>5, <3>1 DEF DelFact, Becomes, At
  <2>6. CASE ListStep(s) /\ Becomes(s, "accessListed")
    <3>1. 1 \in Position /\ queue[1].request = s /\ redis' = redis /\ At(s, "accessReply")
      BY <2>6 DEF ListStep, Answered
    <3>2. \A j \in Position : queue[j].request = s => j = 1
      BY <3>1 DEF OneCommandEach, TokenAssumption
    <3>3. d \notin redis
      BY <2>2, <3>1, <3>2 DEF DelFact, Position
    <3> QED BY <2>3, <2>6, <3>1, <3>3 DEF DelFact, Becomes, At
  <2> QED BY <2>1, <2>4, <2>5, <2>6 DEF CallTurn, Becomes, BecomesNew, Found
<1> QED BY <1>3, <1>4

LEMMA ListFactKept ==
    ASSUME TokenAssumption, IInv, Step, NEW s \in Request
    PROVE  ListFact(s)'
<1> USE DEF IInv
<1>1. Effect
  BY StepHasEffect
<1> SUFFICES ASSUME request'[s].step = "accessListed"
             PROVE  ListFact(s)'
  BY DEF ListFact, At
<1>2. CASE request'[s] = request[s]
  <2> DEFINE u == request[s].user
             p == request[s].access
             key == AccessKey(u, p)
  <2>1. u \in User /\ p \in Pair
    BY <1>2 DEF CallFact, Reissue, Found, Minted
  <2>2. PICK d : d = key
    OBVIOUS
  <2>3. /\ Listed(d) => Listed(d)'
        /\ ServeSetStep /\ IsSet(1, d) => Listed(d)'
    BY <1>1, <2>1, <2>2, ListedKept
  <2>4. Listed(d) \/ \E i \in Position : IsSet(i, d)
    BY <1>2, <2>2 DEF ListFact, At
  <2>5. ASSUME NEW i \in Position, IsSet(i, d)
        PROVE  Listed(d)' \/ \E j \in Position' : IsSet(j, d)'
    <3>1. ASSUME NEW k \in {0, 1}, NEW added, QueueStep(k, added), i > k
          PROVE  \E j \in Position' : IsSet(j, d)'
      BY <2>5, <3>1 DEF QueueStep, IsSet
    <3>2. i > 0
      BY DEF Position
    <3>3. CASE \E v \in User, q \in Pair \cup {NULL}, r \in Pair : NewStep(v, q, r)
      BY <3>1, <3>2, <3>3 DEF NewStep, MintStep
    <3>4. CASE ServeSetStep
      <4>1. i = 1 \/ i > 1
        BY <3>2 DEF Position
      <4> QED BY <2>3, <2>5, <3>1, <3>4, <4>1 DEF ServeSetStep, Served
    <3>5. ASSUME NEW k \in {0, 1}, NEW del, RemoveStep(k, del)
          PROVE  QueueStep(k, {}) /\ i > k
      BY <2>5, <3>5 DEF RemoveStep, Position, IsSet, IsDel
    <3>6. ASSUME NEW k \in {0, 1}, NEW added, QuietStep(k, added)
          PROVE  QueueStep(k, added) /\ i > k
      BY <2>5, <3>6 DEF QuietStep, Position, IsSet
    <3> QED BY <1>1, <3>1, <3>3, <3>4, <3>5, <3>6 DEF Effect
  <2>6. Listed(d)' \/ \E j \in Position' : IsSet(j, d)'
    BY <2>3, <2>4, <2>5
  <2> QED BY <1>2, <2>2, <2>6 DEF ListFact
<1>3. CASE request'[s] # request[s]
  <2>1. CallTurn(s)
    BY <1>3, CallOfStep, CallTurns
  <2>2. ListStep(s) /\ Becomes(s, "accessListed")
    BY <2>1 DEF CallTurn, Becomes, BecomesNew
  <2>3. PICK d : d = AccessKey(request[s].user, request[s].access)
    OBVIOUS
  <2>4. \E i \in Position' : IsSet(i, d)'
    BY <2>2, <2>3 DEF ListStep, QueueStep, IsSet, Set
  <2> QED BY <2>2, <2>3, <2>4 DEF ListFact, Becomes
<1> QED BY <1>2, <1>3

\* A command that a call has not asked for itself is not its own.
LEMMA OthersQueue ==
    ASSUME TokenAssumption, IInv, Step, NEW s \in Request, ~CallStep(s)
    PROVE  \E k \in {0, 1} : \E added :
            /\ QueueStep(k, added)
            /\ \A c \in added : FreshSet(c) /\ c.request # s
            /\ k = 1 /\ 1 \in Position => queue[1].request # s
<1>1. ASSUME NEW r \in Request, CallStep(r)
      PROVE  \E k \in {0, 1} : \E added :
                /\ QueueStep(k, added)
                /\ \A c \in added : FreshSet(c) /\ c.request # s
                /\ k = 1 /\ 1 \in Position => queue[1].request # s
  <2>1. PICK k, added : k \in {0, 1} /\ CallQueue(r, k, added)
    BY <1>1, CallHasQueue
  <2>2. r # s /\ s # NULL
    BY <1>1 DEF TokenAssumption
  <2>3. \A c \in added : c.request # s
    BY <2>1, <2>2 DEF CallQueue, AskedBy
  <2>4. k = 1 /\ 1 \in Position => queue[1].request # s
    BY <2>1, <2>2 DEF CallQueue
  <2> QED BY <2>1, <2>3, <2>4 DEF CallQueue
<1>2. ASSUME \A r \in Request : ~CallStep(r)
      PROVE  \E k \in {0, 1} : \E added :
                /\ QueueStep(k, added)
                /\ \A c \in added : FreshSet(c) /\ c.request # s
                /\ k = 1 /\ 1 \in Position => queue[1].request # s
  <2>1. PICK k, added : k \in {0, 1} /\ LoneQueue(k, added)
    BY <1>2, LoneHasQueue
  <2>2. s # NULL
    BY DEF TokenAssumption
  <2> QED BY <2>1, <2>2 DEF LoneQueue
<1> QED BY <1>1, <1>2

LEMMA RevokeFactKept ==
    ASSUME TokenAssumption, IInv, Step, NEW s \in Request
    PROVE  RevokeFact(s)'
<1> USE DEF IInv
<1>1. Effect
  BY StepHasEffect
<1> DEFINE Fact(p, d) ==
        /\ request'[s].step = "keysReply" =>
            \A i, j \in Position' : IsSet(i, d)' /\ queue'[j].request = s => i < j
        /\ request'[s].step = "revokeDelete" =>
            /\ \A i \in Position' : ~IsSet(i, d)'
            /\ d \in redis' => d \in request'[s].keys \/ \E i \in Position' : IsDel(i, d)'
<1> SUFFICES ASSUME NEW p \in request'[s].older, NEW d, d = RefreshKey(request'[s].user, p)
             PROVE  Fact(p, d)
  BY DEF RevokeFact, At
<1>2. CASE ~CallStep(s)
  <2>1. request'[s] = request[s] /\ d = RefreshKey(request[s].user, p)
    BY <1>2, CallOfStep
  <2>2. Owns(request[s].user, p) /\ p \in Pair /\ p \in Minted
    BY <2>1 DEF CallFact, Shape, Call, Owns, Minted
  <2>3. request[s].user \in User
    BY <2>2 DEF Owns, Minted, Shape, PairRow
  <2>4. PICK k, added :
            /\ k \in {0, 1}
            /\ QueueStep(k, added)
            /\ \A c \in added : FreshSet(c) /\ c.request # s
    BY <1>2, OthersQueue
  <2>5. ~IsAccessKey(d) /\ \A v \in User, q \in Pair \ Minted : d # RefreshKey(v, q)
    BY <2>1, <2>2, <2>3, KeyFacts
  <2>6. \A i \in Position' : IsSet(i, d)' => i + k \in Position /\ IsSet(i + k, d)
    BY <2>4, <2>5 DEF QueueStep, FreshSet, IsSet
  <2>7. \A j \in Position' : queue'[j].request = s =>
            j + k \in Position /\ queue[j + k].request = s
    BY <2>4 DEF QueueStep
  <2>8. RevokeFact(s)
    OBVIOUS
  <2>9. ASSUME request'[s].step = "keysReply", NEW i \in Position', NEW j \in Position',
               IsSet(i, d)', queue'[j].request = s
        PROVE  i < j
    <3>1. i + k < j + k
      BY <2>1, <2>6, <2>7, <2>8, <2>9 DEF RevokeFact, At
    <3> QED BY <2>4, <3>1 DEF Position
  <2>10. ASSUME request'[s].step = "revokeDelete"
         PROVE  /\ \A i \in Position' : ~IsSet(i, d)'
                /\ d \in redis' => d \in request'[s].keys \/ \E i \in Position' : IsDel(i, d)'
    <3>1. /\ \A i \in Position : ~IsSet(i, d)
          /\ d \in redis => d \in request'[s].keys \/ \E i \in Position : IsDel(i, d)
      BY <2>1, <2>8, <2>10 DEF RevokeFact, At
    <3>2. \A i \in Position' : ~IsSet(i, d)'
      BY <2>6, <3>1
    <3>3. d \in redis' => d \in redis
      <4>1. PICK n \in {0, 1} : KeyComes(d, n)
        BY <1>1, <2>1, <2>2, <2>3, OldKey DEF NewStep, MintStep
      <4> QED BY <3>1, <4>1 DEF KeyComes
    <3>4. ASSUME d \in redis', NEW i \in Position, IsDel(i, d)
          PROVE  \E j \in Position' : IsDel(j, d)'
      <4>1. PICK n, more : n \in {0, 1} /\ QueueStep(n, more) /\ i > n
        BY <1>1, <3>4, DelMoves
      <4>2. i - n \in Position' /\ IsDel(i - n, d)'
        BY <3>4, <4>1 DEF QueueStep, IsDel
      <4> QED BY <4>2
    <3> QED BY <3>1, <3>2, <3>3, <3>4
  <2> QED BY <2>9, <2>10
<1>3. CASE CallStep(s)
  <2>1. CallTurn(s) /\ s # NULL
    BY <1>3, CallTurns DEF TokenAssumption
  <2>2. ASSUME NEW u \in User, BeginRevokeStep(s, u),
               BecomesNew(s, "keysReply", u, {q \in Pair : Owns(u, q)})
        PROVE  Fact(p, d)
    <3>1. \A j \in Position : queue[j].request # s
      BY <2>2, NobodyWaits DEF BeginRevokeStep, At, Waiting
    <3>2. PICK c : c = KeysOf(u, s)
      OBVIOUS
    <3>3. QueueStep(0, {c}) /\ c.op = "keys"
      BY <2>2, <3>2 DEF BeginRevokeStep, KeysOf
    <3>4. ASSUME NEW i \in Position', NEW j \in Position', IsSet(i, d)', queue'[j].request = s
          PROVE  i < j
      <4>1. j = Len(queue) + 1
        BY <3>1, <3>3, <3>4 DEF QueueStep
      <4>2. i \in Position
        BY <3>3, <3>4 DEF QueueStep, Position, IsSet
      <4> QED BY <4>1, <4>2 DEF Position, Shape
    <3> QED BY <2>2, <3>4 DEF BecomesNew
  <2>3. ASSUME NEW key \in Key, RevokeDeleteStep(s, key), Becomes(s, "revokeDelete"),
               request'[s].keys = request[s].keys \ {key}
        PROVE  Fact(p, d)
    <3>1. p \in request[s].older /\ d = RefreshKey(request[s].user, p) /\ redis' = redis
      BY <2>3 DEF Becomes, RevokeDeleteStep
    <3>2. /\ \A i \in Position : ~IsSet(i, d)
          /\ d \in redis => d \in request[s].keys \/ \E i \in Position : IsDel(i, d)
      BY <2>3, <3>1 DEF RevokeDeleteStep, RevokeFact
    <3>3. PICK c : c = Del(key)
      OBVIOUS
    <3>4. QueueStep(0, {c}) /\ c.op = "del" /\ c.key = key
      BY <2>3, <3>3 DEF RevokeDeleteStep, Del
    <3>5. \A i \in Position' : ~IsSet(i, d)'
      BY <3>2, <3>4 DEF QueueStep, Position, IsSet
    <3>6. d = key => \E i \in Position' : IsDel(i, d)'
      BY <3>4 DEF QueueStep, IsDel
    <3>7. ASSUME NEW i \in Position, IsDel(i, d)
          PROVE  \E j \in Position' : IsDel(j, d)'
      BY <3>4, <3>7 DEF QueueStep, Position, IsDel
    <3> QED BY <2>3, <3>1, <3>2, <3>5, <3>6, <3>7 DEF Becomes
  <2>4. ASSUME ServeKeysStep(s), Becomes(s, "revokeDelete"),
               request'[s].keys = {key \in redis : key[2] = request[s].user}
        PROVE  Fact(p, d)
    <3>1. p \in request[s].older /\ d = RefreshKey(request[s].user, p) /\ redis' = redis
      BY <2>4 DEF Becomes, ServeKeysStep
    <3>2. QueueStep(1, {}) /\ 1 \in Position /\ queue[1].request = s
      BY <2>4 DEF ServeKeysStep, Served
    <3>3. \A i \in Position : IsSet(i, d) => i < 1
      BY <2>4, <3>1, <3>2 DEF ServeKeysStep, RevokeFact
    <3>4. \A i \in Position' : ~IsSet(i, d)'
      BY <3>2, <3>3 DEF QueueStep, Position, IsSet
    <3>5. d[2] = request[s].user
      BY <3>1 DEF RefreshKey
    <3> QED BY <2>4, <3>1, <3>4, <3>5 DEF Becomes
  <2> QED BY <2>1, <2>2, <2>3, <2>4 DEF CallTurn, Becomes, BecomesNew
<1> QED BY <1>2, <1>3

-----------------------------------------------------------------------------
(* The invariant.                                                          *)

LEMMA StepKeeps ==
    ASSUME TokenAssumption, IInv, Step
    PROVE  IInv'
<1>1. Effect
  BY StepHasEffect
<1>2. Shape' /\ KeysOwned' /\ SetOnce' /\ HeirFact' /\ RevokedFact'
  BY <1>1, ShapeKept, KeysOwnedKept, SetOnceKept, HeirFactKept, RevokedFactKept
<1>3. LineageKeepsOwner' /\ SpentIsGone' /\ HeirAfterBlackList'
  BY <1>1, LineageKept, SpentKept, HeirAfterKept
<1>4. \A r \in Request : (CallFact(r) /\ DelFact(r) /\ ListFact(r) /\ RevokeFact(r))'
  BY CallFactKept, DelFactKept, ListFactKept, RevokeFactKept
<1>5. OneCommandEach' /\ (\A i \in Position : CommandFact(i))'
  BY OneCommandKept, CommandFactKept
<1> QED BY <1>2, <1>3, <1>4, <1>5 DEF IInv

\* After the end of the process nobody waits, and nothing is queued.
LEMMA CrashKeeps ==
    ASSUME TokenAssumption, IInv, Crash
    PROVE  IInv'
<1> USE DEF Crash
<1>1. Position' = {} /\ queue' \in Seq(Command)
  BY DEF Position
<1>2. \A r \in Request : request'[r] = Idle
  OBVIOUS
<1>3. Shape'
  BY <1>1, IdleType DEF IInv, Shape, Minted
<1>4. \A r \in Request : (CallFact(r) /\ DelFact(r) /\ ListFact(r) /\ RevokeFact(r))'
  BY <1>2 DEF CallFact, DelFact, ListFact, RevokeFact, At, Idle, Reissue, Found
<1>5. OneCommandEach' /\ (\A i \in Position : CommandFact(i))'
  BY <1>1, <1>2 DEF OneCommandEach, Idle, Waiting
<1>6. KeysOwned' /\ SetOnce' /\ HeirFact'
  BY <1>1 DEF IInv, KeysOwned, SetOnce, HeirFact, Owns
<1>7. RevokedFact'
  BY DEF RevokedFact, Exchangeable
<1>8. LineageKeepsOwner' /\ SpentIsGone' /\ HeirAfterBlackList'
  BY DEF IInv, LineageKeepsOwner, SpentIsGone, HeirAfterBlackList, Minted, Owns,
         Heirs, Exchangeable
<1> QED BY <1>3, <1>4, <1>5, <1>6, <1>7, <1>8 DEF IInv

LEMMA InitHolds ==
    ASSUME TokenAssumption, Init
    PROVE  IInv
<1> USE DEF Init
<1>1. Position = {} /\ queue \in Seq(Command)
  BY DEF Position
<1>2. Minted = {} /\ \A u : \A p \in Pair : ~Owns(u, p)
  BY DEF Minted, Owns
<1>3. Shape
  BY <1>1, IdleType DEF Shape
<1>4. \A r \in Request : CallFact(r) /\ DelFact(r) /\ ListFact(r) /\ RevokeFact(r)
  BY DEF CallFact, DelFact, ListFact, RevokeFact, At, Idle, Reissue, Found
<1>5. OneCommandEach /\ \A i \in Position : CommandFact(i)
  BY <1>1 DEF OneCommandEach, Idle, Waiting
<1>6. KeysOwned /\ SetOnce /\ HeirFact /\ RevokedFact
  BY <1>1, <1>2 DEF KeysOwned, SetOnce, HeirFact, RevokedFact
<1>7. LineageKeepsOwner /\ SpentIsGone /\ HeirAfterBlackList
  BY <1>2 DEF LineageKeepsOwner, SpentIsGone, HeirAfterBlackList
<1> QED BY <1>3, <1>4, <1>5, <1>6, <1>7 DEF IInv

LEMMA Invariant == Spec => []IInv
<1>1. Init => IInv
  BY InitHolds, TokenAssumption
<1>2. IInv /\ [Next]_vars => IInv'
  BY NextIsStep, StepKeeps, CrashKeeps, TokenAssumption
<1> QED BY <1>1, <1>2, PTL DEF Spec

-----------------------------------------------------------------------------
(* Theorems.                                                               *)

\* Every key, command, call and pair has its shape, and a call that waits for
\* Redis has exactly one command in the queue of the connection, one that does
\* not has none: no answer is taken for another, whatever the interleaving.
THEOREM TypeCorrect == Spec => []TypeOK
<1>1. IInv => TypeOK
  <2> SUFFICES ASSUME IInv
               PROVE  TypeOK
    OBVIOUS
  <2>1. DOMAIN queue = Position
    BY DEF IInv, Shape, Position
  <2>2. ASSUME NEW r \in Request, request[r].step \in Waiting
        PROVE  \E i \in DOMAIN queue : Awaited(r) = {i}
    <3>1. PICK i \in Position : queue[i].request = r
      BY <2>2 DEF IInv, OneCommandEach
    <3>2. \A j \in Position : queue[j].request = r => j = i
      BY <3>1, TokenAssumption DEF IInv, OneCommandEach, TokenAssumption
    <3> QED BY <2>1, <3>1, <3>2 DEF Awaited
  <2>3. ASSUME NEW r \in Request, request[r].step \notin Waiting
        PROVE  Awaited(r) = {}
    BY <2>1, <2>3, NobodyWaits, TokenAssumption DEF Awaited
  <2> QED BY <2>2, <2>3 DEF TypeOK, IInv, Shape, Waiting
<1> QED BY <1>1, Invariant, PTL

\* A pair is only ever exchanged for a pair of the same user, though the user
\* and the two tokens of a reissue come from three places.
THEOREM LineageCorrect == Spec => []LineageKeepsOwner
<1>1. IInv => LineageKeepsOwner
  BY DEF IInv
<1> QED BY <1>1, Invariant, PTL

\* The refresh token of a pair that has an heir is off the whitelist for good,
\* though nobody waits for the DEL that removes it or the SET that put it there.
THEOREM SpentCorrect == Spec => []SpentIsGone
<1>1. IInv => SpentIsGone
  BY DEF IInv
<1> QED BY <1>1, Invariant, PTL

\* Where the heir's refresh token is on the whitelist, the access token it was
\* exchanged for has been on the blacklist, though nobody waits for either SET.
THEOREM BlackListCorrect == Spec => []HeirAfterBlackList
<1>1. IInv => HeirAfterBlackList
  BY DEF IInv
<1> QED BY <1>1, Invariant, PTL

\* After a revocation has issued its last DEL, no refresh token of an older pair
\* is on the whitelist unless its DEL is on its way: neither a SET still queued
\* when KEYS was issued nor a reissue in progress brings one back.
THEOREM RevocationCorrect == Spec => []RevokedStaysRevoked
<1>1. IInv => RevokedStaysRevoked
  <2> SUFFICES ASSUME IInv, NEW p \in revoked, Exchangeable(p)
               PROVE  Queued(Del(RefreshKey(pair[p].owner, p)))
    BY DEF RevokedStaysRevoked
  <2>1. PICK i \in Position : IsDel(i, RefreshKey(pair[p].owner, p))
    BY DEF IInv, RevokedFact
  <2>2. i \in DOMAIN queue /\ queue[i] \in Command
    BY DEF IInv, Shape, Position
  <2>3. queue[i].request = NULL
    BY <2>1 DEF IInv, CommandFact, IsDel
  <2>4. queue[i] = Del(RefreshKey(pair[p].owner, p))
    BY <2>1, <2>2, <2>3 DEF IsDel, Command, Del
  <2> QED BY <2>2, <2>4 DEF Queued
<1> QED BY <1>1, Invariant, PTL

=============================================================================
