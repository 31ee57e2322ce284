--------------------------- MODULE TokenRefinement ---------------------------
(* That TokenRotation implements Ledger, and how often a refresh token can  *)
(* be exchanged, for every value of the constants.                         *)
EXTENDS TokenRotationProofs, FiniteSetTheorems

-----------------------------------------------------------------------------
(* The life of a pair, in terms of positions.                              *)

\* The whitelist key of a pair that has been minted.
White(p) == RefreshKey(pair[p].owner, p)
OnTheWay(p) == \E i \in Position : IsSet(i, White(p))

LEMMA QueuedSet ==
    ASSUME IInv, NEW key \in Key
    PROVE  Queued(Set(key)) <=> \E i \in Position : IsSet(i, key)
<1>1. DOMAIN queue = Position
  BY DEF IInv, Shape, Position
<1>2. ASSUME NEW i \in Position, IsSet(i, key)
      PROVE  queue[i] = Set(key)
  <2>1. queue[i] \in Command /\ queue[i].request = NULL
    BY <1>2 DEF IInv, Shape, Position, CommandFact, IsSet
  <2> QED BY <1>2, <2>1 DEF IsSet, Command, Set
<1>3. ASSUME NEW i \in Position, queue[i] = Set(key)
      PROVE  IsSet(i, key)
  BY <1>3 DEF IsSet, Set
<1> QED BY <1>1, <1>2, <1>3 DEF Queued

StatusFact(p) ==
    /\ Status(p) = IF pair[p] = NULL THEN "unminted"
                   ELSE IF White(p) \in redis THEN "live"
                   ELSE IF OnTheWay(p) THEN "issued" ELSE "gone"
    /\ pair[p] # NULL => pair[p].owner \in User /\ White(p) \in Key
    /\ pair[p] # NULL /\ OnTheWay(p) => White(p) \notin redis

LEMMA StatusIs == IInv => \A p \in Pair : StatusFact(p)
<1> SUFFICES ASSUME IInv, NEW p \in Pair
             PROVE  StatusFact(p)
  OBVIOUS
<1>1. ASSUME pair[p] # NULL
      PROVE  pair[p].owner \in User /\ White(p) \in Key
  BY <1>1, KeyFacts DEF IInv, Shape, PairRow, White
<1>2. ASSUME pair[p] # NULL, OnTheWay(p)
      PROVE  White(p) \notin redis
  BY <1>1, <1>2 DEF IInv, SetOnce, White, OnTheWay
<1>3. pair[p] # NULL => (Queued(Set(White(p))) <=> OnTheWay(p))
  BY <1>1, QueuedSet DEF OnTheWay
<1> QED BY <1>1, <1>2, <1>3 DEF StatusFact, Status, Exchangeable, White

LEMMA StatusNext == IInv' => (\A p \in Pair : StatusFact(p))'
BY StatusIs, PTL

\* The whitelist keys of two pairs are two keys.
LEMMA WhiteIsOwn ==
    ASSUME NEW u \in User, NEW p \in Pair, NEW v, NEW q
    PROVE  RefreshKey(v, q) = RefreshKey(u, p) => v = u /\ q = p
BY KeyFacts

-----------------------------------------------------------------------------
(* What each effect does to the life of the pairs.                         *)

LEMMA NewLife ==
    ASSUME TokenAssumption, IInv, IInv',
           NEW u \in User, NEW parent \in Pair \cup {NULL}, NEW p \in Pair,
           NewStep(u, parent, p)
    PROVE  /\ Status(p) = "unminted" /\ Status(p)' = "issued"
           /\ \A q \in Pair \ {p} : Status(q)' = Status(q)
           /\ parent # NULL => Status(parent) = "gone" /\ pair[parent].owner = u
<1> DEFINE key == RefreshKey(u, p)
           new == Set(key)
<1>1. /\ p \notin Minted
      /\ pair' = [pair EXCEPT ![p] = [owner |-> u, parent |-> parent]]
      /\ QueueStep(0, {new})
      /\ redis' = redis
  BY DEF NewStep, MintStep
<1>2. pair[p] = NULL /\ pair'[p] = [owner |-> u, parent |-> parent] /\ pair'[p] # NULL
  BY <1>1 DEF Minted, IInv, Shape, TokenAssumption, PairRow
<1>3. Status(p) = "unminted"
  BY <1>2, StatusIs, StatusNext DEF StatusFact
<1>4. Status(p)' = "issued"
  <2>1. White(p)' = key
    BY <1>2 DEF White, RefreshKey
  <2>2. key \notin redis'
    BY <1>1, NewPair
  <2>3. \E i \in Position' : IsSet(i, key)'
    BY <1>1 DEF QueueStep, IsSet, Set
  <2>4. OnTheWay(p)'
    BY <2>1, <2>3 DEF OnTheWay, IsSet
  <2> QED BY <1>2, <2>1, <2>2, <2>4, StatusIs, StatusNext DEF StatusFact
<1>5. ASSUME NEW q \in Pair, q # p
      PROVE  Status(q)' = Status(q)
  <2>1. pair'[q] = pair[q]
    BY <1>1, <1>5 DEF IInv, Shape
  <2>2. White(q)' = White(q)
    BY <2>1 DEF White, RefreshKey
  <2>3. White(q) # key
    BY <1>5, WhiteIsOwn DEF White
  <2> HIDE DEF key
  <2>4. OnTheWay(q)' <=> OnTheWay(q)
    <3>1. ASSUME NEW i \in Position', IsSet(i, White(q))'
          PROVE  i \in Position /\ IsSet(i, White(q))
      BY <1>1, <2>2, <2>3, <3>1 DEF QueueStep, Position, IsSet, Set
    <3>2. ASSUME NEW i \in Position, IsSet(i, White(q))
          PROVE  i \in Position' /\ IsSet(i, White(q))'
      <4>1. i > 0 /\ i - 0 = i
        BY DEF Position
      <4> QED BY <1>1, <2>2, <3>2, <4>1 DEF QueueStep, IsSet
    <3> QED BY <3>1, <3>2 DEF OnTheWay
  <2> QED BY <1>1, <2>1, <2>2, <2>4, StatusIs, StatusNext DEF StatusFact
<1>6. ASSUME parent # NULL
      PROVE  Status(parent) = "gone" /\ pair[parent].owner = u
  <2>1. Exchanged(u, parent) /\ parent \in Pair
    BY <1>6 DEF NewStep
  <2>2. White(parent) = RefreshKey(u, parent) /\ pair[parent] # NULL
    BY <2>1 DEF Exchanged, Owns, White
  <2>3. White(parent) \notin redis /\ ~OnTheWay(parent)
    BY <2>1, <2>2 DEF Exchanged, OnTheWay
  <2> QED BY <2>1, <2>2, <2>3, StatusIs, StatusNext DEF Exchanged, Owns, StatusFact
<1> QED BY <1>3, <1>4, <1>5, <1>6

\* Where the pairs stay, a life depends on one key and its SET.
LEMMA SameLife ==
    ASSUME IInv, IInv', UNCHANGED pair, NEW q \in Pair,
           pair[q] # NULL => /\ White(q) \in redis' <=> White(q) \in redis
                             /\ (\E i \in Position' : IsSet(i, White(q))') <=> OnTheWay(q)
    PROVE  Status(q)' = Status(q)
<1>1. White(q)' = White(q) /\ pair'[q] = pair[q]
  BY DEF White, RefreshKey
<1>2. OnTheWay(q)' <=> \E i \in Position' : IsSet(i, White(q))'
  BY <1>1 DEF OnTheWay, IsSet
<1> QED BY <1>1, <1>2, StatusIs, StatusNext DEF StatusFact

LEMMA SetLife ==
    ASSUME TokenAssumption, IInv, IInv', ServeSetStep
    PROVE  \/ \A q \in Pair : Status(q)' = Status(q)
           \/ \E p \in Pair : /\ Status(p) = "issued" /\ Status(p)' = "live"
                              /\ \A q \in Pair \ {p} : Status(q)' = Status(q)
<1> DEFINE key == queue[1].key
<1>1. /\ QueueStep(1, {}) /\ 1 \in Position /\ IsSet(1, key)
      /\ redis' = redis \cup {key} /\ pair' = pair
  BY DEF ServeSetStep, Served, IsSet
<1> HIDE DEF key
<1>2. ASSUME NEW q \in Pair, White(q) # key
      PROVE  Status(q)' = Status(q)
  <2>1. ASSUME NEW i \in Position', IsSet(i, White(q))'
        PROVE  OnTheWay(q)
    BY <1>1, <2>1 DEF QueueStep, IsSet, OnTheWay, Position, White, RefreshKey
  <2>2. ASSUME NEW i \in Position, IsSet(i, White(q))
        PROVE  \E j \in Position' : IsSet(j, White(q))'
    <3>1. i > 1
      BY <1>1, <1>2, <2>2 DEF IsSet, Position
    <3>2. i - 1 \in Position' /\ queue'[i - 1] = queue[i]
      BY <1>1, <3>1 DEF QueueStep
    <3>3. IsSet(i - 1, White(q))'
      BY <1>1, <2>2, <3>2 DEF IsSet, White, RefreshKey
    <3>4. PICK j : j = i - 1
      OBVIOUS
    <3> QED BY <1>1, <3>2, <3>3, <3>4 DEF IsSet
  <2>3. White(q) \in redis' <=> White(q) \in redis
    BY <1>1, <1>2
  <2> QED BY <1>1, <2>1, <2>2, <2>3, SameLife DEF OnTheWay
<1>3. ASSUME NEW p \in Pair, pair[p] # NULL, White(p) = key
      PROVE  /\ Status(p) = "issued" /\ Status(p)' = "live"
             /\ \A q \in Pair \ {p} : Status(q)' = Status(q)
  <2>1. OnTheWay(p)
    BY <1>1, <1>3 DEF OnTheWay
  <2>2. White(p)' = White(p) /\ pair'[p] # NULL
    BY <1>1, <1>3 DEF White, RefreshKey
  <2>3. Status(p)' = "live"
    BY <1>1, <1>3, <2>2, StatusIs, StatusNext DEF StatusFact
  <2>4. \A q \in Pair \ {p} : White(q) # key
    BY <1>3, StatusIs, StatusNext, WhiteIsOwn DEF White, StatusFact
  <2> QED BY <1>2, <1>3, <2>1, <2>3, <2>4, StatusIs, StatusNext DEF StatusFact
<1>4. ASSUME NEW q \in Pair, pair[q] = NULL
      PROVE  Status(q)' = Status(q)
  BY <1>1, <1>4, SameLife
<1> QED BY <1>2, <1>3, <1>4

LEMMA RemoveLife ==
    ASSUME TokenAssumption, IInv, IInv', NEW k \in {0, 1}, NEW key \in Key, RemoveStep(k, key)
    PROVE  \/ \A q \in Pair : Status(q)' = Status(q)
           \/ \E p \in Pair : /\ Status(p) = "live" /\ Status(p)' = "gone"
                              /\ \A q \in Pair \ {p} : Status(q)' = Status(q)
<1>1. /\ QueueStep(k, {}) /\ redis' = redis \ {key} /\ pair' = pair
      /\ k = 1 => queue[1].op = "del"
  BY DEF RemoveStep, Remove, IsDel
<1>2. ASSUME NEW q \in Pair
      PROVE  (\E i \in Position' : IsSet(i, White(q))') <=> OnTheWay(q)
  <2>1. ASSUME NEW i \in Position', IsSet(i, White(q))'
        PROVE  OnTheWay(q)
    BY <1>1, <2>1 DEF QueueStep, IsSet, OnTheWay, Position, White, RefreshKey
  <2>2. ASSUME NEW i \in Position, IsSet(i, White(q))
        PROVE  \E j \in Position' : IsSet(j, White(q))'
    <3>1. i > k
      BY <1>1, <2>2 DEF IsSet, Position
    <3>2. PICK j : j = i - k
      OBVIOUS
    <3>3. j \in Position' /\ queue'[j] = queue[i]
      BY <1>1, <3>1, <3>2 DEF QueueStep
    <3> QED BY <1>1, <2>2, <3>3 DEF IsSet, White, RefreshKey
  <2> QED BY <2>1, <2>2 DEF OnTheWay
<1>3. ASSUME NEW q \in Pair, White(q) # key \/ key \notin redis \/ pair[q] = NULL
      PROVE  Status(q)' = Status(q)
  BY <1>1, <1>2, <1>3, SameLife
<1>4. ASSUME NEW p \in Pair, pair[p] # NULL, White(p) = key, key \in redis
      PROVE  /\ Status(p) = "live" /\ Status(p)' = "gone"
             /\ \A q \in Pair \ {p} : Status(q)' = Status(q)
  <2>1. White(p)' = White(p) /\ pair'[p] # NULL
    BY <1>1, <1>4 DEF White, RefreshKey
  <2>2. ~OnTheWay(p)
    BY <1>4, StatusIs, StatusNext DEF StatusFact
  <2>3. ~OnTheWay(p)'
    BY <1>2, <2>1, <2>2 DEF OnTheWay, IsSet
  <2>4. Status(p)' = "gone"
    BY <1>1, <1>4, <2>1, <2>3, StatusIs, StatusNext DEF StatusFact
  <2>5. \A q \in Pair \ {p} : pair[q] # NULL => White(q) # key
    BY <1>4, StatusIs, StatusNext, WhiteIsOwn DEF White, StatusFact
  <2> QED BY <1>3, <1>4, <2>4, <2>5, StatusIs, StatusNext DEF StatusFact
<1> QED BY <1>3, <1>4

LEMMA QuietLife ==
    ASSUME TokenAssumption, IInv, IInv', NEW k \in {0, 1}, NEW added, QuietStep(k, added),
           NEW q \in Pair
    PROVE  Status(q)' = Status(q)
<1>1. /\ QueueStep(k, added) /\ redis' = redis /\ pair' = pair
      /\ \A c \in added : c.op = "set" => IsAccessKey(c.key)
      /\ k = 1 => queue[1].op \in {"get", "keys"}
  BY DEF QuietStep
<1>2. ~IsAccessKey(White(q))
  BY DEF IsAccessKey, White, RefreshKey
<1>3. ASSUME NEW i \in Position', IsSet(i, White(q))'
      PROVE  OnTheWay(q)
  <2>1. queue'[i] \notin added
    BY <1>1, <1>2, <1>3 DEF IsSet, White, RefreshKey
  <2>2. PICK j : j = i + k
    OBVIOUS
  <2>3. j \in Position /\ queue[j] = queue'[i]
    BY <1>1, <1>3, <2>1, <2>2 DEF QueueStep
  <2>4. White(q)' = White(q)
    BY <1>1 DEF White, RefreshKey
  <2> QED BY <1>3, <2>3, <2>4 DEF IsSet, OnTheWay
<1>4. ASSUME NEW i \in Position, IsSet(i, White(q))
      PROVE  \E j \in Position' : IsSet(j, White(q))'
  <2>1. i > k
    BY <1>1, <1>4 DEF IsSet, Position
  <2>2. PICK j : j = i - k
    OBVIOUS
  <2>3. j \in Position' /\ queue'[j] = queue[i]
    BY <1>1, <2>1, <2>2 DEF QueueStep
  <2> QED BY <1>1, <1>4, <2>3 DEF IsSet, White, RefreshKey
<1> QED BY <1>1, <1>3, <1>4, SameLife DEF OnTheWay

LEMMA CrashLife ==
    ASSUME TokenAssumption, IInv, IInv', Crash, NEW q \in Pair
    PROVE  Status(q)' = IF Status(q) = "issued" THEN "gone" ELSE Status(q)
<1>1. pair' = pair /\ redis' = redis /\ Position' = {}
  BY DEF Crash, Position
<1>2. White(q)' = White(q) /\ ~OnTheWay(q)'
  BY <1>1 DEF White, RefreshKey, OnTheWay
<1> QED BY <1>1, <1>2, StatusIs, StatusNext DEF StatusFact

-----------------------------------------------------------------------------
(* The refinement.                                                         *)

Life == [p \in Pair |-> Status(p)]

\* One pair moves on, the others stay.
LEMMA OneMoves ==
    ASSUME NEW p \in Pair, NEW s, Status(p)' = s,
           \A q \in Pair \ {p} : Status(q)' = Status(q)
    PROVE  Life' = [Life EXCEPT ![p] = s]
BY DEF Life

LEMMA NobodyMoves ==
    ASSUME \A q \in Pair : Status(q)' = Status(q)
    PROVE  Life' = Life
BY DEF Life

LEMMA NextRefines ==
    ASSUME TokenAssumption, IInv, IInv', [Next]_vars
    PROVE  [L!Next]_(L!vars)
<1> SUFFICES ASSUME ~(UNCHANGED <<pair, Life>>)
             PROVE  L!Next
  BY DEF L!vars, Life
<1>1. Step \/ Crash
  BY NextIsStep
<1>2. CASE Crash
  <2>1. Life' = [q \in Pair |-> IF Life[q] = "issued" THEN "gone" ELSE Life[q]]
    BY <1>2, CrashLife DEF Life
  <2> QED BY <1>2, <2>1 DEF Crash, L!Next, L!Lose, Life
<1>3. CASE Step
  <2>1. Effect
    BY <1>3, StepHasEffect
  <2>2. ASSUME NEW u \in User, NEW parent \in Pair \cup {NULL}, NEW p \in Pair,
               NewStep(u, parent, p)
        PROVE  L!Next
    <3>1. Life[p] = "unminted" /\ Life' = [Life EXCEPT ![p] = "issued"]
      BY <2>2, NewLife, OneMoves DEF Life
    <3>2. pair' = [pair EXCEPT ![p] = [owner |-> u, parent |-> parent]]
      BY <2>2 DEF NewStep, MintStep
    <3>3. CASE parent = NULL
      BY <3>1, <3>2, <3>3 DEF L!Next, L!Login, L!Mint, Life
    <3>4. CASE parent # NULL
      <4>1. Life[parent] = "gone" /\ pair[parent].owner = u /\ parent \in Pair
        BY <2>2, <3>4, NewLife DEF Life
      <4>2. L!Exchange(parent, p)
        BY <3>1, <3>2, <4>1 DEF L!Exchange, L!Mint, Life
      <4> QED BY <4>1, <4>2 DEF L!Next
    <3> QED BY <3>3, <3>4
  <2>3. ASSUME ServeSetStep
        PROVE  L!Next
    <3>1. pair' = pair
      BY <2>3 DEF ServeSetStep
    <3>2. PICK p \in Pair : /\ Status(p) = "issued" /\ Status(p)' = "live"
                            /\ \A q \in Pair \ {p} : Status(q)' = Status(q)
      BY <2>3, <3>1, SetLife, NobodyMoves
    <3>3. Life[p] = "issued" /\ Life' = [Life EXCEPT ![p] = "live"]
      BY <3>2, OneMoves DEF Life
    <3> QED BY <3>1, <3>3 DEF L!Next, L!Activate, Life
  <2>4. ASSUME NEW k \in {0, 1}, NEW key \in Key, RemoveStep(k, key)
        PROVE  L!Next
    <3>1. pair' = pair
      BY <2>4 DEF RemoveStep
    <3>2. PICK p \in Pair : /\ Status(p) = "live" /\ Status(p)' = "gone"
                            /\ \A q \in Pair \ {p} : Status(q)' = Status(q)
      BY <2>4, <3>1, RemoveLife, NobodyMoves
    <3>3. Life[p] = "live" /\ Life' = [Life EXCEPT ![p] = "gone"]
      BY <3>2, OneMoves DEF Life
    <3> QED BY <3>1, <3>3 DEF L!Next, L!Retire, Life
  <2>5. ASSUME NEW k \in {0, 1}, NEW added, QuietStep(k, added)
        PROVE  UNCHANGED <<pair, Life>>
    BY <2>5, QuietLife, NobodyMoves DEF QuietStep
  <2> QED BY <2>1, <2>2, <2>3, <2>4, <2>5 DEF Effect
<1> QED BY <1>1, <1>2, <1>3

\* The queue of commands nobody awaits, the answers and the calls move every
\* pair from issued to live to gone as Ledger does, and mint heirs of pairs that
\* have left the whitelist only.
THEOREM LedgerImplemented == Spec => ImplementsLedger
<1>1. Init => L!Init
  BY DEF Init, L!Init, Status
<1>2. IInv /\ IInv' /\ [Next]_vars => [L!Next]_(L!vars)
  BY NextRefines, TokenAssumption
<1> QED BY <1>1, <1>2, Invariant, PTL DEF Spec, ImplementsLedger, L!Spec

-----------------------------------------------------------------------------
(* How often a refresh token is exchanged.                                 *)

\* The calls that have found it on the whitelist and may still exchange it.
Finders(p) == {r \in Request : request[r].step \in Found /\ request[r].refresh = p}

\* Each of them takes one place, which it keeps when it has exchanged the token;
\* nobody finds it any more once it has an heir.
PlacesLeft ==
    \A p \in Minted : Cardinality(Heirs(p)) + Cardinality(Finders(p)) <= Cardinality(Request)

LEMMA Finite ==
    ASSUME TokenAssumption, NEW p
    PROVE  /\ IsFiniteSet(Heirs(p)) /\ Cardinality(Heirs(p)) \in Nat
           /\ IsFiniteSet(Finders(p)) /\ Cardinality(Finders(p)) \in Nat
           /\ Cardinality(Finders(p)) <= Cardinality(Request)
           /\ Cardinality(Request) \in Nat
<1>1. Heirs(p) \in SUBSET Pair /\ Finders(p) \in SUBSET Request
  BY DEF Heirs, Minted, Finders
<1> QED BY <1>1, FS_Subset, FS_CardinalityType DEF TokenAssumption

\* A call that comes to look for p, finds it, goes on, or gives up.
LEMMA FindersShrink ==
    ASSUME TokenAssumption, IInv, Step, NEW p \in Minted, ~Exchangeable(p)
    PROVE  Finders(p)' \subseteq Finders(p)
<1> SUFFICES ASSUME NEW r \in Request, request'[r].step \in Found, request'[r].refresh = p,
                    request'[r] # request[r]
             PROVE  request[r].step \in Found /\ request[r].refresh = p
  BY DEF Finders
<1>1. CallTurn(r)
  BY CallOfStep, CallTurns
<1>2. CASE FoundStep(r) /\ Becomes(r, "refreshDeleted")
  <2>1. /\ request[r].refresh = p /\ request[r].user \in User /\ p \in Pair
        /\ RefreshKey(request[r].user, p) \in redis
    BY <1>2 DEF FoundStep, Becomes, At, IInv, CallFact, Minted
  <2>2. Owns(request[r].user, p)
    BY <2>1 DEF IInv, KeysOwned
  <2>3. FALSE
    BY <2>1, <2>2 DEF Owns, Exchangeable
  <2> QED BY <2>3
<1> QED BY <1>1, <1>2 DEF CallTurn, Becomes, BecomesNew, Found, AskStep, ListStep, At

LEMMA HeirsOfStep ==
    ASSUME TokenAssumption, IInv, Step, NEW p \in Minted
    PROVE  \/ Heirs(p)' = Heirs(p)
           \/ \E r \in Request, c \in Pair : /\ ExchangeStep(r, c)
                                           /\ request[r].refresh = p
                                           /\ Heirs(p)' = Heirs(p) \cup {c}
<1>1. ASSUME NEW u \in User, NEW parent \in Pair \cup {NULL}, NEW c \in Pair,
             MintStep(u, parent, c)
      PROVE  Heirs(p)' = IF parent = p THEN Heirs(p) \cup {c} ELSE Heirs(p)
  BY <1>1 DEF MintStep, Heirs, Minted, IInv, Shape, TokenAssumption, PairRow
<1>2. ASSUME UNCHANGED pair
      PROVE  Heirs(p)' = Heirs(p)
  BY <1>2 DEF Heirs, Minted
<1>3. ASSUME NEW r \in Request, NEW c \in Pair, ExchangeStep(r, c)
      PROVE  \/ Heirs(p)' = Heirs(p)
             \/ request[r].refresh = p /\ Heirs(p)' = Heirs(p) \cup {c}
  <2>1. request[r].user \in User /\ request[r].refresh \in Pair
    BY <1>3 DEF ExchangeStep, At, IInv, CallFact, Reissue, Found, Minted
  <2> QED BY <1>1, <1>3, <2>1 DEF ExchangeStep
<1>4. ASSUME NEW u \in User, NEW c \in Pair, LoginStep(u, c)
      PROVE  Heirs(p)' = Heirs(p)
  <2>1. NULL # p
    BY DEF TokenAssumption, Minted
  <2> QED BY <1>1, <1>4, <2>1 DEF LoginStep
<1>5. ASSUME NEW r \in Request, CallStep(r), ~\E c \in Pair : ExchangeStep(r, c)
      PROVE  UNCHANGED pair
  BY <1>5 DEF CallStep, BeginReissueStep, AskStep, RefuseStep, BeginRevokeStep,
              RevokeDeleteStep, EndRevokeStep, EndRevoke, FoundStep, MissingStep,
              ListStep, ServeKeysStep, Answered
<1>6. CASE ServeSetStep \/ ServeDelStep \/ StutterStep \/ \E key \in Key : ExpireStep(key)
  BY <1>2, <1>6 DEF ServeSetStep, ServeDelStep, StutterStep, ExpireStep, vars
<1> QED BY <1>2, <1>3, <1>4, <1>5, <1>6 DEF Step

LEMMA PlacesKept ==
    ASSUME TokenAssumption, IInv, IInv', [Next]_vars, PlacesLeft
    PROVE  PlacesLeft'
<1> DEFINE n == Cardinality(Request)
<1> SUFFICES ASSUME NEW p \in Minted'
             PROVE  Cardinality(Heirs(p)') + Cardinality(Finders(p)') <= n
  BY DEF PlacesLeft
<1>1. /\ Cardinality(Heirs(p)) \in Nat /\ Cardinality(Finders(p)) \in Nat /\ n \in Nat
      /\ IsFiniteSet(Heirs(p)) /\ IsFiniteSet(Finders(p))
  BY Finite
<1>2. Finders(p)' \in SUBSET Request
  BY DEF Finders
<1>3. Cardinality(Finders(p)') \in Nat /\ Cardinality(Finders(p)') <= n
  BY <1>2, FS_Subset, FS_CardinalityType DEF TokenAssumption
<1>4. ASSUME Heirs(p)' = {}
      PROVE  Cardinality(Heirs(p)') + Cardinality(Finders(p)') <= n
  BY <1>1, <1>3, <1>4, FS_EmptySet
<1>5. ASSUME Heirs(p)' = Heirs(p), Finders(p)' \subseteq Finders(p), p \in Minted
      PROVE  Cardinality(Heirs(p)') + Cardinality(Finders(p)') <= n
  <2>1. Cardinality(Heirs(p)) + Cardinality(Finders(p)) <= n
    BY <1>5 DEF PlacesLeft
  <2>2. Cardinality(Finders(p)') <= Cardinality(Finders(p))
    BY <1>1, <1>5, FS_Subset
  <2> QED BY <1>1, <1>3, <1>5, <2>1, <2>2
<1>6. CASE Crash
  <2>1. Heirs(p)' = Heirs(p) /\ p \in Minted
    BY <1>6 DEF Crash, Heirs, Minted
  <2>2. Finders(p)' = {}
    BY <1>6 DEF Crash, Finders, Idle, Found
  <2> QED BY <1>5, <2>1, <2>2
<1>7. CASE Step
  <2>1. CASE p \notin Minted
    <3>1. Heirs(p)' = {}
      BY <1>7, <2>1, StepHasEffect, HeirsGrow
    <3> QED BY <1>4, <3>1
  <2>2. CASE p \in Minted /\ Heirs(p)' = Heirs(p) /\ Heirs(p) # {}
    <3>1. ~Exchangeable(p)
      BY <2>2 DEF IInv, SpentIsGone
    <3> QED BY <1>5, <1>7, <2>2, <3>1, FindersShrink
  <2>3. ASSUME p \in Minted, NEW r \in Request, NEW c \in Pair, ExchangeStep(r, c),
               request[r].refresh = p, Heirs(p)' = Heirs(p) \cup {c}
        PROVE  Cardinality(Heirs(p)') + Cardinality(Finders(p)') <= n
    <3>1. r \in Finders(p)
      BY <2>3 DEF Finders, ExchangeStep, At, Found
    <3>2. Finders(p)' = Finders(p) \ {r}
      BY <2>3 DEF Finders, ExchangeStep, Finish, Idle, Found, IInv, Shape
    <3>3. Cardinality(Heirs(p)') <= Cardinality(Heirs(p)) + 1
      <4>1. \/ Cardinality(Heirs(p) \cup {c}) = Cardinality(Heirs(p))
            \/ Cardinality(Heirs(p) \cup {c}) = Cardinality(Heirs(p)) + 1
        BY <1>1, FS_AddElement
      <4> QED BY <1>1, <2>3, <4>1
    <3>4. Cardinality(Finders(p)') = Cardinality(Finders(p)) - 1
      BY <1>1, <3>1, <3>2, FS_RemoveElement
    <3>5. Cardinality(Heirs(p)') \in Nat
      BY <1>1, <2>3, FS_AddElement, FS_CardinalityType
    <3>6. Cardinality(Heirs(p)) + Cardinality(Finders(p)) <= n
      BY <2>3 DEF PlacesLeft
    <3> QED BY <1>1, <3>3, <3>4, <3>5, <3>6
  <2> QED BY <1>4, <1>7, <2>1, <2>2, <2>3, HeirsOfStep
<1> QED BY <1>6, <1>7, NextIsStep

\* However many calls present one refresh token, at once or later, it is never
\* exchanged more often than calls can be in progress: only calls that found it
\* before its first DEL was served can exchange it, and each does so once.
THEOREM ExchangesCounted == Spec => []ExchangesBounded
<1>1. Init => PlacesLeft
  BY DEF Init, PlacesLeft, Minted
<1>2. IInv /\ IInv' /\ [Next]_vars /\ PlacesLeft => PlacesLeft'
  BY PlacesKept, TokenAssumption
<1>3. PlacesLeft => ExchangesBounded
  <2> SUFFICES ASSUME PlacesLeft, NEW p \in Minted
               PROVE  Cardinality(Heirs(p)) <= Cardinality(Request)
    BY DEF ExchangesBounded
  <2>1. Cardinality(Heirs(p)) + Cardinality(Finders(p)) <= Cardinality(Request)
    BY DEF PlacesLeft
  <2> QED BY <2>1, Finite, TokenAssumption
<1> QED BY <1>1, <1>2, <1>3, Invariant, PTL DEF Spec

LEMMA AtMostOneElement ==
    ASSUME NEW S, IsFiniteSet(S), Cardinality(S) <= 1, NEW x \in S, NEW y \in S
    PROVE  x = y
<1> SUFFICES ASSUME x # y
             PROVE  FALSE
  OBVIOUS
<1>1. PICK one : one = {x} /\ IsFiniteSet(one) /\ Cardinality(one) = 1 /\ y \notin one
  BY FS_Singleton
<1>2. Cardinality(one \cup {y}) = Cardinality(one) + 1
  BY <1>1, FS_AddElement
<1>3. PICK both \in SUBSET S : both = one \cup {y}
  BY <1>1
<1>4. Cardinality(both) <= Cardinality(S)
  BY FS_Subset
<1>5. Cardinality(S) \in Nat
  BY FS_CardinalityType
<1> QED BY <1>1, <1>2, <1>3, <1>4, <1>5

\* A refresh token is good for one exchange.
ExchangedOnce == \A p \in Minted : \A c, d \in Heirs(p) : c = d

\* Of calls that come one at a time none exchanges a refresh token that another has
\* exchanged, though no call waits for the DEL that takes it off the whitelist.
THEOREM OnceOfOneCall ==
    ASSUME Cardinality(Request) <= 1
    PROVE  Spec => []ExchangedOnce
<1>1. ExchangesBounded => ExchangedOnce
  <2> SUFFICES ASSUME ExchangesBounded, NEW p \in Minted, NEW c \in Heirs(p), NEW d \in Heirs(p)
               PROVE  c = d
    BY DEF ExchangedOnce
  <2>1. IsFiniteSet(Heirs(p)) /\ Cardinality(Heirs(p)) \in Nat /\ Cardinality(Request) \in Nat
    BY Finite, TokenAssumption
  <2>2. Cardinality(Heirs(p)) <= 1
    BY <2>1 DEF ExchangesBounded
  <2> QED BY <2>1, <2>2, AtMostOneElement
<1> QED BY <1>1, ExchangesCounted, PTL

=============================================================================
