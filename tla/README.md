# Cozihouse in TLA+

Cozihouse is a NestJS backend with which the members of a household share their
chores.  Users log in with Google, found a house, invite each other into it, and
keep lists of housework and tasks there.  State is in a Postgres database (through
typeorm) and, for login tokens, in Redis (through cache-manager).  One Node process
serves all HTTP calls; a handler is an async function that gives up control at every
`await`, so the calls of different clients interleave statement by statement.

This directory holds TLA+ models of the code under `src/src`, the TLC configurations
that check them on small instances, and proofs that TLAPS checks for every instance.
Paths below are relative to `src/src`.

Contents: [1 Inventory](#1-inventory) · [2 What can go wrong](#2-what-can-go-wrong) ·
[3 Modules](#3-modules-and-the-code-they-model) · [4 Runs](#4-runs) ·
[5 Fairness](#5-fairness) · [6 Proofs](#6-proofs) ·
[7 Disagreements found](#7-where-the-code-and-its-words-disagree) ·
[8 Left out](#8-what-is-left-out) · [9 Plan](#9-plan) · [10 Running it](#10-running-it)

## 1 Inventory

| component | code | state | operations that change it |
|---|---|---|---|
| members and invitations | `module/member/*`, `entities/houseMember.entity.ts`, `entities/invitation.entity.ts` | tables `houseMember` (unique on house and user, soft delete) and `invitation` (status enum) | invite, join, decline, remove |
| houses | `module/house/*`, `entities/house.entity.ts` | table `house` (soft delete, cascades to members) | create (a transaction with the founder's row), rename, delete |
| route validator | `validators/*` | none; reads house and member before the handler runs | – |
| login tokens | `module/auth/auth.service.ts` | signed tokens held by clients; whitelist and blacklist keys | mint, reissue, revoke all |
| redis access | `module/redis/redis.service.ts` | keys with a TTL; the commands queued on one connection | get, save, delete, deleteByKeys |
| auth routes and strategies | `module/auth/strategies/*`, `module/auth/auth.controller.ts`, `util/cookie-extractor.util.ts` | cookies | login, refresh, logout |
| token lifetimes | `config/token.config.ts`, `util/convert-milliseconds.util.ts` | ends of tokens, cookies and Redis entries | – |
| users | `module/user/*` | table `user` (unique e-mail) | register on first login |
| housework and tasks | `module/housework/*`, `module/task/*` | tables `housework`, `task` | create, update, delete |
| detached writes | `house.service.ts:70-72`, `housework.service.ts:55-69` | `UPDATE`s on their way to the database | rename a house, update housework |
| wiring, configuration, types | `main.ts`, `app.module.ts`, `config/*`, `interfaces/*` | none of its own | – |

How they interact:

* The route validator and `HouseService` call `MemberService`; houses, members and
  invitations are three tables with no lock between the handlers that use them.  Only
  `createNewHouse` opens a transaction, and `softRemove`/`save` open one of their own.
* Deleting a house soft-removes the members *that were loaded with it*; its housework and
  tasks stay, behind a validator that no longer lets anyone in.
* `GoogleStrategy` registers a user, then calls `AuthService` to mint tokens.
  `JwtRefreshStrategy` verifies a refresh token and calls the reissue.
* `AuthService` talks to Redis through `RedisService`, whose `save` and `delete` are
  not awaited: the caller goes on while the command is in the queue.

What makes each component correct:

* *members, houses*: only invited users come in, each by an invitation addressed to
  him; the founder stays the one Admin; nobody who was removed comes back by accident;
  an accepted invitation has a member behind it; a decline answers its invitation; a house
  takes its founder with it when it is deleted, and one that everybody has left stays left;
  a deleted house takes in nobody for long; only who belongs or has belonged to a house acts
  on it.
* *tokens*: a refresh token is exchanged once, or by a bounded number of simultaneous
  calls; a pair descends from a pair of the same user; a session that goes on has given
  up its previous access token; what was revoked stays revoked; an honest reissue
  succeeds.
* *users and sessions*: one row per e-mail address, whatever two first logins do at once;
  nobody is handed tokens of another's row; a logout that is answered is final; whoever
  signs in gets tokens that work.
* *housework and tasks*: a task lands in a house its writer was let into, and is given to
  somebody who belongs to it; nothing deleted comes back.
* *detached writes*: however late an `UPDATE` runs, it says what somebody of that house
  wanted, and it does run.

## 2 What can go wrong

`PROJECT.json` lists every hazard at its line.  The families are:

* *check, then act, across an await*: two invites of one receiver (`member.service.ts:99`);
  the sender removed between check and insert (`:67`); a member joining between the load
  and the save of a delete (`house.service.ts:75`), or going on with a house that has been
  deleted since (`member.service.ts:147`); a removal whose caller is removed (`:181`);
  several reissues finding one refresh token (`auth.service.ts:206`).
* *two writes without a transaction*: accept marks the invitation, then inserts the
  member (`member.service.ts:128`); the process can end in between.
* *writes nobody awaits*: Redis commands (`redis.service.ts:21,25`), renames
  (`house.service.ts:71`), updates of housework (`housework.service.ts:59`).
* *ids nobody requires*: a join or decline without an invitation's id, whose find takes any
  row and whose `UPDATE` none (`member.service.ts:139,214`); an update of a task by an id
  that was never looked up in the house (`task.service.ts:108`).
* *rows that outlive their deletion*: the unique index on house and user
  (`houseMember.entity.ts:17`) also counts soft-deleted rows.
* *values from several sources*: user, refresh token and access token of a reissue come
  from three places (`jwt-refresh.strategy.ts:47`), and the cookies are called one thing
  where they are set and another where they are read (`cookie-extractor.util.ts:14`).
* *a result nobody reads*: a refused reissue passes the guard of logout, an accepted one
  mints tokens the handlers drop (`auth.controller.ts:69,79`).
* *one number, several units*: `token.config.ts:7`.

## 3 Modules and the code they model

| module | what it is |
|---|---|
| `Membership` | houses, members and invitations, one action per database statement |
| `Roster` | the abstract specification: who is in a house and how that may change |
| `MembershipProofs`, `HouseProofs` | inductive invariant of `Membership` and what follows from it |
| `MembershipRefinement` | proof that `Membership` implements `Roster`, and what `Chores` and `DetachedWrites` take of it |
| `TokenRotation` | login tokens, their exchange and revocation, over a Redis with one FIFO connection |
| `Ledger` | the abstract specification: the life of a pair of tokens |
| `TokenRotationProofs` | inductive invariant of `TokenRotation` and its proof |
| `TokenRefinement` | proof that `TokenRotation` implements `Ledger`, and how often a token is exchanged |
| `Sessions`, `SessionsProofs` | registration and the routes of login, refresh and logout, composed with `Ledger` |
| `Chores`, `ChoresProofs` | housework and tasks behind the route validator, composed with `Roster` |
| `DetachedWrites`, `DetachedProofs` | the two `UPDATE`s nobody awaits, composed with `Roster` |
| `TokenLifetimes` | when tokens, cookies and Redis entries end |
| `MCMembership`, `MCTokenRotation`, `MCChores` | symmetry and constant definitions for TLC |

Each of the two cores has an abstract specification, and what builds on the core is
composed with that: `Chores` and `DetachedWrites` take the steps of `Roster` where the
program takes those of `Membership`, `Sessions` those of `Ledger` where it takes those of
`TokenRotation`.  The refinements of §6 are what justifies it.

### Membership

Three variables are the tables: `house[h]` (`"unused"` until `createNewHouse` takes the
id, then `"live"`, then `"deleted"`), `member[h][u]` (the row of the pair or `NULL`),
`invitation[i]`.  `request[r]` is an HTTP call in progress: the statement it comes to
next and the local variables it has filled.  `torn` is a history variable: invitations
whose acceptance was cut off between its two writes.

| call | actions, in order | code |
|---|---|---|
| `POST house/create` | `CreateNewHouse` | `house.service.ts:25-45` |
| `POST member/invite` | `BeginInvite`, `InviteSender`, `InviteHouse`, `InviteReceiver`, `InvitePending`, `InviteSave` | `member.service.ts:34-110` |
| `POST member/invite/join` | `BeginAccept`, `AcceptFind`, `AcceptHouse`, `AcceptMember`, `AcceptUpdate`, `AcceptSave` | `member.service.ts:112-164` |
| `POST member/invite/decline` | `BeginDecline`, `DeclineUpdate` | `member.service.ts:166-174` |
| `DELETE member` | `BeginRemove`, `RemoveAsAdmin`, `RemoveAsMember`, `RemoveTarget`, `RemoveSave` | `member.service.ts:177-208` |
| `DELETE house/:houseId` | `BeginDelete`, `DeleteValidHouse`, `DeleteValidMember`, `DeleteLoad`, `DeleteSave` or `DeleteRefused` | `house.service.ts:53-77` and the route validator |

`Interrupt(r)` is a statement that fails or a process that ends; what the call has
written stays.  It is enabled for the calls in the constant `Faulty`.

Decisions a reader should know:

* The DTOs have no validators (`main.ts:20` lets values of unknown classes through), so an
  id in the body can be missing.  typeorm's finds skip a condition on `undefined`; its
  `UPDATE` compares with it, and matches nothing.  A join without `invitationId` therefore
  finds any row (`FoundById`), goes on if that one is addressed to the caller, marks no
  invitation (`UpdateInvitation`) and inserts the member; a decline without it does nothing.
  A removal without a user finds any live member of the house and an invite without an
  e-mail address any user: `BeginRemove` and `BeginInvite` choose the user freely, which
  includes that.  The house of a route is in its path and is always given.
* An e-mail address that belongs to nobody makes `inviteMember` throw before it writes, as
  a failed check does, and is left out.
* What `AcceptFind` keeps of the row it finds is the house; the `UPDATE` and a torn
  acceptance are about the id of the body, and a join without one cannot tear anything.
* `createNewHouse` is one action: it is one transaction on rows nobody else can name
  before it commits, and it has no effect when it fails.
* The schema is the one the entities declare.  typeorm does not synchronise it
  (`config/typeorm.config.ts`), so the values the enum of `invitation.status` accepts
  are the constant `StatusColumn`: `DeclinedAsWritten` holds the three values the code
  writes, `DeclinedAsDeclared` the three the entity declares.
* The join of a user with a soft-deleted row is a failed `INSERT`: the `find` before it
  does not see the row, the unique index does.  The invitation has been marked by then.
* `softRemove` of a loaded house persists the collection it was loaded with.  When
  another member has come in since, typeorm may find an unknown row of the relation and
  fail on its not-null column (`DeleteRefused`), or may not notice (`DeleteSave`): both
  are allowed.
* Users are never removed by any code path, so `User` is a constant set.

### Roster

What all that amounts to, without statements and statuses: `Found`, `Offer`, `Enter`
(by an offer, once), `Leave` (for good), `Close` (with those who leave).  The mapping is
in `Membership`, next to `ImplementsRoster`: `open` and `closed` are the live and the
deleted houses, `place` is where a row and its `deletedAt` put a user, `offered` the
receivers of invitations.  `Roster` does *not* say that a closed house is empty or that
nobody enters one: the code does not ensure it (see §7).

### TokenRotation

`pair[p]` is a refresh token together with the access token that carries its id: its
owner and the pair it was exchanged for.  `redis` is the set of keys, `queue` the
commands on the connection, `request[r]` a reissue or a revocation in progress.
`dropped` and `revoked` are history variables.

| code | actions |
|---|---|
| `generateTokensAndSaveToRedis` after a login | `Login` |
| `reissueTokensAndSaveToRedis` | `BeginReissue`, then `ServeGet` with `RefreshFound` or `RefreshMissing`, `AskBlackList`, `ServeGet` with `AccessMissing` or `AccessFound`, then `Exchange` or `RefuseMismatch` |
| `revokeEveryTokenByUser` | `BeginRevoke`, `ServeKeys`, `RevokeDelete` once per key, `EndRevoke` |
| Redis | `ServeSet`, `ServeDel`, `ServeGet`, `ServeKeys`, `Expire` |
| end of the process | `Crash` |

Decisions:

* Redis serves one connection in order.  The reply of a `GET` and the code that runs on
  it up to its next command are one action: nothing the model can observe happens
  between them, for commands issued meanwhile would be served later in any case.
* Signatures and payloads are not modelled.  Passport refuses a refresh token with a bad
  or expired signature before any of this runs; the access token is accepted after its
  expiry (`ignoreExpiration`).  A call therefore presents any two minted tokens, for any
  user who has one.
* A key can reach its TTL at any time (`Expiry`), whatever the units in
  `config/token.config.ts` make of it.
* A command whose promise rejects after its caller has gone on is an unhandled
  rejection, which ends a Node process; so a lost connection is a `Crash`.  It loses the
  queue and the calls in progress, and keeps the keys.  A revocation whose `DEL`s are
  lost has not removed anything, and `revoked` forgets those pairs.
* No route calls `revokeEveryTokenByUser` at this commit; the constant `Revoking` says
  whether something does.

### Ledger

A pair of tokens goes from `unminted` to `issued`, `live` and `gone`, one way.  `Login` and
`Exchange` mint one, the second only for a pair that is gone and for its owner; `Activate`
is its `SET` being served, `Retire` its key going for whatever reason, `Lose` a process that
ends with the `SET` in the queue.  The mapping is `Status` in `TokenRotation`: a pair is
live when its key is in Redis, issued when its `SET` is queued.

### Sessions

`account[u]` is the user table, `holds[e]` the pairs whose tokens person `e` has been sent,
on whatever device; `pair` and `status` are `Ledger`'s.  `signedOut` and `cutOff` are
history variables.

| route | actions | code |
|---|---|---|
| `GET google/redirect` | `RegisterUser`, `CreateUser`, `LoginMint`, `GoogleAuthCallback` | `user.service.ts:13-23,73-79`, `google-strategy.ts:28-53`, `auth.controller.ts:41-59` |
| `POST google/refresh` | `FindRefresh`, then `ReissueMint`, `ReissuanceAccessToken` or `RefuseFound` | `jwt-refresh.strategy.ts:35-51`, `auth.controller.ts:88-95` |
| `POST google/profile/logout/:userId` | `FindRefresh`, then `ReissueMint`, `LogOut` or `RefuseFound` | `auth.controller.ts:61-80` |

Decisions:

* The guard verifies the token in the cookie `refresh_token`, which no route sets; so a
  browser never passes it, and the clients that do add the cookie themselves.  The model
  lets a person put any token he has been sent into any of the three cookies.
* A call whose refresh token is not on the whitelist has no effect and is left out.
  `RefuseFound` stands for the two ways in which one that is there is refused later.
* What Google answers is trusted: a person has one address, which is the e-mail of the
  profile.

### DetachedWrites

`name[h]` and `title[w]` are the texts, represented by who wrote them, `home[w]` the house
of housework `w`; `write[k]` is an `UPDATE` that has been issued and not run, `up` whether
the process runs.

| route | actions, after `ValidHouse` and `ValidMember` | code |
|---|---|---|
| `PUT house/:houseId/update` | `RenameHouse`, later `Run` | `house.controller.ts:47-58`, `house.service.ts:70-72` |
| `PUT house/:houseId/housework/update` | `UpdateHousework`, later `Run` | `housework.controller.ts:69-80`, `housework.service.ts:55-69` |

The statements run on the connections of a pool: `Run` takes them in any order, also after
the end of the process, when they had reached the database.  An `UPDATE` that fails rejects
a promise nobody handles, which ends a Node process (`Crash`).  `Matches` is the where
clause; it sees deleted rows too.

### TokenLifetimes

The two conversions as operators, and the clock: `Login` sets the end of both tokens (a
number given to `sign` is seconds), of the whitelist entry and of both cookies (`ttl` and
`maxAge` are milliseconds), `Reissue` that of the blacklist entry; `Tick` moves to whatever
ends next.

### Chores

`housework[w]` and `task[t]` are rows with the columns some query reads; `request[r]` is a
call as in `Membership`.  The state of the houses is `Roster`'s: instead of the statements
of `Membership`, every membership change is one step of its abstract specification
(`RosterStep`), which the refinement of §6 justifies.  Anybody may have been offered a
place, so invitations do not appear.

| route | actions, after `ValidHouse` and `ValidMember` | code |
|---|---|---|
| create housework | `CreateHousework` | `housework.service.ts:17-27` |
| delete housework | `SoftDeleteHouseworkFind`, `SoftDeleteHousework` | `housework.service.ts:37-53` |
| create task | `TaskFindHousework`, `CreateFindAssignee`, `CreateSave` | `task.service.ts:21-52` |
| update task | `TaskFindHousework`, `UpdateFindAssignee`, `UpdateLoad`, `UpdateSave` | `task.service.ts:99-134` |
| delete task | `TaskFind`, `TaskSoftRemove` | `task.service.ts:136-146` |

Decisions:

* An input is chosen by the statement that first reads it: the house by `ValidHouse`, the
  user by `ValidMember`, the route when the handler starts, the task of an update by the
  load in `save()`.  Nothing depends on it earlier, and the states are far fewer.
* `findOne` with an undefined id matches any housework of the house, and with an unknown
  one none; so the lookup gives any live housework of the house or `NULL`.
* `save()` with an id is two statements: it loads the row of that id, whatever its house
  and deleted or not, then writes the columns in which the entity differs from what was
  loaded.  A housework that was not found makes that write fail on a not-null column.
* Joins skip deleted rows, so the tasks of a deleted housework are invisible to finds.
* Ids of houses and housework are numbers, both counted from 1, because `softDelete`
  compares one with the other.
* The update of title and frequency, columns no query reads, is in `DetachedWrites`.
* The constants `FrequencyOptional` and `AssigneeOptional` say whether the database
  accepts the rows the code writes without `frequency` or without assignee; the entities
  say it does not.

## 4 Runs

Each run asks one question.  `pass` runs finish with no error; a `violation` run shows
that something the repository says of itself does not hold.

| run | instance | distinct states | question |
|---|---|---|---|
| `membership` | 3 users, 1 house, 2 invitations, 2 calls | 1510 k | Does anybody get into a house other than along a chain of invitations from its founder, also when a call does not say which one it answers?  Does it keep exactly one Admin?  Does no row come back, and do the tables change as `Roster` does? (`TypeOK`, `OneFounder`, `RootedInFounder`, `RowsOnlyAge`, `ImplementsRoster`) |
| `pending` | 2 users, 1 house, 3 invitations, 2 calls | 998 k | How many waiting invitations does the check-then-insert let through, does a decline stay a decline under races, does a delete that races joins take the founder along, does a house stay lost that everybody has been removed from, do only members and former members act on a house, does a deleted one take in nobody any more once the calls that saw it alive are through? (`PendingBoundedByConcurrency`, `FounderLeavesWithHouse`, `DeclineAnswers`, `DesertedStaysDeserted`, `OnlyMembersAct`, `SettledStaysSettled`) |
| `acceptance` | 2 users, 1 house, 1 invitation, 2 faulty calls, fair | 186 k | With statements that fail and processes that die: is an acceptance torn in one way only, and does one that is not cut off give a row? (`AcceptedHasRow`, `AcceptanceCompletes`) |
| `decline_enum` | 2 users, 1 house, 1 invitation, 1 call, declared enum | violation | Does a decline answer its invitation? |
| `double_invite` | 2 users, 1 house, 2 invitations, 2 calls | violation | Is there at most one waiting invitation? |
| `rotation` | 1 user, 4 pairs, 2 calls; revocation, expiry, crashes | 328 k | Does an exchanged refresh token stay off the whitelist, how often is it exchanged by calls that present it at the same time, is an heir live only after its predecessor was blacklisted, does what was revoked stay revoked, does the life of every pair go as `Ledger` says? (`TypeOK`, `SpentIsGone`, `HeirAfterBlackList`, `ExchangesBounded`, `RevokedStaysRevoked`, `ImplementsLedger`) |
| `reissue` | 2 users, 3 pairs, 1 call, fair; revocation | 37 k | Can a call with tokens of two users move a session from one to the other, is an honest reissue answered? (`LineageKeepsOwner`, `HonestReissueSucceeds`) |
| `chores` | 2 users, 2 houses, 2 housework, 1 task, 1 call | 1330 k | With tasks that move between houses and members who come and go: does everything land in a house its writer was let into, does a task have the assigner who chose its assignee, does nothing deleted come back? (`TypeOK`, `WritesByMembers`, `AssignmentOfOneCall`, `DeletedStays`) |
| `unassigned_task` | 2 users, 1 house, 1 call; assignee not null | violation | Can a task be created without an assignee? |
| `sessions` | 2 people, 2 user rows, 3 pairs, 2 calls, fair; crashes | 356 k | Is there one row per address, does everybody hold tokens of his own row, is an answered logout final, what becomes of reissued tokens, does somebody who signs in get in? (`TypeOK`, `OneRowPerEmail`, `HeldTokensNameHolder`, `LogoutIsFinal`, `LineageEndsAtHeir`, `SomeLoginSucceeds`) |
| `detached` | 2 users, 2 houses (one that nobody leaves), 1 housework, 1 call, 2 `UPDATE`s, fair; crashes | 184 k | Do late `UPDATE`s say what somebody of the house said, does it end once somebody has left, is everybody heard? (`TypeOK`, `NamedByMembers`, `GoneStaysSilent`, `AnsweredIsHeard`) |
| `lifetimes` | 30 minutes, 7 days | violation | Do the access token and its cookie last the minutes of the environment? |

Why the bounds are enough to be interesting: three users make a chain of invitations of
length two, with a founder who may be removed; two calls make every race of §2, all of
which are between two calls; three invitations are one more than
`PendingBoundedByConcurrency` allows for two calls, and four pairs are what two calls that
share a refresh token need for one exchange more than `ExchangesBounded` allows them;
two houses and two housework let a task move from one house to the other and back,
and give an equal and an unequal pair of ids; two people and two calls make every race of
first logins, and three pairs two logins of one person and an heir; two `UPDATE`s on their
way can run in either order.  `chores` has one call at a time because `AssignmentOfOneCall`
is about that, and `rotation` one user: the theorems of §6 cover several calls and users for
all the other properties.  In general, for the properties of §6 the proofs remove the
bounds.

The other bounds are guards, named where they stand: `InvitationsLeft` (a call to invite
begins only while an id is left for its row), `PairsLeft` (a login or reissue begins
only while a pair is left to mint) and `TasksLeft` (a call to create a task goes on only
while an id is left).  They only keep calls out, and never block one that has passed them;
`CreateHousework` takes an unused id in the one step it has.  `PairsLeft` of `Sessions`
also holds back a reissue, never a login.  In `DetachedWrites`, `Slot` bounds the `UPDATE`s
on their way (a handler waits for a free one), and the houses of `Lasting` are left and
deleted by nobody, which keeps a second house for ids to be confused with at a third of the
states.  `RevocationBound` of `MCTokenRotation`
(`BoundedSpec`) lets one revocation run at a time in `rotation`, and leaves it one pair less
to race with; before and after it all four are there, and `RevocationCorrect` has no such bound.  The state space of
`TokenRotation` is finite because each call has few commands in the queue and pairs run
out.

Users, houses, invitations, pairs and call slots are interchangeable and only `=` is
used on them, so symmetry reduction is sound; it is off in the runs with liveness
properties.  `Faulty` is empty or everything.  Deadlock is checked in every run but
`lifetimes`, where everything has ended at last: in each, a call can always arrive or
proceed, or the process can crash.

Every property was seen to fail when the code it depends on is changed.  The changed
definitions, `X_Fault` beside `X`, are in the modules, each commented `Fault`;
`PROJECT.json` says which property each one breaks.

## 5 Fairness

`Membership!FairSpec` assumes weak fairness of `Proceed(r)` for each call: Postgres
answers every statement, by a result or an error, and Node's event loop resumes whatever
has been answered, in the order of the answers.  Nothing is assumed of arrivals, of
`CreateNewHouse` or of `Interrupt`.  `AcceptanceCompletes` allows for interrupted calls.

`TokenRotation!FairSpec` assumes weak fairness of `Serve` (Redis answers the oldest
command) and of `Resume(r)` (the event loop runs what is not waiting).  Nothing is
assumed of clients.  `HonestReissueSucceeds` is stated for a process that does not crash
and keys that do not expire, in a run with one call slot: a second call with the same
tokens may well win.

`Sessions!FairSpec` assumes weak fairness of `Activate` (Redis serves the `SET` of a new
pair) and of the next statement of each login: Postgres answers and the event loop goes on.
Nothing is assumed of clients or of reissues.  `SomeLoginSucceeds` allows for a process that
ends.  `DetachedWrites!FairSpec` assumes weak fairness of each `Run(k)`: a statement that
has reached a connection is executed some time.

## 6 Proofs

`MembershipProofs` and `MembershipRefinement` prove, for every set of users and
houses, every finite set of invitations and calls, every set of faulty calls, and every
status column that accepts at least `pending` and `accepted` (`MembershipAssumption`):

| theorem | says |
|---|---|
| `TypeCorrect` | `Spec => []TypeOK` |
| `FounderCorrect` | `Spec => []OneFounder` |
| `RootedCorrect` | `Spec => []RootedInFounder` |
| `AcceptedCorrect` | `Spec => []AcceptedHasRow` |
| `AgingCorrect` | `Spec => RowsOnlyAge` |
| `RosterImplemented` | `Spec => ImplementsRoster` |
| `ChoresRosterImplemented` | `Spec => C!Spec`, where `C` is `Chores` without calls of its own |
| `DetachedRosterImplemented` | `Spec => D!Spec`, where `D` is `DetachedWrites` without calls and `UPDATE`s |

None of the invariants is inductive by itself.  `InviteSave` inserts an invitation
because of something its call saw four statements earlier, and `AcceptSave` inserts a
member because of an invitation it read three statements earlier; between, any other call
may have run.  The inductive invariant `IInv` therefore adds what a call *still* knows:

* `InviteFact`: since its first check, the sender of an invite has a row (perhaps a
  deleted one by now), and `SenderFact`: so has the sender of every stored invitation;
* `AcceptFact`: there is an invitation that lets the caller of a join in (`LetsIn`): it is
  addressed to him, is of the house the call has loaded, and is the one the body names, if
  it names one; and the house exists;
* `RemoveFact`, `DeleteFact`: what is about to be soft-removed has a row.

The facts survive other calls because no step takes back what they rest on: `Aging` says
that rows and invitations stay, and keep their users, houses and roles.  So the proof first
shows `Aging` for every step, then that aging preserves the facts of calls that did not
move, then handles the call that moved, action by action.  `RootedInFounder` is the hardest
part: it quantifies over the sets closed under the invitations to a house, one more
invitation can only shrink the family of closed sets, and the one step that adds a member
adds the receiver of an invitation whose sender has a row (`LetsIn`, `SenderFact`).  It does
not speak of answered invitations: a join without an id leaves the one it came by pending.

The last three are in `MembershipRefinement`.  `RosterImplemented` uses `IInv` for the guards
of `Roster`'s steps and `Aging` for the steps that stutter.  The two after it are what the
composition of §3 rests on.  `Chores` and `DetachedWrites` do not use `Roster` as it stands:
they forget who was invited and let anybody enter a house that has been founded.  With no
calls of their own, their only step that touches a house is `RosterStep`; the theorems say
that whatever the statements of `Membership` do to houses and places is such a step or a
stutter.  An offer leads to a founded house because its sender has a row there (`SenderFact`,
`OneFounder`).  In `D` a house is called by its founder, the user of the one row it starts
with; `Lasting`, a bound of the run, is empty.

`HouseProofs` proves more from the same invariant.  For any number of concurrent calls:

| theorem | says |
|---|---|
| `PendingCounted` | `Spec => []PendingBoundedByConcurrency` |
| `DeclineCorrect` | `"declined" \in StatusColumn` gives `Spec => DeclineAnswers` |
| `FounderLeaves` | `Spec => []FounderLeavesWithHouse` |
| `DesertedCorrect` | `Spec => DesertedStaysDeserted` |
| `MembersActOnly` | `Spec => OnlyMembersAct` |
| `SettledCorrect` | `Spec => SettledStaysSettled` |

* `PendingCounted` is a counting argument: a call that has found no waiting invitation and
  will write one holds a place (`Saving`), and passes it to what it writes; waiting
  invitations and places together are never more than the calls (`PlacesLeft`), because a new
  place is taken only when nothing waits, and then only calls hold any.
* `DeclineCorrect` has the hypothesis that `decline_enum` shows to be needed.  A call at
  `declineUpdate` leaves by that statement or by an interruption (`DeclineEnds`), and by the
  first, whatever the status was, the invitation of its own receiver is declined.
* `FounderLeaves` needs what a delete has loaded (`LoadedFact`): the founder is among it, or
  has left before.
* `DesertedCorrect` follows a deserted house through every action: its rows block the index,
  no call that was checked earlier is still on its way, and a call that starts now fails on
  its check of membership or on the index.
* `MembersActOnly` carries what each of the three routes has found of its caller to the write
  (`CallerFact`, and `InviteFact` for invites): he has a row, perhaps a deleted one by now.
  Who loses a live row loses it by the last statement of a removal or deletion
  (`MemberLeaves`).
* `SettledCorrect` names the steps behind the check of the house (`PastHouseCheck`): a call
  gets there only while the house is live (`ToPastHouseCheck`), and only from there it adds a
  member or an invitation.

And as long as calls come one at a time (`Cardinality(Request) <= 1`):

| theorem | says |
|---|---|
| `OnePendingOfOneCall` | `Spec => []AtMostOnePending` |
| `ClosedEmptyOfOneCall` | `Spec => []ClosedHouseIsEmpty` |

`AtMostOnePending` is what the comment at `member.service.ts:98` promises and `double_invite`
refutes; so it is the concurrency alone that breaks it.  `ClosedHouseIsEmpty` says that nobody
is left in a deleted house, which no text promises and a join during the deletion breaks: what
the deletion has loaded is what is there (`AloneFact`).

`TokenRotationProofs` proves, for every set of users and every finite set of pairs
and calls, with or without revocations, expiry and crashes (`TokenAssumption`):

| theorem | says |
|---|---|
| `TypeCorrect` | `Spec => []TypeOK` |
| `LineageCorrect` | `Spec => []LineageKeepsOwner` |
| `SpentCorrect` | `Spec => []SpentIsGone` |
| `BlackListCorrect` | `Spec => []HeirAfterBlackList` |
| `RevocationCorrect` | `Spec => []RevokedStaysRevoked` |
| `LedgerImplemented` | `Spec => ImplementsLedger` |
| `ExchangesCounted` | `Spec => []ExchangesBounded` |
| `OnceOfOneCall` | `Cardinality(Request) <= 1` gives `Spec => []ExchangedOnce` |

The last three are in `TokenRefinement`.

Here the difficulty is the queue: a caller goes on while its `SET` or `DEL` waits in it.
`IInv` says what the position of a command is worth:

* `OneCommandEach`, `CommandFact`: who waits, waits for one command, and it asks what he
  waits for; so what is served resumes the right call with the right key;
* `KeysOwned`, `SetOnce`: a whitelist key names the owner of its pair, its `SET` is
  queued once, and until it is served nobody has found the token, exchanged or revoked it;
* `DelFact`: from the answer of a reissue's first `GET` on, the key is gone or its `DEL` is
  queued, and in front of the `GET` of the blacklist: when that is answered, it is gone;
* `ListFact`, `HeirFact`: the blacklist `SET` is queued in front of the heir's whitelist
  `SET`;
* `RevokeFact`, `RevokedFact`: no `SET` of an older pair is behind the `KEYS` of a
  revocation, so the answer lists every key that will ever be there.

Each step is first described by what it does to positions (`QueueStep`: how many commands
it serves, which one it adds), then to keys and pairs (`Effect`), and only then is each
part shown to be kept, for the call the step resumes and for the others.

`LedgerImplemented` reads the life of a pair off keys and positions (`StatusFact`: the key
is in Redis, or its `SET` is somewhere in the queue, never both), and shows for each of the
effects above that at most one pair moves, and forward.  `ExchangesCounted` counts like
`PendingCounted`: calls that have found the token, and heirs it has, are never more than the
calls, because nobody finds it once it has an heir.  For calls one at a time it follows that
a refresh token has at most one heir (`OnceOfOneCall`).

`SessionsProofs` (`SessionsAssumption`):

| theorem | says |
|---|---|
| `TypeCorrect` | `Spec => []TypeOK` |
| `OneRowCorrect` | `Spec => []OneRowPerEmail` |
| `HoldersNamed` | `Spec => []HeldTokensNameHolder` |
| `LogoutFinal` | `Spec => []LogoutIsFinal` |
| `LineageShort` | `Spec => []LineageEndsAtHeir` |

The invariant follows a login through its awaits (`CallFact`): the row it has found or
inserted is that of its address, the pair it has minted names that row.  Hence what a person
holds was minted by one of his logins (`HeldByLogin`), which is what the last three rest on: a
pair with a parent is held by nobody, so nobody presents it, so it has no heirs.  `Grows`
(rows and pairs stay, gone is gone) preserves the facts of the calls that do not move.

`ChoresProofs` (`ChoresAssumption`), for any number of concurrent calls, houses and tasks:

| theorem | says |
|---|---|
| `TypeCorrect` | `Spec => []TypeOK` |
| `MembersWriteOnly` | `Spec => WritesByMembers` |
| `DeletedCorrect` | `Spec => DeletedStays` |
| `AssignmentCorrect` | for one call at a time, `Spec => AssignmentOfOneCall` |

A call of `update` has a caller, a housework, an assignee and a loaded task, each read by a
different statement; `CallFact` says what is left of that when the others have moved: they
exist, and have belonged to the house.  `TypeOK` asks that a task has an assigner exactly
when it has an assignee, though `save()` writes the columns that differ from an older row:
`ChangeFact` says which sets of columns that can be.  With one call at a time the columns
about to be written are those that differ *now* (`Current`), so a column that is left alone has
the value of the call already, and `AssignmentCorrect` follows.

`DetachedProofs` (`DetachedAssumption`):

| theorem | says |
|---|---|
| `TypeCorrect` | `Spec => []TypeOK` |
| `MembersName` | `Spec => []NamedByMembers` |
| `GoneSilent` | `Spec => GoneStaysSilent` |

`WriteFact` is the heart: whoever an `UPDATE` speaks for has belonged to the house it names,
which no step takes back.

Only model-checked: the liveness properties `AcceptanceCompletes`, `HonestReissueSucceeds`,
`SomeLoginSucceeds` and `AnsweredIsHeard`.  They rest on `ENABLED` and fairness, which are out
of the prover's reach.  Every other property of a passing run is a theorem.

## 7 Where the code and its words disagree

* `decline_enum`: `invitation.entity.ts:43` declares the enum value `decline`,
  `entities/enum/status.enum.ts:4` and `declineInvitation` write `declined`.  A
  database with the declared enum refuses every decline, and an invitation that stays
  pending blocks further ones to the same user.
* `double_invite`: `member.service.ts:98` promises an error while an invitation is
  waiting; two calls that run at once leave two.
* `unassigned_task`: `create-task.dto.ts:3` lets a task be created without an assignee, and
  `task.service.ts:35` handles the case; `task.entity.ts:25-29` declares columns that may
  not be null.  `createHousework` leaves out `frequency` (`housework.entity.ts:25`) in the
  same way, so with the declared schema no housework can be created at all.

* `lifetimes`: `token.config.ts:7` converts `JWT_ACCESS_TOKEN_EXPIRES_IN_MINUTES` by
  `ms.seconds`.  With the 30 of the test configuration the cookie lasts 30 seconds; the
  token, signed with a number of seconds, 30000 seconds.  A reissue needs both cookies, so a
  browser has 30 seconds for it.

Not contradicted by any text, but worth knowing: with concurrent calls a deleted house
can keep a live member who joined between the load and the save of the delete, though
never its founder, and a join that has found the house before its deletion still enters it
afterwards, but no later one does (`SettledStaysSettled`), and with calls one at a time
neither happens (`ClosedEmptyOfOneCall`); a house can lose its last member, and is then out
of everybody's reach (`DesertedStaysDeserted`); a removed member can never come back, and
his attempt leaves an accepted invitation only if a row exists, which is why
`AcceptedHasRow` speaks of a row and not of a live member; a declined invitation can be
accepted later; a join that does not name its invitation makes a member of whoever has
been invited, and leaves the invitation pending (`member.service.ts:214`), where it blocks later ones to him;
a decline that comes between the two writes of a join leaves a declined invitation with a
live member; a call that mixes the tokens of two logins is
refused after both tokens have been used up; two updates of a task at once can leave the
assignee of one with the assigner of the other (`AssignmentOfOneCall` holds in `chores`,
with one call at a time, and fails with two); deleting a task looks for a housework whose
id is the id of the house; an update without an assignee that moves a task to another
house keeps an assignee who may never have been there; a reissue in progress can set the
key of its new pair behind the listing of a revocation (`auth.service.ts:83`), so the
session goes on although the tokens that were revoked stay so; the strategy of the refresh
routes reads a cookie nobody sets, and would hand the reissued tokens to nobody if it were
set, so a session ends at its first refresh (`LineageEndsAtHeir`); a logout leaves a live
refresh token on the whitelist, which nobody holds; one whose reissue was refused answers
with an error and clears nothing; a first login that loses the race for the user's row
fails, while the other one succeeds; two renames at once may be applied in the other order,
and an `UPDATE` that was answered is lost if the process ends before it is run.

## 8 What is left out

* Reads without effect (`GET` routes), logging, wording of errors, the injection of the
  user into route parameters, dependency injection, configuration.
* The access token as a key to the routes: `jwt-access.strategy.ts` neither asks for the
  blacklist nor for the expiry; a TODO there says so, and there is no promise to check.
* Columns no query reads (`isCompleted`, the creator of housework, names of users).
* Signature checking, Google's side of OAuth, Postgres and Redis themselves
  beyond atomic statements and in-order service.
* More than one process: `docker-compose.yml` starts one.

## 9 Plan

Everything that changes state is modelled, and every safety and action property is proved.
What could still be added:

1. The safety half of the liveness properties as theorems: with a single call, no expiry, no
   revocation and no crash, no step of a reissue that `HonestCall` describes refuses it; an
   `UPDATE` that has been issued stays until it is run or the process ends.
2. What holds of `WritesByMembers` when the membership does not change during a call: members
   only, in the place of members and former members.
3. The token lifetimes that do come out right: the whitelist entry and the refresh cookie end
   together, `RefreshDays` days after the login, and not after the token.

## 10 Running it

    tlc -workers 2 -config membership.cfg MCMembership
    tlapm MembershipProofs.tla
    tlapm MembershipRefinement.tla
    tlc -workers 2 -config sessions.cfg Sessions
    tlapm HouseProofs.tla
    tlapm TokenRotationProofs.tla
    tlapm TokenRefinement.tla
    tlapm SessionsProofs.tla
    tlapm ChoresProofs.tla
    tlapm DetachedProofs.tla

Each run takes at most about four minutes on two cores.  `PROJECT.json` names the module of
each run.
