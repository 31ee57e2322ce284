----------------------------- MODULE Membership -----------------------------
(***************************************************************************)
(* Houses, their members and the invitations to them: HouseService         *)
(* (house.service.ts) and MemberService (member.service.ts) over the three  *)
(* Postgres tables they share.                                             *)
(*                                                                         *)
(* A handler is an async function: it keeps what it has read in local      *)
(* variables and gives up control at every await, so the handlers of       *)
(* concurrent HTTP calls interleave between any two statements.  A call is *)
(* a slot of "request"; each of its statements is one action.  A statement *)
(* and a typeorm transaction are atomic.                                   *)
(***************************************************************************)
EXTENDS Naturals, FiniteSets

CONSTANTS
    User,          \* registered users (no code path removes one)
    House,         \* ids the house table can hand out
    Invitation,    \* ids the invitation table can hand out
    Request,       \* calls that can be in progress at the same time
    Faulty,        \* calls whose next statement may fail, or whose process may die
    StatusColumn,  \* values the enum type of invitation.status accepts
    NULL           \* no row, no value

Role == {"Admin", "Member"}
Status == {"pending", "accepted", "declined"}

\* A row of houseMember: deleted is "deletedAt is set".  The unique index on
\* (house, user) leaves one row per pair, whether it is deleted or not.
MemberRow == [role : Role, deleted : BOOLEAN]

InvitationRow ==
    [house : House, sender : User, receiver : User, status : Status]

ASSUME MembershipAssumption ==
    /\ NULL \notin User \cup House \cup Invitation
    /\ NULL \notin MemberRow \cup InvitationRow
    /\ Faulty \subseteq Request
    /\ {"pending", "accepted"} \subseteq StatusColumn
    /\ IsFiniteSet(Request)
    /\ IsFiniteSet(Invitation)

VARIABLES
    house,       \* house[h]: "unused", "live" or "deleted" (deletedAt is set)
    member,      \* member[h][u]: the row of user u in house h, or NULL
    invitation,  \* invitation[i]: the row, or NULL
    request,     \* request[r]: the call in slot r, what it has read so far
    torn         \* history: invitations whose acceptance was cut off between
                 \* its two writes

db == <<house, member, invitation>>
vars == <<house, member, invitation, request, torn>>

-----------------------------------------------------------------------------
(* Calls in progress.                                                      *)

InviteSteps == {"inviteSender", "inviteHouse", "inviteReceiver",
                "invitePending", "inviteSave"}
AcceptSteps == {"acceptFind", "acceptHouse", "acceptMember",
                "acceptUpdate", "acceptSave"}
RemoveSteps == {"removeAsAdmin", "removeAsMember", "removeTarget", "removeSave"}
DeleteSteps == {"deleteValidHouse", "deleteValidMember", "deleteLoad", "deleteSave"}
Steps == {"idle", "declineUpdate"}
            \cup InviteSteps \cup AcceptSteps \cup RemoveSteps \cup DeleteSteps

\* "user" is the authenticated caller, "other" the user the call is about.
\* "invitation" is the id in the body of a join or decline, which nothing
\* validates: NULL when the body has none.
Call == [step : Steps,
         user : User \cup {NULL}, other : User \cup {NULL},
         house : House \cup {NULL}, invitation : Invitation \cup {NULL},
         loaded : SUBSET User, allowed : BOOLEAN]

\* The local variables a step reads have been assigned before it.
Filled(call) ==
    /\ call.step # "idle" => call.user \in User
    /\ call.step \in InviteSteps \cup RemoveSteps => call.other \in User
    /\ call.step \in InviteSteps \cup RemoveSteps \cup DeleteSteps
                        \cup (AcceptSteps \ {"acceptFind"}) => call.house \in House

Idle == [step |-> "idle", user |-> NULL, other |-> NULL, house |-> NULL,
         invitation |-> NULL, loaded |-> {}, allowed |-> FALSE]

At(r, step) == request[r].step = step
Begin(r, call) == request[r] = Idle /\ request' = [request EXCEPT ![r] = call]
Goto(r, step) == request' = [request EXCEPT ![r].step = step]
Finish(r) == request' = [request EXCEPT ![r] = Idle]

\* A statement that only reads: the call goes on if what it read "holds",
\* and otherwise throws, which ends it.
Check(r, step, holds, next) ==
    /\ At(r, step)
    /\ IF holds THEN Goto(r, next) ELSE Finish(r)
    /\ UNCHANGED <<db, torn>>

-----------------------------------------------------------------------------
(* What the queries see.  A find skips the rows with deletedAt set.        *)

LiveHouse(h) == house[h] = "live"
HasRow(h, u) == member[h][u] # NULL
LiveMember(h, u) == HasRow(h, u) /\ ~member[h][u].deleted
LiveAs(h, u, role) == LiveMember(h, u) /\ member[h][u].role = role
Members(h) == {u \in User : LiveMember(h, u)}

Pending(h, u) ==
    {i \in Invitation : /\ invitation[i] # NULL
                        /\ invitation[i].house = h
                        /\ invitation[i].receiver = u
                        /\ invitation[i].status = "pending"}

-----------------------------------------------------------------------------
(* POST house/create: one transaction writes the house and the row of its  *)
(* creator.                                                                *)

\* Fault: the creator's row is not written with the house.
CreateNewHouse_NoMember(u) ==
    \E h \in House :
        /\ house[h] = "unused"
        /\ house' = [house EXCEPT ![h] = "live"]
        /\ UNCHANGED <<member, invitation, request, torn>>

CreateNewHouse(u) ==
    \E h \in House :
        /\ house[h] = "unused"
        /\ house' = [house EXCEPT ![h] = "live"]
        /\ member' = [member EXCEPT ![h][u] = [role |-> "Admin", deleted |-> FALSE]]
        /\ UNCHANGED <<invitation, request, torn>>

-----------------------------------------------------------------------------
(* POST member/invite: inviteMember and the checks of validateInvitation.  *)

\* Bound: a call to invite begins only while an id is left for its row.
InvitationsLeft ==
    Cardinality({r \in Request : request[r].step \in InviteSteps})
        < Cardinality({i \in Invitation : invitation[i] = NULL})

BeginInvite(r) ==
    /\ InvitationsLeft
    /\ \E sender, receiver \in User, h \in House :
        Begin(r, [Idle EXCEPT !.step = "inviteSender", !.user = sender,
                              !.other = receiver, !.house = h])
    /\ UNCHANGED <<db, torn>>

InviteSender(r) ==
    Check(r, "inviteSender",
          LiveMember(request[r].house, request[r].user), "inviteHouse")

InviteHouse(r) ==
    Check(r, "inviteHouse", LiveHouse(request[r].house), "inviteReceiver")

InviteReceiver(r) ==
    Check(r, "inviteReceiver",
          ~LiveMember(request[r].house, request[r].other), "invitePending")

\* Fault: the invitations that are waiting are not looked at.
InvitePending_Skipped(r) == Check(r, "invitePending", TRUE, "inviteSave")

InvitePending(r) ==
    Check(r, "invitePending",
          Pending(request[r].house, request[r].other) = {}, "inviteSave")

InviteSave(r) ==
    /\ At(r, "inviteSave")
    /\ \E i \in Invitation :
        /\ invitation[i] = NULL
        /\ invitation' = [invitation EXCEPT ![i] =
                [house |-> request[r].house, sender |-> request[r].user,
                 receiver |-> request[r].other, status |-> "pending"]]
    /\ Finish(r)
    /\ UNCHANGED <<house, member, torn>>

-----------------------------------------------------------------------------
(* POST member/invite/join: acceptInvitation.  isValidInvitationReturnHouse *)
(* looks at the receiver, the house and the membership, but not at the     *)
(* status the invitation already has.                                      *)

IsRow(i) == i \in Invitation /\ invitation[i] # NULL

\* Fault: anyone may answer an invitation.
IsAddressedTo_Anyone(i, u) == IsRow(i)

IsAddressedTo(i, u) == IsRow(i) /\ invitation[i].receiver = u

\* What a find by id may answer with.  A condition on an id that is missing is
\* no condition: any row will do.
FoundById(id) == {i \in Invitation : IsRow(i) /\ id \in {i, NULL}}

\* Fault: the where clause has the sender's column.
UpdateInvitation_OfSender(r, status) ==
    LET i == request[r].invitation
    IN  invitation' =
            IF IsRow(i) /\ invitation[i].sender = request[r].user
            THEN [invitation EXCEPT ![i].status = status]
            ELSE invitation

\* updateInvitation: the row of the UPDATE's where clause gets the status.  In a
\* where clause a missing id is one that no row has.
UpdateInvitation(r, status) ==
    invitation' =
        IF IsAddressedTo(request[r].invitation, request[r].user)
        THEN [invitation EXCEPT ![request[r].invitation].status = status]
        ELSE invitation

BeginAccept(r) ==
    /\ \E u \in User, i \in Invitation \cup {NULL} :
        Begin(r, [Idle EXCEPT !.step = "acceptFind", !.user = u, !.invitation = i])
    /\ UNCHANGED <<db, torn>>

\* The house of the row that was found is all that is kept of it.
AcceptFound(r) ==
    \E i \in FoundById(request[r].invitation) :
        /\ IsAddressedTo(i, request[r].user)
        /\ request' = [request EXCEPT ![r].step = "acceptHouse",
                                      ![r].house = invitation[i].house]

\* There is no row, or the one that was found is somebody else's.
AcceptRefused(r) ==
    LET found == FoundById(request[r].invitation)
    IN  /\ found = {} \/ \E i \in found : ~IsAddressedTo(i, request[r].user)
        /\ Finish(r)

AcceptFind(r) ==
    /\ At(r, "acceptFind")
    /\ AcceptFound(r) \/ AcceptRefused(r)
    /\ UNCHANGED <<db, torn>>

\* Fault: a join does not look whether the house was deleted.
AcceptHouse_Deleted(r) == Check(r, "acceptHouse", TRUE, "acceptMember")

AcceptHouse(r) ==
    Check(r, "acceptHouse", LiveHouse(request[r].house), "acceptMember")

AcceptMember(r) ==
    Check(r, "acceptMember",
          ~LiveMember(request[r].house, request[r].user), "acceptUpdate")

\* Fault: the member is never saved.
AcceptUpdate_Last(r) ==
    /\ At(r, "acceptUpdate")
    /\ UpdateInvitation(r, "accepted")
    /\ Finish(r)
    /\ UNCHANGED <<house, member, torn>>

AcceptUpdate(r) ==
    /\ At(r, "acceptUpdate")
    /\ UpdateInvitation(r, "accepted")
    /\ Goto(r, "acceptSave")
    /\ UNCHANGED <<house, member, torn>>

\* Fault: the index leaves deleted rows out.
UniqueIndexFree_LiveRows(h, u) == ~LiveMember(h, u)

\* The INSERT fails on the unique index when the pair has a row already, a
\* deleted one included; the status written before it stays.
UniqueIndexFree(h, u) == member[h][u] = NULL

\* Fault: the role is left to the default of its column, houseMember.entity.ts:35.
AcceptSave_DefaultRole(r) ==
    LET h == request[r].house
        u == request[r].user
    IN  /\ At(r, "acceptSave")
        /\ UniqueIndexFree(h, u)
        /\ member' = [member EXCEPT ![h][u] = [role |-> "member", deleted |-> FALSE]]
        /\ Finish(r)
        /\ UNCHANGED <<house, invitation, torn>>

\* Fault: the insert is given up when the house has been deleted meanwhile.
AcceptSave_LiveHouseOnly(r) ==
    LET h == request[r].house
        u == request[r].user
    IN  /\ At(r, "acceptSave")
        /\ member' =
                IF LiveHouse(h) /\ UniqueIndexFree(h, u)
                THEN [member EXCEPT ![h][u] = [role |-> "Member", deleted |-> FALSE]]
                ELSE member
        /\ Finish(r)
        /\ UNCHANGED <<house, invitation, torn>>

AcceptSave(r) ==
    LET h == request[r].house
        u == request[r].user
    IN  /\ At(r, "acceptSave")
        /\ member' =
                IF UniqueIndexFree(h, u)
                THEN [member EXCEPT ![h][u] = [role |-> "Member", deleted |-> FALSE]]
                ELSE member
        /\ Finish(r)
        /\ UNCHANGED <<house, invitation, torn>>

-----------------------------------------------------------------------------
(* POST member/invite/decline: one UPDATE, refused by the database when the *)
(* enum of the column has no such value.                                   *)

BeginDecline(r) ==
    /\ \E u \in User, i \in Invitation \cup {NULL} :
        Begin(r, [Idle EXCEPT !.step = "declineUpdate", !.user = u, !.invitation = i])
    /\ UNCHANGED <<db, torn>>

DeclineUpdate(r) ==
    /\ At(r, "declineUpdate")
    /\ IF "declined" \in StatusColumn
       THEN UpdateInvitation(r, "declined")
       ELSE UNCHANGED invitation
    /\ Finish(r)
    /\ UNCHANGED <<house, member, torn>>

-----------------------------------------------------------------------------
(* DELETE member: softDeleteMember.  Two reads decide whether the caller is *)
(* an Admin or a Member, a third finds the row to delete.                  *)

BeginRemove(r) ==
    /\ \E u, target \in User, h \in House :
        Begin(r, [Idle EXCEPT !.step = "removeAsAdmin", !.user = u,
                              !.other = target, !.house = h])
    /\ UNCHANGED <<db, torn>>

RemoveAsAdmin(r) ==
    /\ At(r, "removeAsAdmin")
    /\ request' = [request EXCEPT
            ![r].step = "removeAsMember",
            ![r].allowed = LiveAs(request[r].house, request[r].user, "Admin")]
    /\ UNCHANGED <<db, torn>>

RemoveAsMember(r) ==
    /\ At(r, "removeAsMember")
    /\ request' = [request EXCEPT
            ![r].step = "removeTarget",
            ![r].allowed = @ \/ LiveAs(request[r].house, request[r].user, "Member")]
    /\ UNCHANGED <<db, torn>>

\* Fault: what the two reads have found of the caller is not asked.
RemoveTarget_NotAllowed(r) ==
    Check(r, "removeTarget",
          LiveMember(request[r].house, request[r].other), "removeSave")

RemoveTarget(r) ==
    Check(r, "removeTarget",
          LiveMember(request[r].house, request[r].other) /\ request[r].allowed,
          "removeSave")

RemoveSave(r) ==
    /\ At(r, "removeSave")
    /\ member' = [member EXCEPT ![request[r].house][request[r].other].deleted = TRUE]
    /\ Finish(r)
    /\ UNCHANGED <<house, invitation, torn>>

-----------------------------------------------------------------------------
(* DELETE house/:houseId.  isValidHouseMember guards the route with two    *)
(* reads; softDeleteHouse loads the house with its members and soft-removes *)
(* what it has loaded, in one transaction.                                 *)

BeginDelete(r) ==
    /\ \E u \in User, h \in House :
        Begin(r, [Idle EXCEPT !.step = "deleteValidHouse", !.user = u, !.house = h])
    /\ UNCHANGED <<db, torn>>

DeleteValidHouse(r) ==
    Check(r, "deleteValidHouse", LiveHouse(request[r].house), "deleteValidMember")

DeleteValidMember(r) ==
    Check(r, "deleteValidMember",
          LiveMember(request[r].house, request[r].user), "deleteLoad")

DeleteLoad(r) ==
    /\ At(r, "deleteLoad")
    /\ IF LiveHouse(request[r].house)
       THEN request' = [request EXCEPT ![r].step = "deleteSave",
                                       ![r].loaded = Members(request[r].house)]
       ELSE Finish(r)
    /\ UNCHANGED <<db, torn>>

\* Fault: the relation does not cascade.
Cascade_None(h, loaded) == member

\* The cascade of softRemove reaches the members that were loaded.
Cascade(h, loaded) ==
    [member EXCEPT ![h] =
        [u \in User |-> IF u \in loaded THEN [@[u] EXCEPT !.deleted = TRUE]
                                        ELSE @[u]]]

DeleteSave(r) ==
    LET h == request[r].house
    IN  /\ At(r, "deleteSave")
        /\ house' = [house EXCEPT ![h] = "deleted"]
        /\ member' = Cascade(h, request[r].loaded)
        /\ Finish(r)
        /\ UNCHANGED <<invitation, torn>>

\* A member who joined after the load makes the persistence of the cascaded
\* collection fail on the not-null house_id when it is noticed in time.
DeleteRefused(r) ==
    /\ At(r, "deleteSave")
    /\ ~(Members(request[r].house) \subseteq request[r].loaded)
    /\ Finish(r)
    /\ UNCHANGED <<db, torn>>

-----------------------------------------------------------------------------
(* An await that rejects, or the end of the process, cuts a call off: what *)
(* it has written stays.                                                   *)

Interrupt(r) ==
    /\ r \in Faulty
    /\ ~At(r, "idle")
    /\ Finish(r)
    /\ torn' = IF At(r, "acceptSave") THEN torn \cup ({request[r].invitation} \ {NULL})
                                       ELSE torn
    /\ UNCHANGED db

-----------------------------------------------------------------------------
Init ==
    /\ house = [h \in House |-> "unused"]
    /\ member = [h \in House |-> [u \in User |-> NULL]]
    /\ invitation = [i \in Invitation |-> NULL]
    /\ request = [r \in Request |-> Idle]
    /\ torn = {}

Arrive(r) == \/ BeginInvite(r) \/ BeginAccept(r) \/ BeginDecline(r)
             \/ BeginRemove(r) \/ BeginDelete(r)

Invite(r) == \/ InviteSender(r) \/ InviteHouse(r) \/ InviteReceiver(r)
             \/ InvitePending(r) \/ InviteSave(r)

Accept(r) == \/ AcceptFind(r) \/ AcceptHouse(r) \/ AcceptMember(r)
             \/ AcceptUpdate(r) \/ AcceptSave(r)

Remove(r) == \/ RemoveAsAdmin(r) \/ RemoveAsMember(r)
             \/ RemoveTarget(r) \/ RemoveSave(r)

Delete(r) == \/ DeleteValidHouse(r) \/ DeleteValidMember(r)
             \/ DeleteLoad(r) \/ DeleteSave(r) \/ DeleteRefused(r)

\* The next statement of the call in slot r.
Proceed(r) == Invite(r) \/ Accept(r) \/ DeclineUpdate(r) \/ Remove(r) \/ Delete(r)

Next == \/ \E u \in User : CreateNewHouse(u)
        \/ \E r \in Request : Arrive(r) \/ Proceed(r) \/ Interrupt(r)

Spec == Init /\ [][Next]_vars

\* Node's event loop resumes every call whose statement the database has
\* answered, and the database answers every statement.
FairSpec == Spec /\ \A r \in Request : WF_vars(Proceed(r))

-----------------------------------------------------------------------------
(* Properties.                                                             *)

\* Every table and every call in progress has the shape its columns and local
\* variables have in the code, and no statement reads a variable not yet set.
TypeOK ==
    /\ house \in [House -> {"unused", "live", "deleted"}]
    /\ member \in [House -> [User -> MemberRow \cup {NULL}]]
    /\ invitation \in [Invitation -> InvitationRow \cup {NULL}]
    /\ request \in [Request -> Call]
    /\ \A r \in Request : Filled(request[r])
    /\ torn \subseteq Invitation

Founders(h) == {u \in User : HasRow(h, u) /\ member[h][u].role = "Admin"}

\* A house has rows exactly from its creation on, and one of them, live or
\* deleted, is the Admin's: no sequence of invitations, acceptances and
\* removals makes a second Admin or loses the row of the first.
OneFounder ==
    \A h \in House :
        IF house[h] = "unused" THEN \A u \in User : ~HasRow(h, u)
                               ELSE \E u \in User : Founders(h) = {u}

InvitationsTo(h) == {i \in Invitation : IsRow(i) /\ invitation[i].house = h}

\* Whoever has a row in a house is linked to its founder by a chain of invitations
\* to that house, each sent by somebody who is linked himself: every set of users
\* that holds the founder and is closed under "has sent an invitation to" holds
\* them.  It relies on invite reading the sender's row and on join comparing the
\* receiver, each some awaits before the write it protects.  Whether an invitation
\* says that it was answered is not part of it: a join without an id inserts its
\* member and marks nothing.
RootedInFounder ==
    \A h \in House : \A S \in SUBSET User :
        /\ Founders(h) \subseteq S
        /\ \A i \in InvitationsTo(h) :
                invitation[i].sender \in S => invitation[i].receiver \in S
        => \A u \in User : HasRow(h, u) => u \in S

Accepted(i) == invitation[i] # NULL /\ invitation[i].status = "accepted"
HasJoined(i) == HasRow(invitation[i].house, invitation[i].receiver)
InAcceptSave(i) ==
    \E r \in Request : At(r, "acceptSave") /\ request[r].invitation = i

\* acceptInvitation marks the invitation before it inserts the member.  An
\* accepted invitation whose receiver has no row is one whose call is between
\* the two writes, or was cut off there.
AcceptedHasRow ==
    \A i \in Invitation :
        Accepted(i) => HasJoined(i) \/ InAcceptSave(i) \/ i \in torn

\* The same as a promise: an acceptance that is not cut off between its two
\* writes does give its receiver a row.
AcceptanceCompletes ==
    \A i \in Invitation :
        Accepted(i) ~> (Accepted(i) => HasJoined(i) \/ i \in torn)

\* Two invite calls can both see that no invitation is pending, so a receiver
\* may get several; never more than there are calls in progress.
PendingBoundedByConcurrency ==
    \A h \in House, u \in User :
        Cardinality(Pending(h, u)) <= Cardinality(Request)

\* What member.service.ts:98 says of invite: a receiver who has an invitation
\* waiting is not invited again.
AtMostOnePending ==
    \A h \in House, u \in User : Cardinality(Pending(h, u)) <= 1

\* Whoever has founded a house leaves with it.  The cascade takes the members that
\* were loaded some awaits before, so somebody who has joined meanwhile may be left
\* in a deleted house; never the founder, whose row is as old as the house.
FounderLeavesWithHouse ==
    \A h \in House : house[h] = "deleted" => Founders(h) \cap Members(h) = {}

\* No row goes back: a member's role never changes, a deleted row and a deleted
\* house stay so.  Join goes through save() on an object without an id, which
\* must never bring the row of a removed member back to life.
RowsOnlyAge ==
    [][\A h \in House :
        /\ house[h] = "deleted" => house'[h] = "deleted"
        /\ \A u \in User : HasRow(h, u) =>
            /\ member'[h][u] # NULL
            /\ member'[h][u].role = member[h][u].role
            /\ member[h][u].deleted => member'[h][u].deleted]_vars

\* A decline by its receiver, in a call that nothing cuts off, leaves the invitation
\* declined, whatever happened between its arrival and the UPDATE.
DeclineAnswers ==
    [][\A r \in Request \ Faulty :
        LET i == request[r].invitation
        IN  At(r, "declineUpdate") /\ request'[r] = Idle
                /\ IsAddressedTo(i, request[r].user)
            => invitation'[i].status = "declined"]_vars

\* Nobody is left in h, nobody who could still come has been invited, and no call
\* of somebody who was a member when it was checked goes on inviting or deleting.
Deserted(h) ==
    /\ house[h] # "unused"
    /\ Members(h) = {}
    /\ \A i \in Invitation :
        invitation[i] # NULL /\ invitation[i].house = h => HasRow(h, invitation[i].receiver)
    /\ \A r \in Request : request[r].house = h =>
        request[r].step \notin (InviteSteps \ {"inviteSender"}) \cup {"deleteLoad", "deleteSave"}

\* Members may remove each other, the Admin and themselves, down to the last.  A
\* house that is deserted in this way is lost: nobody ever gets in again, those
\* who once were members and hold an old invitation included, and nobody can
\* delete it.
DesertedStaysDeserted ==
    [][\A h \in House : Deserted(h) => Deserted(h)' /\ house'[h] = house[h]]_vars

LosesMember(h) == \E u \in User : LiveMember(h, u) /\ ~LiveMember(h, u)'
Closes(h) == house[h] = "live" /\ house'[h] = "deleted"
GetsInvitation(h) ==
    \E i \in Invitation :
        invitation[i] = NULL /\ invitation'[i] # NULL /\ invitation'[i].house = h

\* A member leaves, a house is deleted or somebody is invited to it by a call whose
\* caller belongs or has belonged to that house: each of the three routes checks the
\* caller some awaits before it writes, in reads of its own.
OnlyMembersAct ==
    [][\A h \in House :
        LosesMember(h) \/ Closes(h) \/ GetsInvitation(h)
            => \E r \in Request :
                request'[r] # request[r] /\ HasRow(h, request[r].user)]_vars

\* A deleted house whose joins and invites in progress have not seen it alive.
Settled(h) ==
    /\ house[h] = "deleted"
    /\ \A r \in Request : request[r].house = h =>
        request[r].step \notin {"inviteReceiver", "invitePending", "inviteSave",
                                "acceptMember", "acceptUpdate", "acceptSave"}

\* Calls that have found a house before its deletion may still add to it.  Once they are
\* through nothing does: nobody comes in, nobody is invited, and the old invitations and
\* the members it was left with do not change that.
SettledStaysSettled ==
    [][\A h \in House : Settled(h) =>
        /\ Settled(h)'
        /\ Members(h)' \subseteq Members(h)
        /\ ~GetsInvitation(h)]_vars

\* The tables, seen as the roster of every house.
PlaceOf(h, u) == IF ~HasRow(h, u) THEN "outside"
                 ELSE IF member[h][u].deleted THEN "gone" ELSE "inside"

R == INSTANCE Roster WITH
        open <- {h \in House : house[h] = "live"},
        closed <- {h \in House : house[h] = "deleted"},
        place <- [h \in House |-> [u \in User |-> PlaceOf(h, u)]],
        offered <- [h \in House |-> {u \in User : \E i \in Invitation :
                        /\ invitation[i] # NULL
                        /\ invitation[i].house = h
                        /\ invitation[i].receiver = u}]

\* The interleaved statements of all calls change the tables as the steps of
\* Roster do: founding, offering, entering once and by an offer only, leaving
\* for good, closing.
ImplementsRoster == R!Spec

=============================================================================
