-------------------------- MODULE MembershipProofs --------------------------
(* What TLAPS proves about Membership, for every value of its constants.   *)
EXTENDS Membership, TLAPS

-----------------------------------------------------------------------------
(* The inductive invariant: the types, what a call in progress knows of the *)
(* tables (rows stay, so what it has seen still holds), and the invariants. *)

\* An invite that has found its sender's row, and an invitation written by it.
InviteFact(r) ==
    request[r].step \in InviteSteps \ {"inviteSender"} =>
        HasRow(request[r].house, request[r].user)

SenderFact ==
    \A i \in Invitation :
        invitation[i] # NULL => HasRow(invitation[i].house, invitation[i].sender)

\* The invitation i lets the user of the join r into its house, and is the one whose
\* id the call carries, if it carries one.
LetsIn(i, r) ==
    /\ IsAddressedTo(i, request[r].user)
    /\ invitation[i].house = request[r].house
    /\ request[r].invitation \in {i, NULL}

\* A join that has found an invitation, and its house.
AcceptFact(r) ==
    /\ request[r].step \in AcceptSteps \ {"acceptFind"} => \E i \in Invitation : LetsIn(i, r)
    /\ request[r].step \in {"acceptMember", "acceptUpdate", "acceptSave"} =>
        house[request[r].house] # "unused"

RemoveFact(r) ==
    request[r].step = "removeSave" => HasRow(request[r].house, request[r].other)

DeleteFact(r) ==
    request[r].step = "deleteSave" =>
        /\ house[request[r].house] # "unused"
        /\ \A u \in request[r].loaded : HasRow(request[r].house, u)

Fact(r) == InviteFact(r) /\ AcceptFact(r) /\ RemoveFact(r) /\ DeleteFact(r)

IInv == /\ TypeOK
        /\ \A r \in Request : Fact(r)
        /\ SenderFact
        /\ OneFounder
        /\ RootedInFounder
        /\ AcceptedHasRow

\* No step takes back what a call may have seen.
Aging ==
    /\ \A h \in House :
        /\ house[h] # "unused" => house'[h] # "unused"
        /\ house[h] = "deleted" => house'[h] = "deleted"
    /\ \A h \in House, u \in User : HasRow(h, u) =>
        /\ member'[h][u] # NULL
        /\ member'[h][u].role = member[h][u].role
        /\ member[h][u].deleted => member'[h][u].deleted
    /\ \A i \in Invitation : invitation[i] # NULL =>
        /\ invitation'[i] # NULL
        /\ invitation'[i].house = invitation[i].house
        /\ invitation'[i].sender = invitation[i].sender
        /\ invitation'[i].receiver = invitation[i].receiver
        /\ invitation[i].status # "pending" => invitation'[i].status # "pending"

-----------------------------------------------------------------------------
(* Types of the calls.                                                     *)

LEMMA NullNotRow == NULL \notin MemberRow /\ NULL \notin InvitationRow
BY MembershipAssumption

LEMMA IdleType == Idle \in Call /\ Filled(Idle)
BY DEF Idle, Call, Steps, Filled, InviteSteps, AcceptSteps, RemoveSteps, DeleteSteps

CallsOK == request \in [Request -> Call] /\ \A r \in Request : Filled(request[r])

LEMMA CallType ==
    ASSUME TypeOK, NEW r \in Request, NEW call \in Call, Filled(call),
           request' = [request EXCEPT ![r] = call]
    PROVE  CallsOK'
<1>1. request' \in [Request -> Call]
  BY DEF TypeOK
<1>2. \A s \in Request : Filled(request'[s])
  <2> TAKE s \in Request
  <2>1. CASE s = r
    BY <2>1 DEF TypeOK
  <2>2. CASE s # r
    <3>1. request'[s] = request[s]
      BY <2>2 DEF TypeOK
    <3> QED BY <3>1 DEF TypeOK
  <2> QED BY <2>1, <2>2
<1> QED BY <1>1, <1>2 DEF CallsOK, Filled

LEMMA FinishType ==
    ASSUME TypeOK, NEW r \in Request, Finish(r)
    PROVE  CallsOK'
BY IdleType, CallType DEF Finish

LEMMA GotoType ==
    ASSUME TypeOK, NEW r \in Request, NEW step, Goto(r, step),
           \E family \in {InviteSteps, AcceptSteps \ {"acceptFind"}, RemoveSteps, DeleteSteps} :
                request[r].step \in family /\ step \in family
    PROVE  CallsOK'
<1> DEFINE call == [request[r] EXCEPT !.step = step]
<1>1. request[r] \in Call /\ Filled(request[r])
  BY DEF TypeOK
<1>2. step \in Steps
  BY DEF Steps
<1>3. call \in Call
  BY <1>1, <1>2 DEF Call
<1>4. Filled(call)
  BY <1>1 DEF Filled, Call, InviteSteps, AcceptSteps, RemoveSteps, DeleteSteps
<1>5. request' = [request EXCEPT ![r] = call]
  BY DEF Goto, TypeOK
<1> HIDE DEF call
<1> QED BY <1>3, <1>4, <1>5, CallType

LEMMA BeginType ==
    ASSUME TypeOK, NEW r \in Request, Arrive(r)
    PROVE  CallsOK'
<1>1. CASE BeginInvite(r)
  <2>1. PICK sender, receiver \in User, h \in House :
            Begin(r, [Idle EXCEPT !.step = "inviteSender", !.user = sender,
                                  !.other = receiver, !.house = h])
    BY <1>1 DEF BeginInvite
  <2> DEFINE call == [Idle EXCEPT !.step = "inviteSender", !.user = sender,
                                  !.other = receiver, !.house = h]
  <2>2. call \in Call
    BY DEF Idle, Call, Steps, InviteSteps
  <2>3. Filled(call)
    BY DEF Filled, Idle, InviteSteps, AcceptSteps, RemoveSteps, DeleteSteps
  <2> HIDE DEF call
  <2> QED BY <2>1, <2>2, <2>3, CallType DEF Begin, call
<1>2. CASE BeginAccept(r)
  <2>1. PICK u \in User, i \in Invitation \cup {NULL} :
            Begin(r, [Idle EXCEPT !.step = "acceptFind", !.user = u,
                                  !.invitation = i])
    BY <1>2 DEF BeginAccept
  <2> DEFINE call == [Idle EXCEPT !.step = "acceptFind", !.user = u,
                                  !.invitation = i]
  <2>2. call \in Call
    BY DEF Idle, Call, Steps, AcceptSteps
  <2>3. Filled(call)
    BY DEF Filled, Idle, InviteSteps, AcceptSteps, RemoveSteps, DeleteSteps
  <2> HIDE DEF call
  <2> QED BY <2>1, <2>2, <2>3, CallType DEF Begin, call
<1>3. CASE BeginDecline(r)
  <2>1. PICK u \in User, i \in Invitation \cup {NULL} :
            Begin(r, [Idle EXCEPT !.step = "declineUpdate", !.user = u,
                                  !.invitation = i])
    BY <1>3 DEF BeginDecline
  <2> DEFINE call == [Idle EXCEPT !.step = "declineUpdate", !.user = u,
                                  !.invitation = i]
  <2>2. call \in Call
    BY DEF Idle, Call, Steps
  <2>3. Filled(call)
    BY DEF Filled, Idle, InviteSteps, AcceptSteps, RemoveSteps, DeleteSteps
  <2> HIDE DEF call
  <2> QED BY <2>1, <2>2, <2>3, CallType DEF Begin, call
<1>4. CASE BeginRemove(r)
  <2>1. PICK u, target \in User, h \in House :
            Begin(r, [Idle EXCEPT !.step = "removeAsAdmin", !.user = u,
                                  !.other = target, !.house = h])
    BY <1>4 DEF BeginRemove
  <2> DEFINE call == [Idle EXCEPT !.step = "removeAsAdmin", !.user = u,
                                  !.other = target, !.house = h]
  <2>2. call \in Call
    BY DEF Idle, Call, Steps, RemoveSteps
  <2>3. Filled(call)
    BY DEF Filled, Idle, InviteSteps, AcceptSteps, RemoveSteps, DeleteSteps
  <2> HIDE DEF call
  <2> QED BY <2>1, <2>2, <2>3, CallType DEF Begin, call
<1>5. CASE BeginDelete(r)
  <2>1. PICK u \in User, h \in House :
            Begin(r, [Idle EXCEPT !.step = "deleteValidHouse", !.user = u,
                                  !.house = h])
    BY <1>5 DEF BeginDelete
  <2> DEFINE call == [Idle EXCEPT !.step = "deleteValidHouse", !.user = u,
                                  !.house = h]
  <2>2. call \in Call
    BY DEF Idle, Call, Steps, DeleteSteps
  <2>3. Filled(call)
    BY DEF Filled, Idle, InviteSteps, AcceptSteps, RemoveSteps, DeleteSteps
  <2> HIDE DEF call
  <2> QED BY <2>1, <2>2, <2>3, CallType DEF Begin, call
<1> QED BY <1>1, <1>2, <1>3, <1>4, <1>5 DEF Arrive

-----------------------------------------------------------------------------
(* Types of the tables, and what no step takes back.                       *)

LEMMA ReadOnly ==
    ASSUME TypeOK, CallsOK', UNCHANGED <<db, torn>>
    PROVE  TypeOK' /\ Aging
BY DEF TypeOK, CallsOK, db, Aging, HasRow, Filled

LEMMA CheckType ==
    ASSUME TypeOK, NEW r \in Request, NEW step, NEW holds \in BOOLEAN, NEW next,
           Check(r, step, holds, next),
           \E family \in {InviteSteps, AcceptSteps \ {"acceptFind"}, RemoveSteps, DeleteSteps} :
                step \in family /\ next \in family
    PROVE  TypeOK' /\ Aging
<1>1. CallsOK'
  BY FinishType, GotoType DEF Check, At
<1> QED BY <1>1, ReadOnly DEF Check

LEMMA ArriveType ==
    ASSUME TypeOK, NEW r \in Request, Arrive(r)
    PROVE  TypeOK' /\ Aging
<1>1. UNCHANGED <<db, torn>>
  BY DEF Arrive, BeginInvite, BeginAccept, BeginDecline, BeginRemove, BeginDelete
<1> QED BY <1>1, BeginType, ReadOnly

LEMMA CreateNewHouseType ==
    ASSUME TypeOK, OneFounder, NEW u \in User, CreateNewHouse(u)
    PROVE  TypeOK' /\ Aging
<1>1. PICK h \in House :
        /\ house[h] = "unused"
        /\ house' = [house EXCEPT ![h] = "live"]
        /\ member' = [member EXCEPT ![h][u] = [role |-> "Admin", deleted |-> FALSE]]
        /\ UNCHANGED <<invitation, request, torn>>
  BY DEF CreateNewHouse
<1>2. ~HasRow(h, u)
  BY <1>1 DEF OneFounder
<1>3. [role |-> "Admin", deleted |-> FALSE] \in MemberRow
  BY DEF MemberRow, Role
<1>4. TypeOK'
  BY <1>1, <1>3 DEF TypeOK, Filled
<1>5. Aging
  BY <1>1, <1>2 DEF TypeOK, Aging, HasRow
<1> QED BY <1>4, <1>5

LEMMA InviteType ==
    ASSUME TypeOK, NEW r \in Request, Invite(r)
    PROVE  TypeOK' /\ Aging
<1>1. CASE InviteSender(r)
  BY <1>1, CheckType DEF InviteSender, InviteSteps, LiveMember
<1>2. CASE InviteHouse(r)
  BY <1>2, CheckType DEF InviteHouse, InviteSteps, LiveHouse
<1>3. CASE InviteReceiver(r)
  BY <1>3, CheckType DEF InviteReceiver, InviteSteps, LiveMember
<1>4. CASE InvitePending(r)
  BY <1>4, CheckType DEF InvitePending, InviteSteps, Pending
<1>5. CASE InviteSave(r)
  <2> DEFINE row == [house |-> request[r].house, sender |-> request[r].user,
                     receiver |-> request[r].other, status |-> "pending"]
  <2>1. PICK i \in Invitation :
            invitation[i] = NULL /\ invitation' = [invitation EXCEPT ![i] = row]
    BY <1>5 DEF InviteSave
  <2>2. row \in InvitationRow
    BY <1>5 DEF InviteSave, At, TypeOK, Filled, InviteSteps, InvitationRow, Status
  <2>3. CallsOK' /\ UNCHANGED <<house, member, torn>>
    BY <1>5, FinishType DEF InviteSave
  <2> HIDE DEF row
  <2>4. TypeOK'
    BY <2>1, <2>2, <2>3 DEF TypeOK, CallsOK
  <2>5. Aging
    BY <2>1, <2>3 DEF TypeOK, Aging, HasRow
  <2> QED BY <2>4, <2>5
<1> QED BY <1>1, <1>2, <1>3, <1>4, <1>5 DEF Invite

\* A status written by updateInvitation.
LEMMA UpdateType ==
    ASSUME TypeOK, NEW r \in Request, NEW status \in {"accepted", "declined"},
           UpdateInvitation(r, status), CallsOK', UNCHANGED <<house, member, torn>>
    PROVE  TypeOK' /\ Aging
<1> DEFINE i == request[r].invitation
<1>1. CASE IsAddressedTo(i, request[r].user)
  <2> DEFINE row == [invitation[i] EXCEPT !.status = status]
  <2>1. invitation' = [invitation EXCEPT ![i] = row]
    BY <1>1 DEF UpdateInvitation, TypeOK
  <2>2. i \in Invitation /\ invitation[i] \in InvitationRow
    BY <1>1 DEF IsAddressedTo, IsRow, TypeOK
  <2>3. /\ row \in InvitationRow
        /\ row.house = invitation[i].house /\ row.sender = invitation[i].sender
        /\ row.receiver = invitation[i].receiver /\ row.status = status
    BY <2>2 DEF InvitationRow, Status
  <2> HIDE DEF row
  <2>4. TypeOK'
    BY <2>1, <2>3 DEF TypeOK, CallsOK
  <2>5. Aging
    BY <2>1, <2>3, NullNotRow DEF TypeOK, Aging, HasRow
  <2> QED BY <2>4, <2>5
<1>2. CASE ~IsAddressedTo(i, request[r].user)
  BY <1>2, ReadOnly DEF UpdateInvitation, db
<1> QED BY <1>1, <1>2

LEMMA AcceptType ==
    ASSUME TypeOK, NEW r \in Request, Fact(r), Accept(r)
    PROVE  TypeOK' /\ Aging
<1>1. CASE AcceptFind(r)
  <2>1. CASE AcceptFound(r)
    <3>1. PICK i \in FoundById(request[r].invitation) :
            request' = [request EXCEPT ![r].step = "acceptHouse",
                                       ![r].house = invitation[i].house]
      BY <2>1 DEF AcceptFound
    <3> DEFINE h == invitation[i].house
               call == [request[r] EXCEPT !.step = "acceptHouse", !.house = h]
    <3>2. request' = [request EXCEPT ![r] = call]
      BY <3>1 DEF TypeOK
    <3>3. request[r] \in Call /\ Filled(request[r]) /\ request[r].step = "acceptFind"
      BY <1>1 DEF AcceptFind, At, TypeOK
    <3>4. h \in House
      BY <3>1 DEF FoundById, IsRow, TypeOK, InvitationRow
    <3>5. call \in Call
      BY <3>3, <3>4 DEF Call, Steps, AcceptSteps
    <3>6. Filled(call)
      BY <3>3, <3>4 DEF Filled, Call, InviteSteps, AcceptSteps, RemoveSteps, DeleteSteps
    <3> HIDE DEF call
    <3>7. CallsOK'
      BY <3>2, <3>5, <3>6, CallType
    <3> QED BY <1>1, <3>7, ReadOnly DEF AcceptFind
  <2>2. CASE AcceptRefused(r)
    BY <1>1, <2>2, FinishType, ReadOnly DEF AcceptFind, AcceptRefused
  <2> QED BY <1>1, <2>1, <2>2 DEF AcceptFind
<1>2. CASE AcceptHouse(r)
  BY <1>2, CheckType DEF AcceptHouse, AcceptSteps, LiveHouse
<1>3. CASE AcceptMember(r)
  BY <1>3, CheckType DEF AcceptMember, AcceptSteps, LiveMember
<1>4. CASE AcceptUpdate(r)
  <2>1. CallsOK'
    BY <1>4, GotoType DEF AcceptUpdate, At, AcceptSteps
  <2> QED BY <1>4, <2>1, UpdateType DEF AcceptUpdate
<1>5. CASE AcceptSave(r)
  <2> DEFINE h == request[r].house
             u == request[r].user
             row == [role |-> "Member", deleted |-> FALSE]
  <2>1. h \in House /\ u \in User
    BY <1>5 DEF AcceptSave, At, TypeOK, Filled, AcceptSteps
  <2>2. CallsOK' /\ UNCHANGED <<house, invitation, torn>>
    BY <1>5, FinishType DEF AcceptSave
  <2>3. row \in MemberRow
    BY DEF MemberRow, Role
  <2>4. CASE UniqueIndexFree(h, u)
    <3>1. member' = [member EXCEPT ![h][u] = row]
      BY <1>5, <2>4 DEF AcceptSave
    <3> HIDE DEF row
    <3>2. TypeOK'
      BY <2>1, <2>2, <2>3, <3>1 DEF TypeOK, CallsOK
    <3>3. Aging
      BY <2>1, <2>2, <2>4, <3>1 DEF TypeOK, Aging, HasRow, UniqueIndexFree
    <3> QED BY <3>2, <3>3
  <2>5. CASE ~UniqueIndexFree(h, u)
    BY <1>5, <2>2, <2>5, ReadOnly DEF AcceptSave, db
  <2> QED BY <2>4, <2>5
<1> QED BY <1>1, <1>2, <1>3, <1>4, <1>5 DEF Accept

LEMMA DeclineType ==
    ASSUME TypeOK, NEW r \in Request, DeclineUpdate(r)
    PROVE  TypeOK' /\ Aging
<1>1. CallsOK' /\ UNCHANGED <<house, member, torn>>
  BY FinishType DEF DeclineUpdate
<1>2. CASE "declined" \in StatusColumn
  BY <1>1, <1>2, UpdateType DEF DeclineUpdate
<1>3. CASE "declined" \notin StatusColumn
  BY <1>1, <1>3, ReadOnly DEF DeclineUpdate, db
<1> QED BY <1>2, <1>3

LEMMA DeletedRow ==
    ASSUME NEW row \in MemberRow
    PROVE  /\ [row EXCEPT !.deleted = TRUE] \in MemberRow
           /\ [row EXCEPT !.deleted = TRUE].role = row.role
           /\ [row EXCEPT !.deleted = TRUE].deleted = TRUE
BY DEF MemberRow

LEMMA RemoveType ==
    ASSUME TypeOK, NEW r \in Request, Fact(r), Remove(r)
    PROVE  TypeOK' /\ Aging
<1> DEFINE h == request[r].house
           u == request[r].other
<1>1. CASE RemoveAsAdmin(r) \/ RemoveAsMember(r)
  <2>1. PICK step \in {"removeAsMember", "removeTarget"}, allowed \in BOOLEAN :
            request' = [request EXCEPT ![r].step = step, ![r].allowed = allowed]
    <3>1. request[r].allowed \in BOOLEAN
      BY DEF TypeOK, Call
    <3> QED BY <1>1, <3>1 DEF RemoveAsAdmin, RemoveAsMember, LiveAs, LiveMember
  <2> DEFINE call == [request[r] EXCEPT !.step = step, !.allowed = allowed]
  <2>2. request' = [request EXCEPT ![r] = call]
    BY <2>1 DEF TypeOK
  <2>3. /\ request[r] \in Call /\ Filled(request[r])
        /\ request[r].step \in RemoveSteps /\ step \in RemoveSteps
    BY <1>1 DEF RemoveAsAdmin, RemoveAsMember, At, TypeOK, RemoveSteps
  <2>4. call \in Call
    BY <2>3 DEF Call, Steps
  <2>5. Filled(call)
    BY <2>3 DEF Filled, Call, InviteSteps, AcceptSteps, RemoveSteps, DeleteSteps
  <2> HIDE DEF call
  <2>6. CallsOK'
    BY <2>2, <2>4, <2>5, CallType
  <2> QED BY <1>1, <2>6, ReadOnly DEF RemoveAsAdmin, RemoveAsMember
<1>2. CASE RemoveTarget(r)
  <2>1. (LiveMember(h, u) /\ request[r].allowed) \in BOOLEAN
    OBVIOUS
  <2> QED BY <1>2, <2>1, CheckType DEF RemoveTarget, RemoveSteps
<1>3. CASE RemoveSave(r)
  <2>1. h \in House /\ u \in User /\ HasRow(h, u)
    BY <1>3 DEF RemoveSave, At, TypeOK, Filled, RemoveSteps, Fact, RemoveFact
  <2>2. CallsOK' /\ UNCHANGED <<house, invitation, torn>>
    BY <1>3, FinishType DEF RemoveSave
  <2> DEFINE row == [member[h][u] EXCEPT !.deleted = TRUE]
  <2>3. member' = [member EXCEPT ![h][u] = row]
    BY <1>3, <2>1 DEF RemoveSave, TypeOK
  <2>4. row \in MemberRow /\ row.role = member[h][u].role /\ row.deleted = TRUE
    <3>1. member[h][u] \in MemberRow
      BY <2>1 DEF TypeOK, HasRow
    <3> QED BY <3>1, DeletedRow
  <2> HIDE DEF row
  <2>5. TypeOK'
    BY <2>1, <2>2, <2>3, <2>4 DEF TypeOK, CallsOK
  <2>6. Aging
    BY <2>1, <2>2, <2>3, <2>4, NullNotRow DEF TypeOK, Aging, HasRow
  <2> QED BY <2>5, <2>6
<1> QED BY <1>1, <1>2, <1>3 DEF Remove

LEMMA DeleteType ==
    ASSUME TypeOK, NEW r \in Request, Fact(r), Delete(r)
    PROVE  TypeOK' /\ Aging
<1> DEFINE h == request[r].house
<1>1. CASE DeleteValidHouse(r)
  BY <1>1, CheckType DEF DeleteValidHouse, DeleteSteps, LiveHouse
<1>2. CASE DeleteValidMember(r)
  BY <1>2, CheckType DEF DeleteValidMember, DeleteSteps, LiveMember
<1>3. CASE DeleteLoad(r)
  <2>1. CASE LiveHouse(h)
    <3> DEFINE loaded == Members(h)
               call == [request[r] EXCEPT !.step = "deleteSave", !.loaded = loaded]
    <3>1. request' = [request EXCEPT ![r] = call]
      BY <1>3, <2>1 DEF DeleteLoad, TypeOK
    <3>2. request[r] \in Call /\ Filled(request[r]) /\ request[r].step = "deleteLoad"
      BY <1>3 DEF DeleteLoad, At, TypeOK
    <3>3. loaded \in SUBSET User
      BY DEF Members
    <3> HIDE DEF loaded
    <3>4. call \in Call
      BY <3>2, <3>3 DEF Call, Steps, DeleteSteps
    <3>5. Filled(call)
      BY <3>2 DEF Filled, Call, InviteSteps, AcceptSteps, RemoveSteps, DeleteSteps
    <3> HIDE DEF call
    <3>6. CallsOK'
      BY <3>1, <3>4, <3>5, CallType
    <3> QED BY <1>3, <3>6, ReadOnly DEF DeleteLoad
  <2>2. CASE ~LiveHouse(h)
    BY <1>3, <2>2, FinishType, ReadOnly DEF DeleteLoad
  <2> QED BY <2>1, <2>2
<1>4. CASE DeleteSave(r)
  <2> DEFINE loaded == request[r].loaded
  <2>1. h \in House /\ loaded \subseteq User /\ \A u \in loaded : HasRow(h, u)
    BY <1>4 DEF DeleteSave, At, TypeOK, Filled, Call, DeleteSteps, Fact, DeleteFact
  <2>2. CallsOK' /\ UNCHANGED <<invitation, torn>>
    BY <1>4, FinishType DEF DeleteSave
  <2>3. house' = [house EXCEPT ![h] = "deleted"]
    BY <1>4 DEF DeleteSave
  <2> DEFINE rows == [u \in User |-> IF u \in loaded
                                     THEN [member[h][u] EXCEPT !.deleted = TRUE]
                                     ELSE member[h][u]]
  <2>4. member' = [member EXCEPT ![h] = rows]
    BY <1>4, <2>1 DEF DeleteSave, Cascade, TypeOK
  <2>5. \A u \in User : rows[u] \in MemberRow \cup {NULL}
    BY <2>1, DeletedRow DEF TypeOK, HasRow
  <2>6. \A u \in User : HasRow(h, u) =>
            /\ rows[u] # NULL
            /\ rows[u].role = member[h][u].role
            /\ member[h][u].deleted => rows[u].deleted
    <3> SUFFICES ASSUME NEW u \in User, HasRow(h, u)
                 PROVE  /\ rows[u] # NULL
                        /\ rows[u].role = member[h][u].role
                        /\ member[h][u].deleted => rows[u].deleted
      OBVIOUS
    <3>1. member[h][u] \in MemberRow
      BY <2>1 DEF TypeOK, HasRow
    <3> QED BY <3>1, DeletedRow, NullNotRow
  <2>7. rows \in [User -> MemberRow \cup {NULL}]
    BY <2>5
  <2> HIDE DEF rows
  <2>8. TypeOK'
    BY <2>1, <2>2, <2>3, <2>4, <2>7 DEF TypeOK, CallsOK
  <2>9. Aging
    BY <2>1, <2>2, <2>3, <2>4, <2>6 DEF TypeOK, Aging, HasRow
  <2> QED BY <2>8, <2>9
<1>5. CASE DeleteRefused(r)
  BY <1>5, FinishType, ReadOnly DEF DeleteRefused
<1> QED BY <1>1, <1>2, <1>3, <1>4, <1>5 DEF Delete

LEMMA InterruptType ==
    ASSUME TypeOK, NEW r \in Request, Interrupt(r)
    PROVE  TypeOK' /\ Aging
<1>1. CallsOK' /\ UNCHANGED db
  BY FinishType DEF Interrupt
<1>2. torn' \subseteq Invitation
  BY DEF Interrupt, TypeOK, Call
<1> QED BY <1>1, <1>2 DEF TypeOK, CallsOK, db, Aging, HasRow, Filled

LEMMA StutterType ==
    ASSUME TypeOK, UNCHANGED vars
    PROVE  TypeOK' /\ Aging
BY DEF vars, TypeOK, Aging, HasRow, Filled

LEMMA NextType ==
    ASSUME TypeOK, OneFounder, \A r \in Request : Fact(r), [Next]_vars
    PROVE  TypeOK' /\ Aging
BY CreateNewHouseType, ArriveType, InviteType, AcceptType, DeclineType, RemoveType,
   DeleteType, InterruptType, StutterType DEF Next, Proceed

-----------------------------------------------------------------------------
(* What a call knows of the tables.                                        *)

LEMMA LetsInKept ==
    ASSUME Aging, NEW r \in Request, NEW i \in Invitation, LetsIn(i, r),
           request'[r].user = request[r].user, request'[r].house = request[r].house,
           request'[r].invitation = request[r].invitation
    PROVE  LetsIn(i, r)'
BY DEF LetsIn, IsAddressedTo, IsRow, Aging

LEMMA FactKept ==
    ASSUME TypeOK, Aging, NEW r \in Request, Fact(r), request'[r] = request[r]
    PROVE  Fact(r)'
<1> USE DEF HasRow
<1>1. request[r] \in Call /\ Filled(request[r])
  BY DEF TypeOK
<1>2. InviteFact(r)'
  BY <1>1 DEF Fact, InviteFact, Aging, Filled, InviteSteps
<1>3. AcceptFact(r)'
  BY <1>1, LetsInKept DEF Fact, AcceptFact, Aging, Filled, AcceptSteps
<1>4. RemoveFact(r)'
  BY <1>1 DEF Fact, RemoveFact, Aging, Filled, RemoveSteps
<1>5. DeleteFact(r)'
  BY <1>1 DEF Fact, DeleteFact, Aging, Filled, Call, DeleteSteps
<1> QED BY <1>2, <1>3, <1>4, <1>5 DEF Fact

LEMMA FactFree ==
    ASSUME NEW r \in Request,
           request'[r].step \in {"idle", "inviteSender", "acceptFind", "declineUpdate",
                                 "removeAsAdmin", "removeAsMember", "removeTarget",
                                 "deleteValidHouse", "deleteValidMember", "deleteLoad"}
    PROVE  Fact(r)'
BY DEF Fact, InviteFact, AcceptFact, RemoveFact, DeleteFact, InviteSteps, AcceptSteps

LEMMA FactFinish ==
    ASSUME TypeOK, NEW r \in Request, Finish(r)
    PROVE  Fact(r)'
BY FactFree DEF TypeOK, Finish, Idle

LEMMA FactArrive ==
    ASSUME TypeOK, NEW r \in Request, Arrive(r)
    PROVE  Fact(r)'
<1>1. request'[r].step \in {"inviteSender", "acceptFind", "declineUpdate",
                            "removeAsAdmin", "deleteValidHouse"}
  BY DEF Arrive, BeginInvite, BeginAccept, BeginDecline, BeginRemove, BeginDelete,
         Begin, Idle, TypeOK
<1> QED BY <1>1, FactFree

LEMMA FactInvite ==
    ASSUME TypeOK, NEW r \in Request, Fact(r), Invite(r)
    PROVE  Fact(r)'
<1>1. CASE Finish(r)
  BY <1>1, FactFinish
<1>2. CASE ~Finish(r)
  <2>1. /\ UNCHANGED member
        /\ request'[r].step \in InviteSteps
        /\ request'[r].house = request[r].house /\ request'[r].user = request[r].user
        /\ HasRow(request[r].house, request[r].user)
    BY <1>2 DEF Invite, InviteSender, InviteHouse, InviteReceiver, InvitePending, InviteSave,
                Check, At, Goto, db, TypeOK, Call, Fact, InviteFact, LiveMember, InviteSteps
  <2> QED BY <2>1 DEF Fact, InviteFact, AcceptFact, RemoveFact, DeleteFact, HasRow,
                      InviteSteps, AcceptSteps
<1> QED BY <1>1, <1>2

LEMMA FactAccept ==
    ASSUME TypeOK, Aging, NEW r \in Request, Fact(r), Accept(r)
    PROVE  Fact(r)'
<1>1. CASE Finish(r)
  BY <1>1, FactFinish
<1>2. CASE AcceptFind(r) /\ ~Finish(r)
  <2>1. PICK i \in FoundById(request[r].invitation) :
            /\ IsAddressedTo(i, request[r].user)
            /\ request' = [request EXCEPT ![r].step = "acceptHouse",
                                          ![r].house = invitation[i].house]
    BY <1>2 DEF AcceptFind, AcceptFound, AcceptRefused
  <2>2. /\ i \in Invitation /\ request[r].invitation \in {i, NULL} /\ UNCHANGED invitation
        /\ request'[r].step = "acceptHouse" /\ request'[r].house = invitation[i].house
        /\ request'[r].invitation = request[r].invitation /\ request'[r].user = request[r].user
    BY <1>2, <2>1 DEF AcceptFind, FoundById, db, TypeOK, Call
  <2>3. LetsIn(i, r)'
    BY <2>1, <2>2 DEF LetsIn, IsAddressedTo, IsRow
  <2> QED BY <2>2, <2>3 DEF Fact, InviteFact, AcceptFact, RemoveFact, DeleteFact, InviteSteps
<1>3. CASE (AcceptHouse(r) \/ AcceptMember(r) \/ AcceptUpdate(r)) /\ ~Finish(r)
  <2>1. /\ request'[r].step \in {"acceptMember", "acceptUpdate", "acceptSave"}
        /\ request'[r].house = request[r].house /\ UNCHANGED house
        /\ request'[r].invitation = request[r].invitation /\ request'[r].user = request[r].user
        /\ request[r].step \in AcceptSteps \ {"acceptFind"}
        /\ house[request[r].house] # "unused"
    BY <1>3 DEF AcceptHouse, AcceptMember, AcceptUpdate, Check, At, Goto, db, TypeOK, Call,
                Fact, AcceptFact, LiveHouse, AcceptSteps
  <2>2. \E i \in Invitation : LetsIn(i, r)'
    BY <2>1, LetsInKept DEF Fact, AcceptFact
  <2> QED BY <2>1, <2>2 DEF Fact, InviteFact, AcceptFact, RemoveFact, DeleteFact, InviteSteps
<1>4. CASE AcceptSave(r)
  BY <1>1, <1>4 DEF AcceptSave
<1> QED BY <1>1, <1>2, <1>3, <1>4 DEF Accept

LEMMA FactRemove ==
    ASSUME TypeOK, NEW r \in Request, Remove(r)
    PROVE  Fact(r)'
<1>1. CASE Finish(r)
  BY <1>1, FactFinish
<1>2. CASE RemoveAsAdmin(r) \/ RemoveAsMember(r)
  <2>1. request'[r].step \in {"removeAsMember", "removeTarget"}
    BY <1>2 DEF RemoveAsAdmin, RemoveAsMember, TypeOK, Call
  <2> QED BY <2>1, FactFree
<1>3. CASE RemoveTarget(r) /\ ~Finish(r)
  <2>1. /\ request'[r].step = "removeSave" /\ UNCHANGED member
        /\ request'[r].house = request[r].house /\ request'[r].other = request[r].other
        /\ HasRow(request[r].house, request[r].other)
    BY <1>3 DEF RemoveTarget, Check, Goto, db, TypeOK, Call, LiveMember
  <2> QED BY <2>1 DEF Fact, InviteFact, AcceptFact, RemoveFact, DeleteFact, HasRow,
                      InviteSteps, AcceptSteps
<1> QED BY <1>1, <1>2, <1>3 DEF Remove, RemoveSave

LEMMA FactDelete ==
    ASSUME TypeOK, NEW r \in Request, Delete(r)
    PROVE  Fact(r)'
<1>1. CASE Finish(r)
  BY <1>1, FactFinish
<1>2. CASE (DeleteValidHouse(r) \/ DeleteValidMember(r)) /\ ~Finish(r)
  <2>1. request'[r].step \in {"deleteValidMember", "deleteLoad"}
    BY <1>2 DEF DeleteValidHouse, DeleteValidMember, Check, Goto, TypeOK, Call
  <2> QED BY <2>1, FactFree
<1>3. CASE DeleteLoad(r) /\ ~Finish(r)
  <2>1. /\ request'[r].step = "deleteSave" /\ UNCHANGED <<house, member>>
        /\ request'[r].house = request[r].house
        /\ request'[r].loaded = Members(request[r].house)
        /\ LiveHouse(request[r].house)
    BY <1>3 DEF DeleteLoad, db, TypeOK, Call
  <2>2. \A u \in Members(request[r].house) : HasRow(request[r].house, u)
    BY DEF Members, LiveMember
  <2> QED BY <2>1, <2>2 DEF Fact, InviteFact, AcceptFact, RemoveFact, DeleteFact, HasRow,
                            LiveHouse, InviteSteps, AcceptSteps
<1> QED BY <1>1, <1>2, <1>3 DEF Delete, DeleteSave, DeleteRefused

\* A step of a call is a step of no other call.
LEMMA OthersWait ==
    ASSUME TypeOK, NEW r \in Request, Arrive(r) \/ Proceed(r) \/ Interrupt(r),
           NEW s \in Request, s # r
    PROVE  request'[s] = request[s]
<1> USE DEF TypeOK, Check, Begin, Goto, Finish
<1>1. CASE Arrive(r)
  BY <1>1 DEF Arrive, BeginInvite, BeginAccept, BeginDecline, BeginRemove, BeginDelete
<1>2. CASE Invite(r)
  BY <1>2 DEF Invite, InviteSender, InviteHouse, InviteReceiver, InvitePending, InviteSave
<1>3. CASE Accept(r)
  BY <1>3 DEF Accept, AcceptFind, AcceptFound, AcceptRefused, AcceptHouse, AcceptMember,
              AcceptUpdate, AcceptSave
<1>4. CASE DeclineUpdate(r) \/ Interrupt(r)
  BY <1>4 DEF DeclineUpdate, Interrupt
<1>5. CASE Remove(r)
  BY <1>5 DEF Remove, RemoveAsAdmin, RemoveAsMember, RemoveTarget, RemoveSave
<1>6. CASE Delete(r)
  BY <1>6 DEF Delete, DeleteValidHouse, DeleteValidMember, DeleteLoad, DeleteSave,
              DeleteRefused
<1> QED BY <1>1, <1>2, <1>3, <1>4, <1>5, <1>6 DEF Proceed

LEMMA FactNext ==
    ASSUME TypeOK, Aging, \A r \in Request : Fact(r), [Next]_vars
    PROVE  (\A r \in Request : Fact(r))'
<1> SUFFICES ASSUME NEW s \in Request PROVE Fact(s)'
  BY DEF Fact
<1>1. CASE UNCHANGED request
  BY <1>1, FactKept
<1>2. ASSUME NEW r \in Request, Arrive(r) \/ Proceed(r) \/ Interrupt(r)
      PROVE  Fact(s)'
  <2>1. CASE s = r
    <3>1. CASE DeclineUpdate(r) \/ Interrupt(r)
      BY <2>1, <3>1, FactFinish DEF DeclineUpdate, Interrupt
    <3> QED BY <1>2, <2>1, <3>1, FactArrive, FactInvite, FactAccept, FactRemove, FactDelete
            DEF Proceed
  <2>2. CASE s # r
    BY <1>2, <2>2, OthersWait, FactKept
  <2> QED BY <2>1, <2>2
<1>3. CASE \E u \in User : CreateNewHouse(u)
  BY <1>1, <1>3 DEF CreateNewHouse
<1> QED BY <1>1, <1>2, <1>3 DEF Next, vars

-----------------------------------------------------------------------------
(* Which steps write rows, and the founder.                                *)

LEMMA RowsOfCreate ==
    ASSUME TypeOK, OneFounder, NEW u \in User, CreateNewHouse(u)
    PROVE  \E h \in House :
            /\ house[h] = "unused" /\ house'[h] = "live"
            /\ Founders(h)' = {u}
            /\ \A v \in User : HasRow(h, v)' <=> v = u
            /\ \A g \in House \ {h} : house'[g] = house[g] /\ member'[g] = member[g]
<1>1. PICK h \in House :
        /\ house[h] = "unused"
        /\ house' = [house EXCEPT ![h] = "live"]
        /\ member' = [member EXCEPT ![h][u] = [role |-> "Admin", deleted |-> FALSE]]
  BY DEF CreateNewHouse
<1>2. [role |-> "Admin", deleted |-> FALSE] \in MemberRow
  BY DEF MemberRow, Role
<1>3. \A v \in User : member[h][v] = NULL
  BY <1>1 DEF OneFounder, HasRow
<1>4. \A v \in User : HasRow(h, v)' <=> v = u
  BY <1>1, <1>2, <1>3, NullNotRow DEF TypeOK, HasRow
<1>5. member'[h][u].role = "Admin"
  BY <1>1 DEF TypeOK
<1>6. Founders(h)' = {u}
  BY <1>4, <1>5 DEF Founders
<1> QED BY <1>1, <1>4, <1>6 DEF TypeOK

LEMMA RowsOfSave ==
    ASSUME TypeOK, NEW r \in Request, Fact(r), AcceptSave(r)
    PROVE  /\ UNCHANGED <<house, invitation>>
           /\ request[r].house \in House /\ request[r].user \in User
           /\ \A h \in House, u \in User :
                HasRow(h, u)' <=> HasRow(h, u) \/ (h = request[r].house /\ u = request[r].user)
           /\ \A h \in House : Founders(h)' = Founders(h)
<1> DEFINE h == request[r].house
           u == request[r].user
           row == [role |-> "Member", deleted |-> FALSE]
<1>1. h \in House /\ u \in User /\ UNCHANGED <<house, invitation>>
  BY DEF AcceptSave, At, TypeOK, Filled, AcceptSteps
<1>2. row \in MemberRow /\ row.role # "Admin"
  BY DEF MemberRow, Role
<1> HIDE DEF row
<1>3. CASE UniqueIndexFree(h, u)
  <2>1. member' = [member EXCEPT ![h][u] = row]
    BY <1>3 DEF AcceptSave, row
  <2>2. \A g \in House, v \in User :
            member'[g][v] = IF g = h /\ v = u THEN row ELSE member[g][v]
    BY <1>1, <2>1 DEF TypeOK
  <2> QED BY <1>1, <1>2, <1>3, <2>2, NullNotRow DEF HasRow, Founders, UniqueIndexFree
<1>4. CASE ~UniqueIndexFree(h, u)
  BY <1>1, <1>4 DEF AcceptSave, HasRow, Founders, UniqueIndexFree
<1> QED BY <1>3, <1>4

\* House and houseMember are written by a creation and by three statements of calls.
LEMMA RowWriters ==
    ASSUME NEW r \in Request, Arrive(r) \/ Proceed(r) \/ Interrupt(r),
           ~AcceptSave(r), ~RemoveSave(r), ~DeleteSave(r)
    PROVE  UNCHANGED <<house, member>>
<1>1. CASE Arrive(r)
  BY <1>1 DEF Arrive, BeginInvite, BeginAccept, BeginDecline, BeginRemove, BeginDelete, db
<1>2. CASE Invite(r)
  BY <1>2 DEF Invite, InviteSender, InviteHouse, InviteReceiver, InvitePending, InviteSave,
              Check, db
<1>3. CASE Accept(r)
  BY <1>3 DEF Accept, AcceptFind, AcceptHouse, AcceptMember, AcceptUpdate, Check, db
<1>4. CASE DeclineUpdate(r) \/ Interrupt(r)
  BY <1>4 DEF DeclineUpdate, Interrupt, db
<1>5. CASE Remove(r)
  BY <1>5 DEF Remove, RemoveAsAdmin, RemoveAsMember, RemoveTarget, Check, db
<1>6. CASE Delete(r)
  BY <1>6 DEF Delete, DeleteValidHouse, DeleteValidMember, DeleteLoad, DeleteRefused,
              Check, db
<1> QED BY <1>1, <1>2, <1>3, <1>4, <1>5, <1>6 DEF Proceed

LEMMA RowsOfOthers ==
    ASSUME TypeOK, Aging, NEW r \in Request, Fact(r),
           Arrive(r) \/ Proceed(r) \/ Interrupt(r), ~AcceptSave(r)
    PROVE  \A h \in House :
            /\ house'[h] = "unused" <=> house[h] = "unused"
            /\ \A u \in User : HasRow(h, u)' <=> HasRow(h, u)
            /\ Founders(h)' = Founders(h)
<1>1. CASE UNCHANGED <<house, member>>
  BY <1>1 DEF HasRow, Founders
<1>2. CASE RemoveSave(r) \/ DeleteSave(r)
  <2>1. \A h \in House : house'[h] = "unused" <=> house[h] = "unused"
    BY <1>2 DEF RemoveSave, DeleteSave, At, TypeOK, Fact, DeleteFact
  <2>2. \A h \in House, u \in User : HasRow(h, u)' => HasRow(h, u)
    <3>1. CASE RemoveSave(r)
      <4>1. HasRow(request[r].house, request[r].other)
        BY <3>1 DEF RemoveSave, At, Fact, RemoveFact
      <4> QED BY <3>1, <4>1 DEF RemoveSave, TypeOK, HasRow
    <3>2. CASE DeleteSave(r)
      <4>1. \A u \in request[r].loaded : HasRow(request[r].house, u)
        BY <3>2 DEF DeleteSave, At, Fact, DeleteFact
      <4>2. request[r].house \in House
        BY <3>2 DEF DeleteSave, At, TypeOK, Filled, DeleteSteps
      <4> QED BY <3>2, <4>1, <4>2 DEF DeleteSave, Cascade, TypeOK, HasRow
    <3> QED BY <1>2, <3>1, <3>2
  <2>3. \A h \in House, u \in User :
            HasRow(h, u) => HasRow(h, u)' /\ member'[h][u].role = member[h][u].role
    BY DEF Aging, HasRow
  <2>4. \A h \in House : Founders(h)' = Founders(h)
    BY <2>2, <2>3 DEF Founders
  <2> QED BY <2>1, <2>2, <2>3, <2>4
<1> QED BY <1>1, <1>2, RowWriters

LEMMA FounderNext ==
    ASSUME TypeOK, Aging, OneFounder, \A r \in Request : Fact(r), [Next]_vars
    PROVE  OneFounder'
<1>1. ASSUME NEW u \in User, CreateNewHouse(u) PROVE OneFounder'
  BY <1>1, RowsOfCreate DEF OneFounder, Founders, HasRow
<1>2. ASSUME NEW r \in Request, AcceptSave(r) PROVE OneFounder'
  <2>1. house[request[r].house] # "unused"
    BY <1>2 DEF AcceptSave, At, Fact, AcceptFact
  <2> QED BY <1>2, <2>1, RowsOfSave DEF OneFounder
<1>3. ASSUME NEW r \in Request, Arrive(r) \/ Proceed(r) \/ Interrupt(r), ~AcceptSave(r)
      PROVE  OneFounder'
  BY <1>3, RowsOfOthers DEF OneFounder
<1>4. CASE UNCHANGED vars
  BY <1>4 DEF vars, OneFounder, Founders, HasRow
<1> QED BY <1>1, <1>2, <1>3, <1>4 DEF Next

-----------------------------------------------------------------------------
(* Which steps write invitations.                                          *)

LEMMA InvitationNext ==
    ASSUME TypeOK, [Next]_vars, NEW i \in Invitation
    PROVE  \/ UNCHANGED invitation[i]
           \/ \E r \in Request :
                /\ InviteSave(r) /\ request[r].step = "inviteSave"
                /\ UNCHANGED member
                /\ invitation[i] = NULL
                /\ invitation'[i] = [house |-> request[r].house, sender |-> request[r].user,
                                     receiver |-> request[r].other, status |-> "pending"]
           \/ \E r \in Request :
                /\ AcceptUpdate(r) \/ DeclineUpdate(r)
                /\ request[r].invitation = i
                /\ invitation[i] # NULL /\ invitation'[i] # NULL
                /\ invitation'[i].status = IF AcceptUpdate(r) THEN "accepted" ELSE "declined"
<1>1. ASSUME NEW r \in Request, InviteSave(r)
      PROVE  \/ UNCHANGED invitation[i]
             \/ /\ request[r].step = "inviteSave" /\ UNCHANGED member /\ invitation[i] = NULL
                /\ invitation'[i] = [house |-> request[r].house, sender |-> request[r].user,
                                     receiver |-> request[r].other, status |-> "pending"]
  BY <1>1 DEF InviteSave, At, TypeOK
<1>2. ASSUME NEW r \in Request, AcceptUpdate(r)
      PROVE  UNCHANGED invitation[i]
                \/ /\ request[r].invitation = i /\ invitation'[i].status = "accepted"
                   /\ invitation[i] # NULL /\ invitation'[i] # NULL
  <2>1. CASE IsAddressedTo(request[r].invitation, request[r].user)
    <3>1. /\ request[r].invitation \in Invitation
          /\ invitation[request[r].invitation] \in InvitationRow
      BY <2>1 DEF IsAddressedTo, IsRow, TypeOK
    <3>2. /\ [invitation[request[r].invitation] EXCEPT !.status = "accepted"] \in InvitationRow
          /\ [invitation[request[r].invitation] EXCEPT !.status = "accepted"].status = "accepted"
      BY <3>1 DEF InvitationRow, Status
    <3> QED BY <1>2, <2>1, <3>1, <3>2, NullNotRow
            DEF AcceptUpdate, UpdateInvitation, IsAddressedTo, IsRow, TypeOK
  <2>2. CASE ~IsAddressedTo(request[r].invitation, request[r].user)
    BY <1>2, <2>2 DEF AcceptUpdate, UpdateInvitation
  <2> QED BY <2>1, <2>2
<1>3. ASSUME NEW r \in Request, DeclineUpdate(r)
      PROVE  UNCHANGED invitation[i]
                \/ /\ request[r].invitation = i /\ invitation'[i].status = "declined"
                   /\ invitation[i] # NULL /\ invitation'[i] # NULL
  <2>1. CASE IsAddressedTo(request[r].invitation, request[r].user)
    <3>1. /\ request[r].invitation \in Invitation
          /\ invitation[request[r].invitation] \in InvitationRow
      BY <2>1 DEF IsAddressedTo, IsRow, TypeOK
    <3>2. /\ [invitation[request[r].invitation] EXCEPT !.status = "declined"] \in InvitationRow
          /\ [invitation[request[r].invitation] EXCEPT !.status = "declined"].status = "declined"
      BY <3>1 DEF InvitationRow, Status
    <3> QED BY <1>3, <2>1, <3>1, <3>2, NullNotRow
            DEF DeclineUpdate, UpdateInvitation, IsAddressedTo, IsRow, TypeOK
  <2>2. CASE ~IsAddressedTo(request[r].invitation, request[r].user)
    BY <1>3, <2>2 DEF DeclineUpdate, UpdateInvitation
  <2> QED BY <2>1, <2>2
<1>4. \A r \in Request : ~(AcceptUpdate(r) /\ DeclineUpdate(r))
  BY DEF AcceptUpdate, DeclineUpdate, At
<1>5. ASSUME NEW r \in Request, Arrive(r) \/ Remove(r) \/ Delete(r) \/ Interrupt(r)
                                \/ (Invite(r) /\ ~InviteSave(r))
                                \/ (Accept(r) /\ ~AcceptUpdate(r))
      PROVE  UNCHANGED invitation
  BY <1>5 DEF Arrive, BeginInvite, BeginAccept, BeginDecline, BeginRemove, BeginDelete,
        Remove, RemoveAsAdmin, RemoveAsMember, RemoveTarget, RemoveSave,
        Delete, DeleteValidHouse, DeleteValidMember, DeleteLoad, DeleteSave, DeleteRefused,
        Interrupt, Invite, InviteSender, InviteHouse, InviteReceiver, InvitePending,
        Accept, AcceptFind, AcceptHouse, AcceptMember, AcceptSave, Check, db
<1>6. (\E u \in User : CreateNewHouse(u)) \/ UNCHANGED vars => UNCHANGED invitation
  BY DEF CreateNewHouse, vars
<1> QED BY <1>1, <1>2, <1>3, <1>4, <1>5, <1>6 DEF Next, Proceed

LEMMA SenderNext ==
    ASSUME TypeOK, Aging, SenderFact, \A r \in Request : Fact(r), [Next]_vars
    PROVE  SenderFact'
<1> SUFFICES ASSUME NEW i \in Invitation, invitation'[i] # NULL
             PROVE  HasRow(invitation[i].house, invitation[i].sender)'
  BY DEF SenderFact
<1>1. CASE invitation[i] # NULL
  <2>1. invitation[i] \in InvitationRow
    BY <1>1 DEF TypeOK
  <2>2. invitation[i].house \in House /\ invitation[i].sender \in User
    BY <2>1 DEF InvitationRow
  <2> QED BY <1>1, <2>2 DEF SenderFact, Aging, HasRow
<1>2. CASE invitation[i] = NULL
  <2>1. PICK r \in Request :
            /\ request[r].step = "inviteSave"
            /\ UNCHANGED member
            /\ invitation'[i] = [house |-> request[r].house, sender |-> request[r].user,
                                 receiver |-> request[r].other, status |-> "pending"]
    BY <1>2, InvitationNext
  <2>2. HasRow(request[r].house, request[r].user)
    BY <2>1 DEF Fact, InviteFact, InviteSteps
  <2> QED BY <2>1, <2>2 DEF HasRow
<1> QED BY <1>1, <1>2

-----------------------------------------------------------------------------
(* The chain of invitations.                                               *)

\* A set that is closed under the invitations to a house after a step was so before
\* it: an invitation stays, with its sender and its receiver.
LEMMA ClosedBefore ==
    ASSUME TypeOK, Aging, NEW h \in House, NEW S,
           (\A i \in InvitationsTo(h) :
                invitation[i].sender \in S => invitation[i].receiver \in S)'
    PROVE  \A i \in InvitationsTo(h) :
                invitation[i].sender \in S => invitation[i].receiver \in S
BY DEF InvitationsTo, IsRow, Aging

LEMMA RootedNext ==
    ASSUME TypeOK, Aging, OneFounder, SenderFact, RootedInFounder,
           \A r \in Request : Fact(r), [Next]_vars
    PROVE  RootedInFounder'
<1> SUFFICES
        ASSUME NEW h \in House, NEW S \in SUBSET User,
               Founders(h)' \subseteq S,
               (\A i \in InvitationsTo(h) :
                    invitation[i].sender \in S => invitation[i].receiver \in S)',
               NEW u \in User, HasRow(h, u)'
        PROVE  u \in S
  BY DEF RootedInFounder, Founders, InvitationsTo, IsRow, HasRow
<1>1. \A i \in InvitationsTo(h) : invitation[i].sender \in S => invitation[i].receiver \in S
  BY ClosedBefore
<1>2. Founders(h) \subseteq S => \A v \in User : HasRow(h, v) => v \in S
  BY <1>1 DEF RootedInFounder
<1>3. ASSUME NEW v \in User, CreateNewHouse(v) PROVE u \in S
  <2>1. PICK g \in House :
            /\ Founders(g)' = {v}
            /\ \A w \in User : HasRow(g, w)' <=> w = v
            /\ \A f \in House \ {g} : house'[f] = house[f] /\ member'[f] = member[f]
    BY <1>3, RowsOfCreate
  <2>2. CASE g = h
    BY <2>1, <2>2
  <2>3. CASE g # h
    <3>1. member'[h] = member[h]
      BY <2>1, <2>3
    <3>2. Founders(h)' = Founders(h) /\ HasRow(h, u)
      BY <3>1 DEF Founders, HasRow
    <3> QED BY <1>2, <3>2
  <2> QED BY <2>2, <2>3
<1>4. ASSUME NEW r \in Request, AcceptSave(r) PROVE u \in S
  <2>1. CASE HasRow(h, u)
    BY <1>2, <1>4, <2>1, RowsOfSave
  <2>2. CASE ~HasRow(h, u)
    <3>1. h = request[r].house /\ u = request[r].user /\ Founders(h)' = Founders(h)
      BY <1>4, <2>2, RowsOfSave
    <3>2. PICK i \in Invitation :
            invitation[i] # NULL /\ invitation[i].receiver = u /\ invitation[i].house = h
      BY <1>4, <3>1 DEF AcceptSave, At, Fact, AcceptFact, LetsIn, IsAddressedTo, IsRow,
                        AcceptSteps
    <3>3. HasRow(h, invitation[i].sender) /\ invitation[i].sender \in User
      BY <3>2 DEF SenderFact, TypeOK, InvitationRow
    <3>4. invitation[i].sender \in S
      BY <1>2, <3>1, <3>3
    <3> QED BY <1>1, <3>2, <3>4 DEF InvitationsTo, IsRow
  <2> QED BY <2>1, <2>2
<1>5. ASSUME NEW r \in Request, Arrive(r) \/ Proceed(r) \/ Interrupt(r), ~AcceptSave(r)
      PROVE  u \in S
  BY <1>2, <1>5, RowsOfOthers
<1>6. CASE UNCHANGED vars
  BY <1>2, <1>6 DEF vars, Founders, HasRow
<1> QED BY <1>3, <1>4, <1>5, <1>6 DEF Next

-----------------------------------------------------------------------------
(* The two writes of an acceptance.                                        *)

\* A call that is between its two writes stays there, makes the second, or is
\* cut off and recorded.
LEMMA SavingNext ==
    ASSUME TypeOK, NEW r \in Request, At(r, "acceptSave"), request[r].invitation # NULL,
           [Next]_vars
    PROVE  \/ At(r, "acceptSave")' /\ request'[r].invitation = request[r].invitation
           \/ AcceptSave(r)
           \/ request[r].invitation \in torn'
<1>1. CASE UNCHANGED request
  BY <1>1 DEF At
<1>2. ASSUME NEW s \in Request, s # r, Arrive(s) \/ Proceed(s) \/ Interrupt(s)
      PROVE  At(r, "acceptSave")' /\ request'[r].invitation = request[r].invitation
  BY <1>2, OthersWait DEF At
<1>3. CASE Arrive(r)
  <2>1. request[r] = Idle
    BY <1>3 DEF Arrive, BeginInvite, BeginAccept, BeginDecline, BeginRemove, BeginDelete, Begin
  <2> QED BY <2>1 DEF At, Idle
<1>4. CASE Proceed(r) /\ ~AcceptSave(r)
  BY <1>4 DEF Proceed, Invite, InviteSender, InviteHouse, InviteReceiver, InvitePending,
        InviteSave, Accept, AcceptFind, AcceptHouse, AcceptMember, AcceptUpdate, DeclineUpdate,
        Remove, RemoveAsAdmin, RemoveAsMember, RemoveTarget, RemoveSave, Delete,
        DeleteValidHouse, DeleteValidMember, DeleteLoad, DeleteSave, DeleteRefused, Check, At
<1>5. CASE Interrupt(r)
  BY <1>5 DEF Interrupt, At
<1>6. (\E u \in User : CreateNewHouse(u)) \/ UNCHANGED vars => UNCHANGED request
  BY DEF CreateNewHouse, vars
<1> QED BY <1>1, <1>2, <1>3, <1>4, <1>5, <1>6 DEF Next

LEMMA TornGrows ==
    ASSUME [Next]_vars
    PROVE  torn \subseteq torn'
BY DEF Next, vars, CreateNewHouse, Arrive, BeginInvite, BeginAccept, BeginDecline, BeginRemove,
       BeginDelete, Proceed, Invite, InviteSender, InviteHouse, InviteReceiver, InvitePending,
       InviteSave, Accept, AcceptFind, AcceptHouse, AcceptMember, AcceptUpdate, AcceptSave,
       DeclineUpdate, Remove, RemoveAsAdmin, RemoveAsMember, RemoveTarget, RemoveSave, Delete,
       DeleteValidHouse, DeleteValidMember, DeleteLoad, DeleteSave, DeleteRefused, Interrupt,
       Check

LEMMA AcceptedNext ==
    ASSUME TypeOK, Aging, AcceptedHasRow, \A r \in Request : Fact(r), [Next]_vars
    PROVE  AcceptedHasRow'
<1> SUFFICES ASSUME NEW i \in Invitation, Accepted(i)'
             PROVE  HasJoined(i)' \/ InAcceptSave(i)' \/ i \in torn'
  BY DEF AcceptedHasRow
<1>1. CASE Accepted(i)
  <2>1. /\ invitation[i].house \in House /\ invitation[i].receiver \in User
        /\ invitation'[i].house = invitation[i].house
        /\ invitation'[i].receiver = invitation[i].receiver
    BY <1>1 DEF Accepted, TypeOK, InvitationRow, Aging
  <2>2. CASE HasJoined(i)
    BY <2>1, <2>2 DEF HasJoined, HasRow, Aging
  <2>3. CASE i \in torn
    BY <2>3, TornGrows
  <2>4. ASSUME NEW r \in Request, At(r, "acceptSave"), request[r].invitation = i
        PROVE  HasJoined(i)' \/ InAcceptSave(i)' \/ i \in torn'
    <3>1. CASE AcceptSave(r)
      <4>1. request[r].house = invitation[i].house /\ request[r].user = invitation[i].receiver
        BY <2>4, MembershipAssumption
           DEF At, Fact, AcceptFact, LetsIn, IsAddressedTo, AcceptSteps
      <4> QED BY <2>1, <3>1, <4>1, RowsOfSave DEF HasJoined, HasRow
    <3> QED BY <2>4, <3>1, SavingNext, MembershipAssumption DEF InAcceptSave
  <2> QED BY <1>1, <2>2, <2>3, <2>4 DEF AcceptedHasRow, InAcceptSave
<1>2. CASE ~Accepted(i)
  <2>1. invitation'[i] # invitation[i]
    BY <1>2 DEF Accepted
  <2>2. PICK r \in Request : AcceptUpdate(r) /\ request[r].invitation = i
    <3>1. invitation'[i] # NULL /\ invitation'[i].status = "accepted"
      BY DEF Accepted
    <3>2. CASE \E r \in Request :
                invitation'[i] = [house |-> request[r].house, sender |-> request[r].user,
                                  receiver |-> request[r].other, status |-> "pending"]
      <4>1. invitation'[i].status = "pending"
        BY <3>2
      <4> QED BY <3>1, <4>1
    <3>3. CASE \E r \in Request :
                /\ AcceptUpdate(r) \/ DeclineUpdate(r)
                /\ request[r].invitation = i
                /\ invitation'[i].status = IF AcceptUpdate(r) THEN "accepted" ELSE "declined"
      BY <3>1, <3>3
    <3> QED BY <2>1, <3>2, <3>3, InvitationNext
  <2>3. At(r, "acceptSave")' /\ request'[r].invitation = i
    BY <2>2 DEF AcceptUpdate, At, Goto, TypeOK, Call
  <2> QED BY <2>3 DEF InAcceptSave
<1> QED BY <1>1, <1>2

-----------------------------------------------------------------------------
(* The invariant.                                                          *)

LEMMA IInvInit == Init => IInv
<1> SUFFICES ASSUME Init PROVE IInv
  OBVIOUS
<1>1. TypeOK
  BY IdleType DEF Init, TypeOK
<1>2. \A h \in House, u \in User : ~HasRow(h, u)
  BY DEF Init, HasRow
<1>3. \A r \in Request : Fact(r)
  BY DEF Init, Idle, Fact, InviteFact, AcceptFact, RemoveFact, DeleteFact, InviteSteps,
         AcceptSteps
<1>4. SenderFact /\ AcceptedHasRow
  BY DEF Init, SenderFact, AcceptedHasRow, Accepted
<1>5. OneFounder /\ RootedInFounder
  BY <1>2 DEF Init, OneFounder, RootedInFounder
<1> QED BY <1>1, <1>3, <1>4, <1>5 DEF IInv

LEMMA IInvNext == IInv /\ [Next]_vars => IInv' /\ Aging
<1> SUFFICES ASSUME IInv, [Next]_vars PROVE IInv' /\ Aging
  OBVIOUS
<1> USE DEF IInv
<1>1. TypeOK' /\ Aging
  BY NextType
<1>2. (\A r \in Request : Fact(r))'
  BY <1>1, FactNext
<1>3. SenderFact' /\ OneFounder'
  BY <1>1, SenderNext, FounderNext
<1>4. RootedInFounder' /\ AcceptedHasRow'
  BY <1>1, RootedNext, AcceptedNext
<1> QED BY <1>1, <1>2, <1>3, <1>4

LEMMA Invariance == Spec => []IInv
BY IInvInit, IInvNext, PTL DEF Spec

\* The tables and the local variables of the calls keep their shape, and every
\* statement finds what it reads set.
THEOREM TypeCorrect == Spec => []TypeOK
BY Invariance, PTL DEF IInv

\* Every house that was ever created has one Admin row, its creator's.
THEOREM FounderCorrect == Spec => []OneFounder
BY Invariance, PTL DEF IInv

\* For any number of users, houses, invitations and concurrent calls: whoever has
\* a row in a house is linked to its founder by a chain of invitations.
THEOREM RootedCorrect == Spec => []RootedInFounder
BY Invariance, PTL DEF IInv

\* An accepted invitation without a row of its receiver is one whose call is
\* between its two writes, or was cut off there.
THEOREM AcceptedCorrect == Spec => []AcceptedHasRow
BY Invariance, PTL DEF IInv

\* No row and no house is brought back, and no role changes.
THEOREM AgingCorrect == Spec => RowsOnlyAge
<1>1. IInv /\ [Next]_vars =>
        [\A h \in House :
            /\ house[h] = "deleted" => house'[h] = "deleted"
            /\ \A u \in User : HasRow(h, u) =>
                /\ member'[h][u] # NULL
                /\ member'[h][u].role = member[h][u].role
                /\ member[h][u].deleted => member'[h][u].deleted]_vars
  BY IInvNext DEF Aging
<1> QED BY <1>1, Invariance, PTL DEF Spec, RowsOnlyAge

=============================================================================
