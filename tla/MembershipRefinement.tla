------------------------ MODULE MembershipRefinement ------------------------
(* Membership implements Roster, and what Chores and DetachedWrites take  *)
(* of it, for every value of the constants.                                *)
EXTENDS MembershipProofs

\* The values of Roster's variables in a state of Membership.
Open == {h \in House : house[h] = "live"}
Closed == {h \in House : house[h] = "deleted"}
Places == [h \in House |-> [u \in User |-> PlaceOf(h, u)]]
Offers == [h \in House |-> {u \in User : \E i \in Invitation :
                /\ invitation[i] # NULL
                /\ invitation[i].house = h
                /\ invitation[i].receiver = u}]

-----------------------------------------------------------------------------
LEMMA RosterInit == Init => R!Init
BY DEF Init, R!Init, PlaceOf, HasRow

\* Offers depend on the houses and receivers of the invitations only, which
\* stay as they are.
LEMMA OffersKept ==
    ASSUME TypeOK, Aging,
           \A i \in Invitation : invitation'[i] # NULL => invitation[i] # NULL
    PROVE  UNCHANGED Offers
BY DEF Offers, Aging

LEMMA RosterCreate ==
    ASSUME TypeOK, OneFounder, NEW u \in User, CreateNewHouse(u)
    PROVE  R!Next
<1>1. PICK h \in House :
        /\ house[h] = "unused"
        /\ house' = [house EXCEPT ![h] = "live"]
        /\ member' = [member EXCEPT ![h][u] = [role |-> "Admin", deleted |-> FALSE]]
        /\ UNCHANGED <<invitation, request, torn>>
  BY DEF CreateNewHouse
<1>2. [role |-> "Admin", deleted |-> FALSE] # NULL
  <2>1. [role |-> "Admin", deleted |-> FALSE] \in MemberRow
    BY DEF MemberRow, Role
  <2> QED BY <2>1, NullNotRow
<1>3. h \notin Open \cup Closed
  BY <1>1 DEF Open, Closed
<1>4. Open' = Open \cup {h} /\ Closed' = Closed /\ Offers' = Offers
  BY <1>1 DEF TypeOK, Open, Closed, Offers
<1>5. Places' = [Places EXCEPT ![h][u] = "inside"]
  <2>1. \A g \in House, v \in User :
            PlaceOf(g, v)' = IF g = h /\ v = u THEN "inside" ELSE PlaceOf(g, v)
    BY <1>1, <1>2 DEF TypeOK, PlaceOf, HasRow
  <2> QED BY <2>1 DEF Places
<1>6. R!Found(h, u)
  BY <1>3, <1>4, <1>5 DEF R!Found, Open, Closed, Places, Offers
<1> QED BY <1>6 DEF R!Next

LEMMA RosterOffer ==
    ASSUME TypeOK, NEW r \in Request, Fact(r), InviteSave(r)
    PROVE  R!Next
<1> DEFINE h == request[r].house
           u == request[r].other
<1>1. PICK i \in Invitation :
        /\ invitation[i] = NULL
        /\ invitation' = [invitation EXCEPT ![i] =
                [house |-> h, sender |-> request[r].user, receiver |-> u,
                 status |-> "pending"]]
        /\ UNCHANGED <<house, member>>
  BY DEF InviteSave
<1>2. /\ h \in House /\ u \in User /\ request[r].user \in User
      /\ HasRow(h, request[r].user)
  BY DEF InviteSave, At, TypeOK, Filled, Fact, InviteFact, InviteSteps
<1>3. [house |-> h, sender |-> request[r].user, receiver |-> u, status |-> "pending"]
        \in InvitationRow
  BY <1>2 DEF InvitationRow, Status
<1>4. Places[h][request[r].user] # "outside"
  BY <1>2 DEF Places, PlaceOf
<1>5. Open' = Open /\ Closed' = Closed /\ Places' = Places
  BY <1>1 DEF Open, Closed, Places, PlaceOf, HasRow
<1>6. Offers' = [Offers EXCEPT ![h] = @ \cup {u}]
  <2>1. \A j \in Invitation : j # i => invitation'[j] = invitation[j]
    BY <1>1 DEF TypeOK
  <2>2. /\ invitation'[i] # NULL /\ invitation'[i].house = h
        /\ invitation'[i].receiver = u
    BY <1>1, <1>3, NullNotRow DEF TypeOK
  <2>3. \A g \in House : Offers'[g] = IF g = h THEN Offers[g] \cup {u} ELSE Offers[g]
    BY <1>1, <1>2, <2>1, <2>2 DEF Offers
  <2> QED BY <2>3, <1>2 DEF Offers
<1>7. PICK g \in House, v \in User : g = h /\ v = u
  BY <1>2
<1>8. R!Offer(g, v)
  BY <1>2, <1>4, <1>5, <1>6, <1>7 DEF R!Offer, Open, Closed, Places, Offers
<1> QED BY <1>8 DEF R!Next

LEMMA RosterEnter ==
    ASSUME TypeOK, NEW r \in Request, Fact(r), AcceptSave(r)
    PROVE  R!Next \/ UNCHANGED R!vars
<1> DEFINE h == request[r].house
           u == request[r].user
           row == [role |-> "Member", deleted |-> FALSE]
<1>1. /\ h \in House /\ u \in User /\ UNCHANGED <<house, invitation>>
  BY DEF AcceptSave, At, TypeOK, Filled, AcceptSteps
<1>2. Open' = Open /\ Closed' = Closed /\ Offers' = Offers
  BY <1>1 DEF Open, Closed, Offers
<1>3. u \in Offers[h]
  <2>1. PICK i \in Invitation :
            /\ invitation[i] # NULL
            /\ invitation[i].house = h /\ invitation[i].receiver = u
    BY DEF AcceptSave, At, Fact, AcceptFact, LetsIn, IsAddressedTo, IsRow, AcceptSteps
  <2> QED BY <1>1, <2>1 DEF Offers
<1>4. CASE UniqueIndexFree(h, u)
  <2>1. row \in MemberRow
    BY DEF MemberRow, Role
  <2>2. row # NULL /\ ~row.deleted
    BY <2>1, NullNotRow
  <2> HIDE DEF row
  <2>3. member' = [member EXCEPT ![h][u] = row]
    BY <1>4 DEF AcceptSave, row
  <2>4. \A g \in House, v \in User :
            PlaceOf(g, v)' = IF g = h /\ v = u THEN "inside" ELSE PlaceOf(g, v)
    BY <1>1, <2>2, <2>3 DEF TypeOK, PlaceOf, HasRow
  <2>5. Places' = [Places EXCEPT ![h][u] = "inside"]
    BY <2>4 DEF Places
  <2>6. Places[h][u] = "outside"
    BY <1>1, <1>4 DEF Places, PlaceOf, HasRow, UniqueIndexFree
  <2>7. R!Enter(h, u)
    BY <1>2, <1>3, <2>5, <2>6 DEF R!Enter, Open, Closed, Places, Offers
  <2> QED BY <1>1, <2>7 DEF R!Next
<1>5. CASE ~UniqueIndexFree(h, u)
  <2>1. Places' = Places
    BY <1>5 DEF AcceptSave, Places, PlaceOf, HasRow
  <2> QED BY <1>2, <2>1 DEF R!vars, Open, Closed, Places, Offers
<1> QED BY <1>4, <1>5

LEMMA RosterLeave ==
    ASSUME TypeOK, NEW r \in Request, Fact(r), RemoveSave(r)
    PROVE  R!Next \/ UNCHANGED R!vars
<1> DEFINE h == request[r].house
           u == request[r].other
           row == [member[h][u] EXCEPT !.deleted = TRUE]
<1>1. h \in House /\ u \in User /\ HasRow(h, u) /\ UNCHANGED <<house, invitation>>
  BY DEF RemoveSave, At, TypeOK, Filled, RemoveSteps, Fact, RemoveFact
<1>2. Open' = Open /\ Closed' = Closed /\ Offers' = Offers
  BY <1>1 DEF Open, Closed, Offers
<1>3. row # NULL /\ row.deleted = TRUE
  <2>1. member[h][u] \in MemberRow
    BY <1>1 DEF TypeOK, HasRow
  <2> QED BY <2>1, DeletedRow, NullNotRow
<1>4. member' = [member EXCEPT ![h][u] = row]
  BY <1>1 DEF RemoveSave, TypeOK
<1> HIDE DEF row
<1>5. \A g \in House, v \in User :
        PlaceOf(g, v)' = IF g = h /\ v = u THEN "gone" ELSE PlaceOf(g, v)
  BY <1>1, <1>3, <1>4 DEF TypeOK, PlaceOf, HasRow
<1>6. Places' = [Places EXCEPT ![h][u] = "gone"]
  BY <1>5 DEF Places
<1>7. CASE Places[h][u] = "inside"
  <2>1. R!Leave(h, u)
    BY <1>2, <1>6, <1>7 DEF R!Leave, Open, Closed, Places, Offers
  <2> QED BY <1>1, <2>1 DEF R!Next
<1>8. CASE Places[h][u] # "inside"
  <2>1. PlaceOf(h, u) = "gone"
    BY <1>1, <1>8 DEF Places, PlaceOf
  <2>2. Places' = Places
    BY <1>5, <2>1 DEF Places
  <2> QED BY <1>2, <2>2 DEF R!vars, Open, Closed, Places, Offers
<1> QED BY <1>7, <1>8

LEMMA RosterClose ==
    ASSUME TypeOK, NEW r \in Request, Fact(r), DeleteSave(r)
    PROVE  R!Next
<1> DEFINE h == request[r].house
           loaded == request[r].loaded
<1>1. /\ h \in House /\ loaded \in SUBSET User /\ house[h] # "unused"
      /\ \A u \in loaded : HasRow(h, u)
      /\ UNCHANGED invitation
      /\ house' = [house EXCEPT ![h] = "deleted"]
  BY DEF DeleteSave, At, TypeOK, Filled, Call, DeleteSteps, Fact, DeleteFact
<1>2. Offers' = Offers
  BY <1>1 DEF Offers
<1>3. Open' = Open \ {h} /\ Closed' = Closed \cup {h} /\ h \in Open \cup Closed
  BY <1>1 DEF TypeOK, Open, Closed
<1>4. \A u \in loaded : Places[h][u] # "outside"
  BY <1>1 DEF Places, PlaceOf
<1>5. \A u \in loaded : /\ [member[h][u] EXCEPT !.deleted = TRUE] # NULL
                        /\ [member[h][u] EXCEPT !.deleted = TRUE].deleted
  <2> SUFFICES ASSUME NEW u \in loaded
               PROVE  /\ [member[h][u] EXCEPT !.deleted = TRUE] # NULL
                      /\ [member[h][u] EXCEPT !.deleted = TRUE].deleted
    OBVIOUS
  <2>1. member[h][u] \in MemberRow
    BY <1>1 DEF TypeOK, HasRow
  <2> QED BY <2>1, DeletedRow, NullNotRow
<1>6. \A g \in House, v \in User :
        member'[g][v] = IF g = h /\ v \in loaded
                        THEN [member[h][v] EXCEPT !.deleted = TRUE]
                        ELSE member[g][v]
  BY <1>1 DEF DeleteSave, Cascade, TypeOK
<1>7. \A g \in House, v \in User :
        PlaceOf(g, v)' = IF g = h /\ v \in loaded THEN "gone" ELSE PlaceOf(g, v)
  <2> SUFFICES ASSUME NEW g \in House, NEW v \in User
               PROVE  PlaceOf(g, v)' = IF g = h /\ v \in loaded THEN "gone"
                                                                ELSE PlaceOf(g, v)
    OBVIOUS
  <2>1. CASE g = h /\ v \in loaded
    <3>1. member'[g][v] # NULL /\ member'[g][v].deleted
      BY <1>5, <1>6, <2>1
    <3> QED BY <2>1, <3>1 DEF PlaceOf, HasRow
  <2>2. CASE ~(g = h /\ v \in loaded)
    <3>1. member'[g][v] = member[g][v]
      BY <1>6, <2>2
    <3> QED BY <2>2, <3>1 DEF PlaceOf, HasRow
  <2> QED BY <2>1, <2>2
<1>8. Places' = [Places EXCEPT ![h] =
                    [u \in User |-> IF u \in loaded THEN "gone" ELSE @[u]]]
  BY <1>1, <1>7 DEF Places
<1>9. PICK g \in House, leaving \in SUBSET User : g = h /\ leaving = loaded
  BY <1>1
<1>10. R!Close(g, leaving)
  BY <1>2, <1>3, <1>4, <1>8, <1>9 DEF R!Close, Open, Closed, Places, Offers
<1> QED BY <1>10 DEF R!Next

\* Every other step of a call changes nothing of what Roster sees.
LEMMA RosterQuiet ==
    ASSUME TypeOK, Aging, NEW r \in Request, Arrive(r) \/ Proceed(r) \/ Interrupt(r),
           ~InviteSave(r), ~AcceptSave(r), ~RemoveSave(r), ~DeleteSave(r)
    PROVE  UNCHANGED R!vars
<1>1. UNCHANGED <<house, member>>
  BY RowWriters
<1>2. \A i \in Invitation : invitation'[i] # NULL => invitation[i] # NULL
  <2> SUFFICES ASSUME NEW i \in Invitation, invitation'[i] # NULL
               PROVE  invitation[i] # NULL
    OBVIOUS
  <2>1. CASE UNCHANGED invitation
    BY <2>1
  <2>2. CASE AcceptUpdate(r) \/ DeclineUpdate(r)
    BY <2>2 DEF AcceptUpdate, DeclineUpdate, UpdateInvitation, IsAddressedTo, IsRow, TypeOK
  <2>3. UNCHANGED invitation \/ AcceptUpdate(r) \/ DeclineUpdate(r)
    <3>1. CASE Arrive(r) \/ Interrupt(r)
      BY <3>1 DEF Arrive, BeginInvite, BeginAccept, BeginDecline, BeginRemove, BeginDelete,
                  Interrupt, db
    <3>2. CASE Invite(r)
      BY <3>2 DEF Invite, InviteSender, InviteHouse, InviteReceiver, InvitePending, Check, db
    <3>3. CASE Accept(r)
      BY <3>3 DEF Accept, AcceptFind, AcceptHouse, AcceptMember, Check, db
    <3>4. CASE Remove(r) \/ Delete(r)
      BY <3>4 DEF Remove, RemoveAsAdmin, RemoveAsMember, RemoveTarget, Delete,
                  DeleteValidHouse, DeleteValidMember, DeleteLoad, DeleteRefused, Check, db
    <3> QED BY <3>1, <3>2, <3>3, <3>4 DEF Proceed
  <2> QED BY <2>1, <2>2, <2>3
<1>3. Open' = Open /\ Closed' = Closed /\ Places' = Places
  BY <1>1 DEF Open, Closed, Places, PlaceOf, HasRow
<1>4. Offers' = Offers
  BY <1>2, OffersKept
<1> QED BY <1>3, <1>4 DEF R!vars, Open, Closed, Places, Offers

LEMMA RosterNext == IInv /\ [Next]_vars => [R!Next]_(R!vars)
<1> SUFFICES ASSUME IInv, [Next]_vars PROVE R!Next \/ UNCHANGED R!vars
  OBVIOUS
<1> USE DEF IInv
<1>1. Aging
  BY IInvNext
<1>2. ASSUME NEW u \in User, CreateNewHouse(u) PROVE R!Next
  BY <1>2, RosterCreate
<1>3. ASSUME NEW r \in Request, Arrive(r) \/ Proceed(r) \/ Interrupt(r)
      PROVE  R!Next \/ UNCHANGED R!vars
  BY <1>1, <1>3, RosterOffer, RosterEnter, RosterLeave, RosterClose, RosterQuiet
<1>4. CASE UNCHANGED vars
  BY <1>4 DEF vars, R!vars, PlaceOf, HasRow
<1> QED BY <1>2, <1>3, <1>4 DEF Next

\* The interleaved statements of all calls implement the roster: every one of
\* them is one change of the roster, or none.
THEOREM RosterImplemented == Spec => ImplementsRoster
BY RosterInit, RosterNext, Invariance, PTL DEF Spec, R!Spec, ImplementsRoster

-----------------------------------------------------------------------------
(* Chores and DetachedWrites see the houses and places of Membership, and    *)
(* nothing of its invitations and calls.  That the changes they allow for    *)
(* are those that happen is shown of Chores without calls of its own, whose  *)
(* only step is RosterStep.                                                  *)

C == INSTANCE Chores WITH
        open <- Open, closed <- Closed, place <- Places,
        Housework <- {}, Task <- {}, Request <- {},
        FrequencyOptional <- TRUE, AssigneeOptional <- TRUE,
        housework <- [w \in {} |-> NULL], task <- [t \in {} |-> NULL],
        request <- [r \in {} |-> NULL]

LEMMA ChoresInit == Init => C!Init
BY DEF Init, C!Init, C!Idle, Open, Closed, Places, PlaceOf, HasRow

\* Nobody is invited to a house that has not been founded, for its sender had a
\* row in it.
LEMMA OfferedIsFounded ==
    ASSUME IInv, NEW h \in House, NEW u \in Offers[h]
    PROVE  h \in Open \cup Closed
<1>1. PICK i \in Invitation : invitation[i] # NULL /\ invitation[i].house = h
  BY DEF Offers
<1>2. invitation[i].sender \in User /\ HasRow(h, invitation[i].sender)
  BY <1>1 DEF IInv, TypeOK, InvitationRow, SenderFact
<1>3. house[h] # "unused"
  BY <1>2 DEF IInv, OneFounder, HasRow
<1> QED BY <1>3 DEF IInv, TypeOK, Open, Closed

LEMMA ChoresNext ==
    ASSUME IInv, [R!Next]_(R!vars)
    PROVE  [C!Next]_(C!vars)
<1>1. CASE UNCHANGED R!vars
  BY <1>1 DEF R!vars, C!vars, Open, Closed, Places
<1>2. ASSUME NEW h \in House, NEW u \in User, R!Found(h, u)
      PROVE  C!RosterStep
  BY <1>2 DEF R!Found, C!RosterStep, C!Houses!Found, C!chores, Open, Closed, Places
<1>3. ASSUME NEW h \in House, NEW u \in User, R!Offer(h, u)
      PROVE  UNCHANGED C!vars
  BY <1>3 DEF R!Offer, C!vars, Open, Closed, Places
<1>4. ASSUME NEW h \in House, NEW u \in User, R!Enter(h, u)
      PROVE  C!RosterStep
  <2>1. u \in Offers[h]
    BY <1>4 DEF R!Enter, Offers
  <2>2. h \in Open \cup Closed
    BY <2>1, OfferedIsFounded
  <2>3. C!Enter(h, u)
    BY <1>4, <2>2 DEF R!Enter, C!Enter, C!Houses!Enter, Open, Closed, Places
  <2> QED BY <2>3 DEF C!RosterStep, C!chores
<1>5. ASSUME NEW h \in House, NEW u \in User, R!Leave(h, u)
      PROVE  C!RosterStep
  BY <1>5 DEF R!Leave, C!RosterStep, C!Houses!Leave, C!chores, Open, Closed, Places
<1>6. ASSUME NEW h \in House, NEW leaving \in SUBSET User, R!Close(h, leaving)
      PROVE  C!RosterStep
  <2>1. C!Houses!Close(h, leaving)
    BY <1>6 DEF R!Close, C!Houses!Close, Open, Closed, Places
  <2> QED BY <2>1 DEF C!RosterStep, C!chores
<1> QED BY <1>1, <1>2, <1>3, <1>4, <1>5, <1>6 DEF R!Next, C!Next

\* What the calls to members, houses and invitations do, at any interleaving of their
\* statements, is what Chores lets happen to the houses underneath its own calls: whoever
\* comes in comes into a house that has been founded, and no more than once.
THEOREM ChoresRosterImplemented == Spec => C!Spec
<1>1. IInv /\ [Next]_vars => [C!Next]_(C!vars)
  BY RosterNext, ChoresNext
<1> QED BY <1>1, ChoresInit, Invariance, PTL DEF Spec, C!Spec

-----------------------------------------------------------------------------
(* The same for DetachedWrites, which also gives every house a first name,  *)
(* its founder's.  The houses of Lasting are a bound of its runs.           *)

FounderOf(h) == CHOOSE u \in User : Founders(h) = {u}
FirstName == [h \in House |-> IF house[h] = "unused" THEN NULL ELSE FounderOf(h)]

D == INSTANCE DetachedWrites WITH
        open <- Open, closed <- Closed, place <- Places, name <- FirstName,
        Housework <- {}, Request <- {}, Slot <- {}, Lasting <- {},
        home <- [w \in {} |-> NULL], title <- [w \in {} |-> NULL],
        request <- [r \in {} |-> NULL], write <- [k \in {} |-> NULL], up <- TRUE

LEMMA DetachedInit == Init => D!Init
BY DEF Init, D!Init, D!Idle, Open, Closed, Places, PlaceOf, HasRow, FirstName

LEMMA FounderKnown ==
    ASSUME IInv, NEW h \in House, house[h] # "unused"
    PROVE  FounderOf(h) \in User /\ Founders(h) = {FounderOf(h)}
<1>1. \E u \in User : Founders(h) = {u}
  BY DEF IInv, OneFounder
<1> QED BY <1>1 DEF FounderOf

\* A founder stays one, so the only one stays the same.
LEMMA FounderStays ==
    ASSUME IInv, IInv', Aging, NEW h \in House, house[h] # "unused"
    PROVE  FounderOf(h)' = FounderOf(h)
<1>1. PICK u \in User : Founders(h) = {u}
  BY DEF IInv, OneFounder
<1>2. PICK v \in User : Founders(h)' = {v}
  BY DEF IInv, OneFounder, Aging
<1>3. u \in Founders(h)'
  BY <1>1 DEF Founders, Aging, HasRow
<1>4. u = v
  BY <1>2, <1>3
<1> QED BY <1>1, <1>2, <1>4 DEF FounderOf

LEMMA FirstNameStays ==
    ASSUME IInv, IInv', Aging, Open' \cup Closed' = Open \cup Closed
    PROVE  FirstName' = FirstName
<1> SUFFICES ASSUME NEW h \in House
             PROVE  /\ (house'[h] = "unused") = (house[h] = "unused")
                    /\ house[h] # "unused" => FounderOf(h)' = FounderOf(h)
  BY DEF FirstName
<1>1. house[h] # "unused" => FounderOf(h)' = FounderOf(h)
  BY FounderStays
<1>2. (house[h] = "unused") = (h \notin Open \cup Closed)
  BY DEF IInv, TypeOK, Open, Closed
<1>3. (house'[h] = "unused") = (h \notin Open' \cup Closed')
  BY DEF IInv, TypeOK, Open, Closed
<1> QED BY <1>1, <1>2, <1>3

LEMMA DetachedFound ==
    ASSUME IInv, IInv', Aging, NEW h \in House, NEW u \in User, R!Found(h, u)
    PROVE  D!RosterStep
<1>1. D!Houses!Found(h, u)
  BY DEF R!Found, D!Houses!Found, Open, Closed, Places
<1>2. /\ h \notin Open \cup Closed
      /\ Open' = Open \cup {h} /\ Closed' = Closed
      /\ Places' = [Places EXCEPT ![h][u] = "inside"]
  BY DEF R!Found, Open, Closed, Places
<1>3. /\ \A g \in House : (house[g] = "unused") = (g \notin Open \cup Closed)
      /\ \A g \in House : (house'[g] = "unused") = (g \notin Open' \cup Closed')
  BY DEF IInv, TypeOK, Open, Closed
<1>4. house[h] = "unused" /\ house'[h] # "unused"
  BY <1>2, <1>3
<1>5. ASSUME NEW v \in User, v # u
      PROVE  PlaceOf(h, v)' = "outside"
  <2>1. ~HasRow(h, v)
    BY <1>4 DEF IInv, OneFounder
  <2>2. Places[h][v] = "outside"
    BY <2>1 DEF Places, PlaceOf
  <2>3. Places'[h][v] = Places[h][v]
    BY <1>2, <1>5 DEF Places
  <2> QED BY <2>2, <2>3 DEF Places
<1>6. FounderOf(h)' = u
  <2>1. PICK v \in User : Founders(h)' = {v}
    BY <1>4 DEF IInv, OneFounder
  <2>2. HasRow(h, v)'
    BY <2>1 DEF Founders
  <2>3. PlaceOf(h, v)' # "outside"
    BY <2>2 DEF PlaceOf
  <2>4. v = u
    BY <1>5, <2>3
  <2> QED BY <2>1, <2>4 DEF FounderOf
<1>7. ASSUME NEW g \in House, g # h
      PROVE  FirstName'[g] = FirstName[g]
  <2>1. (house'[g] = "unused") = (house[g] = "unused")
    BY <1>2, <1>3, <1>7
  <2> QED BY <2>1, FounderStays DEF FirstName
<1>8. FirstName' = [FirstName EXCEPT ![h] = u]
  BY <1>4, <1>6, <1>7 DEF FirstName
<1> QED BY <1>1, <1>8 DEF D!RosterStep

LEMMA DetachedNext ==
    ASSUME IInv, IInv', Aging, [R!Next]_(R!vars)
    PROVE  [D!Next]_(D!vars)
<1>1. ASSUME Open' = Open, Closed' = Closed, Places' = Places
      PROVE  UNCHANGED D!vars
  BY <1>1, FirstNameStays DEF D!vars
<1>2. CASE UNCHANGED R!vars
  BY <1>1, <1>2 DEF R!vars, Open, Closed, Places
<1>3. ASSUME NEW h \in House, NEW u \in User, R!Offer(h, u)
      PROVE  UNCHANGED D!vars
  BY <1>1, <1>3 DEF R!Offer, Open, Closed, Places
<1>4. ASSUME NEW h \in House, NEW u \in User, R!Enter(h, u)
      PROVE  D!RosterStep
  <2>1. u \in Offers[h] /\ Open' = Open /\ Closed' = Closed
    BY <1>4 DEF R!Enter, Offers, Open, Closed
  <2>2. h \in Open \cup Closed
    BY <2>1, OfferedIsFounded
  <2>3. D!Enter(h, u)
    BY <1>4, <2>2 DEF R!Enter, D!Enter, D!Houses!Enter, Open, Closed, Places
  <2>4. FirstName' = FirstName
    BY <2>1, FirstNameStays
  <2> QED BY <2>3, <2>4 DEF D!RosterStep
<1>5. ASSUME NEW h \in House, NEW u \in User, R!Leave(h, u)
      PROVE  D!RosterStep
  <2>1. D!Houses!Leave(h, u) /\ Open' = Open /\ Closed' = Closed
    BY <1>5 DEF R!Leave, D!Houses!Leave, Open, Closed, Places
  <2>2. FirstName' = FirstName
    BY <2>1, FirstNameStays
  <2> QED BY <2>1, <2>2 DEF D!RosterStep
<1>6. ASSUME NEW h \in House, NEW leaving \in SUBSET User, R!Close(h, leaving)
      PROVE  D!RosterStep
  <2>1. D!Houses!Close(h, leaving)
    BY <1>6 DEF R!Close, D!Houses!Close, Open, Closed, Places
  <2>2. h \in Open \cup Closed /\ Open' = Open \ {h} /\ Closed' = Closed \cup {h}
    BY <1>6 DEF R!Close, Open, Closed
  <2>3. FirstName' = FirstName
    BY <2>2, FirstNameStays
  <2>4. \E u \in User : TRUE
    BY <2>2, FounderKnown DEF Open, Closed
  <2> QED BY <2>1, <2>3, <2>4 DEF D!RosterStep
<1> QED BY DetachedFound, <1>2, <1>3, <1>4, <1>5, <1>6 DEF R!Next, D!Next

\* And it is what DetachedWrites lets happen underneath the UPDATEs on their way, where a
\* house is called by its founder until somebody renames it.
THEOREM DetachedRosterImplemented == Spec => D!Spec
<1>1. IInv /\ [Next]_vars => Aging
  BY IInvNext
<1>2. IInv /\ IInv' /\ [Next]_vars => [D!Next]_(D!vars)
  BY <1>1, RosterNext, DetachedNext
<1> QED BY <1>2, DetachedInit, Invariance, PTL DEF Spec, D!Spec

=============================================================================
