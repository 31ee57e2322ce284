---------------------------- MODULE HouseProofs -----------------------------
(* Further theorems about Membership, from the invariant of                *)
(* MembershipProofs: how many invitations can wait, what a decline leaves, *)
(* who leaves with a house and what becomes of it then, who acts on a      *)
(* house, and what holds as long as calls come one at a time.              *)
EXTENDS MembershipProofs, FiniteSetTheorems

-----------------------------------------------------------------------------
(* How many invitations can wait.                                          *)

\* The calls that have seen no invitation of u to h waiting, and will write one.
Saving(h, u) ==
    {r \in Request : At(r, "inviteSave") /\ request[r].house = h /\ request[r].other = u}

\* Each of them takes one place, and passes it to what it writes.
PlacesLeft ==
    \A h \in House, u \in User :
        Cardinality(Pending(h, u)) + Cardinality(Saving(h, u)) <= Cardinality(Request)

\* One place passes from a call to its invitation; none is taken unless all are free.
LEMMA PlacesMove ==
    ASSUME IInv, [Next]_vars, NEW h \in House, NEW u \in User
    PROVE  \/ Pending(h, u)' \subseteq Pending(h, u) /\ Saving(h, u)' \subseteq Saving(h, u)
           \/ Pending(h, u)' = {}
           \/ \E r \in Saving(h, u), i \in Invitation :
                /\ Pending(h, u)' = Pending(h, u) \cup {i}
                /\ Saving(h, u)' = Saving(h, u) \ {r}
<1> USE DEF IInv, TypeOK
<1>1. ASSUME NEW r \in Request, InviteSave(r)
      PROVE  \/ Pending(h, u)' \subseteq Pending(h, u) /\ Saving(h, u)' \subseteq Saving(h, u)
             \/ \E s \in Saving(h, u), i \in Invitation :
                  /\ Pending(h, u)' = Pending(h, u) \cup {i}
                  /\ Saving(h, u)' = Saving(h, u) \ {s}
  <2>1. PICK i \in Invitation :
            /\ invitation[i] = NULL
            /\ invitation' = [invitation EXCEPT ![i] =
                    [house |-> request[r].house, sender |-> request[r].user,
                     receiver |-> request[r].other, status |-> "pending"]]
    BY <1>1 DEF InviteSave
  <2>2. /\ request'[r].step = "idle"
        /\ \A s \in Request \ {r} : request'[s] = request[s]
    BY <1>1 DEF InviteSave, Finish, Idle
  <2>3. PICK row : row = [house |-> request[r].house, sender |-> request[r].user,
                          receiver |-> request[r].other, status |-> "pending"]
    OBVIOUS
  <2>4. row \in InvitationRow
    BY <1>1, <2>3 DEF InviteSave, At, Filled, InviteSteps, InvitationRow, Status
  <2>5. /\ row # NULL /\ row.status = "pending"
        /\ row.house = request[r].house /\ row.receiver = request[r].other
    BY <2>3, <2>4, NullNotRow
  <2>6. invitation'[i] = row /\ \A j \in Invitation \ {i} : invitation'[j] = invitation[j]
    BY <2>1, <2>3
  <2>7. CASE request[r].house = h /\ request[r].other = u
    <3>1. Pending(h, u)' = Pending(h, u) \cup {i}
      BY <2>5, <2>6, <2>7 DEF Pending
    <3>2. r \in Saving(h, u) /\ Saving(h, u)' = Saving(h, u) \ {r}
      BY <1>1, <2>2, <2>7 DEF Saving, At, InviteSave
    <3> QED BY <3>1, <3>2
  <2>8. CASE ~(request[r].house = h /\ request[r].other = u)
    <3>1. Pending(h, u)' \subseteq Pending(h, u)
      BY <2>5, <2>6, <2>8 DEF Pending
    <3>2. Saving(h, u)' \subseteq Saving(h, u)
      BY <2>2 DEF Saving, At
    <3> QED BY <3>1, <3>2
  <2> QED BY <2>7, <2>8
<1>2. ASSUME NEW r \in Request, InvitePending(r)
      PROVE  \/ Pending(h, u)' \subseteq Pending(h, u) /\ Saving(h, u)' \subseteq Saving(h, u)
             \/ Pending(h, u)' = {}
  <2>1. Pending(h, u)' = Pending(h, u)
    BY <1>2 DEF InvitePending, Check, db, Pending
  <2>2. CASE Pending(request[r].house, request[r].other) = {}
    <3>1. request' = [request EXCEPT ![r].step = "inviteSave"]
      BY <1>2, <2>2 DEF InvitePending, Check, Goto
    <3>2. CASE request[r].house = h /\ request[r].other = u
      BY <2>1, <2>2, <3>2
    <3>3. CASE ~(request[r].house = h /\ request[r].other = u)
      <4>1. /\ request'[r].house = request[r].house /\ request'[r].other = request[r].other
            /\ \A s \in Request \ {r} : request'[s] = request[s]
        BY <3>1 DEF Call
      <4> QED BY <2>1, <3>3, <4>1 DEF Saving, At
    <3> QED BY <3>2, <3>3
  <2>3. CASE Pending(request[r].house, request[r].other) # {}
    BY <1>2, <2>1, <2>3 DEF InvitePending, Check, Finish, Idle, Saving, At
  <2> QED BY <2>2, <2>3
<1>3. ASSUME NEW r \in Request, AcceptUpdate(r) \/ DeclineUpdate(r)
      PROVE  Pending(h, u)' \subseteq Pending(h, u) /\ Saving(h, u)' \subseteq Saving(h, u)
  <2>1. \A i \in Pending(h, u)' : invitation'[i] = invitation[i]
    <3> SUFFICES ASSUME NEW i \in Pending(h, u)', invitation'[i] # invitation[i]
                 PROVE  FALSE
      OBVIOUS
    <3>1. /\ i \in Invitation /\ invitation'[i] # NULL /\ invitation'[i].status = "pending"
      BY DEF Pending
    <3>2. PICK status \in {"accepted", "declined"} : UpdateInvitation(r, status)
      BY <1>3 DEF AcceptUpdate, DeclineUpdate
    <3>3. /\ i = request[r].invitation /\ IsAddressedTo(i, request[r].user)
          /\ invitation' = [invitation EXCEPT ![i].status = status]
      BY <3>1, <3>2 DEF UpdateInvitation
    <3>4. invitation[i] \in InvitationRow
      BY <3>1, <3>3 DEF IsAddressedTo, IsRow
    <3>5. invitation'[i].status = status
      BY <3>1, <3>3, <3>4 DEF InvitationRow
    <3> QED BY <3>1, <3>2, <3>5
  <2>2. Pending(h, u)' \subseteq Pending(h, u)
    BY <2>1 DEF Pending
  <2>3. Saving(h, u)' \subseteq Saving(h, u)
    <3>1. request'[r].step # "inviteSave"
      BY <1>3 DEF AcceptUpdate, DeclineUpdate, Goto, Finish, Idle, Call
    <3>2. \A s \in Request \ {r} : request'[s] = request[s]
      BY <1>3, OthersWait DEF Proceed, Accept
    <3> QED BY <3>1, <3>2 DEF Saving, At
  <2> QED BY <2>2, <2>3
<1>4. ASSUME NEW r \in Request,
             \/ Arrive(r) \/ Remove(r) \/ Delete(r) \/ Interrupt(r)
             \/ Invite(r) /\ ~InviteSave(r) /\ ~InvitePending(r)
             \/ Accept(r) /\ ~AcceptUpdate(r)
      PROVE  Pending(h, u)' \subseteq Pending(h, u) /\ Saving(h, u)' \subseteq Saving(h, u)
  <2>1. UNCHANGED invitation /\ request'[r].step # "inviteSave"
    <3>1. CASE Arrive(r)
      BY <3>1 DEF Arrive, BeginInvite, BeginAccept, BeginDecline, BeginRemove, BeginDelete,
          Begin, Idle, db
    <3>2. CASE Remove(r)
      BY <3>2 DEF Remove, RemoveAsAdmin, RemoveAsMember, RemoveTarget, RemoveSave,
          Check, Goto, Finish, Idle, Call, db
    <3>3. CASE Delete(r)
      BY <3>3 DEF Delete, DeleteValidHouse, DeleteValidMember, DeleteLoad, DeleteSave,
          DeleteRefused, Check, Goto, Finish, Idle, Call, db
    <3>4. CASE Interrupt(r)
      BY <3>4 DEF Interrupt, Finish, Idle, db
    <3>5. CASE InviteSender(r) \/ InviteHouse(r) \/ InviteReceiver(r)
      BY <3>5 DEF InviteSender, InviteHouse, InviteReceiver, Check, Goto, Finish, Idle, Call, db
    <3>6. CASE AcceptFind(r) \/ AcceptHouse(r) \/ AcceptMember(r) \/ AcceptSave(r)
      BY <3>6 DEF AcceptFind, AcceptFound, AcceptRefused, AcceptHouse, AcceptMember, AcceptSave,
          Check, Goto, Finish, Idle, Call, db
    <3> QED BY <1>4, <3>1, <3>2, <3>3, <3>4, <3>5, <3>6 DEF Invite, Accept
  <2>2. \A s \in Request \ {r} : request'[s] = request[s]
    BY <1>4, OthersWait DEF Proceed
  <2>3. Pending(h, u)' = Pending(h, u)
    BY <2>1 DEF Pending
  <2>4. Saving(h, u)' \subseteq Saving(h, u)
    BY <2>1, <2>2 DEF Saving, At
  <2> QED BY <2>3, <2>4
<1>5. CASE (\E v \in User : CreateNewHouse(v)) \/ UNCHANGED vars
  BY <1>5 DEF CreateNewHouse, vars, Pending, Saving, At
<1> QED BY <1>1, <1>2, <1>3, <1>4, <1>5 DEF Next, Proceed

LEMMA PlacesKept ==
    ASSUME IInv, IInv', [Next]_vars, PlacesLeft
    PROVE  PlacesLeft'
<1> DEFINE n == Cardinality(Request)
<1> SUFFICES ASSUME NEW h \in House, NEW u \in User
             PROVE  Cardinality(Pending(h, u)') + Cardinality(Saving(h, u)') <= n
  BY DEF PlacesLeft
<1>1. /\ Pending(h, u) \in SUBSET Invitation /\ Saving(h, u) \in SUBSET Request
      /\ Pending(h, u)' \in SUBSET Invitation /\ Saving(h, u)' \in SUBSET Request
  BY DEF Pending, Saving
<1>2. /\ IsFiniteSet(Pending(h, u)) /\ IsFiniteSet(Saving(h, u)) /\ n \in Nat
      /\ Cardinality(Pending(h, u)) \in Nat /\ Cardinality(Saving(h, u)) \in Nat
      /\ Cardinality(Pending(h, u)') \in Nat /\ Cardinality(Saving(h, u)') \in Nat
      /\ Cardinality(Saving(h, u)') <= n
  BY <1>1, FS_Subset, FS_CardinalityType, MembershipAssumption
<1>3. Cardinality(Pending(h, u)) + Cardinality(Saving(h, u)) <= n
  BY DEF PlacesLeft
<1>4. CASE Pending(h, u)' \subseteq Pending(h, u) /\ Saving(h, u)' \subseteq Saving(h, u)
  <2>1. /\ Cardinality(Pending(h, u)') <= Cardinality(Pending(h, u))
        /\ Cardinality(Saving(h, u)') <= Cardinality(Saving(h, u))
    BY <1>2, <1>4, FS_Subset
  <2> QED BY <1>2, <1>3, <2>1
<1>5. CASE Pending(h, u)' = {}
  <2>1. Cardinality(Pending(h, u)') = 0
    BY <1>5, FS_EmptySet
  <2> QED BY <1>2, <2>1
<1>6. ASSUME NEW r \in Saving(h, u), NEW i \in Invitation,
             Pending(h, u)' = Pending(h, u) \cup {i}, Saving(h, u)' = Saving(h, u) \ {r}
      PROVE  Cardinality(Pending(h, u)') + Cardinality(Saving(h, u)') <= n
  <2>1. Cardinality(Pending(h, u)') <= Cardinality(Pending(h, u)) + 1
    <3>1. \/ Cardinality(Pending(h, u) \cup {i}) = Cardinality(Pending(h, u))
          \/ Cardinality(Pending(h, u) \cup {i}) = Cardinality(Pending(h, u)) + 1
      BY <1>2, FS_AddElement
    <3> QED BY <1>2, <1>6, <3>1
  <2>2. Cardinality(Saving(h, u)') = Cardinality(Saving(h, u)) - 1
    BY <1>2, <1>6, FS_RemoveElement
  <2> QED BY <1>2, <1>3, <2>1, <2>2
<1> QED BY <1>4, <1>5, <1>6, PlacesMove

\* For any number of calls in progress: a receiver never has more invitations
\* waiting than that, for a call that writes one has seen none, and each call
\* writes one.
THEOREM PendingCounted == Spec => []PendingBoundedByConcurrency
<1>1. Init => PlacesLeft
  <2> SUFFICES ASSUME Init, NEW h \in House, NEW u \in User
               PROVE  Cardinality(Pending(h, u)) + Cardinality(Saving(h, u))
                        <= Cardinality(Request)
    BY DEF PlacesLeft
  <2>1. Pending(h, u) = {} /\ Saving(h, u) = {}
    BY DEF Init, Pending, Saving, At, Idle
  <2>2. Cardinality(Request) \in Nat
    BY FS_CardinalityType, MembershipAssumption
  <2> QED BY <2>1, <2>2, FS_EmptySet
<1>2. IInv /\ IInv' /\ [Next]_vars /\ PlacesLeft => PlacesLeft'
  BY PlacesKept
<1>3. PlacesLeft => PendingBoundedByConcurrency
  <2> SUFFICES ASSUME PlacesLeft, NEW h \in House, NEW u \in User
               PROVE  Cardinality(Pending(h, u)) <= Cardinality(Request)
    BY DEF PendingBoundedByConcurrency
  <2>1. Pending(h, u) \in SUBSET Invitation /\ Saving(h, u) \in SUBSET Request
    BY DEF Pending, Saving
  <2>2. /\ Cardinality(Pending(h, u)) \in Nat /\ Cardinality(Saving(h, u)) \in Nat
        /\ Cardinality(Request) \in Nat
    BY <2>1, FS_Subset, FS_CardinalityType, MembershipAssumption
  <2>3. Cardinality(Pending(h, u)) + Cardinality(Saving(h, u)) <= Cardinality(Request)
    BY DEF PlacesLeft
  <2> QED BY <2>2, <2>3
<1> QED BY <1>1, <1>2, <1>3, Invariance, PTL DEF Spec

-----------------------------------------------------------------------------
(* A decline.                                                              *)

\* A call that is about to decline leaves that step by its UPDATE, or is cut off.
LEMMA DeclineEnds ==
    ASSUME TypeOK, [Next]_vars, NEW r \in Request, At(r, "declineUpdate"),
           request'[r] # request[r]
    PROVE  DeclineUpdate(r) \/ Interrupt(r)
<1>1. ASSUME NEW s \in Request, s # r, Arrive(s) \/ Proceed(s) \/ Interrupt(s)
      PROVE  FALSE
  BY <1>1, OthersWait
<1>2. ~Arrive(r)
  <2>1. Arrive(r) => request[r] = Idle
    BY DEF Arrive, BeginInvite, BeginAccept, BeginDecline, BeginRemove, BeginDelete, Begin
  <2> QED BY <2>1 DEF At, Idle
<1>3. Proceed(r) => DeclineUpdate(r)
  BY DEF Proceed, At, Check, Invite, InviteSender, InviteHouse, InviteReceiver, InvitePending,
        InviteSave, Accept, AcceptFind, AcceptFound, AcceptRefused,
        AcceptHouse, AcceptMember, AcceptUpdate, AcceptSave,
        Remove, RemoveAsAdmin, RemoveAsMember, RemoveTarget, RemoveSave, Delete,
        DeleteValidHouse, DeleteValidMember, DeleteLoad, DeleteSave, DeleteRefused
<1>4. (\E u \in User : CreateNewHouse(u)) \/ UNCHANGED vars => UNCHANGED request
  BY DEF CreateNewHouse, vars
<1> QED BY <1>1, <1>2, <1>3, <1>4 DEF Next

\* For any number of concurrent calls, with a status column that takes the value the code
\* writes: a decline by the receiver that is not cut off leaves the invitation declined,
\* whether it was waiting, accepted or declined by another call in the meantime.
THEOREM DeclineCorrect ==
    ASSUME "declined" \in StatusColumn
    PROVE  Spec => DeclineAnswers
<1>1. ASSUME IInv, [Next]_vars, NEW r \in Request \ Faulty, At(r, "declineUpdate"),
             request'[r] = Idle, IsAddressedTo(request[r].invitation, request[r].user)
      PROVE  invitation'[request[r].invitation].status = "declined"
  <2>1. request'[r] # request[r]
    BY <1>1 DEF At, Idle
  <2>2. DeclineUpdate(r)
    BY <1>1, <2>1, DeclineEnds DEF IInv, Interrupt
  <2>3. PICK i \in Invitation : i = request[r].invitation
    BY <1>1 DEF IsAddressedTo, IsRow
  <2>4. invitation[i] \in InvitationRow /\ invitation \in [Invitation -> InvitationRow \cup {NULL}]
    BY <1>1, <2>3 DEF IInv, TypeOK, IsAddressedTo, IsRow
  <2>5. invitation' = [invitation EXCEPT ![i].status = "declined"]
    BY <1>1, <2>2, <2>3 DEF DeclineUpdate, UpdateInvitation
  <2> QED BY <2>3, <2>4, <2>5 DEF InvitationRow
<1>2. IInv /\ [Next]_vars =>
        [\A r \in Request \ Faulty :
            LET i == request[r].invitation
            IN  At(r, "declineUpdate") /\ request'[r] = Idle
                    /\ IsAddressedTo(i, request[r].user)
                => invitation'[i].status = "declined"]_vars
  BY <1>1
<1> QED BY <1>2, Invariance, PTL DEF Spec, DeclineAnswers

-----------------------------------------------------------------------------
(* Who leaves with a house.                                                *)

LEMMA FoundersStay ==
    ASSUME IInv, Aging, [Next]_vars, NEW h \in House, house[h] # "unused"
    PROVE  Founders(h)' = Founders(h)
<1> USE DEF IInv
<1>1. ASSUME NEW u \in User, CreateNewHouse(u) PROVE Founders(h)' = Founders(h)
  <2>1. member'[h] = member[h]
    BY <1>1, RowsOfCreate
  <2> QED BY <2>1 DEF Founders, HasRow
<1>2. ASSUME NEW r \in Request, Arrive(r) \/ Proceed(r) \/ Interrupt(r)
      PROVE  Founders(h)' = Founders(h)
  BY <1>2, RowsOfSave, RowsOfOthers
<1>3. CASE UNCHANGED vars
  BY <1>3 DEF vars, Founders, HasRow
<1> QED BY <1>1, <1>2, <1>3 DEF Next

LEMMA ArriveSteps ==
    ASSUME TypeOK, NEW r \in Request, Arrive(r)
    PROVE  request'[r].step \in {"inviteSender", "acceptFind", "declineUpdate",
                                "removeAsAdmin", "deleteValidHouse"}
BY DEF Arrive, BeginInvite, BeginAccept, BeginDecline, BeginRemove, BeginDelete,
       Begin, Idle, TypeOK

\* A call comes to the write of a deletion from its load, and from nowhere else.
LEMMA ToDeleteSave ==
    ASSUME IInv, [Next]_vars, NEW s \in Request, request'[s].step = "deleteSave"
    PROVE  request'[s] = request[s] \/ DeleteLoad(s)
<1> USE DEF IInv, TypeOK, Check, Goto, Finish, Idle, Call
<1>1. ASSUME NEW r \in Request, r # s, Arrive(r) \/ Proceed(r) \/ Interrupt(r)
      PROVE  request'[s] = request[s]
  BY <1>1, OthersWait
<1>2. ~Arrive(s)
  BY ArriveSteps
<1>3. ~Invite(s)
  BY DEF Invite, InviteSender, InviteHouse, InviteReceiver, InvitePending, InviteSave
<1>4. ~Accept(s)
  BY DEF Accept, AcceptFind, AcceptFound, AcceptRefused,
         AcceptHouse, AcceptMember, AcceptUpdate, AcceptSave
<1>5. ~DeclineUpdate(s) /\ ~Interrupt(s)
  BY DEF DeclineUpdate, Interrupt
<1>6. ~Remove(s)
  BY DEF Remove, RemoveAsAdmin, RemoveAsMember, RemoveTarget, RemoveSave
<1>7. CASE Delete(s)
  BY <1>7 DEF Delete, DeleteValidHouse, DeleteValidMember, DeleteSave, DeleteRefused
<1>8. CASE (\E u \in User : CreateNewHouse(u)) \/ UNCHANGED vars
  BY <1>8 DEF CreateNewHouse, vars
<1> QED BY <1>1, <1>2, <1>3, <1>4, <1>5, <1>6, <1>7, <1>8 DEF Next, Proceed

\* A house changes when it is founded and when it is deleted.
LEMMA HouseNext ==
    ASSUME IInv, [Next]_vars, NEW h \in House, house'[h] # house[h]
    PROVE  \/ house[h] = "unused" /\ house'[h] = "live"
           \/ \E r \in Request : DeleteSave(r) /\ request[r].house = h
<1> USE DEF IInv, TypeOK
<1>1. ASSUME NEW u \in User, CreateNewHouse(u)
      PROVE  house[h] = "unused" /\ house'[h] = "live"
  BY <1>1, RowsOfCreate
<1>2. ASSUME NEW r \in Request, DeleteSave(r)
      PROVE  request[r].house = h
  BY <1>2 DEF DeleteSave
<1>3. ASSUME NEW r \in Request, Arrive(r) \/ Proceed(r) \/ Interrupt(r), ~DeleteSave(r)
      PROVE  FALSE
  <2>1. house' = house
    BY <1>3, RowWriters DEF AcceptSave, RemoveSave
  <2> QED BY <2>1
<1>4. CASE UNCHANGED vars
  BY <1>4 DEF vars
<1> QED BY <1>1, <1>2, <1>3, <1>4 DEF Next

\* What a deletion has loaded: the founder, unless the founder has left already.
LoadedFact ==
    \A r \in Request : At(r, "deleteSave") =>
        \A u \in Founders(request[r].house) :
            u \in request[r].loaded \/ member[request[r].house][u].deleted

FoundersGone == LoadedFact /\ FounderLeavesWithHouse

LEMMA LoadedNext ==
    ASSUME IInv, Aging, [Next]_vars, LoadedFact
    PROVE  LoadedFact'
<1> SUFFICES ASSUME NEW s \in Request, request'[s].step = "deleteSave",
                    NEW u \in Founders(request[s].house)'
             PROVE  u \in request'[s].loaded \/ member'[request'[s].house][u].deleted
  BY DEF LoadedFact, At
<1> USE DEF IInv, TypeOK
<1>1. CASE request'[s] = request[s]
  <2>1. /\ request[s].house \in House /\ house[request[s].house] # "unused"
        /\ request'[s].house = request[s].house /\ request'[s].loaded = request[s].loaded
    BY <1>1 DEF Filled, DeleteSteps, Fact, DeleteFact
  <2>2. u \in Founders(request[s].house)
    <3>1. PICK h \in House : h = request[s].house
      BY <2>1
    <3>2. Founders(h)' = Founders(h)
      BY <2>1, <3>1, FoundersStay
    <3> QED BY <2>1, <3>1, <3>2 DEF Founders, HasRow
  <2>3. u \in request[s].loaded \/ member[request[s].house][u].deleted
    BY <1>1, <2>2 DEF LoadedFact, At
  <2> QED BY <2>1, <2>2, <2>3 DEF Aging, Founders
<1>2. CASE DeleteLoad(s)
  <2>1. /\ UNCHANGED member /\ request'[s].house = request[s].house
        /\ request'[s].loaded = Members(request[s].house)
    BY <1>2 DEF DeleteLoad, Finish, Idle, db, Call
  <2> QED BY <2>1 DEF Founders, Members, LiveMember, HasRow
<1> QED BY <1>1, <1>2, ToDeleteSave

LEMMA LeavesNext ==
    ASSUME IInv, Aging, [Next]_vars, FoundersGone
    PROVE  FounderLeavesWithHouse'
<1> SUFFICES ASSUME NEW h \in House, house'[h] = "deleted", NEW u \in Founders(h)'
             PROVE  member'[h][u].deleted
  BY DEF FounderLeavesWithHouse, Founders, Members, LiveMember
<1> USE DEF IInv, TypeOK
<1>1. CASE house[h] = "deleted"
  <2>1. u \in Founders(h)
    BY <1>1, FoundersStay
  <2>2. member[h][u].deleted
    BY <1>1, <2>1 DEF FoundersGone, FounderLeavesWithHouse, Founders, Members, LiveMember
  <2> QED BY <2>1, <2>2 DEF Aging, Founders
<1>2. CASE house[h] # "deleted"
  <2>1. PICK r \in Request : DeleteSave(r) /\ request[r].house = h
    BY <1>2, HouseNext
  <2>2. /\ house[h] # "unused"
        /\ At(r, "deleteSave") /\ member' = Cascade(h, request[r].loaded)
    BY <2>1 DEF DeleteSave, At, Fact, DeleteFact
  <2>3. u \in Founders(h)
    BY <2>2, FoundersStay
  <2>4. CASE u \in request[r].loaded
    <3>1. u \in User /\ member[h][u] \in MemberRow
      BY <2>3 DEF Founders, HasRow
    <3>2. member'[h][u] = [member[h][u] EXCEPT !.deleted = TRUE]
      BY <2>2, <2>4, <3>1 DEF Cascade
    <3> QED BY <3>1, <3>2, DeletedRow
  <2>5. CASE member[h][u].deleted
    BY <2>3, <2>5 DEF Aging, Founders
  <2> QED BY <2>1, <2>2, <2>3, <2>4, <2>5 DEF FoundersGone, LoadedFact
<1> QED BY <1>1, <1>2

\* Whatever happens between the load of a deletion and its write, and for any
\* number of calls: the founder does not stay in a deleted house.
THEOREM FounderLeaves == Spec => []FounderLeavesWithHouse
<1>1. Init => FoundersGone
  BY DEF Init, FoundersGone, LoadedFact, FounderLeavesWithHouse, At, Idle
<1>2. IInv /\ [Next]_vars /\ FoundersGone => FoundersGone'
  BY IInvNext, LoadedNext, LeavesNext DEF FoundersGone
<1>3. FoundersGone => FounderLeavesWithHouse
  BY DEF FoundersGone
<1> QED BY <1>1, <1>2, <1>3, Invariance, PTL DEF Spec

-----------------------------------------------------------------------------
(* A house that everybody has left.                                        *)

\* The steps of a call that has found its caller among the members.
AfterCheck == (InviteSteps \ {"inviteSender"}) \cup {"deleteLoad", "deleteSave"}

LEMMA ToAfterCheck ==
    ASSUME IInv, [Next]_vars, NEW s \in Request, request'[s].step \in AfterCheck
    PROVE  /\ request'[s].house = request[s].house
           /\ \/ request[s].step \in AfterCheck
              \/ request[s].house \in House /\ Members(request[s].house) # {}
<1> USE DEF IInv, TypeOK, Check, Goto, Finish, Idle, Call, At, AfterCheck, InviteSteps
<1>1. ASSUME NEW r \in Request, r # s, Arrive(r) \/ Proceed(r) \/ Interrupt(r)
      PROVE  request'[s] = request[s]
  BY <1>1, OthersWait
<1>2. ~Arrive(s)
  BY ArriveSteps
<1>3. CASE Invite(s) /\ ~InviteSender(s)
  BY <1>3 DEF Invite, InviteHouse, InviteReceiver, InvitePending, InviteSave
<1>4. ~Accept(s)
  BY DEF Accept, AcceptFind, AcceptFound, AcceptRefused,
         AcceptHouse, AcceptMember, AcceptUpdate, AcceptSave
<1>5. ~DeclineUpdate(s) /\ ~Interrupt(s)
  BY DEF DeclineUpdate, Interrupt
<1>6. ~Remove(s)
  BY DEF Remove, RemoveAsAdmin, RemoveAsMember, RemoveTarget, RemoveSave
<1>7. CASE Delete(s) /\ ~DeleteValidMember(s)
  BY <1>7 DEF Delete, DeleteValidHouse, DeleteLoad, DeleteSave, DeleteRefused
<1>8. CASE InviteSender(s) \/ DeleteValidMember(s)
  <2>1. request[s].house \in House /\ request[s].user \in User
    BY <1>8 DEF InviteSender, DeleteValidMember, Filled, DeleteSteps
  <2>2. LiveMember(request[s].house, request[s].user)
    BY <1>8 DEF InviteSender, DeleteValidMember
  <2>3. request'[s].house = request[s].house
    BY <1>8 DEF InviteSender, DeleteValidMember
  <2> QED BY <2>1, <2>2, <2>3 DEF Members
<1>9. CASE (\E u \in User : CreateNewHouse(u)) \/ UNCHANGED vars
  BY <1>9 DEF CreateNewHouse, vars
<1> QED BY <1>1, <1>2, <1>3, <1>4, <1>5, <1>6, <1>7, <1>8, <1>9 DEF Next, Proceed

LEMMA NobodyEnters ==
    ASSUME IInv, Aging, [Next]_vars, NEW h \in House, Deserted(h), NEW u \in User
    PROVE  ~LiveMember(h, u)'
<1> USE DEF IInv
<1>1. HasRow(h, u)' => HasRow(h, u)
  <2>1. ASSUME NEW v \in User, CreateNewHouse(v) PROVE HasRow(h, u)' => HasRow(h, u)
    <3>1. member'[h] = member[h]
      BY <2>1, RowsOfCreate DEF Deserted
    <3> QED BY <3>1 DEF HasRow
  <2>2. ASSUME NEW r \in Request, AcceptSave(r) PROVE HasRow(h, u)' => HasRow(h, u)
    <3>1. CASE h = request[r].house /\ u = request[r].user
      <4>1. PICK i \in Invitation :
                /\ invitation[i] # NULL /\ invitation[i].receiver = u
                /\ invitation[i].house = h
        BY <2>2, <3>1 DEF AcceptSave, At, Fact, AcceptFact, LetsIn, IsAddressedTo, IsRow,
                          AcceptSteps
      <4> QED BY <4>1 DEF Deserted
    <3>2. CASE ~(h = request[r].house /\ u = request[r].user)
      BY <2>2, <3>2, RowsOfSave
    <3> QED BY <3>1, <3>2
  <2>3. ASSUME NEW r \in Request, Arrive(r) \/ Proceed(r) \/ Interrupt(r), ~AcceptSave(r)
        PROVE  HasRow(h, u)' => HasRow(h, u)
    BY <2>3, RowsOfOthers
  <2>4. CASE UNCHANGED vars
    BY <2>4 DEF vars, HasRow
  <2> QED BY <2>1, <2>2, <2>3, <2>4 DEF Next
<1>2. HasRow(h, u) => member[h][u].deleted
  BY DEF Deserted, Members, LiveMember
<1> QED BY <1>1, <1>2 DEF Aging, LiveMember, HasRow

LEMMA NobodyIsInvited ==
    ASSUME IInv, Aging, [Next]_vars, NEW h \in House, Deserted(h),
           NEW i \in Invitation, invitation'[i] # NULL, invitation'[i].house = h
    PROVE  HasRow(h, invitation[i].receiver)'
<1> USE DEF IInv
<1>1. CASE invitation[i] # NULL
  <2>1. PICK u \in User : u = invitation[i].receiver
    BY <1>1 DEF TypeOK, InvitationRow
  <2>2. HasRow(h, u)
    BY <1>1, <2>1 DEF Aging, Deserted
  <2>3. invitation'[i].receiver = u
    BY <1>1, <2>1 DEF Aging
  <2> QED BY <2>2, <2>3 DEF Aging, HasRow
<1>2. CASE invitation[i] = NULL
  <2>1. PICK r \in Request :
            /\ request[r].step = "inviteSave"
            /\ invitation'[i] = [house |-> request[r].house, sender |-> request[r].user,
                                 receiver |-> request[r].other, status |-> "pending"]
    BY <1>2, InvitationNext
  <2>2. request[r].house = h
    BY <2>1
  <2> QED BY <2>1, <2>2 DEF Deserted, InviteSteps
<1> QED BY <1>1, <1>2

\* For any number of users, invitations and calls: a house that nobody is left in,
\* and that nobody who could still come is invited to, stays so and stays undeleted.
THEOREM DesertedCorrect == Spec => DesertedStaysDeserted
<1>1. IInv /\ [Next]_vars =>
        [\A h \in House : Deserted(h) => Deserted(h)' /\ house'[h] = house[h]]_vars
  <2> SUFFICES ASSUME IInv, [Next]_vars, Aging, NEW h \in House, Deserted(h)
               PROVE  Deserted(h)' /\ house'[h] = house[h]
    BY IInvNext
  <2>1. house'[h] = house[h]
    BY HouseNext DEF Deserted, DeleteSave, At
  <2>2. Members(h)' = {}
    BY NobodyEnters DEF Members
  <2>3. \A r \in Request : request'[r].house = h => request'[r].step \notin AfterCheck
    BY ToAfterCheck DEF Deserted, AfterCheck
  <2> QED BY <2>1, <2>2, <2>3, NobodyIsInvited DEF Deserted, AfterCheck
<1> QED BY <1>1, Invariance, PTL DEF Spec, DesertedStaysDeserted

-----------------------------------------------------------------------------
(* Who acts on a house.                                                    *)

\* A call that has found its caller in the house: he has a row there, a deleted one
\* perhaps by now.
CallerFact(r) ==
    /\ request[r].step \in {"removeAsMember", "removeTarget"} /\ request[r].allowed =>
        HasRow(request[r].house, request[r].user)
    /\ request[r].step \in {"removeSave", "deleteLoad", "deleteSave"} =>
        HasRow(request[r].house, request[r].user)

LEMMA CallerNext ==
    ASSUME IInv, Aging, [Next]_vars, \A r \in Request : CallerFact(r), NEW s \in Request
    PROVE  CallerFact(s)'
<1> USE DEF IInv, TypeOK
<1>1. ASSUME NEW h \in House, NEW u \in User, HasRow(h, u)
      PROVE  HasRow(h, u)'
  BY <1>1 DEF Aging, HasRow
<1>2. request[s].step \in RemoveSteps \cup DeleteSteps =>
        request[s].house \in House /\ request[s].user \in User
  BY DEF Filled, RemoveSteps, DeleteSteps
<1>3. CASE request'[s] = request[s]
  BY <1>1, <1>2, <1>3 DEF CallerFact, HasRow, RemoveSteps, DeleteSteps
<1>4. ASSUME NEW r \in Request, r # s, Arrive(r) \/ Proceed(r) \/ Interrupt(r)
      PROVE  request'[s] = request[s]
  BY <1>4, OthersWait
<1>5. CASE Arrive(s)
  BY <1>5, ArriveSteps DEF CallerFact
<1> USE DEF Check, Goto, Finish, Idle, Call, At
<1>6. CASE Invite(s) \/ Accept(s) \/ DeclineUpdate(s) \/ Interrupt(s)
  <2>1. CASE Invite(s)
    BY <2>1 DEF Invite, InviteSender, InviteHouse, InviteReceiver, InvitePending, InviteSave,
                CallerFact
  <2>2. CASE Accept(s)
    BY <2>2 DEF Accept, AcceptFind, AcceptFound, AcceptRefused,
                AcceptHouse, AcceptMember, AcceptUpdate, AcceptSave,
                CallerFact
  <2>3. CASE DeclineUpdate(s) \/ Interrupt(s)
    BY <2>3 DEF DeclineUpdate, Interrupt, CallerFact
  <2> QED BY <1>6, <2>1, <2>2, <2>3
<1>7. CASE Remove(s)
  <2>1. CASE RemoveAsAdmin(s)
    BY <1>1, <1>2, <2>1 DEF RemoveAsAdmin, CallerFact, LiveAs, LiveMember, RemoveSteps, HasRow
  <2>2. CASE RemoveAsMember(s)
    BY <1>1, <1>2, <2>2 DEF RemoveAsMember, CallerFact, LiveAs, LiveMember, RemoveSteps, HasRow
  <2>3. CASE RemoveTarget(s)
    <3>1. PICK h \in House, u \in User : h = request[s].house /\ u = request[s].user
      BY <1>2, <2>3 DEF RemoveTarget, RemoveSteps
    <3>2. \/ request'[s].step = "idle"
          \/ /\ request'[s].step = "removeSave" /\ request[s].allowed
             /\ request'[s].house = h /\ request'[s].user = u
      BY <2>3, <3>1 DEF RemoveTarget
    <3>3. request[s].allowed => HasRow(h, u)'
      BY <1>1, <2>3, <3>1 DEF RemoveTarget, CallerFact
    <3> QED BY <3>2, <3>3 DEF CallerFact, HasRow
  <2>4. CASE RemoveSave(s)
    BY <2>4 DEF RemoveSave, CallerFact
  <2> QED BY <1>7, <2>1, <2>2, <2>3, <2>4 DEF Remove
<1>8. CASE Delete(s)
  <2>1. CASE DeleteValidHouse(s) \/ DeleteSave(s) \/ DeleteRefused(s)
    BY <2>1 DEF DeleteValidHouse, DeleteSave, DeleteRefused, CallerFact
  <2>2. CASE DeleteValidMember(s)
    <3>1. PICK h \in House, u \in User : h = request[s].house /\ u = request[s].user
      BY <1>2, <2>2 DEF DeleteValidMember, DeleteSteps
    <3>2. \/ request'[s].step = "idle"
          \/ /\ request'[s].step = "deleteLoad" /\ LiveMember(h, u)
             /\ request'[s].house = h /\ request'[s].user = u
      BY <2>2, <3>1 DEF DeleteValidMember
    <3>3. LiveMember(h, u) => HasRow(h, u)'
      BY <1>1 DEF LiveMember
    <3> QED BY <3>2, <3>3 DEF CallerFact, HasRow
  <2>3. CASE DeleteLoad(s)
    BY <1>1, <1>2, <2>3 DEF DeleteLoad, CallerFact, DeleteSteps, HasRow
  <2> QED BY <1>8, <2>1, <2>2, <2>3 DEF Delete
<1>9. CASE (\E u \in User : CreateNewHouse(u)) \/ UNCHANGED vars
  <2>1. request'[s] = request[s]
    BY <1>9 DEF CreateNewHouse, vars
  <2> QED BY <1>3, <2>1
<1> QED BY <1>3, <1>4, <1>5, <1>6, <1>7, <1>8, <1>9 DEF Next, Proceed

\* A live row is deleted by the last statement of a removal or of a deletion.
LEMMA MemberLeaves ==
    ASSUME IInv, [Next]_vars, NEW h \in House, NEW u \in User,
           LiveMember(h, u), ~LiveMember(h, u)'
    PROVE  \E r \in Request : (RemoveSave(r) \/ DeleteSave(r)) /\ request[r].house = h
<1> USE DEF IInv, TypeOK
<1>1. member'[h] # member[h] /\ member'[h][u] # member[h][u]
  BY DEF LiveMember, HasRow
<1>2. ASSUME NEW v \in User, CreateNewHouse(v) PROVE FALSE
  <2>1. PICK g \in House :
            /\ house[g] = "unused"
            /\ \A f \in House \ {g} : house'[f] = house[f] /\ member'[f] = member[f]
    BY <1>2, RowsOfCreate
  <2>2. g = h
    BY <1>1, <2>1
  <2> QED BY <2>1, <2>2 DEF OneFounder, LiveMember
<1>3. ASSUME NEW r \in Request, AcceptSave(r) PROVE FALSE
  <2>1. CASE UniqueIndexFree(request[r].house, request[r].user)
    BY <1>1, <1>3, <2>1 DEF AcceptSave, UniqueIndexFree, LiveMember, HasRow
  <2>2. CASE ~UniqueIndexFree(request[r].house, request[r].user)
    BY <1>1, <1>3, <2>2 DEF AcceptSave
  <2> QED BY <2>1, <2>2
<1>4. ASSUME NEW r \in Request, RemoveSave(r) PROVE request[r].house = h
  BY <1>1, <1>4 DEF RemoveSave
<1>5. ASSUME NEW r \in Request, DeleteSave(r) PROVE request[r].house = h
  BY <1>1, <1>5 DEF DeleteSave, Cascade
<1>6. ASSUME NEW r \in Request, Arrive(r) \/ Proceed(r) \/ Interrupt(r)
      PROVE  RemoveSave(r) \/ DeleteSave(r)
  BY <1>1, <1>3, <1>6, RowWriters
<1>7. ~(UNCHANGED vars)
  BY <1>1 DEF vars
<1> QED BY <1>2, <1>4, <1>5, <1>6, <1>7 DEF Next

\* For any number of users and concurrent calls: whoever makes a member leave, deletes a
\* house or invites to it has been let into that house some time before.
THEOREM MembersActOnly == Spec => OnlyMembersAct
<1>1. Init => \A r \in Request : CallerFact(r)
  BY DEF Init, Idle, CallerFact
<1>2. IInv /\ [Next]_vars /\ (\A r \in Request : CallerFact(r))
        => (\A r \in Request : CallerFact(r))'
  <2> SUFFICES ASSUME IInv, [Next]_vars, \A r \in Request : CallerFact(r)
               PROVE  (\A r \in Request : CallerFact(r))'
    OBVIOUS
  <2>1. Aging
    BY IInvNext
  <2>2. \A r \in Request : CallerFact(r)'
    BY <2>1, CallerNext
  <2> QED BY <2>2
<1>3. ASSUME IInv, [Next]_vars, \A r \in Request : CallerFact(r), NEW h \in House,
             LosesMember(h) \/ Closes(h) \/ GetsInvitation(h)
      PROVE  \E r \in Request : request'[r] # request[r] /\ HasRow(h, request[r].user)
  <2>1. ASSUME NEW r \in Request, RemoveSave(r) \/ DeleteSave(r) \/ InviteSave(r),
               request[r].house = h
        PROVE  request'[r] # request[r] /\ HasRow(h, request[r].user)
    <3>1. request'[r] # request[r]
      <4>1. request[r].step # "idle"
        BY <2>1 DEF RemoveSave, DeleteSave, InviteSave, At
      <4>2. request'[r] = Idle
        BY <2>1, <1>3 DEF RemoveSave, DeleteSave, InviteSave, Finish, IInv, TypeOK
      <4> QED BY <4>1, <4>2 DEF Idle
    <3>2. HasRow(h, request[r].user)
      <4>1. CASE InviteSave(r)
        BY <1>3, <2>1, <4>1 DEF InviteSave, At, IInv, Fact, InviteFact, InviteSteps
      <4>2. CASE RemoveSave(r) \/ DeleteSave(r)
        BY <1>3, <2>1, <4>2 DEF RemoveSave, DeleteSave, At, CallerFact
      <4> QED BY <2>1, <4>1, <4>2
    <3> QED BY <3>1, <3>2
  <2>2. CASE LosesMember(h)
    BY <1>3, <2>1, <2>2, MemberLeaves DEF LosesMember
  <2>3. CASE Closes(h)
    BY <1>3, <2>1, <2>3, HouseNext DEF Closes
  <2>4. CASE GetsInvitation(h)
    <3>1. PICK i \in Invitation :
            invitation[i] = NULL /\ invitation'[i] # NULL /\ invitation'[i].house = h
      BY <2>4 DEF GetsInvitation
    <3>2. PICK r \in Request :
            /\ InviteSave(r)
            /\ invitation'[i] = [house |-> request[r].house, sender |-> request[r].user,
                                 receiver |-> request[r].other, status |-> "pending"]
      BY <1>3, <3>1, InvitationNext DEF IInv
    <3>3. request[r].house = h
      BY <3>1, <3>2
    <3> QED BY <2>1, <3>2, <3>3
  <2> QED BY <1>3, <2>2, <2>3, <2>4
<1>4. IInv /\ [Next]_vars /\ (\A r \in Request : CallerFact(r)) =>
        [\A h \in House :
            LosesMember(h) \/ Closes(h) \/ GetsInvitation(h)
                => \E r \in Request :
                    request'[r] # request[r] /\ HasRow(h, request[r].user)]_vars
  BY <1>3
<1> QED BY <1>1, <1>2, <1>4, Invariance, PTL DEF Spec, OnlyMembersAct

-----------------------------------------------------------------------------
(* A deleted house.                                                        *)

\* The steps of a join or an invite that has found the house alive.
PastHouseCheck == {"inviteReceiver", "invitePending", "inviteSave",
                   "acceptMember", "acceptUpdate", "acceptSave"}

LEMMA ToPastHouseCheck ==
    ASSUME IInv, [Next]_vars, NEW s \in Request, request'[s].step \in PastHouseCheck
    PROVE  /\ request'[s].house = request[s].house
           /\ request[s].step \in PastHouseCheck \/ LiveHouse(request[s].house)
<1> USE DEF IInv, TypeOK, Check, Goto, Finish, Idle, Call, At, PastHouseCheck
<1>1. ASSUME NEW r \in Request, r # s, Arrive(r) \/ Proceed(r) \/ Interrupt(r)
      PROVE  request'[s] = request[s]
  BY <1>1, OthersWait
<1>2. ~Arrive(s)
  BY ArriveSteps
<1>3. CASE Invite(s)
  BY <1>3 DEF Invite, InviteSender, InviteHouse, InviteReceiver, InvitePending, InviteSave
<1>4. CASE Accept(s)
  BY <1>4 DEF Accept, AcceptFind, AcceptFound, AcceptRefused,
              AcceptHouse, AcceptMember, AcceptUpdate, AcceptSave
<1>5. ~DeclineUpdate(s) /\ ~Interrupt(s)
  BY DEF DeclineUpdate, Interrupt
<1>6. ~Remove(s)
  BY DEF Remove, RemoveAsAdmin, RemoveAsMember, RemoveTarget, RemoveSave
<1>7. ~Delete(s)
  BY DEF Delete, DeleteValidHouse, DeleteValidMember, DeleteLoad, DeleteSave, DeleteRefused
<1>8. CASE (\E u \in User : CreateNewHouse(u)) \/ UNCHANGED vars
  BY <1>8 DEF CreateNewHouse, vars
<1> QED BY <1>1, <1>2, <1>3, <1>4, <1>5, <1>6, <1>7, <1>8 DEF Next, Proceed

\* Somebody comes in by the creation of the house or by the last statement of a join.
LEMMA MemberEnters ==
    ASSUME IInv, Aging, [Next]_vars, NEW h \in House, NEW u \in User,
           ~LiveMember(h, u), LiveMember(h, u)'
    PROVE  \/ house[h] = "unused"
           \/ \E r \in Request : AcceptSave(r) /\ request[r].house = h /\ request[r].user = u
<1> USE DEF IInv
<1>1. ~HasRow(h, u) /\ HasRow(h, u)'
  BY DEF LiveMember, HasRow, Aging
<1>2. ASSUME NEW v \in User, CreateNewHouse(v) PROVE house[h] = "unused"
  <2>1. PICK g \in House :
            /\ house[g] = "unused"
            /\ \A f \in House \ {g} : house'[f] = house[f] /\ member'[f] = member[f]
    BY <1>2, RowsOfCreate
  <2> QED BY <1>1, <2>1 DEF HasRow
<1>3. ASSUME NEW r \in Request, AcceptSave(r)
      PROVE  request[r].house = h /\ request[r].user = u
  BY <1>1, <1>3, RowsOfSave
<1>4. ASSUME NEW r \in Request, Arrive(r) \/ Proceed(r) \/ Interrupt(r)
      PROVE  AcceptSave(r)
  BY <1>1, <1>4, RowsOfOthers
<1>5. ~(UNCHANGED vars)
  BY <1>1 DEF vars, HasRow
<1> QED BY <1>2, <1>3, <1>4, <1>5 DEF Next

\* For any number of calls and of members it was left with: a deleted house that no join
\* or invite in progress has found alive gets no member and no invitation any more.
THEOREM SettledCorrect == Spec => SettledStaysSettled
<1>1. ASSUME IInv, Aging, [Next]_vars, NEW h \in House, Settled(h)
      PROVE  Settled(h)' /\ Members(h)' \subseteq Members(h) /\ ~GetsInvitation(h)
  <2> USE DEF PastHouseCheck
  <2>1. house'[h] = "deleted"
    BY <1>1 DEF Settled, Aging
  <2>2. \A r \in Request : request'[r].house = h => request'[r].step \notin PastHouseCheck
    BY <1>1, ToPastHouseCheck DEF Settled, LiveHouse
  <2>3. Members(h)' \subseteq Members(h)
    <3>1. \A r \in Request : request[r].house = h => ~AcceptSave(r)
      BY <1>1 DEF Settled, AcceptSave, At
    <3> QED BY <1>1, <3>1, MemberEnters DEF Members, Settled
  <2>4. ~GetsInvitation(h)
    <3> SUFFICES ASSUME NEW i \in Invitation,
                        invitation[i] = NULL, invitation'[i] # NULL, invitation'[i].house = h
                 PROVE  FALSE
      BY DEF GetsInvitation
    <3>1. PICK r \in Request :
            /\ request[r].step = "inviteSave"
            /\ invitation'[i] = [house |-> request[r].house, sender |-> request[r].user,
                                 receiver |-> request[r].other, status |-> "pending"]
      BY <1>1, InvitationNext DEF IInv
    <3>2. request[r].house = h
      BY <3>1
    <3> QED BY <1>1, <3>1, <3>2 DEF Settled
  <2> QED BY <2>1, <2>2, <2>3, <2>4 DEF Settled
<1>2. IInv /\ [Next]_vars =>
        [\A h \in House : Settled(h) =>
            /\ Settled(h)'
            /\ Members(h)' \subseteq Members(h)
            /\ ~GetsInvitation(h)]_vars
  BY <1>1, IInvNext
<1> QED BY <1>2, Invariance, PTL DEF Spec, SettledStaysSettled

-----------------------------------------------------------------------------
(* Calls that come one at a time.                                          *)

\* member.service.ts:98 promises an error to a second invite while one waits.  Two calls
\* that overlap break it; calls that come one at a time keep it.
THEOREM OnePendingOfOneCall ==
    ASSUME Cardinality(Request) <= 1
    PROVE  Spec => []AtMostOnePending
<1>1. PendingBoundedByConcurrency => AtMostOnePending
  <2> SUFFICES ASSUME PendingBoundedByConcurrency, NEW h \in House, NEW u \in User
               PROVE  Cardinality(Pending(h, u)) <= 1
    BY DEF AtMostOnePending
  <2>1. Pending(h, u) \in SUBSET Invitation
    BY DEF Pending
  <2>2. Cardinality(Pending(h, u)) \in Nat /\ Cardinality(Request) \in Nat
    BY <2>1, FS_Subset, FS_CardinalityType, MembershipAssumption
  <2>3. Cardinality(Pending(h, u)) <= Cardinality(Request)
    BY DEF PendingBoundedByConcurrency
  <2> QED BY <2>2, <2>3
<1> QED BY <1>1, PendingCounted, PTL

LEMMA OnlyCall ==
    ASSUME Cardinality(Request) <= 1, NEW r \in Request, NEW s \in Request
    PROVE  r = s
<1> SUFFICES ASSUME r # s PROVE FALSE
  OBVIOUS
<1>1. IsFiniteSet({r}) /\ Cardinality({r}) = 1
  BY FS_Singleton
<1>2. IsFiniteSet({r} \cup {s}) /\ Cardinality({r} \cup {s}) = 2
  BY <1>1, FS_AddElement
<1>3. {r} \cup {s} \in SUBSET Request
  OBVIOUS
<1>4. 2 <= Cardinality(Request) /\ Cardinality(Request) \in Nat
  BY <1>2, <1>3, FS_Subset, FS_CardinalityType, MembershipAssumption
<1> QED BY <1>4

\* Nobody is left in a deleted house.
ClosedHouseIsEmpty == \A h \in House : house[h] = "deleted" => Members(h) = {}

\* What the only call there is has read still holds.
AloneFact ==
    /\ \A r \in Request : At(r, "deleteSave") =>
            Members(request[r].house) \subseteq request[r].loaded
    /\ \A r \in Request : request[r].step \in PastHouseCheck =>
            house[request[r].house] # "deleted"
    /\ ClosedHouseIsEmpty

LEMMA AloneNext ==
    ASSUME Cardinality(Request) <= 1, IInv, IInv', Aging, [Next]_vars, AloneFact
    PROVE  AloneFact'
<1> USE DEF IInv, TypeOK
<1>1. \A s \in Request : request'[s].step = "deleteSave" =>
        request'[s].house = request[s].house /\ request'[s].house \in House
  <2> SUFFICES ASSUME NEW s \in Request, request'[s].step = "deleteSave"
               PROVE  request'[s].house = request[s].house /\ request'[s].house \in House
    OBVIOUS
  <2>1. request'[s].house \in House
    BY DEF Filled, DeleteSteps
  <2>2. DeleteLoad(s) => request'[s].house = request[s].house
    BY DEF DeleteLoad, Finish, Idle, Call
  <2> QED BY <2>1, <2>2, ToDeleteSave
<1>2. ASSUME NEW s \in Request, request'[s].step = "deleteSave",
             NEW h \in House, request[s].house = h, NEW u \in User, LiveMember(h, u)'
      PROVE  u \in request'[s].loaded
  <2>1. CASE request'[s] = request[s]
    <3>1. house[h] # "unused"
      BY <1>2, <2>1 DEF Fact, DeleteFact
    <3>2. \A r \in Request : ~AcceptSave(r)
      BY <1>2, <2>1, OnlyCall DEF AcceptSave, At
    <3>3. LiveMember(h, u)
      BY <1>2, <3>1, <3>2, MemberEnters
    <3> QED BY <1>2, <2>1, <3>3 DEF AloneFact, At, Members
  <2>2. CASE DeleteLoad(s)
    <3>1. UNCHANGED member /\ request'[s].loaded = Members(h)
      BY <1>2, <2>2 DEF DeleteLoad, Finish, Idle, db, Call
    <3> QED BY <1>2, <3>1 DEF Members, LiveMember, HasRow
  <2> QED BY <1>2, <2>1, <2>2, ToDeleteSave
<1>3. ASSUME NEW s \in Request, request'[s].step \in PastHouseCheck
      PROVE  house'[request'[s].house] # "deleted"
  <2>1. PICK h \in House : h = request'[s].house
    BY <1>3 DEF Filled, PastHouseCheck, InviteSteps, AcceptSteps
  <2>2. house[h] # "deleted"
    BY <1>3, <2>1, ToPastHouseCheck DEF AloneFact, LiveHouse
  <2>3. \A r \in Request : ~DeleteSave(r)
    BY <1>3, OnlyCall DEF DeleteSave, Finish, Idle, PastHouseCheck
  <2> QED BY <2>1, <2>2, <2>3, HouseNext
<1>4. ASSUME NEW h \in House, house'[h] = "deleted", NEW u \in User, LiveMember(h, u)'
      PROVE  FALSE
  <2>1. CASE house[h] = "deleted"
    <3>1. ~LiveMember(h, u)
      BY <2>1 DEF AloneFact, ClosedHouseIsEmpty, Members
    <3>2. PICK r \in Request : AcceptSave(r) /\ request[r].house = h
      BY <1>4, <2>1, <3>1, MemberEnters
    <3> QED BY <2>1, <3>2 DEF AloneFact, AcceptSave, At, PastHouseCheck
  <2>2. CASE house[h] # "deleted"
    <3>1. PICK r \in Request : DeleteSave(r) /\ request[r].house = h
      BY <1>4, <2>2, HouseNext
    <3>2. /\ Members(h) \subseteq request[r].loaded
          /\ member' = Cascade(h, request[r].loaded)
      BY <3>1 DEF AloneFact, DeleteSave
    <3>3. CASE u \in request[r].loaded
      <4>1. member[h][u] \in MemberRow
        BY <3>1, <3>3 DEF DeleteSave, At, Fact, DeleteFact, HasRow
      <4>2. member'[h][u] = [member[h][u] EXCEPT !.deleted = TRUE]
        BY <3>2, <3>3 DEF Cascade
      <4> QED BY <1>4, <4>1, <4>2, DeletedRow DEF LiveMember
    <3>4. CASE u \notin request[r].loaded
      <4>1. member'[h][u] = member[h][u]
        BY <3>2, <3>4 DEF Cascade
      <4> QED BY <1>4, <3>2, <3>4, <4>1 DEF LiveMember, HasRow, Members
    <3> QED BY <3>3, <3>4
  <2> QED BY <2>1, <2>2
<1>5. (\A r \in Request : At(r, "deleteSave") =>
            Members(request[r].house) \subseteq request[r].loaded)'
  <2> SUFFICES ASSUME NEW s \in Request, request'[s].step = "deleteSave"
               PROVE  (Members(request[s].house) \subseteq request[s].loaded)'
    BY DEF At
  <2>1. PICK h \in House : h = request[s].house /\ h = request'[s].house
    BY <1>1
  <2>2. Members(h)' \subseteq request'[s].loaded
    BY <1>2, <2>1 DEF Members
  <2> QED BY <2>1, <2>2 DEF Members, LiveMember, HasRow
<1> QED BY <1>3, <1>4, <1>5 DEF AloneFact, ClosedHouseIsEmpty, Members, LiveMember, HasRow

\* The cascade of a deletion takes the members that were loaded some awaits before.  With
\* calls that come one at a time those are all there are: nobody is left in a deleted house.
THEOREM ClosedEmptyOfOneCall ==
    ASSUME Cardinality(Request) <= 1
    PROVE  Spec => []ClosedHouseIsEmpty
<1>1. Init => AloneFact
  BY DEF Init, AloneFact, ClosedHouseIsEmpty, At, Idle, PastHouseCheck
<1>2. IInv /\ [Next]_vars /\ AloneFact => AloneFact'
  BY IInvNext, AloneNext
<1>3. AloneFact => ClosedHouseIsEmpty
  BY DEF AloneFact
<1> QED BY <1>1, <1>2, <1>3, Invariance, PTL DEF Spec

=============================================================================
