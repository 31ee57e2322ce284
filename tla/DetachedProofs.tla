----------------------------- MODULE DetachedProofs -----------------------------
(* What TLAPS proves about DetachedWrites, for every value of its           *)
(* constants.                                                              *)
EXTENDS DetachedWrites, TLAPS

-----------------------------------------------------------------------------
(* The inductive invariant.                                                *)

Founded(h) == h \in open \cup closed

\* Houses nobody has founded are empty, and deleted houses stay deleted.
RosterFact ==
    /\ open \cap closed = {}
    /\ \A h \in House : ~Founded(h) => \A u \in User : place[h][u] = "outside"

\* The answer of the validator goes stale, but who belonged has belonged.
CallFact(r) ==
    LET call == request[r]
    IN  /\ call.step # "idle" => call.house \in House /\ Founded(call.house)
        /\ call.step = "validMember" => call.user = NULL
        /\ call.step = "handler" => call.user \in User /\ Belonged(call.house, call.user)

WriteFact(k) ==
    write[k] # NULL => Founded(write[k].house) /\ Belonged(write[k].house, write[k].by)

IInv == /\ TypeOK
        /\ RosterFact
        /\ NamedByMembers
        /\ \A r \in Request : CallFact(r)
        /\ \A k \in Slot : WriteFact(k)

-----------------------------------------------------------------------------
(* What the roster does.                                                   *)

\* Membership and houses only age.
Ages ==
    /\ \A h \in House : Founded(h) => Founded(h)'
    /\ \A h \in House, u \in User : Belonged(h, u) => Belonged(h, u)'

LEMMA InitHolds ==
    ASSUME DetachedAssumption, Init
    PROVE  IInv
<1>1. TypeOK
  BY DEF Init, TypeOK, Idle, Call, Houses!Place
<1>2. RosterFact /\ NamedByMembers
  BY DEF Init, RosterFact, NamedByMembers, Founded
<1>3. (\A r \in Request : CallFact(r)) /\ (\A k \in Slot : WriteFact(k))
  BY DEF Init, CallFact, WriteFact, Idle
<1> QED BY <1>1, <1>2, <1>3 DEF IInv

\* What a roster step does to one house.
LEMMA RosterStepIs ==
    ASSUME IInv, RosterStep
    PROVE  /\ open' \subseteq House /\ closed' \subseteq House
           /\ place' \in [House -> [User -> Houses!Place]]
           /\ RosterFact' /\ Ages
           /\ \A h \in House, u \in User : place[h][u] = "gone" => place'[h][u] = "gone"
           /\ closed \subseteq closed'
           /\ UNCHANGED <<home, title, request, write, up>>
           /\ name' \in [House -> User \cup {NULL}]
           /\ \A h \in House : \/ (Founded(h)' <=> Founded(h)) /\ name'[h] = name[h]
                               \/ /\ ~Founded(h) /\ Founded(h)' /\ name'[h] \in User
                                  /\ place'[h][name'[h]] # "outside"
<1>1. PICK h \in House, u \in User :
        \/ Houses!Found(h, u) /\ name' = [name EXCEPT ![h] = u]
        \/ Enter(h, u) /\ UNCHANGED name
        \/ Houses!Leave(h, u) /\ UNCHANGED name
        \/ \E leaving \in SUBSET User : Houses!Close(h, leaving) /\ UNCHANGED name
  BY DEF RosterStep
<1>2. UNCHANGED <<home, title, request, write, up>>
  BY DEF RosterStep
<1>9. /\ h \in House /\ u \in User /\ open \subseteq House /\ closed \subseteq House
      /\ place \in [House -> [User -> {"outside", "inside", "gone"}]]
      /\ name \in [House -> User \cup {NULL}]
      /\ open \cap closed = {}
      /\ \A g \in House : g \notin open \cup closed => \A v \in User : place[g][v] = "outside"
  BY DEF IInv, TypeOK, RosterFact, Founded, Houses!Place
<1> USE <1>9 DEF RosterFact, Ages, Founded, Belonged, Houses!Place
<1>3. CASE Houses!Found(h, u) /\ name' = [name EXCEPT ![h] = u]
  BY <1>2, <1>3 DEF Houses!Found
<1>4. CASE Enter(h, u) /\ UNCHANGED name
  BY <1>2, <1>4 DEF Enter, Houses!Enter
<1>5. CASE Houses!Leave(h, u) /\ UNCHANGED name
  BY <1>2, <1>5 DEF Houses!Leave
<1>6. CASE \E leaving \in SUBSET User : Houses!Close(h, leaving) /\ UNCHANGED name
  BY <1>2, <1>6 DEF Houses!Close
<1> QED BY <1>1, <1>3, <1>4, <1>5, <1>6

LEMMA RosterKeeps ==
    ASSUME DetachedAssumption, IInv, RosterStep
    PROVE  IInv'
<1> USE RosterStepIs
<1>1. TypeOK'
  <2>1. \A h \in House : name'[h] = NULL <=> h \notin open' \cup closed'
    <3> SUFFICES ASSUME NEW h \in House
                 PROVE  name'[h] = NULL <=> h \notin open' \cup closed'
      OBVIOUS
    <3>1. name[h] = NULL <=> ~Founded(h)
      BY DEF IInv, TypeOK, Founded
    <3>2. NULL \notin User
      BY DEF DetachedAssumption
    <3> QED BY <3>1, <3>2 DEF Founded
  <2> QED BY <2>1 DEF IInv, TypeOK
<1>2. NamedByMembers'
  <2>1. ASSUME NEW h \in House, name'[h] # NULL
        PROVE  Belonged(h, name[h])'
    <3>1. CASE name'[h] = name[h]
      BY <2>1, <3>1 DEF IInv, TypeOK, NamedByMembers, Ages, Belonged
    <3> QED BY <3>1 DEF Belonged
  <2>2. ASSUME NEW w \in Housework, home'[w] # NULL
        PROVE  Belonged(home[w], title[w])'
    BY <2>2 DEF IInv, TypeOK, NamedByMembers, Ages, Belonged
  <2> QED BY <2>1, <2>2 DEF NamedByMembers
<1>3. \A r \in Request : CallFact(r)'
  BY DEF IInv, CallFact, Ages
<1>4. \A k \in Slot : WriteFact(k)'
  BY DEF IInv, TypeOK, WriteFact, Ages, Update
<1> QED BY <1>1, <1>2, <1>3, <1>4 DEF IInv

-----------------------------------------------------------------------------
(* The steps of the calls, the database and the process.                   *)

LEMMA CreateKeeps ==
    ASSUME DetachedAssumption, IInv, CreateHousework
    PROVE  IInv'
<1>1. PICK w \in Housework, h \in House, u \in User :
        /\ home[w] = NULL /\ Belonged(h, u)
        /\ home' = [home EXCEPT ![w] = h] /\ title' = [title EXCEPT ![w] = u]
  BY DEF CreateHousework
<1>2. UNCHANGED <<roster, name, request, write, up>>
  BY DEF CreateHousework
<1> USE DEF roster
<1>3. TypeOK'
  BY <1>1, <1>2 DEF IInv, TypeOK, DetachedAssumption
<1>4. NamedByMembers'
  BY <1>1, <1>2 DEF IInv, TypeOK, NamedByMembers, Belonged
<1>5. RosterFact' /\ (\A r \in Request : CallFact(r)') /\ (\A k \in Slot : WriteFact(k)')
  BY <1>2 DEF IInv, RosterFact, CallFact, WriteFact, Founded, Belonged
<1> QED BY <1>3, <1>4, <1>5 DEF IInv

\* A step of the calls alone.
LEMMA CallsKeep ==
    ASSUME IInv, UNCHANGED <<roster, texts>>, up' \in BOOLEAN,
           request' \in [Request -> Call], write' \in [Slot -> Update \cup {NULL}],
           \A r \in Request : CallFact(r)', \A k \in Slot : WriteFact(k)'
    PROVE  IInv'
BY DEF IInv, TypeOK, RosterFact, NamedByMembers, Founded, Belonged, roster, texts

LEMMA ValidHouseKeeps ==
    ASSUME IInv, NEW r \in Request, ValidHouse(r)
    PROVE  IInv'
<1>1. PICK h \in open :
        request' = [request EXCEPT ![r] = [Idle EXCEPT !.step = "validMember", !.house = h]]
  BY DEF ValidHouse
<1>2. UNCHANGED <<roster, texts, write, up>> /\ h \in House
  BY DEF ValidHouse, IInv, TypeOK
<1>3. PICK call : call = [Idle EXCEPT !.step = "validMember", !.house = h]
  OBVIOUS
<1>4. call \in Call /\ call.step = "validMember" /\ call.house = h /\ call.user = NULL
  BY <1>2, <1>3 DEF Idle, Call
<1>5. request' = [request EXCEPT ![r] = call]
  BY <1>1, <1>3
<1>6. request' \in [Request -> Call] /\ (\A s \in Request : CallFact(s)')
  BY <1>2, <1>4, <1>5 DEF IInv, TypeOK, CallFact, Founded, Belonged, roster
<1>7. \A k \in Slot : WriteFact(k)'
  BY <1>2 DEF IInv, WriteFact, Founded, Belonged, roster
<1> QED BY <1>2, <1>6, <1>7, CallsKeep DEF IInv, TypeOK

LEMMA ValidMemberKeeps ==
    ASSUME IInv, NEW r \in Request, ValidMember(r)
    PROVE  IInv'
<1>1. UNCHANGED <<roster, texts, write, up>>
  BY DEF ValidMember
<1>2. \A k \in Slot : WriteFact(k)'
  BY <1>1 DEF IInv, WriteFact, Founded, Belonged, roster
<1>3. ASSUME NEW call \in Call, request' = [request EXCEPT ![r] = call],
             \/ call.step = "idle"
             \/ /\ call.step = "handler" /\ call.house = request[r].house
                /\ call.user \in User /\ Belonged(call.house, call.user)
      PROVE  IInv'
  <2>1. request[r].house \in House /\ Founded(request[r].house)
    BY DEF IInv, CallFact, ValidMember, At
  <2>2. request' \in [Request -> Call] /\ (\A s \in Request : CallFact(s)')
    BY <1>1, <1>3, <2>1 DEF IInv, TypeOK, CallFact, Founded, Belonged, roster
  <2> QED BY <1>1, <1>2, <2>2, CallsKeep DEF IInv, TypeOK
<1>4. ASSUME NEW u \in User, place[request[r].house][u] = "inside",
             request' = [request EXCEPT ![r].step = "handler", ![r].user = u]
      PROVE  IInv'
  <2>1. PICK call : call = [request[r] EXCEPT !.step = "handler", !.user = u]
    OBVIOUS
  <2>2. /\ call \in Call /\ call.step = "handler"
        /\ call.house = request[r].house /\ call.user = u
    BY <2>1 DEF IInv, TypeOK, Call
  <2>3. request' = [request EXCEPT ![r] = call]
    BY <1>4, <2>1 DEF IInv, TypeOK
  <2> QED BY <1>3, <1>4, <2>2, <2>3 DEF Belonged
<1>5. Idle \in Call /\ Idle.step = "idle"
  BY DEF Idle, Call
<1> QED BY <1>3, <1>4, <1>5 DEF ValidMember

LEMMA IssueKeeps ==
    ASSUME DetachedAssumption, IInv, NEW r \in Request, At(r, "handler"),
           NEW w \in Housework \cup {NULL}, Issue(r, w)
    PROVE  IInv'
<1>1. PICK k \in Slot :
        write' = [write EXCEPT ![k] = [house |-> request[r].house, housework |-> w,
                                       by |-> request[r].user]]
  BY DEF Issue, Free
<1>2. request' = [request EXCEPT ![r] = Idle] /\ UNCHANGED <<roster, texts, up>>
  BY DEF Issue
<1>3. /\ request[r].house \in House /\ request[r].user \in User
      /\ Founded(request[r].house) /\ Belonged(request[r].house, request[r].user)
  BY DEF IInv, CallFact, At
<1>4. PICK x : x = [house |-> request[r].house, housework |-> w, by |-> request[r].user]
  OBVIOUS
<1>5. x \in Update /\ x.house = request[r].house /\ x.by = request[r].user
  BY <1>3, <1>4 DEF Update
<1>6. write' \in [Slot -> Update \cup {NULL}] /\ (\A j \in Slot : WriteFact(j)')
  BY <1>1, <1>2, <1>3, <1>4, <1>5
     DEF IInv, TypeOK, WriteFact, Founded, Belonged, roster
<1>7. request' \in [Request -> Call] /\ (\A s \in Request : CallFact(s)')
  BY <1>2 DEF IInv, TypeOK, CallFact, Founded, Belonged, roster, Idle, Call
<1> QED BY <1>2, <1>6, <1>7, CallsKeep DEF IInv, TypeOK

LEMMA RunKeeps ==
    ASSUME DetachedAssumption, IInv, NEW k \in Slot, Run(k)
    PROVE  IInv'
<1>1. PICK x \in Update : x = write[k] /\ Founded(x.house) /\ Belonged(x.house, x.by)
  BY DEF Run, IInv, TypeOK, WriteFact
<1>2. x.house \in House /\ x.by \in User /\ x.by # NULL
  BY <1>1 DEF Update, DetachedAssumption
<1>3. /\ \/ name' = [name EXCEPT ![x.house] = x.by] /\ UNCHANGED title
         \/ /\ title' = [w \in Housework |-> IF w \in Matches(x) THEN x.by ELSE title[w]]
            /\ UNCHANGED name
      /\ write' = [write EXCEPT ![k] = NULL]
      /\ UNCHANGED <<roster, home, request, up>>
  BY <1>1 DEF Run
<1>4. TypeOK'
  BY <1>1, <1>2, <1>3 DEF IInv, TypeOK, Matches, Founded, roster, DetachedAssumption
<1>5. NamedByMembers'
  BY <1>1, <1>2, <1>3 DEF IInv, TypeOK, NamedByMembers, Matches, Belonged, roster
<1>6. RosterFact' /\ (\A r \in Request : CallFact(r)') /\ (\A j \in Slot : WriteFact(j)')
  BY <1>3 DEF IInv, TypeOK, RosterFact, CallFact, WriteFact, Founded, Belonged, roster
<1> QED BY <1>4, <1>5, <1>6 DEF IInv

LEMMA ProcessKeeps ==
    ASSUME IInv, Crash \/ Restart
    PROVE  IInv'
<1>1. UNCHANGED <<roster, texts>> /\ up' \in BOOLEAN
  BY DEF Crash, Restart
<1>2. \A k \in Slot : write'[k] \in {write[k], NULL}
  BY DEF Crash, Restart
<1>3. write' \in [Slot -> Update \cup {NULL}]
  BY DEF Crash, Restart, IInv, TypeOK
<1>4. \A k \in Slot : WriteFact(k)'
  BY <1>1, <1>2 DEF IInv, WriteFact, Founded, Belonged, roster
<1>5. request' \in [Request -> Call] /\ (\A r \in Request : CallFact(r)')
  BY <1>1 DEF Crash, Restart, IInv, TypeOK, CallFact, Founded, Belonged, roster, Idle, Call
<1> QED BY <1>1, <1>3, <1>4, <1>5, CallsKeep

LEMMA NextKeeps ==
    ASSUME DetachedAssumption, IInv, [Next]_vars
    PROVE  IInv'
<1>1. CASE RosterStep
  BY <1>1, RosterKeeps
<1>2. CASE CreateHousework
  BY <1>2, CreateKeeps
<1>3. CASE \E r \in Request : ValidHouse(r)
  BY <1>3, ValidHouseKeeps
<1>4. CASE \E r \in Request : ValidMember(r)
  BY <1>4, ValidMemberKeeps
<1>5. CASE \E r \in Request : RenameHouse(r) \/ UpdateHousework(r)
  BY <1>5, IssueKeeps DEF RenameHouse, UpdateHousework
<1>6. CASE \E k \in Slot : Run(k)
  BY <1>6, RunKeeps
<1>7. CASE Crash \/ Restart
  BY <1>7, ProcessKeeps
<1>8. CASE UNCHANGED vars
  BY <1>8, CallsKeep DEF vars, roster, texts, IInv, TypeOK, CallFact, WriteFact,
                         Founded, Belonged
<1> QED BY <1>1, <1>2, <1>3, <1>4, <1>5, <1>6, <1>7, <1>8 DEF Next

LEMMA Invariant == Spec => []IInv
<1>1. Init => IInv
  BY InitHolds, DetachedAssumption
<1>2. IInv /\ [Next]_vars => IInv'
  BY NextKeeps, DetachedAssumption
<1> QED BY <1>1, <1>2, PTL DEF Spec

-----------------------------------------------------------------------------
(* Those who are through stay silent.                                      *)

\* What u says of h is what it was.
Unsaid(h, u) ==
    /\ name'[h] = u => name[h] = u
    /\ \A w \in Housework : home[w] = h /\ title'[w] = u => title[w] = u

\* Nothing that would undo Silenced comes from the roster.
Remains(h, u) ==
    /\ place[h][u] = "gone" => place'[h][u] = "gone"
    /\ h \in closed => h \in closed'

\* Every call and UPDATE there is has been there, and they say nothing new.
LEMMA NothingNew ==
    ASSUME NEW h, NEW u, Silenced(h, u), Remains(h, u), Unsaid(h, u),
           \A r \in Request : request'[r] = request[r] \/ request'[r].house # h,
           \A k \in Slot : write'[k] \in {write[k], NULL}
    PROVE  Silenced(h, u)' /\ Unsaid(h, u)
BY DEF Silenced, OnItsWay, Remains

LEMMA RosterSilent ==
    ASSUME DetachedAssumption, IInv, RosterStep,
           NEW h \in House, NEW u \in User, Silenced(h, u)
    PROVE  Silenced(h, u)' /\ Unsaid(h, u)
<1>1. Remains(h, u)
  BY RosterStepIs DEF Remains
<1>2. UNCHANGED <<title, request, write>>
  BY RosterStepIs
<1>3. name'[h] = name[h]
  <2>1. place[h][u] # "gone" => h \in closed
    BY DEF Silenced
  <2>2. Founded(h)
    BY <2>1 DEF IInv, RosterFact, Founded
  <2> QED BY <2>2, RosterStepIs
<1> QED BY <1>1, <1>2, <1>3, NothingNew DEF Unsaid

LEMMA CreateSilent ==
    ASSUME DetachedAssumption, IInv, CreateHousework,
           NEW h \in House, NEW u \in User, Silenced(h, u)
    PROVE  Silenced(h, u)' /\ Unsaid(h, u)
<1>1. Remains(h, u) /\ UNCHANGED <<name, request, write>>
  BY DEF CreateHousework, Remains, roster
<1>2. \A w \in Housework : home[w] = h => title'[w] = title[w]
  BY DEF CreateHousework, DetachedAssumption, IInv, TypeOK
<1> QED BY <1>1, <1>2, NothingNew DEF Unsaid

LEMMA ValidHouseSilent ==
    ASSUME DetachedAssumption, IInv, NEW r \in Request, ValidHouse(r),
           NEW h \in House, NEW u \in User, Silenced(h, u)
    PROVE  Silenced(h, u)' /\ Unsaid(h, u)
<1>1. PICK g \in open :
        request' = [request EXCEPT ![r] = [Idle EXCEPT !.step = "validMember", !.house = g]]
  BY DEF ValidHouse
<1>2. UNCHANGED <<open, closed, place, name, title, home, write>>
  BY DEF ValidHouse, roster, texts
<1>3. PICK call : call = [Idle EXCEPT !.step = "validMember", !.house = g]
  OBVIOUS
<1>4. call.house = g /\ call.user = NULL
  BY <1>3 DEF Idle
<1>5. request'[r] = call /\ \A s \in Request : s # r => request'[s] = request[s]
  BY <1>1, <1>3 DEF IInv, TypeOK
<1>6. g = h => place[h][u] = "gone"
  BY DEF Silenced, IInv, RosterFact
<1>7. u # NULL
  BY DEF DetachedAssumption
<1>8. ~OnItsWay(h, u)'
  BY <1>2, <1>4, <1>5, <1>6, <1>7 DEF Silenced, OnItsWay
<1> QED BY <1>2, <1>8 DEF Silenced, Unsaid

LEMMA ValidMemberSilent ==
    ASSUME DetachedAssumption, IInv, NEW r \in Request, ValidMember(r),
           NEW h \in House, NEW u \in User, Silenced(h, u)
    PROVE  Silenced(h, u)' /\ Unsaid(h, u)
<1>1. UNCHANGED <<open, closed, place, name, title, home, write>>
  BY DEF ValidMember, roster, texts
<1>2. request[r].user = NULL
  BY DEF ValidMember, At, IInv, CallFact
<1>3. \A s \in Request : s # r => request'[s] = request[s]
  BY DEF ValidMember, IInv, TypeOK
<1>4. \/ request'[r] = Idle
      \/ /\ request'[r].house = request[r].house
         /\ request'[r].user \in User
         /\ place[request[r].house][request'[r].user] = "inside"
  BY DEF ValidMember, IInv, TypeOK, Call
<1>5. ~(request'[r].house = h /\ (request'[r].user = u \/ request'[r].user = NULL))
  BY <1>2, <1>4 DEF Silenced, OnItsWay, Idle, DetachedAssumption
<1>6. ~OnItsWay(h, u)'
  BY <1>1, <1>3, <1>5 DEF Silenced, OnItsWay
<1> QED BY <1>1, <1>6 DEF Silenced, Unsaid

LEMMA IssueSilent ==
    ASSUME DetachedAssumption, IInv, NEW r \in Request, At(r, "handler"),
           NEW w \in Housework \cup {NULL}, Issue(r, w),
           NEW h \in House, NEW u \in User, Silenced(h, u)
    PROVE  Silenced(h, u)' /\ Unsaid(h, u)
<1>1. UNCHANGED <<open, closed, place, name, title, home>>
  BY DEF Issue, roster, texts
<1>2. PICK k \in Slot :
        write' = [write EXCEPT ![k] = [house |-> request[r].house, housework |-> w,
                                       by |-> request[r].user]]
  BY DEF Issue, Free
<1>3. request'[r] = Idle /\ \A s \in Request : s # r => request'[s] = request[s]
  BY DEF Issue, IInv, TypeOK
<1>4. ~(request[r].house = h /\ request[r].user = u)
  BY DEF Silenced, OnItsWay
<1>5. ~(write'[k].house = h /\ write'[k].by = u) /\ \A j \in Slot : j # k => write'[j] = write[j]
  BY <1>2, <1>4 DEF IInv, TypeOK
<1>6. ~OnItsWay(h, u)'
  BY <1>1, <1>3, <1>5 DEF Silenced, OnItsWay, Idle, DetachedAssumption
<1> QED BY <1>1, <1>6 DEF Silenced, Unsaid

LEMMA RunSilent ==
    ASSUME DetachedAssumption, IInv, NEW k \in Slot, Run(k),
           NEW h \in House, NEW u \in User, Silenced(h, u)
    PROVE  Silenced(h, u)' /\ Unsaid(h, u)
<1>1. /\ UNCHANGED <<open, closed, place, home, request>>
      /\ write' = [write EXCEPT ![k] = NULL]
  BY DEF Run, roster
<1>2. Remains(h, u) /\ \A j \in Slot : write'[j] \in {write[j], NULL}
  BY <1>1 DEF Remains, IInv, TypeOK
<1>3. PICK x : x = write[k]
  OBVIOUS
<1>4. x # NULL /\ ~(x.house = h /\ x.by = u)
  BY <1>3 DEF Run, Silenced, OnItsWay
<1>5. \/ name' = [name EXCEPT ![x.house] = x.by] /\ UNCHANGED title
      \/ /\ title' = [w \in Housework |-> IF w \in Matches(x) THEN x.by ELSE title[w]]
         /\ UNCHANGED name
  BY <1>3 DEF Run
<1>6. Unsaid(h, u)
  BY <1>4, <1>5 DEF Unsaid, Matches, IInv, TypeOK
<1> QED BY <1>1, <1>2, <1>6, NothingNew

LEMMA ProcessSilent ==
    ASSUME DetachedAssumption, IInv, Crash \/ Restart,
           NEW h \in House, NEW u \in User, Silenced(h, u)
    PROVE  Silenced(h, u)' /\ Unsaid(h, u)
<1>1. Remains(h, u) /\ Unsaid(h, u)
  BY DEF Crash, Restart, roster, texts, Remains, Unsaid
<1>2. \A k \in Slot : write'[k] \in {write[k], NULL}
  BY DEF Crash, Restart
<1>3. \A r \in Request : request'[r] = request[r] \/ request'[r].house # h
  BY DEF Crash, Restart, Idle, DetachedAssumption
<1> QED BY <1>1, <1>2, <1>3, NothingNew

-----------------------------------------------------------------------------
(* Theorems.                                                               *)

\* Rows, calls and UPDATEs have their shape.
THEOREM TypeCorrect == Spec => []TypeOK
<1>1. IInv => TypeOK
  BY DEF IInv
<1> QED BY <1>1, Invariant, PTL

\* A house and its housework are called what a member, or former member, said.
THEOREM MembersName == Spec => []NamedByMembers
<1>1. IInv => NamedByMembers
  BY DEF IInv
<1> QED BY <1>1, Invariant, PTL

\* Who is through with a house, having left it or the house being deleted, stays
\* silent, however many calls of others and UPDATEs are on their way.
THEOREM GoneSilent == Spec => GoneStaysSilent
<1> DEFINE Kept == \A h \in House, u \in User : Silenced(h, u) =>
                    /\ Silenced(h, u)'
                    /\ name'[h] = u => name[h] = u
                    /\ \A w \in Housework : home[w] = h /\ title'[w] = u => title[w] = u
<1>1. IInv /\ [Next]_vars => [Kept]_vars
  <2> SUFFICES ASSUME IInv, Next, NEW h \in House, NEW u \in User, Silenced(h, u)
               PROVE  Silenced(h, u)' /\ Unsaid(h, u)
    BY DEF Unsaid
  <2> USE DetachedAssumption
  <2>1. CASE RosterStep
    BY <2>1, RosterSilent
  <2>2. CASE CreateHousework
    BY <2>2, CreateSilent
  <2>3. CASE \E r \in Request : ValidHouse(r)
    BY <2>3, ValidHouseSilent
  <2>4. CASE \E r \in Request : ValidMember(r)
    BY <2>4, ValidMemberSilent
  <2>5. CASE \E r \in Request : RenameHouse(r) \/ UpdateHousework(r)
    BY <2>5, IssueSilent DEF RenameHouse, UpdateHousework
  <2>6. CASE \E k \in Slot : Run(k)
    BY <2>6, RunSilent
  <2>7. CASE Crash \/ Restart
    BY <2>7, ProcessSilent
  <2> QED BY <2>1, <2>2, <2>3, <2>4, <2>5, <2>6, <2>7 DEF Next
<1> QED BY <1>1, Invariant, PTL DEF Spec, GoneStaysSilent

=============================================================================
