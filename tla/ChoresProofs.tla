------------------------------ MODULE ChoresProofs ------------------------------
(* What TLAPS proves about Chores, for every value of its constants.       *)
EXTENDS Chores, TLAPS

-----------------------------------------------------------------------------
(* The inductive invariant.                                                *)

TableFact ==
    /\ open \subseteq House
    /\ place \in [House -> [User -> Houses!Place]]
    /\ housework \in [Housework -> HouseworkRow \cup {NULL}]
    /\ task \in [Task -> TaskRow \cup {NULL}]
    /\ \A t \in Task : task[t] # NULL =>
        /\ housework[task[t].housework] # NULL
        /\ (task[t].assignee = NULL) = (task[t].assigner = NULL)

\* Housework w was found in house h.
Found(w, h) == w \in Housework /\ housework[w] # NULL /\ housework[w].house = h

TaskSteps == {"createAssignee", "createSave", "updateAssignee", "updateLoad", "updateSave"}

\* What a call has seen and what has become of it: the caller and the assignee may
\* have left the house, the housework and the task may have been deleted or
\* changed, but none of them is unknown.
CallFact(call) ==
    /\ call.step # "idle" => call.house \in House
    /\ call.step \notin {"idle", "validMember"} =>
        call.user \in User /\ Belonged(call.house, call.user)
    /\ call.assignee # NULL => call.house \in House /\ Belonged(call.house, call.assignee)
    /\ call.step = "houseworkDelete" => Found(call.housework, call.house)
    /\ call.step \in TaskSteps => call.housework = NULL \/ Found(call.housework, call.house)
    /\ call.step \in {"updateSave", "taskRemove"} => call.task \in Task /\ task[call.task] # NULL

\* An update that found the assignee different has one; and of a task without
\* assignee it writes both columns or neither.
ChangeFact(call) ==
    call.step = "updateSave" =>
        /\ call.housework # NULL
        /\ "assignee" \in call.changed \/ "assigner" \in call.changed => call.assignee # NULL
        /\ task[call.task].assignee = NULL =>
            ("assignee" \in call.changed <=> "assigner" \in call.changed)

IInv == /\ TableFact
        /\ request \in [Request -> Call]
        /\ \A r \in Request : CallFact(request[r]) /\ ChangeFact(request[r])

\* What a step may not do to the tables.
Ages ==
    /\ \A h \in House, u \in User : Belonged(h, u) => Belonged(h, u)'
    /\ \A w \in Housework : housework[w] # NULL =>
        /\ housework'[w] # NULL
        /\ housework'[w].house = housework[w].house
        /\ housework[w].deleted => housework'[w].deleted
    /\ \A t \in Task : task[t] # NULL =>
        /\ task'[t] # NULL
        /\ task'[t].assignee = NULL => task[t].assignee = NULL
        /\ task[t].deleted => task'[t].deleted

LEMMA InitHolds ==
    ASSUME Init
    PROVE  IInv
<1>1. TableFact
  BY DEF Init, TableFact, Houses!Place
<1>2. Idle \in Call /\ CallFact(Idle) /\ ChangeFact(Idle)
  BY DEF Idle, Call, CallFact, ChangeFact, TaskSteps
<1> QED BY <1>1, <1>2 DEF Init, IInv

LEMMA FactKept ==
    ASSUME Ages, NEW call \in Call, CallFact(call), ChangeFact(call)
    PROVE  CallFact(call)' /\ ChangeFact(call)'
<1>1. CallFact(call)'
  BY DEF CallFact, Ages, Found, Call, Belonged
<1>2. ChangeFact(call)'
  BY DEF CallFact, ChangeFact, Ages
<1> QED BY <1>1, <1>2

\* A step of one call.
LEMMA CallStep ==
    ASSUME IInv, TableFact', Ages, NEW r \in Request, NEW call \in Call,
           request' = [request EXCEPT ![r] = call],
           CallFact(call)', ChangeFact(call)'
    PROVE  IInv'
<1>1. request' \in [Request -> Call]
  BY DEF IInv
<1>2. ASSUME NEW s \in Request PROVE (CallFact(request[s]) /\ ChangeFact(request[s]))'
  <2>1. PICK c \in Call : c = request[s]
    BY DEF IInv
  <2>2. CallFact(c)' /\ ChangeFact(c)'
    BY <2>1, FactKept DEF IInv
  <2>3. request'[s] = call \/ request'[s] = c
    BY <2>1 DEF IInv
  <2> QED BY <2>2, <2>3 DEF CallFact, ChangeFact, Found, Belonged
<1> QED BY <1>1, <1>2 DEF IInv

\* A step of a call that writes to no table.
LEMMA ReadStep ==
    ASSUME IInv, NEW r \in Request, NEW call \in Call,
           request' = [request EXCEPT ![r] = call], CallFact(call), ChangeFact(call),
           UNCHANGED <<open, closed, place, chores>>
    PROVE  IInv' /\ Ages
<1>1. Ages
  BY DEF Ages, chores, Belonged
<1>2. TableFact'
  BY DEF IInv, TableFact, chores
<1>3. CallFact(call)' /\ ChangeFact(call)'
  BY <1>1, FactKept
<1> QED BY <1>1, <1>2, <1>3, CallStep

LEMMA IdleFact == Idle \in Call /\ Idle.step = "idle" /\ CallFact(Idle) /\ ChangeFact(Idle)
BY DEF Idle, Call, CallFact, ChangeFact, TaskSteps

LEMMA FinishReads ==
    ASSUME IInv, NEW r \in Request, Finish(r), UNCHANGED <<open, closed, place, chores>>
    PROVE  IInv' /\ Ages
BY IdleFact, ReadStep DEF Finish

-----------------------------------------------------------------------------
(* The roster, and the validator of the routes.                            *)

LEMMA RosterKeeps ==
    ASSUME IInv, RosterStep
    PROVE  IInv' /\ Ages
<1>1. PICK h \in House :
        \/ \E u \in User : Houses!Found(h, u) \/ Enter(h, u) \/ Houses!Leave(h, u)
        \/ \E leaving \in SUBSET User : Houses!Close(h, leaving)
  BY DEF RosterStep
<1>2. UNCHANGED <<housework, task, request>>
  BY DEF RosterStep, chores
<1>3. /\ open \subseteq House
      /\ place \in [House -> [User -> {"outside", "inside", "gone"}]]
  BY DEF IInv, TableFact, Houses!Place
<1>4. /\ open' \subseteq House /\ place' \in [House -> [User -> Houses!Place]]
      /\ \A g \in House, v \in User : place[g][v] # "outside" => place'[g][v] # "outside"
  <2>1. ASSUME NEW u \in User, Houses!Found(h, u) \/ Enter(h, u) \/ Houses!Leave(h, u)
        PROVE  /\ open' \subseteq House /\ place' \in [House -> [User -> Houses!Place]]
               /\ \A g \in House, v \in User :
                    place[g][v] # "outside" => place'[g][v] # "outside"
    BY <1>3, <2>1 DEF Houses!Found, Enter, Houses!Enter, Houses!Leave, Houses!Place
  <2> QED BY <1>1, <1>3, <2>1 DEF Houses!Close, Houses!Place
<1>5. Ages
  BY <1>2, <1>4 DEF Ages, Belonged
<1>6. TableFact'
  BY <1>2, <1>4 DEF IInv, TableFact
<1>7. ASSUME NEW s \in Request PROVE (CallFact(request[s]) /\ ChangeFact(request[s]))'
  <2>1. PICK c \in Call : c = request[s]
    BY DEF IInv
  <2>2. CallFact(c)' /\ ChangeFact(c)'
    BY <1>5, <2>1, FactKept DEF IInv
  <2> QED BY <1>2, <2>1, <2>2 DEF CallFact, ChangeFact, Found, Belonged
<1> QED BY <1>2, <1>5, <1>6, <1>7 DEF IInv

LEMMA ValidHouseKeeps ==
    ASSUME IInv, NEW r \in Request, ValidHouse(r)
    PROVE  IInv' /\ Ages
<1>1. PICK h \in open :
        request' = [request EXCEPT ![r] = [Idle EXCEPT !.step = "validMember", !.house = h]]
  BY DEF ValidHouse
<1>2. PICK call : call = [Idle EXCEPT !.step = "validMember", !.house = h]
  OBVIOUS
<1>3. call \in Call /\ call.step = "validMember" /\ call.house = h /\ call.assignee = NULL
  BY <1>2 DEF Idle, Call, IInv, TableFact
<1>4. CallFact(call) /\ ChangeFact(call)
  BY <1>3 DEF CallFact, ChangeFact, TaskSteps, IInv, TableFact
<1> QED BY <1>1, <1>2, <1>3, <1>4, ReadStep DEF ValidHouse

LEMMA ValidMemberKeeps ==
    ASSUME IInv, NEW r \in Request, ValidMember(r)
    PROVE  IInv' /\ Ages
<1>1. ASSUME NEW u \in User, IsMember(request[r].house, u),
             request' = [request EXCEPT ![r].step = "handler", ![r].user = u]
      PROVE  IInv' /\ Ages
  <2>1. PICK old \in Call : old = request[r] /\ CallFact(old) /\ old.step = "validMember"
    BY DEF IInv, ValidMember, At
  <2>2. PICK call : call = [old EXCEPT !.step = "handler", !.user = u]
    OBVIOUS
  <2>3. /\ call \in Call /\ call.step = "handler" /\ call.user = u
        /\ call.house = old.house /\ call.assignee = old.assignee
    BY <2>2 DEF Call
  <2>4. CallFact(call) /\ ChangeFact(call)
    BY <1>1, <2>1, <2>3 DEF CallFact, ChangeFact, TaskSteps, IsMember, Belonged
  <2>5. request' = [request EXCEPT ![r] = call]
    BY <1>1, <2>1, <2>2 DEF IInv
  <2> QED BY <2>3, <2>4, <2>5, ReadStep DEF ValidMember
<1> QED BY <1>1, FinishReads DEF ValidMember

-----------------------------------------------------------------------------
(* What a step writes.                                                     *)

\* Of the columns that WritesByMembers looks at, every change is by a caller.
MembersWrite ==
    /\ \A w \in Housework : housework'[w] # housework[w] =>
            \E r \in Request : CallerInto(housework'[w].house, r)
    /\ \A t \in Task : Rehoused(t) =>
            \E r \in Request : CallerInto(housework[task'[t].housework].house, r)
    /\ \A t \in Task : Reassigned(t) =>
            \E r \in Request, h \in House :
                CallerInto(h, r) /\ Belonged(h, task'[t].assignee)

Keeps == IInv' /\ Ages /\ MembersWrite

LEMMA ReadsKeep ==
    ASSUME IInv', Ages, UNCHANGED chores
    PROVE  Keeps
BY DEF Keeps, MembersWrite, chores, Rehoused, Reassigned

\* The caller of a call past the validator, when the call ends.
LEMMA CallerKnown ==
    ASSUME IInv, NEW r \in Request, Finish(r),
           request[r].step \notin {"idle", "validMember"}
    PROVE  request[r].house \in House /\ CallerInto(request[r].house, r)
BY DEF IInv, CallFact, CallerInto, Finish

LEMMA CreateHouseworkKeeps ==
    ASSUME IInv, NEW r \in Request, CreateHousework(r)
    PROVE  Keeps
<1>1. Finish(r) /\ UNCHANGED <<open, closed, place, task>>
  BY DEF CreateHousework
<1>2. CASE UNCHANGED housework
  BY <1>1, <1>2, FinishReads, ReadsKeep DEF chores
<1>3. ASSUME NEW w \in Housework, housework[w] = NULL,
             housework' = [housework EXCEPT ![w] =
                    [house |-> request[r].house, deleted |-> FALSE]]
      PROVE  Keeps
  <2>1. request[r].house \in House /\ CallerInto(request[r].house, r)
    BY <1>1, CallerKnown DEF CreateHousework, At
  <2>2. PICK row : row = [house |-> request[r].house, deleted |-> FALSE]
    OBVIOUS
  <2>3. row \in HouseworkRow /\ row # NULL /\ row.house = request[r].house
    <3>1. row \in HouseworkRow
      BY <2>1, <2>2 DEF HouseworkRow
    <3> QED BY <2>2, <3>1, ChoresAssumption
  <2>4. housework' = [housework EXCEPT ![w] = row]
    BY <1>3, <2>2
  <2>5. Ages
    BY <1>1, <1>3, <2>4 DEF Ages, Belonged, IInv, TableFact
  <2>6. TableFact'
    BY <1>1, <1>3, <2>3, <2>4 DEF IInv, TableFact, TaskRow
  <2>7. IInv'
    <3>1. CallFact(Idle)' /\ ChangeFact(Idle)'
      BY <2>5, IdleFact, FactKept
    <3> QED BY <1>1, <2>5, <2>6, <3>1, IdleFact, CallStep DEF Finish
  <2>8. MembersWrite
    BY <1>1, <2>1, <2>3, <2>4 DEF MembersWrite, IInv, TableFact, Rehoused, Reassigned
  <2> QED BY <2>5, <2>7, <2>8 DEF Keeps
<1> QED BY <1>2, <1>3 DEF CreateHousework

LEMMA SoftDeleteFindKeeps ==
    ASSUME IInv, NEW r \in Request, SoftDeleteHouseworkFind(r)
    PROVE  IInv' /\ Ages
<1>1. ASSUME NEW w \in LiveHousework(request[r].house),
             request' = [request EXCEPT ![r].step = "houseworkDelete", ![r].housework = w]
      PROVE  IInv' /\ Ages
  <2>1. PICK old \in Call : old = request[r] /\ CallFact(old) /\ old.step = "handler"
    BY DEF IInv, SoftDeleteHouseworkFind, At
  <2>2. PICK call : call = [old EXCEPT !.step = "houseworkDelete", !.housework = w]
    OBVIOUS
  <2>3. /\ call \in Call /\ call.step = "houseworkDelete" /\ call.housework = w
        /\ call.user = old.user /\ call.house = old.house /\ call.assignee = old.assignee
    BY <2>2 DEF Call, LiveHousework
  <2>4. CallFact(call) /\ ChangeFact(call)
    BY <2>1, <2>3 DEF CallFact, ChangeFact, TaskSteps, LiveHousework, Found
  <2>5. request' = [request EXCEPT ![r] = call]
    BY <1>1, <2>1, <2>2 DEF IInv
  <2> QED BY <2>3, <2>4, <2>5, ReadStep DEF SoftDeleteHouseworkFind
<1> QED BY <1>1, FinishReads DEF SoftDeleteHouseworkFind

LEMMA SoftDeleteKeeps ==
    ASSUME IInv, NEW r \in Request, SoftDeleteHousework(r)
    PROVE  Keeps
<1>1. Finish(r) /\ UNCHANGED <<open, closed, place, task>>
  BY DEF SoftDeleteHousework
<1>2. PICK w \in Housework : /\ w = request[r].housework
                             /\ housework[w] # NULL
                             /\ housework[w].house = request[r].house
  BY DEF SoftDeleteHousework, At, IInv, CallFact, Found
<1>3. CallerInto(request[r].house, r)
  BY <1>1, CallerKnown DEF SoftDeleteHousework, At
<1>4. PICK row : row = [housework[w] EXCEPT !.deleted = TRUE]
  OBVIOUS
<1>5. /\ row \in HouseworkRow /\ row # NULL
      /\ row.house = request[r].house /\ row.deleted = TRUE
  BY <1>2, <1>4, ChoresAssumption DEF HouseworkRow, IInv, TableFact
<1>6. housework' = [housework EXCEPT ![w] = row]
  BY <1>2, <1>4 DEF SoftDeleteHousework, IInv, TableFact
<1>7. Ages
  BY <1>1, <1>2, <1>5, <1>6 DEF Ages, Belonged, IInv, TableFact
<1>8. TableFact'
  BY <1>1, <1>5, <1>6 DEF IInv, TableFact, TaskRow
<1>9. IInv'
  <2>1. CallFact(Idle)' /\ ChangeFact(Idle)'
    BY <1>7, IdleFact, FactKept
  <2> QED BY <1>1, <1>7, <1>8, <2>1, IdleFact, CallStep DEF Finish
<1>10. MembersWrite
  BY <1>1, <1>3, <1>5, <1>6 DEF MembersWrite, IInv, TableFact, Rehoused, Reassigned
<1> QED BY <1>7, <1>9, <1>10 DEF Keeps

-----------------------------------------------------------------------------
(* Tasks.                                                                  *)

LEMMA TaskFindHouseworkKeeps ==
    ASSUME IInv, NEW r \in Request, TaskFindHousework(r)
    PROVE  IInv' /\ Ages
<1>1. PICK w \in LiveHousework(request[r].house) \cup {NULL},
           next \in {"createAssignee", "updateAssignee"} :
        request' = [request EXCEPT ![r].step = next, ![r].housework = w]
  BY DEF TaskFindHousework
<1>2. PICK old \in Call : old = request[r] /\ CallFact(old) /\ old.step = "handler"
  BY DEF IInv, TaskFindHousework, At
<1>3. PICK call : call = [old EXCEPT !.step = next, !.housework = w]
  OBVIOUS
<1>4. /\ call \in Call /\ call.step = next /\ call.housework = w
      /\ call.user = old.user /\ call.house = old.house /\ call.assignee = old.assignee
  BY <1>3 DEF Call, LiveHousework
<1>5. CallFact(call) /\ ChangeFact(call)
  BY <1>2, <1>4 DEF CallFact, ChangeFact, TaskSteps, LiveHousework, Found
<1>6. request' = [request EXCEPT ![r] = call]
  BY <1>1, <1>2, <1>3 DEF IInv
<1> QED BY <1>4, <1>5, <1>6, ReadStep DEF TaskFindHousework

LEMMA TaskFindAssigneeKeeps ==
    ASSUME IInv, NEW r \in Request,
           NEW step \in TaskSteps, NEW next \in {"createSave", "updateLoad"},
           TaskFindAssignee(r, step, next)
    PROVE  IInv' /\ Ages
<1>1. PICK old \in Call : old = request[r] /\ CallFact(old) /\ old.step = step
  BY DEF IInv, TaskFindAssignee, At
<1>2. ASSUME NEW call \in Call, request' = [request EXCEPT ![r] = call],
             call.step = next, call.user = old.user, call.house = old.house,
             call.housework = old.housework,
             \/ call.assignee = old.assignee
             \/ call.assignee \in User /\ Belonged(old.house, call.assignee)
      PROVE  IInv' /\ Ages
  <2>1. CallFact(call) /\ ChangeFact(call)
    BY <1>1, <1>2 DEF CallFact, ChangeFact, TaskSteps, Found
  <2> QED BY <1>2, <2>1, ReadStep DEF TaskFindAssignee
<1>3. CASE Goto(r, next)
  <2>1. PICK call : call = [old EXCEPT !.step = next]
    OBVIOUS
  <2>2. /\ call \in Call /\ call.step = next /\ call.user = old.user
        /\ call.house = old.house /\ call.housework = old.housework
        /\ call.assignee = old.assignee
    BY <2>1 DEF Call
  <2>3. request' = [request EXCEPT ![r] = call]
    BY <1>1, <1>3, <2>1 DEF IInv, Goto
  <2> QED BY <1>2, <2>2, <2>3
<1>4. ASSUME NEW u \in AssigneeChoice(r),
             request' = [request EXCEPT ![r].step = next, ![r].assignee = u]
      PROVE  IInv' /\ Ages
  <2>1. PICK call : call = [old EXCEPT !.step = next, !.assignee = u]
    OBVIOUS
  <2>2. u \in User /\ Belonged(old.house, u)
    BY <1>1, <1>4 DEF AssigneeChoice, IsMember, Belonged
  <2>3. /\ call \in Call /\ call.step = next /\ call.user = old.user
        /\ call.house = old.house /\ call.housework = old.housework
        /\ call.assignee = u
    BY <2>1, <2>2 DEF Call
  <2>4. request' = [request EXCEPT ![r] = call]
    BY <1>1, <1>4, <2>1 DEF IInv
  <2> QED BY <1>2, <2>2, <2>3, <2>4
<1> QED BY <1>3, <1>4, FinishReads DEF TaskFindAssignee

LEMMA CreateSaveKeeps ==
    ASSUME IInv, NEW r \in Request, CreateSave(r)
    PROVE  Keeps
<1>1. Finish(r) /\ UNCHANGED <<open, closed, place, housework>>
  BY DEF CreateSave
<1>2. CASE UNCHANGED task
  BY <1>1, <1>2, FinishReads, ReadsKeep DEF chores
<1>3. ASSUME NEW t \in Task, task[t] = NULL, request[r].housework # NULL,
             task' = [task EXCEPT ![t] =
                    [housework |-> request[r].housework, assignee |-> request[r].assignee,
                     assigner |-> Assigner(r), deleted |-> FALSE]]
      PROVE  Keeps
  <2>1. PICK call \in Call :
            /\ call = request[r] /\ call.step = "createSave"
            /\ call.house \in House /\ call.user \in User
            /\ Found(call.housework, call.house)
            /\ call.assignee # NULL => Belonged(call.house, call.assignee)
    BY <1>3 DEF CreateSave, At, IInv, CallFact, TaskSteps
  <2>2. CallerInto(call.house, r)
    BY <1>1, <2>1, CallerKnown
  <2>3. PICK row : row = [housework |-> call.housework, assignee |-> call.assignee,
                          assigner |-> Assigner(r), deleted |-> FALSE]
    OBVIOUS
  <2>4. Assigner(r) \in User \cup {NULL} /\ (Assigner(r) = NULL) = (call.assignee = NULL)
    BY <2>1, ChoresAssumption DEF Assigner
  <2>5. /\ row \in TaskRow /\ row # NULL /\ row.housework = call.housework
        /\ row.assignee = call.assignee /\ row.assigner = Assigner(r)
    <3>1. row \in TaskRow
      BY <2>1, <2>3, <2>4 DEF TaskRow, Found, Call
    <3> QED BY <2>3, <3>1, ChoresAssumption
  <2>6. task' = [task EXCEPT ![t] = row]
    BY <1>3, <2>1, <2>3
  <2>7. Ages
    BY <1>1, <1>3, <2>6 DEF Ages, Belonged, IInv, TableFact
  <2>8. TableFact'
    BY <1>1, <2>1, <2>4, <2>5, <2>6 DEF IInv, TableFact, Found
  <2>9. IInv'
    <3>1. CallFact(Idle)' /\ ChangeFact(Idle)'
      BY <2>7, IdleFact, FactKept
    <3> QED BY <1>1, <2>7, <2>8, <3>1, IdleFact, CallStep DEF Finish
  <2>10. MembersWrite
    BY <1>1, <2>1, <2>2, <2>5, <2>6
       DEF MembersWrite, IInv, TableFact, Rehoused, Reassigned, Found
  <2> QED BY <2>7, <2>9, <2>10 DEF Keeps
<1> QED BY <1>2, <1>3 DEF CreateSave

\* What differs from the row that was loaded.
LEMMA DiffersFact ==
    ASSUME IInv, NEW r \in Request, NEW t \in Task, task[t] # NULL,
           request[r].user \in User
    PROVE  /\ Differs(r, t) \subseteq Column
           /\ "assignee" \in Differs(r, t) \/ "assigner" \in Differs(r, t)
                => request[r].assignee # NULL
           /\ task[t].assignee = NULL =>
                ("assignee" \in Differs(r, t) <=> "assigner" \in Differs(r, t))
<1>1. Differs(r, t) \subseteq Column
  BY DEF Differs
<1>2. "assignee" \in Differs(r, t) <=> request[r].assignee \notin {NULL, task[t].assignee}
  BY DEF Differs, Column
<1>3. "assigner" \in Differs(r, t) <=> Assigner(r) \notin {NULL, task[t].assigner}
  BY DEF Differs, Column
<1>4. Assigner(r) = NULL <=> request[r].assignee = NULL
  BY ChoresAssumption DEF Assigner
<1>5. (task[t].assignee = NULL) = (task[t].assigner = NULL)
  BY DEF IInv, TableFact
<1> QED BY <1>1, <1>2, <1>3, <1>4, <1>5

LEMMA UpdateLoadKeeps ==
    ASSUME IInv, NEW r \in Request, UpdateLoad(r)
    PROVE  IInv' /\ Ages
<1>1. ASSUME NEW t \in Task, task[t] # NULL, request[r].housework # NULL,
             request' = [request EXCEPT ![r].step = "updateSave", ![r].task = t,
                                        ![r].changed = Differs(r, t)]
      PROVE  IInv' /\ Ages
  <2>1. PICK old \in Call : /\ old = request[r] /\ CallFact(old)
                            /\ old.step = "updateLoad" /\ old.user \in User
    BY DEF IInv, UpdateLoad, At, CallFact
  <2>2. PICK changed \in SUBSET Column :
            /\ changed = Differs(r, t)
            /\ "assignee" \in changed \/ "assigner" \in changed => old.assignee # NULL
            /\ task[t].assignee = NULL => ("assignee" \in changed <=> "assigner" \in changed)
    BY <1>1, <2>1, DiffersFact
  <2>3. PICK call : call = [old EXCEPT !.step = "updateSave", !.task = t, !.changed = changed]
    OBVIOUS
  <2>4. /\ call \in Call /\ call.step = "updateSave" /\ call.task = t
        /\ call.changed = changed /\ call.user = old.user /\ call.house = old.house
        /\ call.assignee = old.assignee /\ call.housework = old.housework
    BY <2>3 DEF Call
  <2>5. CallFact(call) /\ ChangeFact(call)
    BY <1>1, <2>1, <2>2, <2>4 DEF CallFact, ChangeFact, TaskSteps, Found
  <2>6. request' = [request EXCEPT ![r] = call]
    BY <1>1, <2>1, <2>2, <2>3 DEF IInv
  <2> QED BY <2>4, <2>5, <2>6, ReadStep DEF UpdateLoad
<1> QED BY <1>1, FinishReads DEF UpdateLoad

LEMMA UpdateSaveKeeps ==
    ASSUME IInv, NEW r \in Request, UpdateSave(r)
    PROVE  Keeps
<1>1. Finish(r) /\ UNCHANGED <<open, closed, place, housework>>
  BY DEF UpdateSave
<1>2. PICK call \in Call :
        /\ call = request[r] /\ call.step = "updateSave"
        /\ call.house \in House /\ call.user \in User
        /\ Found(call.housework, call.house)
        /\ call.assignee # NULL => Belonged(call.house, call.assignee)
        /\ call.task \in Task /\ task[call.task] # NULL
        /\ ChangeFact(call)
  BY DEF UpdateSave, At, IInv, CallFact, ChangeFact, TaskSteps
<1>3. PICK t \in Task, old \in TaskRow :
        t = call.task /\ old = task[t] /\ (old.assignee = NULL) = (old.assigner = NULL)
  BY <1>2 DEF IInv, TableFact
<1>4. CallerInto(call.house, r)
  BY <1>1, <1>2, CallerKnown
<1>5. PICK row : row =
        [old EXCEPT !.housework = IF "housework" \in call.changed THEN call.housework ELSE @,
                    !.assignee = IF "assignee" \in call.changed THEN call.assignee ELSE @,
                    !.assigner = IF "assigner" \in call.changed THEN call.user ELSE @]
  OBVIOUS
<1>6. /\ row.housework \in {old.housework, call.housework}
      /\ row.assignee = IF "assignee" \in call.changed THEN call.assignee ELSE old.assignee
      /\ row.assigner = IF "assigner" \in call.changed THEN call.user ELSE old.assigner
      /\ row.deleted = old.deleted
  BY <1>5 DEF TaskRow
<1>7. row \in TaskRow
  BY <1>2, <1>5 DEF TaskRow, Found, Call
<1>8. row # NULL
  BY <1>7, ChoresAssumption
<1>9. (row.assignee = NULL) = (row.assigner = NULL)
  BY <1>2, <1>3, <1>6, ChoresAssumption DEF ChangeFact
<1>10. task' = [task EXCEPT ![t] = row]
  <2>1. "assigner" \in call.changed => Assigner(r) = call.user
    BY <1>2 DEF ChangeFact, Assigner
  <2> QED BY <1>2, <1>3, <1>5, <2>1 DEF UpdateSave, IInv, TableFact
<1>11. Ages
  <2>1. row.assignee = NULL => old.assignee = NULL
    BY <1>2, <1>6 DEF ChangeFact
  <2> QED BY <1>1, <1>3, <1>6, <1>8, <1>10, <2>1 DEF Ages, Belonged, IInv, TableFact
<1>12. TableFact'
  BY <1>1, <1>2, <1>3, <1>6, <1>7, <1>8, <1>9, <1>10 DEF IInv, TableFact, Found
<1>13. IInv'
  <2>1. CallFact(Idle)' /\ ChangeFact(Idle)'
    BY <1>11, IdleFact, FactKept
  <2> QED BY <1>1, <1>11, <1>12, <2>1, IdleFact, CallStep DEF Finish
<1>14. MembersWrite
  <2>1. Rehoused(t) => housework[task'[t].housework].house = call.house
    BY <1>2, <1>3, <1>6, <1>8, <1>10 DEF Rehoused, Found, IInv, TableFact
  <2>2. Reassigned(t) => Belonged(call.house, task'[t].assignee)
    BY <1>2, <1>3, <1>6, <1>8, <1>10 DEF Reassigned, IInv, TableFact
  <2>3. \A s \in Task \ {t} : task'[s] = task[s]
    BY <1>10 DEF IInv, TableFact
  <2> QED BY <1>1, <1>2, <1>4, <2>1, <2>2, <2>3 DEF MembersWrite, Rehoused, Reassigned
<1> QED BY <1>11, <1>13, <1>14 DEF Keeps

LEMMA TaskFindKeeps ==
    ASSUME IInv, NEW r \in Request, TaskFind(r)
    PROVE  IInv' /\ Ages
<1>1. ASSUME NEW t \in LiveTasks(request[r].house),
             request' = [request EXCEPT ![r].step = "taskRemove", ![r].task = t]
      PROVE  IInv' /\ Ages
  <2>1. PICK old \in Call : old = request[r] /\ CallFact(old) /\ old.step = "handler"
    BY DEF IInv, TaskFind, At
  <2>2. PICK call : call = [old EXCEPT !.step = "taskRemove", !.task = t]
    OBVIOUS
  <2>3. /\ call \in Call /\ call.step = "taskRemove" /\ call.task = t
        /\ call.user = old.user /\ call.house = old.house /\ call.assignee = old.assignee
    BY <2>2 DEF Call, LiveTasks
  <2>4. CallFact(call) /\ ChangeFact(call)
    BY <2>1, <2>3 DEF CallFact, ChangeFact, TaskSteps, LiveTasks
  <2>5. request' = [request EXCEPT ![r] = call]
    BY <1>1, <2>1, <2>2 DEF IInv
  <2> QED BY <2>3, <2>4, <2>5, ReadStep DEF TaskFind
<1> QED BY <1>1, FinishReads DEF TaskFind

LEMMA TaskSoftRemoveKeeps ==
    ASSUME IInv, NEW r \in Request, TaskSoftRemove(r)
    PROVE  Keeps
<1>1. Finish(r) /\ UNCHANGED <<open, closed, place, housework>>
  BY DEF TaskSoftRemove
<1>2. PICK t \in Task, old \in TaskRow : t = request[r].task /\ old = task[t]
  BY DEF TaskSoftRemove, At, IInv, TableFact, CallFact
<1>3. PICK row : row = [old EXCEPT !.deleted = TRUE]
  OBVIOUS
<1>4. /\ row \in TaskRow /\ row.housework = old.housework /\ row.assignee = old.assignee
      /\ row.assigner = old.assigner /\ row.deleted = TRUE
  BY <1>3 DEF TaskRow
<1>5. row # NULL /\ old # NULL
  BY <1>4, ChoresAssumption
<1>6. task' = [task EXCEPT ![t] = row]
  BY <1>2, <1>3 DEF TaskSoftRemove, IInv, TableFact
<1>7. Ages
  BY <1>1, <1>2, <1>4, <1>5, <1>6 DEF Ages, Belonged, IInv, TableFact
<1>8. TableFact'
  BY <1>1, <1>2, <1>4, <1>5, <1>6 DEF IInv, TableFact
<1>9. IInv'
  <2>1. CallFact(Idle)' /\ ChangeFact(Idle)'
    BY <1>7, IdleFact, FactKept
  <2> QED BY <1>1, <1>7, <1>8, <2>1, IdleFact, CallStep DEF Finish
<1>10. MembersWrite
  BY <1>1, <1>2, <1>4, <1>5, <1>6 DEF MembersWrite, IInv, TableFact, Rehoused, Reassigned
<1> QED BY <1>7, <1>9, <1>10 DEF Keeps

-----------------------------------------------------------------------------
(* The invariant and the theorems.                                         *)

LEMMA NextKeeps ==
    ASSUME IInv, [Next]_vars
    PROVE  Keeps
<1>1. CASE RosterStep
  BY <1>1, RosterKeeps, ReadsKeep DEF RosterStep
<1>2. ASSUME NEW r \in Request, Validate(r) PROVE Keeps
  BY <1>2, ValidHouseKeeps, ValidMemberKeeps, ReadsKeep DEF Validate, ValidHouse, ValidMember
<1>3. ASSUME NEW r \in Request, HouseworkStep(r) PROVE Keeps
  BY <1>3, CreateHouseworkKeeps, SoftDeleteFindKeeps, SoftDeleteKeeps, ReadsKeep
     DEF HouseworkStep, SoftDeleteHouseworkFind
<1>4. ASSUME NEW r \in Request, TaskStep(r) PROVE Keeps
  <2>1. CASE TaskFindHousework(r)
    BY <2>1, TaskFindHouseworkKeeps, ReadsKeep DEF TaskFindHousework
  <2>2. CASE CreateFindAssignee(r) \/ UpdateFindAssignee(r)
    BY <2>2, TaskFindAssigneeKeeps, ReadsKeep
       DEF CreateFindAssignee, UpdateFindAssignee, TaskFindAssignee, TaskSteps
  <2>3. CASE CreateSave(r) \/ UpdateSave(r) \/ TaskSoftRemove(r)
    BY <2>3, CreateSaveKeeps, UpdateSaveKeeps, TaskSoftRemoveKeeps
  <2>4. CASE UpdateLoad(r) \/ TaskFind(r)
    BY <2>4, UpdateLoadKeeps, TaskFindKeeps, ReadsKeep DEF UpdateLoad, TaskFind
  <2> QED BY <1>4, <2>1, <2>2, <2>3, <2>4 DEF TaskStep
<1>5. CASE UNCHANGED vars
  <2>1. Ages
    BY <1>5 DEF vars, Ages, Belonged
  <2>2. IInv'
    BY <1>5 DEF vars, IInv, TableFact, CallFact, ChangeFact, Found, Belonged
  <2> QED BY <1>5, <2>1, <2>2, ReadsKeep DEF vars, chores
<1> QED BY <1>1, <1>2, <1>3, <1>4, <1>5 DEF Next

LEMMA Invariance == Spec => []IInv
<1>1. IInv /\ [Next]_vars => IInv'
  BY NextKeeps DEF Keeps
<1> QED BY <1>1, InitHolds, PTL DEF Spec

\* Rows and calls have their shape, assigner and assignee come and go together,
\* and a call about to write knows which row.
THEOREM TypeCorrect == Spec => []TypeOK
<1>1. IInv => TypeOK
  BY DEF IInv, TypeOK, TableFact, CallFact, Found, At
<1> QED BY <1>1, Invariance, PTL

\* For any number of calls, and whatever happens to the membership between their
\* statements: what is written lands in a house its writer belongs to or belonged to.
THEOREM MembersWriteOnly == Spec => WritesByMembers
<1>1. IInv /\ [Next]_vars => [MembersWrite]_vars
  BY NextKeeps DEF Keeps
<1> QED BY <1>1, Invariance, PTL DEF Spec, WritesByMembers, MembersWrite

\* What has been deleted stays deleted, whatever the calls that had loaded it write.
THEOREM DeletedCorrect == Spec => DeletedStays
<1>1. IInv /\ [Next]_vars =>
        [/\ \A w \in Housework : housework[w] # NULL =>
            /\ housework'[w].house = housework[w].house
            /\ housework[w].deleted => housework'[w].deleted
         /\ \A t \in Task : task[t] # NULL /\ task[t].deleted => task'[t].deleted]_vars
  BY NextKeeps DEF Keeps, Ages
<1> QED BY <1>1, Invariance, PTL DEF Spec, DeletedStays

-----------------------------------------------------------------------------
(* Calls one at a time.                                                    *)

OneCall == \A r, s \in Request : r = s

\* The columns about to be written are those that differ now, for nobody else has
\* written to the row since it was loaded.
Current == \A r \in Request :
    At(r, "updateSave") => request[r].changed = Differs(r, request[r].task)

LEMMA CurrentNext ==
    ASSUME OneCall, IInv, [Next]_vars, Current
    PROVE  Current'
<1>1. ASSUME UNCHANGED <<task, request>>
      PROVE  Current'
  BY <1>1 DEF Current, At, Differs, Assigner
<1>2. ASSUME NEW r \in Request, request'[r].step # "updateSave"
      PROVE  Current'
  BY <1>2 DEF Current, OneCall, At
<1>3. ASSUME NEW r \in Request, request' = [request EXCEPT ![r] = Idle]
      PROVE  Current'
  BY <1>2, <1>3 DEF IInv, Idle
<1>4. ASSUME NEW r \in Request, UpdateLoad(r)
      PROVE  Current'
  <2>1. ASSUME NEW t \in Task,
               request' = [request EXCEPT ![r].step = "updateSave", ![r].task = t,
                                          ![r].changed = Differs(r, t)]
        PROVE  Current'
    <3>1. PICK old \in Call : old = request[r]
      BY DEF IInv
    <3>2. PICK changed : changed = Differs(r, t)
      OBVIOUS
    <3>3. request'[r] = [old EXCEPT !.step = "updateSave", !.task = t, !.changed = changed]
      BY <2>1, <3>1, <3>2 DEF IInv
    <3>4. /\ request'[r].task = t /\ request'[r].changed = changed
          /\ request'[r].housework = old.housework
          /\ request'[r].assignee = old.assignee /\ request'[r].user = old.user
      BY <3>3 DEF Call
    <3>5. Differs(r, t)' = changed
      BY <1>4, <3>1, <3>2, <3>4 DEF Differs, Assigner, UpdateLoad, chores
    <3> QED BY <3>4, <3>5 DEF Current, OneCall, Differs, Assigner
  <2> QED BY <1>3, <1>4, <2>1 DEF UpdateLoad, Finish
<1>5. ASSUME NEW r \in Request, Validate(r) \/ HouseworkStep(r)
      PROVE  Current'
  <2>1. Finish(r) \/ request'[r].step \in {"validMember", "handler", "houseworkDelete"}
    BY <1>5 DEF Validate, HouseworkStep, ValidHouse, ValidMember, CreateHousework,
                SoftDeleteHouseworkFind, SoftDeleteHousework, IInv, Call, Idle
  <2> QED BY <1>2, <1>3, <2>1 DEF Finish
<1>6. ASSUME NEW r \in Request, TaskStep(r), ~UpdateLoad(r)
      PROVE  Current'
  <2>1. CASE TaskFindHousework(r)
    BY <1>2, <2>1 DEF TaskFindHousework, IInv, Call
  <2>2. CASE CreateFindAssignee(r) \/ UpdateFindAssignee(r)
    BY <1>2, <1>3, <2>2 DEF CreateFindAssignee, UpdateFindAssignee, TaskFindAssignee,
                            Goto, Finish, IInv, Call
  <2>3. CASE CreateSave(r) \/ UpdateSave(r) \/ TaskSoftRemove(r)
    BY <1>3, <2>3 DEF CreateSave, UpdateSave, TaskSoftRemove, Finish
  <2>4. CASE TaskFind(r)
    BY <1>2, <1>3, <2>4 DEF TaskFind, Finish, IInv, Call
  <2> QED BY <1>6, <2>1, <2>2, <2>3, <2>4 DEF TaskStep
<1> QED BY <1>1, <1>4, <1>5, <1>6 DEF Next, RosterStep, vars, chores

AssignedBy(r, t) ==
    /\ request'[r] = Idle
    /\ request[r].assignee = task'[t].assignee
    /\ request[r].user = task'[t].assigner

LEMMA CreateAssigns ==
    ASSUME IInv, NEW r \in Request, CreateSave(r),
           NEW t \in Task, Reassigned(t) \/ Reassigner(t)
    PROVE  AssignedBy(r, t)
<1>1. task' # task
  BY DEF Reassigned, Reassigner, IInv, TableFact
<1>2. PICK new \in Task :
        /\ task[new] = NULL
        /\ task' = [task EXCEPT ![new] =
                [housework |-> request[r].housework, assignee |-> request[r].assignee,
                 assigner |-> Assigner(r), deleted |-> FALSE]]
  BY <1>1 DEF CreateSave
<1>3. t = new
  BY <1>2 DEF Reassigned, Reassigner, IInv, TableFact
<1>4. /\ task'[t].assignee = request[r].assignee
      /\ task'[t].assigner = Assigner(r)
  BY <1>2, <1>3 DEF IInv, TableFact
<1>5. Reassigned(t)
  BY <1>2, <1>3 DEF Reassigner
<1>6. request[r].assignee # NULL
  BY <1>4, <1>5 DEF Reassigned
<1> QED BY <1>4, <1>6 DEF AssignedBy, Assigner, CreateSave, Finish, IInv

\* The columns that are not written have the value of the call already.
LEMMA UpdateAssigns ==
    ASSUME IInv, Current, NEW r \in Request, UpdateSave(r),
           NEW t \in Task, Reassigned(t) \/ Reassigner(t)
    PROVE  AssignedBy(r, t)
<1>1. PICK old \in TaskRow : /\ request[r].task \in Task /\ old = task[request[r].task]
                            /\ old # NULL
  BY DEF UpdateSave, At, IInv, CallFact, TableFact
<1>2. t = request[r].task
  BY DEF UpdateSave, Reassigned, Reassigner, IInv, TableFact
<1>3. /\ request[r].changed = Differs(r, t) /\ request[r].user \in User
  BY <1>2 DEF Current, UpdateSave, At, IInv, CallFact
<1>4. /\ task'[t].assignee = IF "assignee" \in Differs(r, t)
                             THEN request[r].assignee ELSE old.assignee
      /\ task'[t].assigner = IF "assigner" \in Differs(r, t)
                             THEN Assigner(r) ELSE old.assigner
  BY <1>1, <1>2, <1>3 DEF UpdateSave, IInv, TableFact, TaskRow
<1>5. "assignee" \in Differs(r, t) <=> request[r].assignee \notin {NULL, old.assignee}
  BY <1>1, <1>2 DEF Differs, Column
<1>6. "assigner" \in Differs(r, t) <=> Assigner(r) \notin {NULL, old.assigner}
  BY <1>1, <1>2 DEF Differs, Column
<1>7. "assignee" \in Differs(r, t) \/ "assigner" \in Differs(r, t)
  BY <1>1, <1>2, <1>4 DEF Reassigned, Reassigner
<1>8. request[r].assignee # NULL /\ Assigner(r) = request[r].user /\ request[r].user # NULL
  BY <1>3, <1>5, <1>6, <1>7, ChoresAssumption DEF Assigner
<1>9. task'[t].assignee = request[r].assignee /\ task'[t].assigner = request[r].user
  BY <1>4, <1>5, <1>6, <1>8
<1> QED BY <1>9 DEF AssignedBy, UpdateSave, Finish, IInv

\* A removal leaves both columns alone.
LEMMA RemoveAssigns ==
    ASSUME IInv, NEW r \in Request, TaskSoftRemove(r), NEW t \in Task
    PROVE  ~Reassigned(t) /\ ~Reassigner(t)
<1>1. PICK removed \in Task, old \in TaskRow : removed = request[r].task /\ old = task[removed]
  BY DEF TaskSoftRemove, At, IInv, TableFact, CallFact
<1>2. task' = [task EXCEPT ![removed] = [old EXCEPT !.deleted = TRUE]]
  BY <1>1 DEF TaskSoftRemove, IInv, TableFact
<1>3. CASE t = removed
  BY <1>1, <1>2, <1>3, ChoresAssumption DEF IInv, TableFact, TaskRow, Reassigned, Reassigner
<1>4. CASE t # removed
  BY <1>2, <1>4 DEF IInv, TableFact, Reassigned, Reassigner
<1> QED BY <1>3, <1>4

LEMMA AssignmentNext ==
    ASSUME IInv, Current, [Next]_vars
    PROVE  \A t \in Task : Reassigned(t) \/ Reassigner(t) =>
                \E r \in Request : AssignedBy(r, t)
<1> SUFFICES ASSUME NEW t \in Task, Reassigned(t) \/ Reassigner(t)
             PROVE  \E r \in Request : AssignedBy(r, t)
  OBVIOUS
<1>1. task' # task
  BY DEF Reassigned, Reassigner
<1>2. PICK r \in Request : CreateSave(r) \/ UpdateSave(r) \/ TaskSoftRemove(r)
  BY <1>1 DEF Next, vars, chores, RosterStep, Validate, ValidHouse, ValidMember,
     HouseworkStep, CreateHousework, SoftDeleteHouseworkFind, SoftDeleteHousework, TaskStep,
     TaskFindHousework, CreateFindAssignee, UpdateFindAssignee, TaskFindAssignee,
     UpdateLoad, TaskFind
<1> QED BY <1>2, CreateAssigns, UpdateAssigns, RemoveAssigns

\* As long as calls come one at a time, an assignee and the assigner beside it are
\* of one call, also when the update writes only one of the two columns.  Of two
\* calls at once it is false.
THEOREM AssignmentCorrect ==
    ASSUME OneCall
    PROVE  Spec => AssignmentOfOneCall
<1>1. Init => Current
  BY DEF Init, Current, At, Idle
<1>2. IInv /\ [Next]_vars /\ Current => Current'
  BY CurrentNext
<1>3. IInv /\ [Next]_vars /\ Current =>
        [\A t \in Task : Reassigned(t) \/ Reassigner(t) =>
            \E r \in Request :
                /\ request'[r] = Idle
                /\ request[r].assignee = task'[t].assignee
                /\ request[r].user = task'[t].assigner]_vars
  BY AssignmentNext DEF AssignedBy
<1> QED BY <1>1, <1>2, <1>3, Invariance, PTL DEF Spec, AssignmentOfOneCall

=============================================================================
