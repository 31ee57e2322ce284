-------------------------------- MODULE Chores --------------------------------
(***************************************************************************)
(* The chores of a house: HouseworkService (housework.service.ts) and       *)
(* TaskService (task.service.ts), behind the validator of their routes.    *)
(* Who belongs to which house changes underneath the calls; those changes  *)
(* are the steps of Roster, which Membership implements.                   *)
(*                                                                         *)
(* As in Membership, a call is a slot of "request" and each of its          *)
(* statements one action.  An input of a call is chosen by the statement    *)
(* that first reads it.                                                    *)
(***************************************************************************)
EXTENDS Naturals, FiniteSets

CONSTANTS
    User, House, Housework, Task,  \* ids; those of houses and housework are
                                   \* numbers, each counted from 1
    Request,            \* calls that can be in progress at the same time
    FrequencyOptional,  \* TRUE: the database accepts housework without frequency
    AssigneeOptional,   \* TRUE: the database accepts tasks without assignee
    NULL

\* The columns that some query reads; title, frequency, isCompleted and the
\* creator are not among them.
HouseworkRow == [house : House, deleted : BOOLEAN]
TaskRow == [housework : Housework, assignee : User \cup {NULL},
            assigner : User \cup {NULL}, deleted : BOOLEAN]
Column == {"housework", "assignee", "assigner"}

ASSUME ChoresAssumption ==
    /\ House \subseteq Nat /\ Housework \subseteq Nat
    /\ NULL \notin User \cup House \cup Housework \cup Task
    /\ NULL \notin HouseworkRow \cup TaskRow
    /\ FrequencyOptional \in BOOLEAN
    /\ AssigneeOptional \in BOOLEAN

VARIABLES
    open, closed, place,  \* of Roster
    housework,            \* housework[w]: the row, or NULL
    task,                 \* task[t]: the row, or NULL
    request               \* request[r]: the call in slot r

chores == <<housework, task>>
vars == <<open, closed, place, housework, task, request>>

\* Invitations are out of sight here: anybody may have been offered a place in a
\* house that has been founded.
Houses == INSTANCE Roster WITH offered <- [h \in House |-> User]
Enter(h, u) == h \in open \cup closed /\ Houses!Enter(h, u)

-----------------------------------------------------------------------------
(* Calls in progress.                                                      *)

Call == [step : {"idle", "validMember", "handler",
                 "houseworkDelete", "createAssignee", "createSave",
                 "updateAssignee", "updateLoad", "updateSave", "taskRemove"},
         user : User \cup {NULL}, house : House \cup {NULL},
         housework : Housework \cup {NULL}, task : Task \cup {NULL},
         assignee : User \cup {NULL}, changed : SUBSET Column]

Idle == [step |-> "idle", user |-> NULL, house |-> NULL, housework |-> NULL,
         task |-> NULL, assignee |-> NULL, changed |-> {}]

At(r, step) == request[r].step = step
Goto(r, step) == request' = [request EXCEPT ![r].step = step]
Finish(r) == request' = [request EXCEPT ![r] = Idle]

\* Fault: the where clause has no houseId.
LiveHousework_AnyHouse(h) ==
    {w \in Housework : housework[w] # NULL /\ ~housework[w].deleted}

LiveHousework(h) ==
    {w \in Housework : /\ housework[w] # NULL
                       /\ housework[w].house = h
                       /\ ~housework[w].deleted}

\* A find over tasks joins their housework, and skips what is deleted in either.
LiveTasks(w) ==
    {t \in Task : /\ task[t] # NULL /\ ~task[t].deleted
                  /\ task[t].housework = w
                  /\ housework[w] # NULL /\ ~housework[w].deleted}

-----------------------------------------------------------------------------
(* Membership changes: somebody founds, enters, leaves or closes a house.  *)

RosterStep ==
    /\ \E h \in House :
        \/ \E u \in User : Houses!Found(h, u) \/ Enter(h, u) \/ Houses!Leave(h, u)
        \/ \E leaving \in SUBSET User : Houses!Close(h, leaving)
    /\ UNCHANGED <<chores, request>>

-----------------------------------------------------------------------------
(* Every route takes a house, and IsValidMember reads it, then the caller's *)
(* membership, before the handler starts.                                  *)

ValidHouse(r) ==
    /\ At(r, "idle")
    /\ \E h \in open :
        request' = [request EXCEPT ![r] = [Idle EXCEPT !.step = "validMember",
                                                      !.house = h]]
    /\ UNCHANGED <<open, closed, place, chores>>

IsMember(h, u) == place[h][u] = "inside"

ValidMember(r) ==
    /\ At(r, "validMember")
    /\ \/ \E u \in {u \in User : IsMember(request[r].house, u)} :
            request' = [request EXCEPT ![r].step = "handler", ![r].user = u]
       \/ Finish(r)
    /\ UNCHANGED <<open, closed, place, chores>>

-----------------------------------------------------------------------------
(* Housework.                                                              *)

\* The object that is saved has a title and no frequency.
CreateHousework(r) ==
    /\ At(r, "handler")
    /\ IF FrequencyOptional
       THEN \E w \in Housework :
                /\ housework[w] = NULL
                /\ housework' = [housework EXCEPT ![w] =
                        [house |-> request[r].house, deleted |-> FALSE]]
       ELSE UNCHANGED housework
    /\ Finish(r)
    /\ UNCHANGED <<open, closed, place, task>>

SoftDeleteHouseworkFind(r) ==
    /\ At(r, "handler")
    /\ \/ \E w \in LiveHousework(request[r].house) :
            request' = [request EXCEPT ![r].step = "houseworkDelete",
                                       ![r].housework = w]
       \/ Finish(r)
    /\ UNCHANGED <<open, closed, place, chores>>

\* The tasks of the housework stay as they are.
SoftDeleteHousework(r) ==
    /\ At(r, "houseworkDelete")
    /\ housework' = [housework EXCEPT ![request[r].housework].deleted = TRUE]
    /\ Finish(r)
    /\ UNCHANGED <<open, closed, place, task>>

-----------------------------------------------------------------------------
(* Tasks.  create and update begin alike: the housework is looked up and,   *)
(* found or not, put into the entity; an assignee, if the body has one,     *)
(* must belong to the house.                                               *)

\* Bound: a call to create goes on only while an id is left for its row.
TasksLeft ==
    Cardinality({r \in Request : request[r].step \in {"createAssignee", "createSave"}})
        < Cardinality({t \in Task : task[t] = NULL})

TaskFindHousework(r) ==
    /\ At(r, "handler")
    /\ \E w \in LiveHousework(request[r].house) \cup {NULL},
          next \in {"createAssignee", "updateAssignee"} :
        /\ next = "createAssignee" => TasksLeft
        /\ request' = [request EXCEPT ![r].step = next, ![r].housework = w]
    /\ UNCHANGED <<open, closed, place, chores>>

AssigneeChoice(r) == {u \in User : IsMember(request[r].house, u)}

TaskFindAssignee(r, step, next) ==
    /\ At(r, step)
    /\ \/ Goto(r, next)
       \/ \E u \in AssigneeChoice(r) :
            request' = [request EXCEPT ![r].step = next, ![r].assignee = u]
       \/ Finish(r)
    /\ UNCHANGED <<open, closed, place, chores>>

CreateFindAssignee(r) == TaskFindAssignee(r, "createAssignee", "createSave")
UpdateFindAssignee(r) == TaskFindAssignee(r, "updateAssignee", "updateLoad")

\* The assigner is set exactly when an assignee is.
Assigner(r) == IF request[r].assignee = NULL THEN NULL ELSE request[r].user

CreateSave(r) ==
    /\ At(r, "createSave")
    /\ IF request[r].housework # NULL
          /\ (request[r].assignee # NULL \/ AssigneeOptional)
       THEN \E t \in Task :
                /\ task[t] = NULL
                /\ task' = [task EXCEPT ![t] =
                        [housework |-> request[r].housework,
                         assignee |-> request[r].assignee,
                         assigner |-> Assigner(r), deleted |-> FALSE]]
       ELSE UNCHANGED task
    /\ Finish(r)
    /\ UNCHANGED <<open, closed, place, housework>>

\* Fault: a new assignee keeps the assigner of the old one.
Differs_AssignerKept(r, t) ==
    {column \in {"housework", "assignee"} :
        CASE column = "housework" -> request[r].housework # task[t].housework
          [] column = "assignee" -> request[r].assignee \notin {NULL, task[t].assignee}}

\* The columns the entity gives another value than the row that was loaded.
Differs(r, t) ==
    {column \in Column :
        CASE column = "housework" -> request[r].housework # task[t].housework
          [] column = "assignee" -> request[r].assignee \notin {NULL, task[t].assignee}
          [] column = "assigner" -> Assigner(r) \notin {NULL, task[t].assigner}}

\* save() on an entity with an id first loads the row of that id, of whatever
\* house, deleted or not.  It fails when there is none, for the INSERT it then
\* tries has no creator, and when the housework would become null.
UpdateLoad(r) ==
    /\ At(r, "updateLoad")
    /\ \/ /\ request[r].housework # NULL
          /\ \E t \in {t \in Task : task[t] # NULL} :
                request' = [request EXCEPT ![r].step = "updateSave", ![r].task = t,
                                           ![r].changed = Differs(r, t)]
       \/ Finish(r)
    /\ UNCHANGED <<open, closed, place, chores>>

\* Fault: the row is replaced as a whole.
UpdateSave_WholeRow(r) ==
    LET t == request[r].task
    IN  /\ At(r, "updateSave")
        /\ task' = [task EXCEPT ![t] =
                [housework |-> request[r].housework, assignee |-> request[r].assignee,
                 assigner |-> request[r].user, deleted |-> FALSE]]
        /\ Finish(r)
        /\ UNCHANGED <<open, closed, place, housework>>

\* Then it updates the columns that differed, and no others.
UpdateSave(r) ==
    LET t == request[r].task
        Value(column, old, new) == IF column \in request[r].changed THEN new ELSE old
    IN  /\ At(r, "updateSave")
        /\ task' = [task EXCEPT
                ![t].housework = Value("housework", @, request[r].housework),
                ![t].assignee = Value("assignee", @, request[r].assignee),
                ![t].assigner = Value("assigner", @, Assigner(r))]
        /\ Finish(r)
        /\ UNCHANGED <<open, closed, place, housework>>

\* The where clause compares the id of the task's housework with the id of the
\* house, so a task is found only when the two numbers are the same.
TaskFind(r) ==
    /\ At(r, "handler")
    /\ \/ \E t \in LiveTasks(request[r].house) :
            request' = [request EXCEPT ![r].step = "taskRemove", ![r].task = t]
       \/ Finish(r)
    /\ UNCHANGED <<open, closed, place, chores>>

TaskSoftRemove(r) ==
    /\ At(r, "taskRemove")
    /\ task' = [task EXCEPT ![request[r].task].deleted = TRUE]
    /\ Finish(r)
    /\ UNCHANGED <<open, closed, place, housework>>

-----------------------------------------------------------------------------
Init ==
    /\ open = {}
    /\ closed = {}
    /\ place = [h \in House |-> [u \in User |-> "outside"]]
    /\ housework = [w \in Housework |-> NULL]
    /\ task = [t \in Task |-> NULL]
    /\ request = [r \in Request |-> Idle]

Validate(r) == ValidHouse(r) \/ ValidMember(r)
HouseworkStep(r) ==
    CreateHousework(r) \/ SoftDeleteHouseworkFind(r) \/ SoftDeleteHousework(r)
TaskStep(r) ==
    \/ TaskFindHousework(r)
    \/ CreateFindAssignee(r) \/ CreateSave(r)
    \/ UpdateFindAssignee(r) \/ UpdateLoad(r) \/ UpdateSave(r)
    \/ TaskFind(r) \/ TaskSoftRemove(r)

Next == \/ RosterStep
        \/ \E r \in Request : Validate(r) \/ HouseworkStep(r) \/ TaskStep(r)

Spec == Init /\ [][Next]_vars

-----------------------------------------------------------------------------
(* Properties.                                                             *)

\* Rows and calls have the shape their columns and variables have, a task has an
\* assigner exactly when it has an assignee, and a call about to write knows
\* which row.
TypeOK ==
    /\ housework \in [Housework -> HouseworkRow \cup {NULL}]
    /\ task \in [Task -> TaskRow \cup {NULL}]
    /\ request \in [Request -> Call]
    /\ \A t \in Task : task[t] # NULL =>
        /\ housework[task[t].housework] # NULL
        /\ (task[t].assignee = NULL) = (task[t].assigner = NULL)
    /\ \A r \in Request :
        /\ At(r, "houseworkDelete") => housework[request[r].housework] # NULL
        /\ request[r].step \in {"updateSave", "taskRemove"} => task[request[r].task] # NULL

Belonged(h, u) == place[h][u] # "outside"

\* The caller of a call to house h that ends here, who has been let in.
CallerInto(h, r) ==
    request'[r] = Idle /\ request[r].house = h /\ Belonged(h, request[r].user)

Rehoused(t) ==
    /\ task'[t] # NULL
    /\ task[t] = NULL \/ task'[t].housework # task[t].housework

Reassigned(t) ==
    /\ task'[t] # NULL
    /\ task'[t].assignee # NULL
    /\ task[t] = NULL \/ task'[t].assignee # task[t].assignee

Reassigner(t) ==
    /\ task[t] # NULL
    /\ task'[t].assigner # task[t].assigner

\* Whatever is written lands in a house its writer belongs to, or belonged to
\* when the call came in: new housework, housework that is deleted, a task that
\* is created there or moved there, from whatever house it was in; and the
\* assignee it is given belonged to that house too.  The checks come up to six
\* statements before the write, and the task's own house is never looked at.
WritesByMembers ==
    [][/\ \A w \in Housework : housework'[w] # housework[w] =>
            \E r \in Request : CallerInto(housework'[w].house, r)
       /\ \A t \in Task : Rehoused(t) =>
            \E r \in Request : CallerInto(housework[task'[t].housework].house, r)
       /\ \A t \in Task : Reassigned(t) =>
            \E r \in Request, h \in House :
                CallerInto(h, r) /\ Belonged(h, task'[t].assignee)]_vars

\* Nothing that has been deleted comes back, though save() loads deleted rows
\* as well and writes to them, and housework never changes its house.
DeletedStays ==
    [][/\ \A w \in Housework : housework[w] # NULL =>
            /\ housework'[w].house = housework[w].house
            /\ housework[w].deleted => housework'[w].deleted
       /\ \A t \in Task : task[t] # NULL /\ task[t].deleted => task'[t].deleted]_vars

\* The assigner of a task is the caller who chose its assignee.  It holds when
\* calls come one at a time: of two updates that have loaded the same row, each
\* writes the columns it found different, and the row gets the assignee of one
\* and the assigner of the other.
AssignmentOfOneCall ==
    [][\A t \in Task : Reassigned(t) \/ Reassigner(t) =>
        \E r \in Request :
            /\ request'[r] = Idle
            /\ request[r].assignee = task'[t].assignee
            /\ request[r].user = task'[t].assigner]_vars

\* CreateTaskDto says of assigneeUserId that it may be left out: a call to create
\* a task for housework it has found does not end without a new row.
CreateStores ==
    [][\A r \in Request :
        At(r, "createSave") /\ request[r].housework # NULL /\ request'[r] = Idle
            => \E t \in Task : task[t] = NULL /\ task'[t] # NULL]_vars

=============================================================================
