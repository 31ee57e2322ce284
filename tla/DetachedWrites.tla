----------------------------- MODULE DetachedWrites -----------------------------
(***************************************************************************)
(* Two handlers answer before what they were asked for is done:            *)
(* renameHouse (house.service.ts) and updateHousework                      *)
(* (housework.service.ts) issue an UPDATE and do not await it.  What has   *)
(* been issued waits in the connection pool and in the database, which run *)
(* it in any order, while the validator's answer it rests on goes stale;   *)
(* and when it fails nobody handles the rejection, which ends the process. *)
(* Who belongs to which house changes by the steps of Roster.              *)
(***************************************************************************)
EXTENDS Naturals, FiniteSets

CONSTANTS
    User, House, Housework,
    Request,   \* calls that can be in progress at the same time
    Lasting,   \* bound: houses nobody leaves or deletes
    Slot,      \* bound: UPDATEs that can be on their way at the same time
    NULL

ASSUME DetachedAssumption ==
    /\ NULL \notin User \cup House \cup Housework
    /\ NULL \notin [house : House, housework : Housework \cup {NULL}, by : User]

VARIABLES
    open, closed, place,  \* of Roster
    name,      \* name[h]: who gave house h its name; it stands for the name
    home,      \* home[w]: the house of housework w, or NULL where there is no row
    title,     \* title[w]: who gave housework w its title and frequency
    request,   \* the call in each slot
    write,     \* write[k]: the UPDATE that has been issued and not been run, or NULL
    up         \* the process is running

roster == <<open, closed, place>>
texts == <<name, home, title>>
vars == <<open, closed, place, name, home, title, request, write, up>>

\* As in Chores, anybody may have been offered a place in a house there is.
Houses == INSTANCE Roster WITH offered <- [h \in House |-> User]
Enter(h, u) == h \in open \cup closed /\ Houses!Enter(h, u)

-----------------------------------------------------------------------------
Call == [step : {"idle", "validMember", "handler"},
         user : User \cup {NULL}, house : House \cup {NULL}]

Idle == [step |-> "idle", user |-> NULL, house |-> NULL]

\* An UPDATE of a house, or of housework where "housework" is not NULL, by "by".
Update == [house : House, housework : Housework \cup {NULL}, by : User]

At(r, step) == request[r].step = step
Belonged(h, u) == place[h][u] # "outside"

\* Houses are founded, and housework is created, with a first name and title.
RosterStep ==
    /\ up
    /\ \E h \in House, u \in User :
        \/ Houses!Found(h, u) /\ name' = [name EXCEPT ![h] = u]
        \/ Enter(h, u) /\ UNCHANGED name
        \/ h \notin Lasting /\ Houses!Leave(h, u) /\ UNCHANGED name
        \/ /\ h \notin Lasting
           /\ \E leaving \in SUBSET User : Houses!Close(h, leaving)
           /\ UNCHANGED name
    /\ UNCHANGED <<home, title, request, write, up>>

CreateHousework ==
    /\ up
    /\ \E w \in Housework, h \in House, u \in User :
        /\ home[w] = NULL
        /\ Belonged(h, u)
        /\ home' = [home EXCEPT ![w] = h]
        /\ title' = [title EXCEPT ![w] = u]
    /\ UNCHANGED <<roster, name, request, write, up>>

-----------------------------------------------------------------------------
(* The validator of both routes: the house, then the caller's membership.   *)

\* Fault: the validator finds deleted houses as well.
ValidHouse_WithDeleted(r) ==
    /\ up
    /\ At(r, "idle")
    /\ \E h \in open \cup closed :
        request' = [request EXCEPT ![r] = [Idle EXCEPT !.step = "validMember",
                                                      !.house = h]]
    /\ UNCHANGED <<roster, texts, write, up>>

ValidHouse(r) ==
    /\ up
    /\ At(r, "idle")
    /\ \E h \in open :
        request' = [request EXCEPT ![r] = [Idle EXCEPT !.step = "validMember",
                                                      !.house = h]]
    /\ UNCHANGED <<roster, texts, write, up>>

ValidMember(r) ==
    /\ At(r, "validMember")
    /\ \/ \E u \in {u \in User : place[request[r].house][u] = "inside"} :
            request' = [request EXCEPT ![r].step = "handler", ![r].user = u]
       \/ request' = [request EXCEPT ![r] = Idle]
    /\ UNCHANGED <<roster, texts, write, up>>

-----------------------------------------------------------------------------
(* The handlers: the UPDATE is issued, and the call answered.               *)

Free == {k \in Slot : write[k] = NULL}

Issue(r, w) ==
    /\ \E k \in {k \in Free : k = CHOOSE j \in Free : TRUE} :
        write' = [write EXCEPT ![k] = [house |-> request[r].house, housework |-> w,
                                       by |-> request[r].user]]
    /\ request' = [request EXCEPT ![r] = Idle]
    /\ UNCHANGED <<roster, texts, up>>

RenameHouse(r) == At(r, "handler") /\ Issue(r, NULL)

\* The id of the housework is whatever the body says.
UpdateHousework(r) == At(r, "handler") /\ \E w \in Housework : Issue(r, w)

-----------------------------------------------------------------------------
(* The database, and the end of the process.                               *)

\* Fault: the where clause has no houseId.
Matches_AnyHouse(x) == IF home[x.housework] = NULL THEN {} ELSE {x.housework}

\* Fault: save() instead of update(), which inserts the row it does not find.
Matches_Saved(x) == {x.housework}

\* Where id and houseId: deleted rows too, and perhaps none.
Matches(x) == {w \in Housework : w = x.housework /\ home[w] = x.house}

\* Fault: an UPDATE that was issued is forgotten.
Run_Forgotten(k) ==
    /\ write[k] # NULL
    /\ write' = [write EXCEPT ![k] = NULL]
    /\ UNCHANGED <<roster, texts, request, up>>

Run(k) ==
    LET x == write[k]
    IN  /\ x # NULL
        /\ \/ /\ x.housework = NULL
              /\ name' = [name EXCEPT ![x.house] = x.by]
              /\ UNCHANGED title
           \/ /\ x.housework # NULL
              /\ title' = [w \in Housework |-> IF w \in Matches(x) THEN x.by ELSE title[w]]
              /\ UNCHANGED name
        /\ write' = [write EXCEPT ![k] = NULL]
        /\ UNCHANGED <<roster, home, request, up>>

\* Some query has failed, or something else: the calls in progress are gone, and
\* so are the UPDATEs that have not reached the database yet.
Crash ==
    /\ up
    /\ \E lost \in SUBSET Slot :
        write' = [k \in Slot |-> IF k \in lost THEN NULL ELSE write[k]]
    /\ request' = [r \in Request |-> Idle]
    /\ up' = FALSE
    /\ UNCHANGED <<roster, texts>>

Restart ==
    /\ ~up
    /\ up' = TRUE
    /\ UNCHANGED <<roster, texts, request, write>>

-----------------------------------------------------------------------------
Init ==
    /\ open = {}
    /\ closed = {}
    /\ place = [h \in House |-> [u \in User |-> "outside"]]
    /\ name = [h \in House |-> NULL]
    /\ home = [w \in Housework |-> NULL]
    /\ title = [w \in Housework |-> NULL]
    /\ request = [r \in Request |-> Idle]
    /\ write = [k \in Slot |-> NULL]
    /\ up = TRUE

Next == \/ RosterStep \/ CreateHousework
        \/ \E r \in Request : \/ ValidHouse(r) \/ ValidMember(r)
                              \/ RenameHouse(r) \/ UpdateHousework(r)
        \/ \E k \in Slot : Run(k)
        \/ Crash \/ Restart

Spec == Init /\ [][Next]_vars

\* The database runs what has reached it.
FairSpec == Spec /\ \A k \in Slot : WF_vars(Run(k))

-----------------------------------------------------------------------------
(* Properties.                                                             *)

\* Rows, calls and UPDATEs have their shape; a house has a name and housework a
\* title exactly when there is a row.
TypeOK ==
    /\ open \subseteq House /\ closed \subseteq House
    /\ place \in [House -> [User -> Houses!Place]]
    /\ name \in [House -> User \cup {NULL}]
    /\ home \in [Housework -> House \cup {NULL}]
    /\ title \in [Housework -> User \cup {NULL}]
    /\ \A h \in House : name[h] = NULL <=> h \notin open \cup closed
    /\ \A w \in Housework : title[w] = NULL <=> home[w] = NULL
    /\ request \in [Request -> Call]
    /\ write \in [Slot -> Update \cup {NULL}]
    /\ up \in BOOLEAN

\* What a house and its housework are called was said by somebody who belongs or
\* has belonged to that very house, however late the UPDATE ran and whatever id
\* the body named.
NamedByMembers ==
    /\ \A h \in House : name[h] # NULL => Belonged(h, name[h])
    /\ \A w \in Housework : home[w] # NULL => Belonged(home[w], title[w])

\* Something u says of house h is on its way: a call, or one that may turn out
\* to be u's, or an UPDATE.
OnItsWay(h, u) ==
    \/ \E r \in Request : /\ request[r].house = h
                          /\ \/ request[r].user = u
                             \/ request[r].user = NULL /\ place[h][u] # "gone"
    \/ \E k \in Slot : write[k] # NULL /\ write[k].house = h /\ write[k].by = u

\* A member who has left, or whose house is deleted, may still change it through
\* a call that was validated, or an UPDATE that was issued, before.  Once these
\* are through nothing follows, although no UPDATE looks at who is a member or
\* what is deleted.
Silenced(h, u) == ~OnItsWay(h, u) /\ (place[h][u] = "gone" \/ h \in closed)
GoneStaysSilent ==
    [][\A h \in House, u \in User : Silenced(h, u) =>
        /\ Silenced(h, u)'
        /\ name'[h] = u => name[h] = u
        /\ \A w \in Housework : home[w] = h /\ title'[w] = u => title[w] = u]_vars

\* Whoever has been answered is heard: the name, or the title where the
\* housework is of that house, is at some time what the call said, unless the
\* process ends first.
Heard(x) == \/ x.housework = NULL /\ name[x.house] = x.by
            \/ x.housework # NULL /\ \/ home[x.housework] # x.house
                                     \/ title[x.housework] = x.by
AnsweredIsHeard ==
    \A h \in House, w \in Housework \cup {NULL}, u \in User :
        LET x == [house |-> h, housework |-> w, by |-> u]
        IN  (\E k \in Slot : write[k] = x) ~> Heard(x) \/ ~up

=============================================================================
