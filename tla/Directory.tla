------------------------------ MODULE Directory ------------------------------
(***************************************************************************)
(* Users, groups and routes: the tables the panel edits, and what the bot  *)
(* makes of them.  The forms and the routes of a card read a row, await,   *)
(* and write what they have read; the other requests are one transaction   *)
(* with a single statement that matters.  The bot reads the six tables one *)
(* SELECT after the other when it starts (READ COMMITTED: each sees what   *)
(* is committed by then) and goes by that until it is restarted.           *)
(***************************************************************************)
EXTENDS Integers, Sequences, NoticeRules

CONSTANTS
  UserForms, GroupForms,  \* what is submitted: the fields of a row
  FirstRows,              \* the tables at first
  Requests,               \* requests in flight at a time
  MaxRequests, MaxStarts  \* bounds: requests, starts of the bot

VARIABLES
  db,        \* the tables
  bot,       \* how many tables the bot has read, and what it has read
  req,       \* the requests in flight
  had,       \* history: the rooms a row has had
  fresh,     \* history: nothing was committed since the bot began to load
  requests, starts
vars == <<db, bot, req, had, fresh, requests, starts>>
counters == <<requests, starts>>

\* The order in which fetch_runtime_config reads.
Tables == <<"group", "groupRoute", "userRoute", "user", "statusRoute", "versionRoute">>
Loaded == bot.read = Len(Tables)
Idle == [op |-> "idle"]
NoRoutes == [k \in Keys |-> None]

UserRow == [group : Groups \cup {None}, room : Rooms, notify : SUBSET {"all", "new"},
            hours : {None} \cup SUBSET Moments, dnd : BOOLEAN]
GroupRow == [room : Rooms \cup {None}, notify : SUBSET {"all", "new"},
             hours : {None} \cup SUBSET Moments, dnd : BOOLEAN]
Routes == [Keys -> Rooms \cup {None}]
TableType == [group : [Groups -> GroupRow \cup {None, Gone}],
              user : [Users -> UserRow \cup {None, Gone}],
              groupRoute : [Groups -> Routes], userRoute : [Users -> Routes],
              statusRoute : Rooms \cup {None}, versionRoute : Routes]

\* Rows are rows; at first a route of a card leads to the room of its owner.
ASSUME DirectoryAssumption ==
  /\ MaxRequests \in Nat /\ MaxStarts \in Nat
  /\ None \notin UserRow \cup GroupRow /\ Gone \notin UserRow \cup GroupRow
  /\ UserForms \subseteq UserRow /\ GroupForms \subseteq GroupRow
  /\ FirstRows \subseteq TableType
  /\ \A rows \in FirstRows :
       /\ \A u \in Users : Live(rows.user[u]) /\ rows.user[u].group # None
                            => Live(rows.group[rows.user[u].group])
       /\ \A u \in Users, k \in Keys : rows.userRoute[u][k] # None =>
            Live(rows.user[u]) /\ rows.userRoute[u][k] = rows.user[u].room
       /\ \A g \in Groups, k \in Keys : rows.groupRoute[g][k] # None =>
            Live(rows.group[g]) /\ rows.groupRoute[g][k] = rows.group[g].room

\* No row at all: what the bot has before it reads.
Nothing == [group |-> [g \in Groups |-> None], user |-> [u \in Users |-> None],
            groupRoute |-> [g \in Groups |-> NoRoutes], userRoute |-> [u \in Users |-> NoRoutes],
            statusRoute |-> None, versionRoute |-> NoRoutes]

SaveType == [op : {"user"}, owner : Users, old : UserRow, new : UserRow, gone : BOOLEAN]
              \cup [op : {"group"}, owner : Groups, old : GroupRow, new : GroupRow, gone : BOOLEAN]
RouteType == [op : {"userRoute"}, owner : Users, key : Keys, room : Rooms]
               \cup [op : {"groupRoute"}, owner : Groups, key : Keys, room : Rooms]
               \cup [op : {"statusRoute"}, owner : Groups, room : Rooms]

\* The type of every variable; nobody is in a group that is gone.
TypeOK ==
  /\ db \in TableType
  /\ \A u \in Users : Live(db.user[u]) /\ db.user[u].group # None => Live(db.group[db.user[u].group])
  /\ bot \in [read : 0..Len(Tables), rows : TableType]
  /\ req \in [Requests -> {Idle} \cup SaveType \cup RouteType]
  /\ had \in [Users \cup Groups -> SUBSET Rooms]
  /\ fresh \in BOOLEAN
  /\ requests \in 0..MaxRequests /\ starts \in 0..MaxStarts

RoomsOf(rows, o) ==
  LET row == IF o \in Users THEN rows.user[o] ELSE rows.group[o]
  IN IF Live(row) THEN {row.room} \ {None} ELSE {}

Init ==
  /\ db \in FirstRows
  /\ bot = [read |-> 0, rows |-> Nothing]
  /\ req = [r \in Requests |-> Idle]
  /\ had = [o \in Users \cup Groups |-> RoomsOf(db, o)]
  /\ fresh = TRUE
  /\ requests = 0 /\ starts = 0

Free(r) == req[r] = Idle /\ requests < MaxRequests
Begins(r, record) ==
  /\ Free(r) /\ requests' = requests + 1 /\ req' = [req EXCEPT ![r] = record]
  /\ UNCHANGED <<db, bot, had, fresh, starts>>
\* The tables are committed as given; what the bot is loading is no longer of one moment.
Commits(tables) ==
  /\ db' = tables
  /\ had' = [o \in Users \cup Groups |-> had[o] \cup RoomsOf(tables, o)]
  /\ fresh' = (tables = db /\ fresh)
  /\ UNCHANGED bot
\* A request of one statement.
AtOnce(r) == Free(r) /\ requests' = requests + 1 /\ UNCHANGED <<req, starts>>
Ends(r) == req' = [req EXCEPT ![r] = Idle] /\ UNCHANGED counters

-----------------------------------------------------------------------------
(* The cards of a user and of a group. *)

UserForm(r) ==
  \E u \in Users, form \in UserForms :
    /\ Live(db.user[u])
    /\ Begins(r, [op |-> "user", owner |-> u, old |-> db.user[u], new |-> form, gone |-> FALSE])

GroupForm(r) ==
  \E g \in Groups, form \in GroupForms :
    /\ Live(db.group[g])
    /\ Begins(r, [op |-> "group", owner |-> g, old |-> db.group[g], new |-> form, gone |-> FALSE])

\* A reference to a group that is gone: the foreign key refuses the row.
Refused(form, old) == form.group # old.group /\ form.group # None /\ ~Live(db.group[form.group])

\* Only the fields that differ from the row as it was loaded are written.
Merged(row, old, new) == [f \in DOMAIN row |-> IF new[f] # old[f] THEN new[f] ELSE row[f]]

\* A row deleted in between makes the UPDATE match nothing: the request fails.
SaveUser(r) ==
  LET u == req[r].owner IN
  /\ req[r].op = "user"
  /\ IF Live(db.user[u]) /\ ~Refused(req[r].new, req[r].old)
       THEN Commits([db EXCEPT !.user[u] = Merged(@, req[r].old, req[r].new)])
       ELSE Commits(db)
  /\ Ends(r)

SaveGroup(r) ==
  LET g == req[r].owner IN
  /\ req[r].op = "group"
  /\ IF Live(db.group[g])
       THEN Commits([db EXCEPT !.group[g] = Merged(@, req[r].old, req[r].new)])
       ELSE Commits(db)
  /\ Ends(r)

\* A new user of the import or of the form, a new group of the form.
AddUser(r) ==
  /\ AtOnce(r)
  /\ \E u \in Users, form \in UserForms :
       /\ db.user[u] = None
       /\ Commits(IF form.group # None /\ ~Live(db.group[form.group]) THEN db
                  ELSE [db EXCEPT !.user[u] = form])

AddGroup(r) ==
  /\ AtOnce(r)
  /\ \E g \in Groups, form \in GroupForms :
       /\ db.group[g] = None /\ form.room # None
       /\ Commits([db EXCEPT !.group[g] = form])

DeletedUserMutant(u) == [db EXCEPT !.user[u] = Gone]
\* The routes of a user go with the row.
DeletedUser(u) == [db EXCEPT !.user[u] = Gone, !.userRoute[u] = NoRoutes]

DeletedGroupMutant(g) == [db EXCEPT !.group[g] = Gone, !.groupRoute[g] = NoRoutes]
\* The members of a group stay, without a group; the routes of versions go with it,
\* those of statuses stay.
DeletedGroup(g) ==
  [db EXCEPT !.group[g] = Gone, !.groupRoute[g] = NoRoutes,
             !.user = [u \in Users |-> IF Live(@[u]) /\ @[u].group = g
                                         THEN [@[u] EXCEPT !.group = None] ELSE @[u]]]

RemoveUser(r) ==
  AtOnce(r) /\ \E u \in Users : Live(db.user[u]) /\ Commits(DeletedUser(u))
RemoveGroup(r) ==
  AtOnce(r) /\ \E g \in Groups : Live(db.group[g]) /\ Commits(DeletedGroup(g))

-----------------------------------------------------------------------------
(* Routes. *)

\* The card of a user or a group adds a route to the room the row has.
UserRouteForm(r) ==
  \E u \in Users, k \in Keys :
    /\ Live(db.user[u]) /\ db.userRoute[u][k] = None
    /\ Begins(r, [op |-> "userRoute", owner |-> u, key |-> k, room |-> db.user[u].room])
GroupRouteForm(r) ==
  \E g \in Groups, k \in Keys :
    /\ Live(db.group[g]) /\ db.group[g].room # None /\ db.groupRoute[g][k] = None
    /\ Begins(r, [op |-> "groupRoute", owner |-> g, key |-> k, room |-> db.group[g].room])
GroupStatusForm(r) ==
  \E g \in Groups :
    /\ Live(db.group[g]) /\ db.group[g].room # None /\ db.statusRoute = None
    /\ Begins(r, [op |-> "statusRoute", owner |-> g, room |-> db.group[g].room])

\* The route is written unless its owner is gone or the key was taken meanwhile.
SaveUserRoute(r) ==
  LET q == req[r] IN
  /\ q.op = "userRoute"
  /\ Commits(IF Live(db.user[q.owner]) /\ db.userRoute[q.owner][q.key] = None
               THEN [db EXCEPT !.userRoute[q.owner][q.key] = q.room] ELSE db)
  /\ Ends(r)
SaveGroupRoute(r) ==
  LET q == req[r] IN
  /\ q.op = "groupRoute"
  /\ Commits(IF Live(db.group[q.owner]) /\ db.groupRoute[q.owner][q.key] = None
               THEN [db EXCEPT !.groupRoute[q.owner][q.key] = q.room] ELSE db)
  /\ Ends(r)
SaveStatusRoute(r) ==
  /\ req[r].op = "statusRoute"
  /\ Commits(IF db.statusRoute = None THEN [db EXCEPT !.statusRoute = req[r].room] ELSE db)
  /\ Ends(r)

\* The routes for everybody are entered with their room, and need no owner.
AddVersionRoute(r) ==
  /\ AtOnce(r)
  /\ \E k \in Keys, room \in Rooms :
       db.versionRoute[k] = None /\ Commits([db EXCEPT !.versionRoute[k] = room])
AddStatusRoute(r) ==
  /\ AtOnce(r)
  /\ \E room \in Rooms : db.statusRoute = None /\ Commits([db EXCEPT !.statusRoute = room])

DropUserRoute(r) ==
  /\ AtOnce(r)
  /\ \E u \in Users, k \in Keys :
       db.userRoute[u][k] # None /\ Commits([db EXCEPT !.userRoute[u][k] = None])
DropGroupRoute(r) ==
  /\ AtOnce(r)
  /\ \E g \in Groups, k \in Keys :
       db.groupRoute[g][k] # None /\ Commits([db EXCEPT !.groupRoute[g][k] = None])
DropVersionRoute(r) ==
  /\ AtOnce(r)
  /\ \E k \in Keys : db.versionRoute[k] # None /\ Commits([db EXCEPT !.versionRoute[k] = None])
DropStatusRoute(r) ==
  AtOnce(r) /\ db.statusRoute # None /\ Commits([db EXCEPT !.statusRoute = None])

-----------------------------------------------------------------------------
(* The bot. *)

Restart ==
  /\ starts < MaxStarts /\ starts' = starts + 1
  /\ bot' = [read |-> 0, rows |-> Nothing]
  /\ fresh' = TRUE
  /\ UNCHANGED <<db, req, had, requests>>

\* The next table is read.
Load ==
  /\ ~Loaded
  /\ bot' = [read |-> bot.read + 1,
             rows |-> [bot.rows EXCEPT ![Tables[bot.read + 1]] = db[Tables[bot.read + 1]]]]
  /\ fresh' = (bot.read = 0 \/ fresh)
  /\ UNCHANGED <<db, req, had, counters>>

Next ==
  \/ \E r \in Requests :
       \/ UserForm(r) \/ GroupForm(r) \/ SaveUser(r) \/ SaveGroup(r)
       \/ AddUser(r) \/ AddGroup(r) \/ RemoveUser(r) \/ RemoveGroup(r)
       \/ UserRouteForm(r) \/ GroupRouteForm(r) \/ GroupStatusForm(r)
       \/ SaveUserRoute(r) \/ SaveGroupRoute(r) \/ SaveStatusRoute(r)
       \/ AddVersionRoute(r) \/ AddStatusRoute(r)
       \/ DropUserRoute(r) \/ DropGroupRoute(r) \/ DropVersionRoute(r) \/ DropStatusRoute(r)
  \/ Restart \/ Load

Spec == Init /\ [][Next]_vars
\* The bot goes on loading.
FairSpec == Spec /\ WF_vars(Load)

-----------------------------------------------------------------------------
\* A route of a card leads to a room its owner has, or had and gave up since: never to
\* a room of somebody else, of a deleted row or of none (users.py:712, groups.py:611).
RoutesLeadHome ==
  /\ \A u \in Users, k \in Keys : db.userRoute[u][k] # None =>
       Live(db.user[u]) /\ db.userRoute[u][k] \in had[u]
  /\ \A g \in Groups, k \in Keys : db.groupRoute[g][k] # None =>
       Live(db.group[g]) /\ db.groupRoute[g][k] \in had[g]

UpToDate == \A u \in Users, issue \in Issue, m \in Moments :
              AsPromised(db, u, issue, m, Delivered(bot.rows, u, issue, m))

\* What the bot has loaded sends each announcement as the rows promise it, if nothing was
\* saved since it began to load: to all who are to have it, past nobody whose settings
\* hold, and to a room once for each part it plays (load_config.py:75, processor.py:164-194,
\* logic.py:197).
AnnouncedAsPromised ==
  Loaded /\ fresh => UpToDate

\* The bot takes up by itself what is saved in the panel (docs/ADMINISTRATOR_GUIDE.md:50).
PicksUpByItself == []<>(Loaded /\ UpToDate)
=============================================================================
