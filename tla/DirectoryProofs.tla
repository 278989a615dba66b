-------------------------- MODULE DirectoryProofs --------------------------
(***************************************************************************)
(* Proofs about Directory, for any users, groups, rooms, keys and forms,   *)
(* and any number of requests and starts: the tables keep their types, no  *)
(* user is in a group that is gone, a route of a card leads to a room its  *)
(* owner has or had, and what the bot loads while nothing is saved sends a *)
(* notice to just the rooms the rows promise it.                           *)
(***************************************************************************)
EXTENDS Directory, TLAPS

\* Tables that fit together: members have their group, routes of cards their owner and
\* a room of his, and the rooms that owners have are among those they have had.
MembersLive(t) == \A u \in Users : Live(t.user[u]) /\ t.user[u].group # None => Live(t.group[t.user[u].group])
UserRoutesLead(t, h) ==
  \A u \in Users, k \in Keys : t.userRoute[u][k] # None => Live(t.user[u]) /\ t.userRoute[u][k] \in h[u]
GroupRoutesLead(t, h) ==
  \A g \in Groups, k \in Keys : t.groupRoute[g][k] # None => Live(t.group[g]) /\ t.groupRoute[g][k] \in h[g]
Remembers(t, h) == \A o \in Users \cup Groups : RoomsOf(t, o) \subseteq h[o]

Fitting(t, h) == MembersLive(t) /\ UserRoutesLead(t, h) /\ GroupRoutesLead(t, h) /\ Remembers(t, h)

\* A route that is about to be written leads to a room its owner had.
Leads(q, h) == q.op \in {"userRoute", "groupRoute"} => q.room \in h[q.owner]

Inv == TypeOK /\ Fitting(db, had) /\ \A r \in Requests : Leads(req[r], had)

UserRows == UserRow \cup {None, Gone}
GroupRows == GroupRow \cup {None, Gone}

-----------------------------------------------------------------------------
\* The fields of the tables.
LEMMA TableFacts ==
  ASSUME NEW t \in TableType
  PROVE  /\ t.group \in [Groups -> GroupRows] /\ t.user \in [Users -> UserRows]
         /\ t.groupRoute \in [Groups -> Routes] /\ t.userRoute \in [Users -> Routes]
         /\ t.statusRoute \in Rooms \cup {None} /\ t.versionRoute \in Routes
         /\ \A u \in Users : Live(t.user[u]) <=> t.user[u] \in UserRow
         /\ \A g \in Groups : Live(t.group[g]) <=> t.group[g] \in GroupRow
<1>1. /\ t.group \in [Groups -> GroupRows] /\ t.user \in [Users -> UserRows]
      /\ t.groupRoute \in [Groups -> Routes] /\ t.userRoute \in [Users -> Routes]
      /\ t.statusRoute \in Rooms \cup {None} /\ t.versionRoute \in Routes
  BY DEF TableType, GroupRows, UserRows
<1> QED BY <1>1, DirectoryAssumption DEF Live, GroupRows, UserRows

\* Tables with one of them written anew.
LEMMA Written ==
  ASSUME NEW t \in TableType
  PROVE  /\ \A f \in [Users -> UserRows] : [t EXCEPT !.user = f] \in TableType
         /\ \A f \in [Groups -> GroupRows] : [t EXCEPT !.group = f] \in TableType
         /\ \A f \in [Users -> Routes] : [t EXCEPT !.userRoute = f] \in TableType
         /\ \A f \in [Groups -> Routes] : [t EXCEPT !.groupRoute = f] \in TableType
         /\ \A f \in Routes : [t EXCEPT !.versionRoute = f] \in TableType
         /\ \A f \in Rooms \cup {None} : [t EXCEPT !.statusRoute = f] \in TableType
BY DEF TableType, UserRows, GroupRows

LEMMA MergedRows ==
  /\ \A row \in UserRow, old \in UserRow, new \in UserRow :
       /\ Merged(row, old, new) \in UserRow
       /\ Merged(row, old, new).group = IF new.group # old.group THEN new.group ELSE row.group
  /\ \A row \in GroupRow, old \in GroupRow, new \in GroupRow : Merged(row, old, new) \in GroupRow
<1>1. ASSUME NEW row \in UserRow, NEW old \in UserRow, NEW new \in UserRow
      PROVE  /\ Merged(row, old, new) \in UserRow
             /\ Merged(row, old, new).group = IF new.group # old.group THEN new.group ELSE row.group
  <2>1. DOMAIN row = {"group", "room", "notify", "hours", "dnd"} BY DEF UserRow
  <2>2. Merged(row, old, new) =
          [group |-> IF new.group # old.group THEN new.group ELSE row.group,
           room |-> IF new.room # old.room THEN new.room ELSE row.room,
           notify |-> IF new.notify # old.notify THEN new.notify ELSE row.notify,
           hours |-> IF new.hours # old.hours THEN new.hours ELSE row.hours,
           dnd |-> IF new.dnd # old.dnd THEN new.dnd ELSE row.dnd]
    BY <2>1 DEF Merged, UserRow
  <2> QED BY <2>2 DEF UserRow
<1>2. ASSUME NEW row \in GroupRow, NEW old \in GroupRow, NEW new \in GroupRow
      PROVE  Merged(row, old, new) \in GroupRow
  <2>1. DOMAIN row = {"room", "notify", "hours", "dnd"} BY DEF GroupRow
  <2>2. Merged(row, old, new) =
          [room |-> IF new.room # old.room THEN new.room ELSE row.room,
           notify |-> IF new.notify # old.notify THEN new.notify ELSE row.notify,
           hours |-> IF new.hours # old.hours THEN new.hours ELSE row.hours,
           dnd |-> IF new.dnd # old.dnd THEN new.dnd ELSE row.dnd]
    BY <2>1 DEF Merged, GroupRow
  <2> QED BY <2>2 DEF GroupRow
<1> QED BY <1>1, <1>2

-----------------------------------------------------------------------------
(* What every request does. *)

\* The tables t are committed; e says what becomes of the requests.
LEMMA CommitKeeps ==
  ASSUME Inv, NEW t \in TableType, Commits(t),
         MembersLive(t), UserRoutesLead(t, had'), GroupRoutesLead(t, had'),
         req' \in [Requests -> {Idle} \cup SaveType \cup RouteType],
         \A r \in Requests : req'[r] = req[r] \/ req'[r] = Idle,
         requests' \in 0..MaxRequests, starts' \in 0..MaxStarts
  PROVE  Inv'
<1>1. /\ db' = t /\ bot' = bot /\ fresh' \in BOOLEAN
      /\ had' = [o \in Users \cup Groups |-> had[o] \cup RoomsOf(t, o)]
  BY DEF Commits, Inv, TypeOK
<1>2. \A o \in Users \cup Groups : RoomsOf(t, o) \subseteq Rooms
  <2>1. ASSUME NEW o \in Users PROVE RoomsOf(t, o) \subseteq Rooms
    BY <2>1, TableFacts DEF RoomsOf, UserRow
  <2>2. ASSUME NEW o \in Groups PROVE RoomsOf(t, o) \subseteq Rooms
    BY <2>2, TableFacts, NoticeRulesAssumption DEF RoomsOf, GroupRow
  <2> QED BY <2>1, <2>2
<1>3. had' \in [Users \cup Groups -> SUBSET Rooms] BY <1>1, <1>2 DEF Inv, TypeOK
<1>4. TypeOK' BY <1>1, <1>3 DEF Inv, TypeOK, MembersLive
<1>5. Remembers(t, had') BY <1>1 DEF Remembers
<1>6. ASSUME NEW r \in Requests PROVE Leads(req'[r], had')
  <2>1. CASE req'[r] = Idle BY <2>1 DEF Leads, Idle
  <2>2. CASE req'[r] = req[r] /\ req[r].op \in {"userRoute", "groupRoute"}
    <3>1. req[r].owner \in Users \cup Groups
      BY <2>2 DEF Inv, TypeOK, Idle, SaveType, RouteType
    <3> QED BY <2>2, <3>1, <1>1 DEF Inv, Leads
  <2>3. CASE req'[r] = req[r] /\ req[r].op \notin {"userRoute", "groupRoute"} BY <2>3 DEF Leads
  <2> QED BY <2>1, <2>2, <2>3
<1> QED BY <1>1, <1>4, <1>5, <1>6 DEF Inv, Fitting

\* A form remembers what it has read.
LEMMA BeginKeeps ==
  ASSUME Inv, NEW r \in Requests, NEW q \in SaveType \cup RouteType, Begins(r, q), Leads(q, had)
  PROVE  Inv'
<1>1. requests' \in 0..MaxRequests BY DirectoryAssumption DEF Inv, TypeOK, Begins, Free
<1>2. req' \in [Requests -> {Idle} \cup SaveType \cup RouteType] BY DEF Inv, TypeOK, Begins
<1>3. TypeOK' BY <1>1, <1>2 DEF Inv, TypeOK, Begins
<1>4. \A s \in Requests : Leads(req'[s], had') BY <1>2 DEF Inv, TypeOK, Begins
<1> QED BY <1>3, <1>4 DEF Inv, Begins

\* What a request that ends, or that is over at once, does to the other variables.
LEMMA Endings ==
  ASSUME Inv, NEW r \in Requests, Ends(r) \/ AtOnce(r)
  PROVE  /\ req' \in [Requests -> {Idle} \cup SaveType \cup RouteType]
         /\ \A s \in Requests : req'[s] = req[s] \/ req'[s] = Idle
         /\ requests' \in 0..MaxRequests /\ starts' \in 0..MaxStarts
BY DirectoryAssumption DEF Inv, TypeOK, Ends, AtOnce, Free, counters

\* Routes that were there lead on, if their owner still lives.
LEMMA Onward ==
  ASSUME Inv, NEW t \in TableType, Commits(t)
  PROVE  /\ \A o \in Users \cup Groups : had[o] \subseteq had'[o] /\ RoomsOf(t, o) \subseteq had'[o]
         /\ \A u \in Users, k \in Keys :
              db.userRoute[u][k] # None => Live(db.user[u]) /\ db.userRoute[u][k] \in had'[u]
         /\ \A g \in Groups, k \in Keys :
              db.groupRoute[g][k] # None => Live(db.group[g]) /\ db.groupRoute[g][k] \in had'[g]
<1>1. \A o \in Users \cup Groups : had[o] \subseteq had'[o] /\ RoomsOf(t, o) \subseteq had'[o]
  BY DEF Commits
<1> QED BY <1>1 DEF Inv, Fitting, UserRoutesLead, GroupRoutesLead

\* A request that is refused writes nothing.
LEMMA NothingWritten ==
  ASSUME Inv, NEW r \in Requests, Commits(db), Ends(r) \/ AtOnce(r)
  PROVE  Inv'
<1>1. db \in TableType BY DEF Inv, TypeOK
<1>2. UserRoutesLead(db, had') /\ GroupRoutesLead(db, had') /\ MembersLive(db)
  BY <1>1, Onward DEF UserRoutesLead, GroupRoutesLead, Inv, Fitting
<1> QED BY <1>1, <1>2, CommitKeeps, Endings

-----------------------------------------------------------------------------
(* Users and groups. *)

\* What a request in flight holds, by its kind.
LEMMA RequestFacts ==
  ASSUME Inv, NEW r \in Requests
  PROVE  /\ req[r].op = "user" => req[r].owner \in Users /\ req[r].old \in UserRow /\ req[r].new \in UserRow
         /\ req[r].op = "group" => req[r].owner \in Groups /\ req[r].old \in GroupRow /\ req[r].new \in GroupRow
         /\ req[r].op = "userRoute" =>
              req[r].owner \in Users /\ req[r].key \in Keys /\ req[r].room \in Rooms \cap had[req[r].owner]
         /\ req[r].op = "groupRoute" =>
              req[r].owner \in Groups /\ req[r].key \in Keys /\ req[r].room \in Rooms \cap had[req[r].owner]
         /\ req[r].op = "statusRoute" => req[r].room \in Rooms
<1>1. req[r] \in {Idle} \cup SaveType \cup RouteType /\ Leads(req[r], had) BY DEF Inv, TypeOK
<1> QED BY <1>1 DEF Idle, SaveType, RouteType, Leads

\* A row of a user is replaced by another one, whose group lives.
LEMMA UserWritten ==
  ASSUME Inv, NEW r \in Requests, Ends(r) \/ AtOnce(r), NEW u \in Users, NEW row \in UserRow,
         Commits([db EXCEPT !.user[u] = row]),
         row.group # None => Live(db.group[row.group])
  PROVE  Inv'
<1> DEFINE t == [db EXCEPT !.user[u] = row]
<1>1. db \in TableType BY DEF Inv, TypeOK
<1>2. /\ t = [db EXCEPT !.user = [db.user EXCEPT ![u] = row]]
      /\ [db.user EXCEPT ![u] = row] \in [Users -> UserRows]
  BY <1>1, TableFacts DEF UserRows
<1>3. t \in TableType BY <1>1, <1>2, Written
<1>4. /\ t.user = [db.user EXCEPT ![u] = row] /\ t.group = db.group
      /\ t.userRoute = db.userRoute /\ t.groupRoute = db.groupRoute
  BY <1>1 DEF TableType
<1>5. \A v \in Users : t.user[v] = IF v = u THEN row ELSE db.user[v]
  BY <1>1, <1>4, TableFacts
<1>6. \A v \in Users : Live(db.user[v]) => Live(t.user[v])
  BY <1>5, DirectoryAssumption DEF Live
<1>7. MembersLive(t) BY <1>4, <1>5, <1>6 DEF MembersLive, Inv, Fitting
<1>8. UserRoutesLead(t, had') /\ GroupRoutesLead(t, had')
  BY <1>3, <1>4, <1>6, Onward DEF UserRoutesLead, GroupRoutesLead
<1> HIDE DEF t
<1>9. Commits(t) BY DEF t
<1> QED BY <1>3, <1>7, <1>8, <1>9, CommitKeeps, Endings

LEMMA GroupWritten ==
  ASSUME Inv, NEW r \in Requests, Ends(r) \/ AtOnce(r), NEW g \in Groups, NEW row \in GroupRow,
         Commits([db EXCEPT !.group[g] = row])
  PROVE  Inv'
<1> DEFINE t == [db EXCEPT !.group[g] = row]
<1>1. db \in TableType BY DEF Inv, TypeOK
<1>2. /\ t = [db EXCEPT !.group = [db.group EXCEPT ![g] = row]]
      /\ [db.group EXCEPT ![g] = row] \in [Groups -> GroupRows]
  BY <1>1, TableFacts DEF GroupRows
<1>3. t \in TableType BY <1>1, <1>2, Written
<1>4. /\ t.group = [db.group EXCEPT ![g] = row] /\ t.user = db.user
      /\ t.userRoute = db.userRoute /\ t.groupRoute = db.groupRoute
  BY <1>1 DEF TableType
<1>5. \A h \in Groups : t.group[h] = IF h = g THEN row ELSE db.group[h]
  BY <1>1, <1>4, TableFacts
<1>6. \A h \in Groups : Live(db.group[h]) => Live(t.group[h])
  BY <1>5, DirectoryAssumption DEF Live
<1>7. \A u \in Users : Live(db.user[u]) /\ db.user[u].group # None => db.user[u].group \in Groups
  BY <1>1, TableFacts DEF UserRow
<1>8. MembersLive(t) BY <1>4, <1>6, <1>7 DEF MembersLive, Inv, Fitting
<1>9. UserRoutesLead(t, had') /\ GroupRoutesLead(t, had')
  BY <1>3, <1>4, <1>6, Onward DEF UserRoutesLead, GroupRoutesLead
<1> HIDE DEF t
<1>10. Commits(t) BY DEF t
<1> QED BY <1>3, <1>8, <1>9, <1>10, CommitKeeps, Endings

LEMMA SavesKeep ==
  ASSUME Inv, NEW r \in Requests, SaveUser(r) \/ SaveGroup(r)
  PROVE  Inv'
<1>1. db \in TableType BY DEF Inv, TypeOK
<1>2. CASE SaveUser(r)
  <2> DEFINE u == req[r].owner  old == req[r].old  new == req[r].new
             row == Merged(db.user[u], old, new)
  <2>1. u \in Users /\ old \in UserRow /\ new \in UserRow BY <1>2, RequestFacts DEF SaveUser
  <2>2. CASE Live(db.user[u]) /\ ~Refused(new, old)
    <3>1. db.user[u] \in UserRow BY <1>1, <2>1, <2>2, TableFacts
    <3>2. row \in UserRow /\ row.group = IF new.group # old.group THEN new.group ELSE db.user[u].group
      BY <2>1, <3>1, MergedRows
    <3>3. row.group # None => Live(db.group[row.group])
      BY <2>1, <2>2, <3>2 DEF Refused, Inv, Fitting, MembersLive
    <3>4. Commits([db EXCEPT !.user[u] = row]) /\ Ends(r) BY <1>2, <2>2 DEF SaveUser
    <3> QED BY <2>1, <3>2, <3>3, <3>4, UserWritten
  <2>3. CASE ~(Live(db.user[u]) /\ ~Refused(new, old))
    BY <1>2, <2>3, NothingWritten DEF SaveUser
  <2> QED BY <2>2, <2>3
<1>3. CASE SaveGroup(r)
  <2> DEFINE g == req[r].owner  row == Merged(db.group[g], req[r].old, req[r].new)
  <2>1. g \in Groups /\ req[r].old \in GroupRow /\ req[r].new \in GroupRow
    BY <1>3, RequestFacts DEF SaveGroup
  <2>2. CASE Live(db.group[g])
    <3>1. row \in GroupRow BY <1>1, <2>1, <2>2, TableFacts, MergedRows
    <3>2. Commits([db EXCEPT !.group[g] = row]) /\ Ends(r) BY <1>3, <2>2 DEF SaveGroup
    <3> QED BY <2>1, <3>1, <3>2, GroupWritten
  <2>3. CASE ~Live(db.group[g]) BY <1>3, <2>3, NothingWritten DEF SaveGroup
  <2> QED BY <2>2, <2>3
<1> QED BY <1>2, <1>3

LEMMA AddsKeep ==
  ASSUME Inv, NEW r \in Requests, AddUser(r) \/ AddGroup(r)
  PROVE  Inv'
<1>1. CASE AddUser(r)
  <2>1. PICK u \in Users, form \in UserForms :
          Commits(IF form.group # None /\ ~Live(db.group[form.group]) THEN db
                  ELSE [db EXCEPT !.user[u] = form])
    BY <1>1 DEF AddUser
  <2>2. form \in UserRow BY DirectoryAssumption
  <2>3. AtOnce(r) BY <1>1 DEF AddUser
  <2>4. CASE form.group # None /\ ~Live(db.group[form.group]) BY <2>1, <2>3, <2>4, NothingWritten
  <2>5. CASE ~(form.group # None /\ ~Live(db.group[form.group]))
    BY <2>1, <2>2, <2>3, <2>5, UserWritten
  <2> QED BY <2>4, <2>5
<1>2. CASE AddGroup(r)
  <2>1. PICK g \in Groups, form \in GroupForms : Commits([db EXCEPT !.group[g] = form])
    BY <1>2 DEF AddGroup
  <2> QED BY <1>2, <2>1, GroupWritten, DirectoryAssumption DEF AddGroup
<1> QED BY <1>1, <1>2

LEMMA RemovalsKeep ==
  ASSUME Inv, NEW r \in Requests, RemoveUser(r) \/ RemoveGroup(r)
  PROVE  Inv'
<1>1. db \in TableType /\ MembersLive(db) BY DEF Inv, TypeOK, Fitting
<1>2. NoRoutes \in Routes /\ \A k \in Keys : NoRoutes[k] = None BY DEF NoRoutes, Routes
<1>3. ~Live(Gone) BY DEF Live
<1>4. CASE RemoveUser(r)
  <2>1. PICK u \in Users : Commits(DeletedUser(u)) BY <1>4 DEF RemoveUser
  <2> DEFINE t == DeletedUser(u)
             users == [db.user EXCEPT ![u] = Gone]
             routes == [db.userRoute EXCEPT ![u] = NoRoutes]
  <2>2. users \in [Users -> UserRows] /\ routes \in [Users -> Routes]
    BY <1>1, <1>2, TableFacts DEF UserRows
  <2>3. [db EXCEPT !.user = users] \in TableType BY <1>1, <2>2, Written
  <2>4. t \in TableType
    <3>1. t = [[db EXCEPT !.user = users] EXCEPT !.userRoute = routes]
      BY <1>1 DEF DeletedUser, TableType
    <3> QED BY <2>2, <2>3, <3>1, Written
  <2>5. /\ t.user = users /\ t.group = db.group
        /\ t.userRoute = routes /\ t.groupRoute = db.groupRoute
    BY <1>1 DEF TableType, DeletedUser
  <2>6. \A v \in Users : t.user[v] = (IF v = u THEN Gone ELSE db.user[v])
                         /\ t.userRoute[v] = (IF v = u THEN NoRoutes ELSE db.userRoute[v])
    BY <1>1, <2>5, TableFacts
  <2>7. MembersLive(t) BY <1>1, <1>3, <2>5, <2>6 DEF MembersLive
  <2>8. UserRoutesLead(t, had') /\ GroupRoutesLead(t, had')
    BY <1>2, <2>1, <2>4, <2>5, <2>6, Onward DEF UserRoutesLead, GroupRoutesLead
  <2> HIDE DEF t
  <2>9. Commits(t) BY <2>1 DEF t
  <2> QED BY <1>4, <2>4, <2>7, <2>8, <2>9, CommitKeeps, Endings DEF RemoveUser
<1>5. CASE RemoveGroup(r)
  <2>1. PICK g \in Groups : Commits(DeletedGroup(g)) BY <1>5 DEF RemoveGroup
  <2> DEFINE t == DeletedGroup(g)
             groups == [db.group EXCEPT ![g] = Gone]
             routes == [db.groupRoute EXCEPT ![g] = NoRoutes]
             left(v) == Live(db.user[v]) /\ db.user[v].group = g
             users == [v \in Users |-> IF left(v) THEN [db.user[v] EXCEPT !.group = None]
                                       ELSE db.user[v]]
  <2>2. ASSUME NEW v \in Users, left(v)
        PROVE  /\ [db.user[v] EXCEPT !.group = None] \in UserRow
               /\ [db.user[v] EXCEPT !.group = None].group = None
    <3>1. db.user[v] \in UserRow BY <1>1, <2>2, TableFacts
    <3> QED BY <3>1 DEF UserRow
  <2>3. users \in [Users -> UserRows] /\ groups \in [Groups -> GroupRows] /\ routes \in [Groups -> Routes]
    BY <1>1, <1>2, <2>2, TableFacts DEF UserRows, GroupRows
  <2>4. t = [[[db EXCEPT !.group = groups] EXCEPT !.groupRoute = routes] EXCEPT !.user = users]
    BY <1>1 DEF DeletedGroup, TableType
  <2>5. t \in TableType
    <3> HIDE DEF users, groups, routes, t
    <3>1. [db EXCEPT !.group = groups] \in TableType BY <1>1, <2>3, Written
    <3>2. [[db EXCEPT !.group = groups] EXCEPT !.groupRoute = routes] \in TableType
      BY <2>3, <3>1, Written
    <3> QED BY <2>3, <2>4, <3>2, Written
  <2>6. /\ t.user = users /\ t.group = groups
        /\ t.userRoute = db.userRoute /\ t.groupRoute = routes
    BY <1>1, <2>4 DEF TableType
  <2>7. \A h \in Groups : t.group[h] = (IF h = g THEN Gone ELSE db.group[h])
                          /\ t.groupRoute[h] = (IF h = g THEN NoRoutes ELSE db.groupRoute[h])
    BY <1>1, <2>6, TableFacts
  <2>8. ASSUME NEW v \in Users
        PROVE  /\ Live(db.user[v]) => Live(t.user[v])
               /\ Live(t.user[v]) /\ t.user[v].group # None => Live(t.group[t.user[v].group])
    <3>1. CASE left(v)
      <4>1. t.user[v] \in UserRow /\ t.user[v].group = None BY <2>2, <2>6, <3>1
      <4> QED BY <4>1, <2>5, TableFacts
    <3>2. CASE ~left(v)
      <4>1. t.user[v] = db.user[v] BY <2>6, <3>2
      <4>2. Live(db.user[v]) /\ db.user[v].group # None => db.user[v].group \in Groups \ {g}
        BY <1>1, <3>2, TableFacts DEF UserRow
      <4> QED BY <1>1, <4>1, <4>2, <2>7 DEF MembersLive
    <3> QED BY <3>1, <3>2
  <2>9. MembersLive(t) BY <2>8 DEF MembersLive
  <2>10. UserRoutesLead(t, had') /\ GroupRoutesLead(t, had')
    BY <1>2, <2>1, <2>5, <2>6, <2>7, <2>8, Onward DEF UserRoutesLead, GroupRoutesLead
  <2> HIDE DEF t
  <2>11. Commits(t) BY <2>1 DEF t
  <2> QED BY <1>5, <2>5, <2>9, <2>10, <2>11, CommitKeeps, Endings DEF RemoveGroup
<1> QED BY <1>4, <1>5

-----------------------------------------------------------------------------
(* Routes. *)

\* Reading what a form will write changes no table.
LEMMA FormsKeep ==
  ASSUME Inv, NEW r \in Requests,
         UserForm(r) \/ GroupForm(r) \/ UserRouteForm(r) \/ GroupRouteForm(r) \/ GroupStatusForm(r)
  PROVE  Inv'
<1>1. db \in TableType /\ Remembers(db, had) BY DEF Inv, TypeOK, Fitting
<1>2. CASE UserForm(r)
  <2>1. PICK u \in Users, form \in UserForms :
          /\ Live(db.user[u])
          /\ Begins(r, [op |-> "user", owner |-> u, old |-> db.user[u], new |-> form, gone |-> FALSE])
    BY <1>2 DEF UserForm
  <2> DEFINE q == [op |-> "user", owner |-> u, old |-> db.user[u], new |-> form, gone |-> FALSE]
  <2>2. q \in SaveType BY <1>1, <2>1, TableFacts, DirectoryAssumption DEF SaveType
  <2>3. Leads(q, had) BY DEF Leads
  <2> QED BY <2>1, <2>2, <2>3, BeginKeeps
<1>3. CASE GroupForm(r)
  <2>1. PICK g \in Groups, form \in GroupForms :
          /\ Live(db.group[g])
          /\ Begins(r, [op |-> "group", owner |-> g, old |-> db.group[g], new |-> form, gone |-> FALSE])
    BY <1>3 DEF GroupForm
  <2> DEFINE q == [op |-> "group", owner |-> g, old |-> db.group[g], new |-> form, gone |-> FALSE]
  <2>2. q \in SaveType BY <1>1, <2>1, TableFacts, DirectoryAssumption DEF SaveType
  <2>3. Leads(q, had) BY DEF Leads
  <2> QED BY <2>1, <2>2, <2>3, BeginKeeps
<1>4. CASE UserRouteForm(r)
  <2>1. PICK u \in Users, k \in Keys :
          /\ Live(db.user[u])
          /\ Begins(r, [op |-> "userRoute", owner |-> u, key |-> k, room |-> db.user[u].room])
    BY <1>4 DEF UserRouteForm
  <2> DEFINE q == [op |-> "userRoute", owner |-> u, key |-> k, room |-> db.user[u].room]
  <2>2. db.user[u].room \in Rooms BY <1>1, <2>1, TableFacts DEF UserRow
  <2>3. q \in RouteType BY <2>2 DEF RouteType
  <2>4. db.user[u].room \in RoomsOf(db, u) BY <2>1, <2>2, NoticeRulesAssumption DEF RoomsOf
  <2>5. Leads(q, had) BY <1>1, <2>4 DEF Leads, Remembers
  <2> QED BY <2>1, <2>3, <2>5, BeginKeeps
<1>5. CASE GroupRouteForm(r)
  <2>1. PICK g \in Groups, k \in Keys :
          /\ Live(db.group[g]) /\ db.group[g].room # None
          /\ Begins(r, [op |-> "groupRoute", owner |-> g, key |-> k, room |-> db.group[g].room])
    BY <1>5 DEF GroupRouteForm
  <2> DEFINE q == [op |-> "groupRoute", owner |-> g, key |-> k, room |-> db.group[g].room]
  <2>2. db.group[g].room \in Rooms BY <1>1, <2>1, TableFacts DEF GroupRow
  <2>3. q \in RouteType BY <2>2 DEF RouteType
  <2>4. db.group[g].room \in RoomsOf(db, g) BY <2>1, <2>2, NoticeRulesAssumption DEF RoomsOf
  <2>5. Leads(q, had) BY <1>1, <2>4 DEF Leads, Remembers
  <2> QED BY <2>1, <2>3, <2>5, BeginKeeps
<1>6. CASE GroupStatusForm(r)
  <2>1. PICK g \in Groups :
          /\ Live(db.group[g]) /\ db.group[g].room # None
          /\ Begins(r, [op |-> "statusRoute", owner |-> g, room |-> db.group[g].room])
    BY <1>6 DEF GroupStatusForm
  <2> DEFINE q == [op |-> "statusRoute", owner |-> g, room |-> db.group[g].room]
  <2>2. db.group[g].room \in Rooms BY <1>1, <2>1, TableFacts DEF GroupRow
  <2>3. q \in RouteType /\ Leads(q, had) BY <2>2 DEF RouteType, Leads
  <2> QED BY <2>1, <2>3, BeginKeeps
<1> QED BY <1>2, <1>3, <1>4, <1>5, <1>6

\* One route of a user is written: to a room he had, or none.
LEMMA UserRouteWritten ==
  ASSUME Inv, NEW r \in Requests, Ends(r) \/ AtOnce(r), NEW u \in Users, NEW k \in Keys,
         NEW room \in Rooms \cup {None}, Commits([db EXCEPT !.userRoute[u][k] = room]),
         room # None => Live(db.user[u]) /\ room \in had[u]
  PROVE  Inv'
<1> DEFINE t == [db EXCEPT !.userRoute[u][k] = room]
           routes == [db.userRoute EXCEPT ![u][k] = room]
<1>1. db \in TableType /\ MembersLive(db) BY DEF Inv, TypeOK, Fitting
<1>2. t = [db EXCEPT !.userRoute = routes] /\ routes \in [Users -> Routes]
  BY <1>1, TableFacts DEF Routes
<1>3. t \in TableType BY <1>1, <1>2, Written
<1>4. t.user = db.user /\ t.group = db.group /\ t.userRoute = routes /\ t.groupRoute = db.groupRoute
  BY <1>1 DEF TableType
<1>5. \A v \in Users, l \in Keys :
        t.userRoute[v][l] = IF v = u /\ l = k THEN room ELSE db.userRoute[v][l]
  BY <1>1, <1>4, TableFacts DEF Routes
<1>6. MembersLive(t) BY <1>1, <1>4 DEF MembersLive
<1>7. UserRoutesLead(t, had') /\ GroupRoutesLead(t, had')
  BY <1>3, <1>4, <1>5, Onward DEF UserRoutesLead, GroupRoutesLead
<1> HIDE DEF t
<1>8. Commits(t) BY DEF t
<1> QED BY <1>3, <1>6, <1>7, <1>8, CommitKeeps, Endings

\* One route of a group is written: to a room it had, or none.
LEMMA GroupRouteWritten ==
  ASSUME Inv, NEW r \in Requests, Ends(r) \/ AtOnce(r), NEW g \in Groups, NEW k \in Keys,
         NEW room \in Rooms \cup {None}, Commits([db EXCEPT !.groupRoute[g][k] = room]),
         room # None => Live(db.group[g]) /\ room \in had[g]
  PROVE  Inv'
<1> DEFINE t == [db EXCEPT !.groupRoute[g][k] = room]
           routes == [db.groupRoute EXCEPT ![g][k] = room]
<1>1. db \in TableType /\ MembersLive(db) BY DEF Inv, TypeOK, Fitting
<1>2. t = [db EXCEPT !.groupRoute = routes] /\ routes \in [Groups -> Routes]
  BY <1>1, TableFacts DEF Routes
<1>3. t \in TableType BY <1>1, <1>2, Written
<1>4. t.user = db.user /\ t.group = db.group /\ t.groupRoute = routes /\ t.userRoute = db.userRoute
  BY <1>1 DEF TableType
<1>5. \A h \in Groups, l \in Keys :
        t.groupRoute[h][l] = IF h = g /\ l = k THEN room ELSE db.groupRoute[h][l]
  BY <1>1, <1>4, TableFacts DEF Routes
<1>6. MembersLive(t) BY <1>1, <1>4 DEF MembersLive
<1>7. UserRoutesLead(t, had') /\ GroupRoutesLead(t, had')
  BY <1>3, <1>4, <1>5, Onward DEF UserRoutesLead, GroupRoutesLead
<1> HIDE DEF t
<1>8. Commits(t) BY DEF t
<1> QED BY <1>3, <1>6, <1>7, <1>8, CommitKeeps, Endings

\* Tables that differ in the routes for everybody only.
Common(t, s) ==
  /\ s \in TableType /\ s.user = t.user /\ s.group = t.group
  /\ s.userRoute = t.userRoute /\ s.groupRoute = t.groupRoute

\* A route for everybody is written: no card has to do with it.
LEMMA CommonRouteWritten ==
  ASSUME Inv, NEW r \in Requests, Ends(r) \/ AtOnce(r), NEW t, Common(db, t), Commits(t)
  PROVE  Inv'
<1>1. t \in TableType BY DEF Common
<1>2. MembersLive(t) BY DEF MembersLive, Inv, Fitting, Common
<1>3. UserRoutesLead(t, had') /\ GroupRoutesLead(t, had')
  BY <1>1, Onward DEF UserRoutesLead, GroupRoutesLead, Common
<1> QED BY <1>1, <1>2, <1>3, CommitKeeps, Endings

LEMMA CommonTables ==
  ASSUME NEW t \in TableType, NEW room \in Rooms \cup {None}
  PROVE  /\ Common(t, [t EXCEPT !.statusRoute = room])
         /\ \A k \in Keys : Common(t, [t EXCEPT !.versionRoute[k] = room])
<1>1. ASSUME NEW k \in Keys
      PROVE  Common(t, [t EXCEPT !.versionRoute[k] = room])
  <2> DEFINE routes == [t.versionRoute EXCEPT ![k] = room]
  <2>1. routes \in Routes BY TableFacts DEF Routes
  <2>2. [t EXCEPT !.versionRoute[k] = room] = [t EXCEPT !.versionRoute = routes] BY DEF TableType
  <2> HIDE DEF routes
  <2>3. [t EXCEPT !.versionRoute = routes] \in TableType BY <2>1, Written
  <2> QED BY <2>2, <2>3 DEF Common, TableType
<1>2. [t EXCEPT !.statusRoute = room] \in TableType BY Written
<1> QED BY <1>1, <1>2 DEF Common, TableType

LEMMA RouteSavesKeep ==
  ASSUME Inv, NEW r \in Requests,
         SaveUserRoute(r) \/ SaveGroupRoute(r) \/ SaveStatusRoute(r)
  PROVE  Inv'
<1>1. db \in TableType BY DEF Inv, TypeOK
<1> DEFINE q == req[r]
<1>2. CASE SaveUserRoute(r)
  <2>1. q.owner \in Users /\ q.key \in Keys /\ q.room \in Rooms \cap had[q.owner]
    BY <1>2, RequestFacts DEF SaveUserRoute
  <2>2. CASE Live(db.user[q.owner]) /\ db.userRoute[q.owner][q.key] = None
    <3>1. Commits([db EXCEPT !.userRoute[q.owner][q.key] = q.room]) /\ Ends(r)
      BY <1>2, <2>2 DEF SaveUserRoute
    <3> QED BY <2>1, <2>2, <3>1, UserRouteWritten
  <2>3. CASE ~(Live(db.user[q.owner]) /\ db.userRoute[q.owner][q.key] = None)
    BY <1>2, <2>3, NothingWritten DEF SaveUserRoute
  <2> QED BY <2>2, <2>3
<1>3. CASE SaveGroupRoute(r)
  <2>1. q.owner \in Groups /\ q.key \in Keys /\ q.room \in Rooms \cap had[q.owner]
    BY <1>3, RequestFacts DEF SaveGroupRoute
  <2>2. CASE Live(db.group[q.owner]) /\ db.groupRoute[q.owner][q.key] = None
    <3>1. Commits([db EXCEPT !.groupRoute[q.owner][q.key] = q.room]) /\ Ends(r)
      BY <1>3, <2>2 DEF SaveGroupRoute
    <3> QED BY <2>1, <2>2, <3>1, GroupRouteWritten
  <2>3. CASE ~(Live(db.group[q.owner]) /\ db.groupRoute[q.owner][q.key] = None)
    BY <1>3, <2>3, NothingWritten DEF SaveGroupRoute
  <2> QED BY <2>2, <2>3
<1>4. CASE SaveStatusRoute(r)
  <2>1. q.room \in Rooms BY <1>4, RequestFacts DEF SaveStatusRoute
  <2>2. CASE db.statusRoute = None
    <3> DEFINE t == [db EXCEPT !.statusRoute = q.room]
    <3>1. Common(db, t) BY <1>1, <2>1, CommonTables
    <3>2. Commits(t) /\ Ends(r) BY <1>4, <2>2 DEF SaveStatusRoute
    <3> HIDE DEF t
    <3> QED BY <3>1, <3>2, CommonRouteWritten
  <2>3. CASE db.statusRoute # None BY <1>4, <2>3, NothingWritten DEF SaveStatusRoute
  <2> QED BY <2>2, <2>3
<1> QED BY <1>2, <1>3, <1>4

LEMMA CommonRoutesKeep ==
  ASSUME Inv, NEW r \in Requests,
         AddVersionRoute(r) \/ AddStatusRoute(r) \/ DropVersionRoute(r) \/ DropStatusRoute(r)
  PROVE  Inv'
<1>1. db \in TableType BY DEF Inv, TypeOK
<1>2. AtOnce(r) BY DEF AddVersionRoute, AddStatusRoute, DropVersionRoute, DropStatusRoute
<1>3. ASSUME NEW t, Common(db, t), Commits(t) PROVE Inv'
  BY <1>2, <1>3, CommonRouteWritten
<1>4. ASSUME NEW room \in Rooms \cup {None}, Commits([db EXCEPT !.statusRoute = room]) PROVE Inv'
  BY <1>1, <1>3, <1>4, CommonTables
<1>5. ASSUME NEW k \in Keys, NEW room \in Rooms \cup {None},
             Commits([db EXCEPT !.versionRoute[k] = room])
      PROVE  Inv'
  BY <1>1, <1>3, <1>5, CommonTables
<1>6. CASE AddVersionRoute(r) BY <1>5, <1>6 DEF AddVersionRoute
<1>7. CASE AddStatusRoute(r) BY <1>4, <1>7 DEF AddStatusRoute
<1>8. CASE DropVersionRoute(r) BY <1>5, <1>8 DEF DropVersionRoute
<1>9. CASE DropStatusRoute(r) BY <1>4, <1>9 DEF DropStatusRoute
<1> QED BY <1>6, <1>7, <1>8, <1>9

LEMMA DropsKeep ==
  ASSUME Inv, NEW r \in Requests, DropUserRoute(r) \/ DropGroupRoute(r)
  PROVE  Inv'
<1>1. CASE DropUserRoute(r)
  <2>1. PICK u \in Users, k \in Keys : Commits([db EXCEPT !.userRoute[u][k] = None])
    BY <1>1 DEF DropUserRoute
  <2> QED BY <1>1, <2>1, UserRouteWritten DEF DropUserRoute
<1>2. CASE DropGroupRoute(r)
  <2>1. PICK g \in Groups, k \in Keys : Commits([db EXCEPT !.groupRoute[g][k] = None])
    BY <1>2 DEF DropGroupRoute
  <2> QED BY <1>2, <2>1, GroupRouteWritten DEF DropGroupRoute
<1> QED BY <1>1, <1>2

-----------------------------------------------------------------------------
(* The bot, and the whole. *)

LEMMA NothingRead == Nothing \in TableType
<1>1. NoRoutes \in Routes BY DEF NoRoutes, Routes
<1> QED BY <1>1 DEF Nothing, TableType

LEMMA BotKeeps ==
  ASSUME Inv, Restart \/ Load
  PROVE  Inv'
<1>1. UNCHANGED <<db, req, had>> BY DEF Restart, Load
<1>2. requests' \in 0..MaxRequests /\ starts' \in 0..MaxStarts /\ fresh' \in BOOLEAN
  <2>1. CASE Restart BY <2>1, DirectoryAssumption DEF Inv, TypeOK, Restart
  <2>2. CASE Load
    <3>1. fresh' \in BOOLEAN BY <2>2, Zenon DEF Load, Inv, TypeOK
    <3> QED BY <2>2, <3>1 DEF Inv, TypeOK, Load, counters
  <2> QED BY <2>1, <2>2
<1>3. bot' \in [read : 0..Len(Tables), rows : TableType]
  <2>1. Len(Tables) = 6 BY DEF Tables
  <2>2. CASE Restart BY <2>1, <2>2, NothingRead DEF Restart
  <2>3. CASE Load
    <3> DEFINE name == Tables[bot.read + 1]  rows == [bot.rows EXCEPT ![name] = db[name]]
    <3>1. bot.read \in 0..5 /\ bot.rows \in TableType /\ db \in TableType
      BY <2>1, <2>3 DEF Load, Loaded, Inv, TypeOK
    <3>2. name \in {"group", "groupRoute", "userRoute", "user", "statusRoute", "versionRoute"}
      BY <3>1 DEF Tables
    <3>3. rows \in TableType
      <4> HIDE DEF name
      <4> QED BY <3>1, <3>2 DEF TableType
    <3>4. bot' = [read |-> bot.read + 1, rows |-> rows] BY <2>3 DEF Load
    <3> QED BY <2>1, <3>1, <3>3, <3>4
  <2> QED BY <2>2, <2>3
<1>4. TypeOK' BY <1>1, <1>2, <1>3 DEF Inv, TypeOK
<1> QED BY <1>1, <1>4 DEF Inv

LEMMA InvInit == Init => Inv
<1> SUFFICES ASSUME Init PROVE Inv OBVIOUS
<1>1. db \in TableType /\ MembersLive(db) BY DirectoryAssumption DEF Init, MembersLive
<1>2. had = [o \in Users \cup Groups |-> RoomsOf(db, o)] BY DEF Init
<1>3. \A o \in Users : Live(db.user[o]) => db.user[o].room \in Rooms /\ RoomsOf(db, o) = {db.user[o].room}
  <2>1. ASSUME NEW o \in Users, Live(db.user[o]) PROVE db.user[o].room \in Rooms
    BY <1>1, <2>1, TableFacts DEF UserRow
  <2> QED BY <2>1, NoticeRulesAssumption DEF RoomsOf
<1>4. \A o \in Groups : Live(db.group[o]) =>
        /\ db.group[o].room \in Rooms \cup {None}
        /\ RoomsOf(db, o) = {db.group[o].room} \ {None}
  <2>1. ASSUME NEW o \in Groups, Live(db.group[o]) PROVE db.group[o].room \in Rooms \cup {None}
    BY <1>1, <2>1, TableFacts DEF GroupRow
  <2> QED BY <2>1, NoticeRulesAssumption DEF RoomsOf
<1>5. had \in [Users \cup Groups -> SUBSET Rooms]
  BY <1>2, <1>3, <1>4, NoticeRulesAssumption DEF RoomsOf
<1>6. TypeOK
  BY <1>1, <1>5, NothingRead, DirectoryAssumption DEF Init, TypeOK, MembersLive, Tables
<1>7. Remembers(db, had) BY <1>2 DEF Remembers
<1>8. UserRoutesLead(db, had) BY <1>2, <1>3, DirectoryAssumption DEF Init, UserRoutesLead
<1>9. GroupRoutesLead(db, had) BY <1>2, <1>4, DirectoryAssumption DEF Init, GroupRoutesLead
<1>10. \A r \in Requests : Leads(req[r], had) BY DEF Init, Leads, Idle
<1> QED BY <1>1, <1>6, <1>7, <1>8, <1>9, <1>10 DEF Inv, Fitting

LEMMA InvStep == Inv /\ [Next]_vars => Inv'
<1> SUFFICES ASSUME Inv, [Next]_vars PROVE Inv' OBVIOUS
<1>1. CASE UNCHANGED vars
  BY <1>1 DEF vars, Inv, TypeOK, Fitting, MembersLive, UserRoutesLead, GroupRoutesLead, Remembers,
              RoomsOf, Leads
<1>2. CASE Next
  BY <1>2, FormsKeep, SavesKeep, AddsKeep, RemovalsKeep, RouteSavesKeep, CommonRoutesKeep,
     DropsKeep, BotKeeps DEF Next
<1> QED BY <1>1, <1>2

\* Tables, requests and the bot keep their types, and no user is in a group that is gone.
THEOREM TypeCorrect == Spec => []TypeOK
<1>1. Inv => TypeOK BY DEF Inv
<1> QED BY <1>1, InvInit, InvStep, PTL DEF Spec

\* A route of a card leads to a room its owner has or had, however requests interleave.
THEOREM Home == Spec => []RoutesLeadHome
<1>1. Inv => RoutesLeadHome
  BY DEF Inv, Fitting, UserRoutesLead, GroupRoutesLead, RoutesLeadHome
<1> QED BY <1>1, InvInit, InvStep, PTL DEF Spec

-----------------------------------------------------------------------------
(* What the bot makes of the rows, and what the rows promise. *)

\* The rooms to which the routes of a table carry a version.
LEMMA RoutesCarry ==
  ASSUME NEW routes \in Routes, NEW version, NEW room
  PROVE  (\E rt \in SetRoutes(routes) : <<rt[1], version>> \in Contains /\ rt[2] = room)
           <=> room \in Rooms /\ Carries(routes, room, version)
<1>1. \A k \in Keys : routes[k] \in Rooms \cup {None} BY DEF Routes
<1>2. None \notin Rooms BY NoticeRulesAssumption
<1>3. ASSUME NEW rt \in SetRoutes(routes), <<rt[1], version>> \in Contains, rt[2] = room
      PROVE  room \in Rooms /\ Carries(routes, room, version)
  <2>1. PICK k \in Keys : routes[k] # None /\ rt = <<k, routes[k]>> BY DEF SetRoutes
  <2> QED BY <1>1, <1>3, <2>1 DEF Carries
<1>4. ASSUME room \in Rooms, Carries(routes, room, version)
      PROVE  \E rt \in SetRoutes(routes) : <<rt[1], version>> \in Contains /\ rt[2] = room
  <2>1. PICK k \in Keys : routes[k] = room /\ <<k, version>> \in Contains BY <1>4 DEF Carries
  <2>2. <<k, routes[k]>> \in SetRoutes(routes) BY <1>2, <1>4, <2>1 DEF SetRoutes
  <2> QED BY <2>1, <2>2
<1> QED BY <1>3, <1>4

\* The record that user_orm_to_cfg makes of a row.
LEMMA CfgFacts ==
  ASSUME NEW t \in TableType, MembersLive(t), NEW u \in Users, Live(t.user[u])
  PROVE  /\ t.user[u] \in UserRow
         /\ Grouped(t, u) => t.user[u].group \in Groups /\ GroupOf(t, u) \in GroupRow
         /\ UserCfg(t, u).group = t.user[u].group /\ UserCfg(t, u).room = t.user[u].room
         /\ UserCfg(t, u).notify = t.user[u].notify /\ UserCfg(t, u).hours = t.user[u].hours
         /\ UserCfg(t, u).dnd = t.user[u].dnd
         /\ UserCfg(t, u).delivery = IF Grouped(t, u) THEN GroupOf(t, u) ELSE None
         /\ UserCfg(t, u).routes = SetRoutes(t.userRoute[u])
              \cup (IF Grouped(t, u) THEN SetRoutes(t.groupRoute[t.user[u].group]) ELSE {})
<1>1. t.user[u] \in UserRow BY TableFacts
<1>2. Grouped(t, u) => Live(GroupOf(t, u)) BY DEF Grouped, GroupOf, MembersLive
<1>3. Grouped(t, u) => t.user[u].group \in Groups BY <1>1 DEF Grouped, UserRow
<1>4. Grouped(t, u) => GroupOf(t, u) \in GroupRow BY <1>2, <1>3, TableFacts DEF GroupOf
<1> QED BY <1>1, <1>2, <1>3, <1>4 DEF UserCfg, Grouped, GroupOf

\* The room of his group is the one in which its settings hold.
LEMMA GroupRooms ==
  ASSUME NEW t \in TableType, MembersLive(t), NEW u \in Users, Live(t.user[u])
  PROVE  /\ GroupRoom(UserCfg(t, u)) = IF Grouped(t, u) THEN GroupOf(t, u).room ELSE None
         /\ GroupRoom(UserCfg(t, u)) \in Rooms \cup {None}
<1>1. Grouped(t, u) => GroupOf(t, u) \in GroupRow /\ GroupOf(t, u) # None
  BY CfgFacts, DirectoryAssumption
<1> QED BY <1>1, CfgFacts DEF GroupRoom, GroupRow

\* The rooms of his group's members.
LEMMA RoomsOfMembers ==
  ASSUME NEW t \in TableType, MembersLive(t), NEW u \in Users, Live(t.user[u]), NEW room
  PROVE  room \in MemberRooms(UserCfg(t, u), Cfgs(t)) <=>
           Grouped(t, u) /\ \E v \in Users : Live(t.user[v]) /\ t.user[v].group = t.user[u].group
                                               /\ t.user[v].room = room
<1> DEFINE c == UserCfg(t, u)
<1>1. c.group = t.user[u].group BY CfgFacts
<1>2. \A v \in Users : Live(t.user[v]) =>
        UserCfg(t, v).group = t.user[v].group /\ UserCfg(t, v).room = t.user[v].room
  BY CfgFacts
<1> HIDE DEF c
<1>3. room \in MemberRooms(c, Cfgs(t)) <=>
        c.group # None /\ \E d \in Cfgs(t) : d.group = c.group /\ d.room = room
  BY DEF MemberRooms
<1>4. (\E d \in Cfgs(t) : d.group = c.group /\ d.room = room) <=>
        \E v \in Users : Live(t.user[v]) /\ UserCfg(t, v).group = c.group /\ UserCfg(t, v).room = room
  BY DEF Cfgs
<1> QED BY <1>1, <1>2, <1>3, <1>4 DEF Grouped, c

\* The rooms of the routes of versions.
LEMMA RoomsOfVersions ==
  ASSUME NEW t \in TableType, MembersLive(t), NEW u \in Users, Live(t.user[u]),
         NEW version \in Names \cup {None}, NEW room
  PROVE  room \in VersionRooms(UserCfg(t, u), t.versionRoute, version) <=>
           /\ room \in Rooms
           /\ \/ version = None /\ t.versionRoute[Fallback] = room
              \/ version # None /\ \/ Carries(t.userRoute[u], room, version)
                                   \/ Grouped(t, u) /\ Carries(t.groupRoute[t.user[u].group], room, version)
                                   \/ Carries(t.versionRoute, room, version)
<1> DEFINE c == UserCfg(t, u)
<1>1. /\ t.userRoute[u] \in Routes /\ t.versionRoute \in Routes
      /\ Grouped(t, u) => t.groupRoute[t.user[u].group] \in Routes
  BY TableFacts, CfgFacts
<1>2. c.routes = SetRoutes(t.userRoute[u])
              \cup (IF Grouped(t, u) THEN SetRoutes(t.groupRoute[t.user[u].group]) ELSE {})
  BY CfgFacts
<1>3. None \notin Rooms /\ Fallback \in Keys BY NoticeRulesAssumption
<1>4. \A k \in Keys : t.versionRoute[k] \in Rooms \cup {None} BY <1>1 DEF Routes
<1> HIDE DEF c
<1>5. CASE version = None
  BY <1>3, <1>4, <1>5 DEF VersionRooms, c
<1>6. CASE version # None
  <2>1. room \in VersionRooms(c, t.versionRoute, version) <=>
          /\ room # None
          /\ \/ \E rt \in c.routes : <<rt[1], version>> \in Contains /\ rt[2] = room
             \/ \E k \in Keys : <<k, version>> \in Contains /\ t.versionRoute[k] = room
    BY <1>6 DEF VersionRooms
  <2>2. (\E rt \in c.routes : <<rt[1], version>> \in Contains /\ rt[2] = room) <=>
          \/ \E rt \in SetRoutes(t.userRoute[u]) : <<rt[1], version>> \in Contains /\ rt[2] = room
          \/ Grouped(t, u) /\ \E rt \in SetRoutes(t.groupRoute[t.user[u].group]) :
                                <<rt[1], version>> \in Contains /\ rt[2] = room
    BY <1>2
  <2>3. (\E k \in Keys : <<k, version>> \in Contains /\ t.versionRoute[k] = room)
          <=> Carries(t.versionRoute, room, version)
    BY DEF Carries
  <2>4. Carries(t.versionRoute, room, version) => room \in Rooms \cup {None}
    BY <1>4 DEF Carries
  <2>5. (\E rt \in SetRoutes(t.userRoute[u]) : <<rt[1], version>> \in Contains /\ rt[2] = room)
          <=> room \in Rooms /\ Carries(t.userRoute[u], room, version)
    BY <1>1, RoutesCarry
  <2>6. Grouped(t, u) =>
          ((\E rt \in SetRoutes(t.groupRoute[t.user[u].group]) :
                <<rt[1], version>> \in Contains /\ rt[2] = room)
           <=> room \in Rooms /\ Carries(t.groupRoute[t.user[u].group], room, version))
    BY <1>1, RoutesCarry
  <2> HIDE DEF c
  <2> QED BY <1>3, <1>6, <2>1, <2>2, <2>3, <2>4, <2>5, <2>6 DEF c
<1> QED BY <1>5, <1>6

\* Whose settings hold in a room: _cfg_for_room takes just these.
LEMMA SettingsHold ==
  ASSUME NEW t \in TableType, MembersLive(t), NEW u \in Users, Live(t.user[u]), NEW room \in Rooms
  PROVE  /\ CfgForRoom(UserCfg(t, u), room).notify = Settings(t, u, room).notify
         /\ CfgForRoom(UserCfg(t, u), room).hours = Settings(t, u, room).hours
         /\ CfgForRoom(UserCfg(t, u), room).dnd = Settings(t, u, room).dnd
<1> DEFINE c == UserCfg(t, u)
<1>1. None \notin Rooms BY NoticeRulesAssumption
<1>2. DOMAIN c = {"id", "room", "notify", "hours", "dnd", "group", "delivery", "routes"}
  BY DEF UserCfg
<1>3. /\ c.notify = t.user[u].notify /\ c.hours = t.user[u].hours /\ c.dnd = t.user[u].dnd
      /\ c.delivery = IF Grouped(t, u) THEN GroupOf(t, u) ELSE None
      /\ GroupRoom(c) = IF Grouped(t, u) THEN GroupOf(t, u).room ELSE None
  BY CfgFacts, GroupRooms
<1>4. c = [d \in DOMAIN c |-> c[d]] BY DEF UserCfg
<1> HIDE DEF c
<1> QED BY <1>1, <1>2, <1>3, <1>4 DEF CfgForRoom, Settings, c

\* From tables that fit together, routing, settings of the group's room, hours and
\* do-not-disturb send a notice to each room as often as the rows promise it.
LEMMA NoticePromised ==
  ASSUME NEW t \in TableType, MembersLive(t), NEW u \in Users, NEW issue \in Issue, NEW m \in Moments
  PROVE  AsPromised(t, u, issue, m, Delivered(t, u, issue, m))
<1> DEFINE c == UserCfg(t, u)  row == t.user[u]  copies == Delivered(t, u, issue, m)
<1> SUFFICES ASSUME NEW room \in Rooms
             PROVE  IF Live(row) /\ Wants(row) /\ MayDisturb(Settings(t, u, room), issue, m)
                      THEN /\ Expects(t, u, issue, m, room) => copies[room] > 0
                           /\ copies[room] <= Once(\E v \in Users : OwnRoom(t, u, v, room))
                                                + Once(OfGroup(t, u, room)) + Once(Routed(t, u, issue, room))
                      ELSE copies[room] = 0
  BY DEF AsPromised
<1>1. copies[room] = IF Live(row) /\ CanNotify(CfgForRoom(c, room), issue.urgent, m)
                       THEN Announced(c, t, issue)[room] ELSE 0
  BY DEF Delivered
<1> HIDE DEF copies
<1>2. CASE ~Live(row) BY <1>1, <1>2
<1>3. CASE Live(row)
  <2>1. c.room = row.room /\ c.notify = row.notify BY <1>3, CfgFacts
  <2>2. /\ issue.version \in Names \cup {None} /\ t.statusRoute \in Rooms \cup {None}
        /\ None \notin Rooms
    BY TableFacts, NoticeRulesAssumption DEF Issue
  <2>3. \A set : ShouldNotify(set.notify, "new") <=> Wants(set) BY DEF ShouldNotify, Wants
  <2>4. room \in {c.room} \cup MemberRooms(c, Cfgs(t)) <=> \E v \in Users : OwnRoom(t, u, v, room)
    <3>1. room \in MemberRooms(c, Cfgs(t)) <=>
            Grouped(t, u) /\ \E v \in Users : Live(t.user[v]) /\ t.user[v].group = row.group
                                                /\ t.user[v].room = room
      BY <1>3, RoomsOfMembers
    <3>2. (\E v \in Users : OwnRoom(t, u, v, room)) <=>
            \/ row.room = room
            \/ Grouped(t, u) /\ \E v \in Users : Live(t.user[v]) /\ t.user[v].group = row.group
                                                   /\ t.user[v].room = room
      BY <1>3 DEF OwnRoom
    <3> HIDE DEF c
    <3> QED BY <2>1, <3>1, <3>2
  <2>5. room \in ExtraRooms(c, t, issue) <=> Routed(t, u, issue, room)
    <3>1. room \in ExtraRooms(c, t, issue) <=>
            \/ room \in VersionRooms(c, t.versionRoute, issue.version)
            \/ issue.status = "RV" /\ room = t.statusRoute /\ room # None
      BY DEF ExtraRooms
    <3>2. room \in VersionRooms(c, t.versionRoute, issue.version) <=>
                 /\ room \in Rooms
                 /\ \/ issue.version = None /\ t.versionRoute[Fallback] = room
                    \/ issue.version # None /\ \/ Carries(t.userRoute[u], room, issue.version)
                                               \/ Grouped(t, u) /\ Carries(t.groupRoute[row.group], room, issue.version)
                                               \/ Carries(t.versionRoute, room, issue.version)
      BY <1>3, <2>2, RoomsOfVersions
    <3> HIDE DEF c
    <3> QED BY <2>2, <3>1, <3>2 DEF Routed
  <2>6. (room = GroupRoom(c) /\ ShouldNotify(CfgForRoom(c, room).notify, "new")) <=> OfGroup(t, u, room)
    <3>1. GroupRoom(c) = IF Grouped(t, u) THEN GroupOf(t, u).room ELSE None BY <1>3, GroupRooms
    <3>2. CfgForRoom(c, room).notify = Settings(t, u, room).notify BY <1>3, SettingsHold
    <3>3. ShouldNotify(Settings(t, u, room).notify, "new") <=> Wants(Settings(t, u, room)) BY <2>3
    <3>4. Grouped(t, u) /\ GroupOf(t, u).room = room => Settings(t, u, room) = GroupOf(t, u) BY DEF Settings
    <3> HIDE DEF c
    <3> QED BY <2>2, <3>1, <3>2, <3>3, <3>4 DEF OfGroup
  <2>7. CanNotify(CfgForRoom(c, room), issue.urgent, m) <=> MayDisturb(Settings(t, u, room), issue, m)
    <3> DEFINE d == CfgForRoom(c, room)  s == Settings(t, u, room)
    <3>1. d.hours = s.hours /\ d.dnd = s.dnd BY <1>3, SettingsHold
    <3> HIDE DEF d, s
    <3>2. CanNotify(d, issue.urgent, m) <=> MayDisturb(s, issue, m) BY <3>1 DEF CanNotify, MayDisturb
    <3> QED BY <3>2 DEF d, s
  <2>8. ShouldNotify(c.notify, "new") <=> Wants(row) BY <2>1, <2>3
  <2>9. Announced(c, t, issue)[room] =
          IF Wants(row) THEN Once(\E v \in Users : OwnRoom(t, u, v, room))
                               + Once(OfGroup(t, u, room)) + Once(Routed(t, u, issue, room))
                        ELSE 0
    <3>1. Announced(c, t, issue)[room] =
            IF ShouldNotify(c.notify, "new")
              THEN Once(room \in {c.room} \cup MemberRooms(c, Cfgs(t)))
                     + Once(room = GroupRoom(c) /\ ShouldNotify(CfgForRoom(c, room).notify, "new"))
                     + Once(room \in ExtraRooms(c, t, issue))
              ELSE 0
      BY DEF Announced
    <3> HIDE DEF c
    <3>2. /\ Once(room \in {c.room} \cup MemberRooms(c, Cfgs(t))) = Once(\E v \in Users : OwnRoom(t, u, v, room))
          /\ Once(room = GroupRoom(c) /\ ShouldNotify(CfgForRoom(c, room).notify, "new"))
               = Once(OfGroup(t, u, room))
          /\ Once(room \in ExtraRooms(c, t, issue)) = Once(Routed(t, u, issue, room))
      BY <2>4, <2>5, <2>6 DEF Once
    <3> QED BY <2>8, <3>1, <3>2
  <2>10. \A b : Once(b) \in {0, 1} /\ (b => Once(b) = 1) BY DEF Once
  <2>11. Expects(t, u, issue, m, room) =>
           OfGroup(t, u, room) \/ Routed(t, u, issue, room) \/ \E v \in Users : OwnRoom(t, u, v, room)
    BY DEF Expects
  <2> DEFINE own == Once(\E v \in Users : OwnRoom(t, u, v, room))
             group == Once(OfGroup(t, u, room))  route == Once(Routed(t, u, issue, room))
  <2>12. own \in {0, 1} /\ group \in {0, 1} /\ route \in {0, 1} BY <2>10
  <2>13. Expects(t, u, issue, m, room) => own = 1 \/ group = 1 \/ route = 1 BY <2>10, <2>11
  <2>14. Announced(c, t, issue)[room] = IF Wants(row) THEN own + group + route ELSE 0 BY <2>9
  <2> HIDE DEF own, group, route, c, row
  <2>15. IF Live(row) /\ Wants(row) /\ MayDisturb(Settings(t, u, room), issue, m)
           THEN /\ Expects(t, u, issue, m, room) => copies[room] > 0
                /\ copies[room] <= own + group + route
           ELSE copies[room] = 0
    BY <1>1, <1>3, <2>7, <2>12, <2>13, <2>14
  <2> QED BY <2>15 DEF own, group, route, row
<1> QED BY <1>2, <1>3

-----------------------------------------------------------------------------
(* What the bot has loaded. *)

\* While nothing was committed since it began, what the bot has read is what there is.
ReadSoFar == fresh => \A n \in 1..bot.read : bot.rows[Tables[n]] = db[Tables[n]]

\* A commit that changes a table ends the time of one moment.
LEMMA CommitsStale ==
  ASSUME NEW t, Commits(t)
  PROVE  bot' = bot /\ (fresh' => fresh /\ db' = db)
<1>1. fresh' = (t = db /\ fresh) BY DEF Commits
<1>2. fresh' => fresh /\ t = db BY <1>1, Zenon
<1> QED BY <1>2 DEF Commits

\* A table is read as it is, and after a commit nothing is claimed.
LEMMA ReadStep ==
  ASSUME TypeOK, ReadSoFar, [Next]_vars
  PROVE  ReadSoFar'
<1>1. Len(Tables) = 6 BY DEF Tables
<1>2. CASE Restart BY <1>2 DEF Restart, ReadSoFar
<1>3. CASE Load
  <2> DEFINE name == Tables[bot.read + 1]
  <2>1. bot.read \in 0..5 /\ bot.rows \in TableType BY <1>1, <1>3 DEF Load, Loaded, TypeOK
  <2>2. bot' = [read |-> bot.read + 1, rows |-> [bot.rows EXCEPT ![name] = db[name]]] /\ db' = db
    BY <1>3 DEF Load
  <2>3. fresh' => bot.read = 0 \/ fresh BY <1>3, Zenon DEF Load
  <2>4. \A n \in 1..6 : Tables[n] \in DOMAIN bot.rows
    BY <2>1 DEF Tables, TableType
  <2>5. \A n \in 1..bot.read + 1 : n \in 1..6 /\ (n # bot.read + 1 => n \in 1..bot.read) BY <2>1
  <2>6. ASSUME fresh', NEW n \in 1..bot.read + 1 PROVE bot'.rows[Tables[n]] = db[Tables[n]]
    <3>1. Tables[n] \in DOMAIN bot.rows BY <2>4, <2>5
    <3>2. CASE n = bot.read + 1 BY <2>2, <3>1, <3>2
    <3>3. CASE n # bot.read + 1
      <4>1. n \in 1..bot.read /\ bot.read # 0 BY <2>1, <2>5, <3>3
      <4>2. bot.rows[Tables[n]] = db[Tables[n]] BY <2>3, <2>6, <4>1 DEF ReadSoFar
      <4>3. bot'.rows = [bot.rows EXCEPT ![name] = db[name]] BY <2>2
      <4> HIDE DEF name
      <4>4. bot'.rows[Tables[n]] = IF Tables[n] = name THEN db[name] ELSE bot.rows[Tables[n]]
        BY <3>1, <4>3
      <4> QED BY <4>2, <4>4
    <3> QED BY <3>2, <3>3
  <2>7. bot'.read = bot.read + 1 BY <2>2
  <2> QED BY <2>2, <2>6, <2>7 DEF ReadSoFar
<1>4. CASE \E r \in Requests :
         \/ UserForm(r) \/ GroupForm(r) \/ UserRouteForm(r) \/ GroupRouteForm(r) \/ GroupStatusForm(r)
  <2>1. UNCHANGED <<db, bot, fresh>>
    BY <1>4 DEF UserForm, GroupForm, UserRouteForm, GroupRouteForm, GroupStatusForm, Begins
  <2> QED BY <2>1 DEF ReadSoFar
<1>5. CASE \E t : Commits(t)
  BY <1>5, CommitsStale DEF ReadSoFar
<1>6. CASE UNCHANGED vars BY <1>6 DEF vars, ReadSoFar
<1>7. ASSUME NEW r \in Requests,
             \/ SaveUser(r) \/ SaveGroup(r) \/ AddUser(r) \/ AddGroup(r) \/ RemoveUser(r) \/ RemoveGroup(r)
             \/ SaveUserRoute(r) \/ SaveGroupRoute(r) \/ SaveStatusRoute(r)
             \/ AddVersionRoute(r) \/ AddStatusRoute(r) \/ DropUserRoute(r) \/ DropGroupRoute(r)
             \/ DropVersionRoute(r) \/ DropStatusRoute(r)
      PROVE  \E t : Commits(t)
  BY <1>7 DEF SaveUser, SaveGroup, AddUser, AddGroup, RemoveUser, RemoveGroup, SaveUserRoute,
       SaveGroupRoute, SaveStatusRoute, AddVersionRoute, AddStatusRoute, DropUserRoute,
       DropGroupRoute, DropVersionRoute, DropStatusRoute
<1> QED BY <1>2, <1>3, <1>4, <1>5, <1>6, <1>7 DEF Next

\* What the bot has loaded sends each announcement as the rows promise it, to all who are to
\* have it, past nobody whose settings hold, and to a room once for each part it plays, if
\* nothing was saved since it began to load: for any users, groups, routes, settings and
\* moments (load_config.py:75, processor.py:164-194, logic.py:197, preferences.py).
THEOREM Announcements == Spec => []AnnouncedAsPromised
<1>1. Init => ReadSoFar BY DEF Init, ReadSoFar
<1>2. Inv /\ ReadSoFar => AnnouncedAsPromised
  <2> SUFFICES ASSUME Inv, ReadSoFar, Loaded, fresh PROVE UpToDate
    BY DEF AnnouncedAsPromised
  <2>1. bot.rows \in TableType /\ db \in TableType /\ MembersLive(db) BY DEF Inv, TypeOK, Fitting
  <2>2. \A n \in 1..6 : bot.rows[Tables[n]] = db[Tables[n]]
    BY DEF ReadSoFar, Loaded, Tables
  <2>3. /\ bot.rows.group = db.group /\ bot.rows.groupRoute = db.groupRoute
        /\ bot.rows.userRoute = db.userRoute /\ bot.rows.user = db.user
        /\ bot.rows.statusRoute = db.statusRoute /\ bot.rows.versionRoute = db.versionRoute
    BY <2>2 DEF Tables
  <2>4. bot.rows = db BY <2>1, <2>3 DEF TableType
  <2> QED BY <2>1, <2>4, NoticePromised DEF UpToDate
<1>3. Inv => TypeOK BY DEF Inv
<1> QED BY <1>1, <1>2, <1>3, InvInit, InvStep, ReadStep, PTL DEF Spec
=============================================================================
