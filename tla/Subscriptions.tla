---------------------------- MODULE Subscriptions ----------------------------
(***************************************************************************)
(* The catalogs of the panel (statuses, versions, priorities) and the      *)
(* lists of statuses, "notify", that the rows of users and groups keep.    *)
(* Every request is a transaction of its own, READ COMMITTED, that awaits  *)
(* between its statements: a form reads the catalog, then its row, then    *)
(* commits; deleting a status reads the users' lists, then the groups',    *)
(* and rewrites those that name it; a synchronisation asks Redmine for one *)
(* catalog after the other and commits them together.                      *)
(* The lists of versions and priorities of a row go the way of "notify"    *)
(* but nothing reads them: they are left out, as are names and colours.    *)
(***************************************************************************)
EXTENDS Integers, FiniteSets, Sequences

CONSTANTS
  Keys,         \* ids of Redmine, as the strings the lists hold
  Kinds,        \* the sequence of catalogs, statuses first
  Users, Groups,
  Known,        \* the keys the statuses catalog holds at first
  Requests,     \* requests in flight at a time
  NoRow, All,   \* an absent row; the entry "all" of a list
  MaxRequests, MaxEdits   \* bounds: requests, changes in Redmine

Owners == Users \cup Groups
Catalogs == {Kinds[i] : i \in 1..Len(Kinds)}
Statuses == Kinds[1]

VARIABLES
  redmine,   \* what Redmine lists, by catalog
  catalog,   \* the rows of redmine_statuses, redmine_versions, redmine_priorities
  notify,    \* the lists of bot_users and support_groups
  req,       \* the requests in flight
  chosen,    \* history: the list last saved for a row, less the statuses deleted since
  raced,     \* history: rows for which a request went by a list that was no longer theirs
  overlapped,\* history: keys deleted while a request in flight had read them
  requests, edits
vars == <<redmine, catalog, notify, req, chosen, raced, overlapped, requests, edits>>
history == <<chosen, raced, overlapped>>

Idle == [op |-> "idle"]
Row == [active : BOOLEAN, default : BOOLEAN]
Lists == SUBSET (Keys \cup {All})

ASSUME SubscriptionsAssumption ==
  /\ IsFiniteSet(Keys) /\ Known \subseteq Keys
  /\ All \notin Keys
  /\ \A list \in Lists : list # NoRow
  /\ \A row \in Row : row # NoRow
  /\ Users \cap Groups = {}
  /\ Len(Kinds) \in Nat \ {0} /\ \A i, j \in 1..Len(Kinds) : Kinds[i] = Kinds[j] => i = j
  /\ MaxRequests \in Nat /\ MaxEdits \in Nat

Active(kind) == {k \in Keys : catalog[kind][k] # NoRow /\ catalog[kind][k].active}
Default(kind) == {k \in Active(kind) : catalog[kind][k].default}

-----------------------------------------------------------------------------
\* What a form asks for: a preset and, for "custom", the boxes ticked.
Choices == {[preset |-> "default", values |-> {}]}
             \cup {[preset |-> "custom", values |-> s] : s \in SUBSET Keys}

\* _normalize_notify: nothing chosen, or nothing that is allowed, means everything.
NormalizeNotify(values, allowed) ==
  IF All \in values \/ values \cap allowed = {} THEN {All} ELSE values \cap allowed

\* The list a form of the administrator leaves, from the catalog it read.
Chosen(choice, allowed, defaults) ==
  IF choice.preset = "default" THEN defaults ELSE NormalizeNotify(choice.values, allowed)

OwnChosenMutant(choice, allowed) == Chosen(choice, allowed, {choice.preset})
\* The same for the form of a person's own settings: its default is everything.
OwnChosen(choice, allowed) == Chosen(choice, allowed, {All})

-----------------------------------------------------------------------------
FormType == [op : {"form"}, at : {"read", "loaded", "gone"}, owner : Owners,
             new : Lists, old : Lists \cup {NoRow}]
CreateType == [op : {"create"}, owner : Owners, new : Lists]
DropType == [op : {"drop"}, at : {"users", "groups"}, key : Keys,
             lists : [Owners -> Lists \cup {NoRow}], row : BOOLEAN, failed : BOOLEAN]
ToggleType == [op : {"toggle"}, kind : Catalogs, key : Keys,
               field : {"active", "default"}, value : BOOLEAN, gone : BOOLEAN]
Unread == [got |-> {}, seen |-> {}, read |-> FALSE]
SectionType == [got : SUBSET Keys, seen : SUBSET Keys, read : BOOLEAN]
SyncType == [op : {"sync"}, at : 1..(Len(Kinds) + 1), section : [Catalogs -> SectionType],
             flushed : SUBSET Catalogs, failed : BOOLEAN]

TypeOK ==
  /\ redmine \in [Catalogs -> SUBSET Keys]
  /\ catalog \in [Catalogs -> [Keys -> Row \cup {NoRow}]]
  /\ notify \in [Owners -> Lists \cup {NoRow}]
  /\ req \in [Requests -> {Idle} \cup FormType \cup CreateType \cup DropType
                            \cup ToggleType \cup SyncType]
  /\ chosen \in [Owners -> Lists \cup {NoRow}]
  /\ raced \in SUBSET Owners /\ overlapped \in SUBSET Keys
  /\ requests \in 0..MaxRequests /\ edits \in 0..MaxEdits

Init ==
  /\ redmine = [c \in Catalogs |-> Known]
  /\ catalog = [c \in Catalogs |->
       [k \in Keys |-> IF c = Statuses /\ k \in Known
                         THEN [active |-> TRUE, default |-> FALSE] ELSE NoRow]]
  /\ notify \in [Owners -> {{All}, NoRow}]
  /\ req = [r \in Requests |-> Idle]
  /\ chosen = notify /\ raced = {} /\ overlapped = {}
  /\ requests = 0 /\ edits = 0

Free(r) == req[r] = Idle /\ requests < MaxRequests
\* A request comes in and awaits; a request answered at once; a request ends.
Begins(r, record) ==
  Free(r) /\ requests' = requests + 1 /\ req' = [req EXCEPT ![r] = record]
AtOnce(r) == Free(r) /\ requests' = requests + 1
Ends(r) == req' = [req EXCEPT ![r] = Idle] /\ UNCHANGED requests
Goes(r, record) == req' = [req EXCEPT ![r] = record] /\ UNCHANGED requests

-----------------------------------------------------------------------------
(* Deleting a status. *)

\* The rows whose list, as read, names the status; the request rewrites these.
Names(list, k) == list # NoRow /\ k \in list
Affected(d, rows) == {o \in rows : Names(d.lists[o], d.key)}

\* Rows whose list is no longer what the request read.
Changed(d) == {o \in Owners : notify[o] # NoRow /\ notify[o] # d.lists[o]}

\* Rows of users rewritten by an uncommitted deletion are locked until it commits.
Locked(o) ==
  \E r \in Requests : req[r].op = "drop" /\ req[r].at = "groups" /\ o \in Affected(req[r], Users)

DropRead(r) ==
  /\ \E k \in Keys :
       /\ catalog[Statuses][k] # NoRow
       /\ Begins(r, [op |-> "drop", at |-> "users", key |-> k, row |-> TRUE, failed |-> FALSE,
                     lists |-> [o \in Owners |-> IF o \in Users THEN notify[o] ELSE NoRow]])
  /\ UNCHANGED <<redmine, catalog, notify, history, edits>>

\* The users' lists are flushed, the groups' are read.  A row deleted since makes
\* the UPDATE match nothing: StaleDataError, and the request is undone.
DropUsers(r) ==
  /\ req[r].op = "drop" /\ req[r].at = "users"
  /\ \A o \in Affected(req[r], Users) : ~Locked(o)
  /\ IF req[r].failed
       THEN Ends(r)
       ELSE Goes(r, [req[r] EXCEPT !.at = "groups",
                       !.lists = [o \in Owners |-> IF o \in Groups THEN notify[o] ELSE @[o]]])
  /\ UNCHANGED <<redmine, catalog, notify, history, edits>>

\* The rows a deletion rewrites.
ToRewriteMutant(d) == Affected(d, Users)
ToRewriteAllMutant(d) == {o \in Owners : d.lists[o] # NoRow}
ToRewrite(d) == Affected(d, Owners)

\* What other requests hold of a status that is deleted: a form or a deletion that
\* will write it back; the row itself, for those that were to change it.
HoldsKey(q, k) ==
  \/ q.op = "form" /\ q.at # "gone" /\ k \in q.new
  \/ q.op = "create" /\ k \in q.new
  \/ q.op = "drop" /\ q.key # k /\ \E o \in Affected(q, Owners) : k \in q.lists[o]

WithoutEntry(q, kind, k) ==
  CASE q.op = "drop" /\ kind = Statuses /\ q.key = k -> [q EXCEPT !.row = FALSE]
    [] q.op = "toggle" /\ q.kind = kind /\ q.key = k -> [q EXCEPT !.gone = TRUE]
    [] q.op = "sync" /\ k \in q.section[kind].seen \ q.section[kind].got
         -> [q EXCEPT !.failed = TRUE]
    [] OTHER -> q

\* A row of a catalog an uncommitted synchronisation has added or hidden is locked.
EntryLocked(kind, k) ==
  \E r \in Requests :
    /\ req[r].op = "sync" /\ ~req[r].failed /\ kind \in req[r].flushed
    /\ \E in \in {req[r].section[kind]} : k \in (in.got \ in.seen) \cup (in.seen \ in.got)

DropCommit(r) ==
  /\ req[r].op = "drop" /\ req[r].at = "groups"
  /\ IF req[r].failed
       THEN Ends(r) /\ UNCHANGED <<catalog, notify, history>>
       ELSE LET k == req[r].key
                rewritten == ToRewrite(req[r])
            IN /\ req[r].row => ~EntryLocked(Statuses, k)
               /\ notify' = [o \in Owners |-> IF o \in rewritten THEN req[r].lists[o] \ {k}
                                              ELSE notify[o]]
               /\ catalog' = IF req[r].row THEN [catalog EXCEPT ![Statuses][k] = NoRow]
                             ELSE catalog
               /\ req' = [q \in Requests |-> IF q = r THEN Idle
                                             ELSE IF req[r].row THEN WithoutEntry(req[q], Statuses, k)
                                             ELSE req[q]]
               /\ chosen' = [o \in Owners |-> IF chosen[o] = NoRow THEN NoRow
                                              ELSE chosen[o] \ {k}]
               /\ raced' = raced \cup {o \in Changed(req[r]) : Names(notify[o], k)
                                                                \/ Names(req[r].lists[o], k)}
               /\ overlapped' = IF \/ \E q \in Requests \ {r} : HoldsKey(req[q], k)
                                   \/ \E o \in Changed(req[r]) : Names(notify[o], k)
                                  THEN overlapped \cup {k} ELSE overlapped
               /\ UNCHANGED requests
  /\ UNCHANGED <<redmine, edits>>

-----------------------------------------------------------------------------
(* The forms: a user, a group, a person's own settings. *)

Asks(r, o, list) ==
  /\ notify[o] # NoRow
  /\ Begins(r, [op |-> "form", at |-> "read", owner |-> o, old |-> NoRow, new |-> list])
  /\ UNCHANGED <<redmine, catalog, notify, history, edits>>

UserForm(r) ==
  \E u \in Users, c \in Choices : Asks(r, u, Chosen(c, Active(Statuses), Default(Statuses)))
GroupForm(r) ==
  \E g \in Groups, c \in Choices : Asks(r, g, Chosen(c, Active(Statuses), Default(Statuses)))
OwnForm(r) ==
  \E u \in Users, c \in Choices : Asks(r, u, OwnChosen(c, Active(Statuses)))

FormLoad(r) ==
  /\ req[r].op = "form"
  /\ \/ req[r].at = "gone" /\ Ends(r)
     \/ req[r].at = "read" /\ Goes(r, [req[r] EXCEPT !.at = "loaded", !.old = notify[req[r].owner]])
  /\ UNCHANGED <<redmine, catalog, notify, history, edits>>

\* Only what differs from the row as it was loaded is sent to the database.
FormCommit(r) ==
  LET o == req[r].owner IN
  /\ req[r].op = "form" /\ req[r].at = "loaded"
  /\ ~Locked(o)
  /\ notify' = IF req[r].new # req[r].old THEN [notify EXCEPT ![o] = req[r].new] ELSE notify
  /\ chosen' = [chosen EXCEPT ![o] = req[r].new]
  /\ raced' = IF notify[o] # req[r].old /\ req[r].new = req[r].old
                THEN raced \cup {o} ELSE raced \ {o}
  /\ Ends(r)
  /\ UNCHANGED <<redmine, catalog, overlapped, edits>>

\* A new row: of a group by the form, of a user by the form when no version is
\* ticked under "custom", else the handler raises after its INSERT and nothing is kept.
CreateRead(r) ==
  /\ \E o \in Owners, c \in Choices :
       Begins(r, [op |-> "create", owner |-> o, new |-> Chosen(c, Active(Statuses), Default(Statuses))])
  /\ UNCHANGED <<redmine, catalog, notify, history, edits>>

Enters(o, list) ==
  /\ notify' = [notify EXCEPT ![o] = list]
  /\ chosen' = [chosen EXCEPT ![o] = list]
  /\ raced' = raced \ {o}

CreateCommit(r) ==
  LET o == req[r].owner IN
  /\ req[r].op = "create"
  /\ \/ notify[o] = NoRow /\ Enters(o, req[r].new)
     \/ (notify[o] # NoRow \/ o \in Users) /\ UNCHANGED <<notify, chosen, raced>>
  /\ Ends(r)
  /\ UNCHANGED <<redmine, catalog, overlapped, edits>>

\* The import of users from Redmine gives everybody everything.
Import(r) ==
  /\ AtOnce(r) /\ \E o \in Users : notify[o] = NoRow /\ Enters(o, {All})
  /\ UNCHANGED <<redmine, catalog, req, overlapped, edits>>

\* What a request holds of rows of users or groups that are deleted.
WithoutOwners(q, s) ==
  CASE q.op = "form" /\ q.owner \in s -> [q EXCEPT !.at = "gone"]
    [] q.op = "drop" /\ Affected(q, s) # {} -> [q EXCEPT !.failed = TRUE]
    [] OTHER -> q

Gone(r, s) ==
  /\ AtOnce(r)
  /\ \A o \in s : notify[o] # NoRow /\ ~Locked(o)
  /\ notify' = [o \in Owners |-> IF o \in s THEN NoRow ELSE notify[o]]
  /\ chosen' = [o \in Owners |-> IF o \in s THEN NoRow ELSE chosen[o]]
  /\ raced' = raced \ s
  /\ req' = [q \in Requests |-> WithoutOwners(req[q], s)]
  /\ UNCHANGED <<redmine, catalog, overlapped, edits>>

\* The users ticked in the list go in one transaction.
RemoveUsers(r) == \E s \in SUBSET Users \ {{}} : Gone(r, s)
RemoveGroup(r) == \E g \in Groups : Gone(r, {g})

-----------------------------------------------------------------------------
(* The catalogs: entries one by one, and the synchronisation with Redmine. *)

ToggleRead(r) ==
  /\ \E c \in Catalogs, k \in Keys, f \in {"active", "default"} :
       /\ catalog[c][k] # NoRow
       /\ Begins(r, [op |-> "toggle", kind |-> c, key |-> k, field |-> f,
                     value |-> ~catalog[c][k][f], gone |-> FALSE])
  /\ UNCHANGED <<redmine, catalog, notify, history, edits>>

ToggleCommit(r) ==
  /\ req[r].op = "toggle"
  /\ IF req[r].gone
       THEN UNCHANGED catalog
       ELSE /\ ~EntryLocked(req[r].kind, req[r].key)
            /\ catalog' = [catalog EXCEPT ![req[r].kind][req[r].key][req[r].field] = req[r].value]
  /\ Ends(r)
  /\ UNCHANGED <<redmine, notify, history, edits>>

\* A status entered by hand; versions and priorities only come from Redmine.
AddEntry(r) ==
  /\ AtOnce(r)
  /\ \E k \in Keys :
       /\ catalog[Statuses][k] = NoRow /\ ~EntryLocked(Statuses, k)
       /\ catalog' = [catalog EXCEPT ![Statuses][k] = [active |-> TRUE, default |-> FALSE]]
  /\ UNCHANGED <<redmine, notify, req, history, edits>>

\* Versions and priorities are deleted without a look at who names them.
DeleteEntry(r) ==
  /\ AtOnce(r)
  /\ \E c \in Catalogs \ {Statuses}, k \in Keys :
       /\ catalog[c][k] # NoRow /\ ~EntryLocked(c, k)
       /\ catalog' = [catalog EXCEPT ![c][k] = NoRow]
       /\ req' = [q \in Requests |-> WithoutEntry(req[q], c, k)]
  /\ UNCHANGED <<redmine, notify, history, edits>>

SyncStart(r) ==
  /\ Begins(r, [op |-> "sync", at |-> 1, section |-> [c \in Catalogs |-> Unread],
                flushed |-> {}, failed |-> FALSE])
  /\ UNCHANGED <<redmine, catalog, notify, history, edits>>

Added(q, c) == q.section[c].got \ q.section[c].seen
Hidden(q, c) == q.section[c].seen \ q.section[c].got
Read(q) == {c \in Catalogs : q.section[c].read}

ClashesMutant(q) == FALSE
\* An entry Redmine lists that has a row the request did not see among the active
\* ones: the INSERT violates the unique id, and with it the whole transaction is lost.
Clashes(q) ==
  \E c \in Read(q) \ q.flushed : \E k \in Added(q, c) : catalog[c][k] # NoRow

\* Rows another synchronisation holds: the flush waits for its commit.
MustWait(q) ==
  \E c \in Read(q) \ q.flushed : \E k \in Added(q, c) \cup Hidden(q, c) : EntryLocked(c, k)

\* The rows a section compares the answer of Redmine with.
Seen(c) == Active(c)

\* One catalog: the query may fail and leave the section out.  The SELECT of a
\* section flushes what the sections before it have changed.
SyncSection(r) ==
  /\ req[r].op = "sync" /\ req[r].at <= Len(Kinds)
  /\ LET c == Kinds[req[r].at]
         next == [req[r] EXCEPT !.at = @ + 1]
     IN \/ Goes(r, next)
        \/ /\ ~req[r].failed /\ ~MustWait(req[r])
           /\ IF Clashes(req[r])
                THEN Goes(r, [next EXCEPT !.failed = TRUE])
                ELSE Goes(r, [next EXCEPT !.flushed = Read(req[r]),
                     !.section[c] = [got |-> redmine[c], seen |-> Seen(c), read |-> TRUE]])
  /\ UNCHANGED <<redmine, catalog, notify, history, edits>>

Synced(q, c, k) ==
  CASE k \in Added(q, c)  -> [active |-> TRUE, default |-> FALSE]
    [] k \in Hidden(q, c) -> [catalog[c][k] EXCEPT !.active = FALSE]
    [] OTHER              -> catalog[c][k]

SyncLost(q) == q.failed \/ Clashes(q)

SyncCommit(r) ==
  /\ req[r].op = "sync" /\ req[r].at = Len(Kinds) + 1
  /\ req[r].failed \/ ~MustWait(req[r])
  /\ catalog' = IF SyncLost(req[r]) THEN catalog
                ELSE [c \in Catalogs |-> [k \in Keys |-> Synced(req[r], c, k)]]
  /\ Ends(r)
  /\ UNCHANGED <<redmine, notify, history, edits>>

\* Somebody edits the catalogs of Redmine.
RedmineChanges ==
  /\ edits < MaxEdits /\ edits' = edits + 1
  /\ \E c \in Catalogs, s \in SUBSET Keys : s # redmine[c] /\ redmine' = [redmine EXCEPT ![c] = s]
  /\ UNCHANGED <<catalog, notify, req, history, requests>>

-----------------------------------------------------------------------------
Next ==
  \/ \E r \in Requests :
       \/ DropRead(r) \/ DropUsers(r) \/ DropCommit(r)
       \/ UserForm(r) \/ GroupForm(r) \/ OwnForm(r) \/ FormLoad(r) \/ FormCommit(r)
       \/ CreateRead(r) \/ CreateCommit(r) \/ Import(r) \/ RemoveUsers(r) \/ RemoveGroup(r)
       \/ ToggleRead(r) \/ ToggleCommit(r) \/ AddEntry(r) \/ DeleteEntry(r)
       \/ SyncStart(r) \/ SyncSection(r) \/ SyncCommit(r)
  \/ RedmineChanges

Spec == Init /\ [][Next]_vars

-----------------------------------------------------------------------------
\* A status is deleted with all its traces: what a list names has a row in the catalog,
\* unless the deletion overlapped a request that had read the status (catalog.py:148).
KeysComeFromCatalog ==
  \A o \in Owners : notify[o] # NoRow =>
    \A k \in notify[o] \ {All} : catalog[Statuses][k] # NoRow \/ k \in overlapped

\* Saved means saved: a list is the one last saved for its row, less the statuses
\* deleted since, unless two requests went by the same list (users.py:618, me.py:141).
SavedListsKept == \A o \in Owners : o \in raced \/ notify[o] = chosen[o]

\* What an administrator or a synchronisation has hidden is shown again by an
\* administrator only, whatever Redmine lists (catalog.py:374).
HiddenStaysHidden ==
  [][\A c \in Catalogs, k \in Keys :
       /\ catalog[c][k] # NoRow /\ catalog'[c][k] # NoRow
       /\ ~catalog[c][k].active /\ catalog'[c][k].active
       => \E r \in Requests : req[r].op = "toggle" /\ req'[r] = Idle]_vars
=============================================================================
