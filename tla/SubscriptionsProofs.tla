------------------------ MODULE SubscriptionsProofs ------------------------
(***************************************************************************)
(* Proofs about Subscriptions, for any users, groups and catalogs, and any *)
(* number of requests: types, that lists name what the catalog holds, that *)
(* saved lists are kept, and that a synchronisation shows nothing again    *)
(* that was hidden.                                                        *)
(***************************************************************************)
EXTENDS Subscriptions, TLAPS

RequestType == {Idle} \cup FormType \cup CreateType \cup DropType \cup ToggleType \cup SyncType

\* An entry that a list may hold.
Fine(k) == k = All \/ catalog[Statuses][k] # NoRow \/ k \in overlapped

\* What a request will write names such entries.
Held(q) ==
  /\ q.op = "form" /\ q.at # "gone" => \A k \in q.new : Fine(k)
  /\ q.op = "create" => \A k \in q.new : Fine(k)
  /\ q.op = "drop" => \A o \in Owners : Names(q.lists[o], q.key) => \A k \in q.lists[o] \ {q.key} : Fine(k)

\* Rows and entries that a request will change are there.
RowsThere(q) ==
  q.op = "drop" /\ ~q.failed => \A o \in Owners : Names(q.lists[o], q.key) => notify[o] # NoRow
EntriesThere(q) ==
  /\ q.op = "toggle" /\ ~q.gone => catalog[q.kind][q.key] # NoRow
  /\ q.op = "sync" /\ ~q.failed =>
       \A c \in Catalogs : \A k \in Hidden(q, c) : catalog[c][k] # NoRow

\* A synchronisation has read only catalogs it has come to, and flushed only such.
SyncOrder(q) ==
  q.op = "sync" =>
    /\ \A c \in Catalogs :
         \/ q.section[c] = Unread
         \/ q.section[c].read /\ \E i \in 1..Len(Kinds) : i < q.at /\ Kinds[i] = c
    /\ q.flushed \subseteq Read(q)

\* What it has flushed as new has no row yet.
AddedFree(q) ==
  q.op = "sync" /\ ~q.failed =>
    \A c \in q.flushed : \A k \in Added(q, c) : catalog[c][k] = NoRow

Sound(q) == Held(q) /\ RowsThere(q) /\ EntriesThere(q) /\ SyncOrder(q) /\ AddedFree(q)

\* Two synchronisations have not flushed the same entry.
Touched(q, c) == Added(q, c) \cup Hidden(q, c)
Syncing(q) == q.op = "sync" /\ ~q.failed
Apart(p, q) ==
  Syncing(p) /\ Syncing(q) => \A c \in p.flushed \cap q.flushed : Touched(p, c) \cap Touched(q, c) = {}

Inv ==
  /\ TypeOK /\ KeysComeFromCatalog /\ SavedListsKept
  /\ \A r \in Requests : Sound(req[r])
  /\ \A r, s \in Requests : r # s => Apart(req[r], req[s])

-----------------------------------------------------------------------------
(* Requests by their kind. *)

LEMMA RequestFacts ==
  ASSUME NEW q \in RequestType
  PROVE  /\ q.op \in {"idle", "form", "create", "drop", "toggle", "sync"}
         /\ q.op = "form" => q \in FormType
         /\ q.op = "create" => q \in CreateType
         /\ q.op = "drop" => q \in DropType
         /\ q.op = "toggle" => q \in ToggleType
         /\ q.op = "sync" => q \in SyncType
BY DEF RequestType, Idle, FormType, CreateType, DropType, ToggleType, SyncType

LEMMA Requested ==
  ASSUME TypeOK
  PROVE  \A r \in Requests : req[r] \in RequestType
BY DEF TypeOK, RequestType

LEMMA CatalogFacts ==
  /\ Statuses \in Catalogs /\ Len(Kinds) \in Nat
  /\ \A i \in 1..Len(Kinds) : Kinds[i] \in Catalogs
BY SubscriptionsAssumption DEF Catalogs, Statuses

\* Nothing is asked of a request that is idle or does not come to write.
LEMMA IdleSound ==
  /\ Idle \in RequestType /\ Sound(Idle)
  /\ \A q : Apart(q, Idle) /\ Apart(Idle, q)
BY DEF RequestType, Idle, Sound, Held, RowsThere, EntriesThere, SyncOrder, AddedFree, Apart, Syncing

\* A step that changes no row: one request goes on, or ends.
LEMMA QuietStep ==
  ASSUME Inv, NEW r \in Requests, NEW q \in RequestType, req' = [req EXCEPT ![r] = q], Sound(q),
         \A s \in Requests \ {r} : Apart(req[s], q),
         UNCHANGED <<redmine, catalog, notify, history, edits>>, requests' \in 0..MaxRequests
  PROVE  Inv'
<1>1. \A s \in Requests : req'[s] = IF s = r THEN q ELSE req[s] BY Requested DEF Inv, TypeOK
<1>2. TypeOK'
  <2>1. req' \in [Requests -> RequestType] BY Requested DEF Inv, TypeOK
  <2> QED BY <2>1 DEF Inv, TypeOK, RequestType, history
<1>3. KeysComeFromCatalog' /\ SavedListsKept'
  BY DEF Inv, KeysComeFromCatalog, SavedListsKept, history
<1>4. \A s \in Requests : Sound(req[s])'
  BY <1>1 DEF Inv, Sound, Held, Fine, RowsThere, EntriesThere, SyncOrder, AddedFree, Added, Hidden,
              Read, history
<1>5. \A s, t \in Requests : s # t => Apart(req'[s], req'[t])
  <2>1. \A s \in Requests \ {r} : Apart(q, req[s]) BY DEF Apart
  <2> QED BY <1>1, <2>1 DEF Inv
<1> QED BY <1>2, <1>3, <1>4, <1>5 DEF Inv, Apart, Touched, Syncing, Added, Hidden

\* The requests that only read, or end.
LEMMA Answers ==
  ASSUME Inv, NEW r \in Requests, NEW q \in RequestType, Begins(r, q) \/ Goes(r, q), Sound(q),
         q.op # "sync" \/ (q.op = "sync" /\ q.flushed = {}),
         UNCHANGED <<redmine, catalog, notify, history, edits>>
  PROVE  Inv'
<1>1. req' = [req EXCEPT ![r] = q] /\ requests' \in 0..MaxRequests
  BY SubscriptionsAssumption DEF Begins, Goes, Free, Inv, TypeOK
<1>2. \A s \in Requests \ {r} : Apart(req[s], q) BY DEF Apart, Syncing
<1> QED BY <1>1, <1>2, QuietStep

LEMMA Ended ==
  ASSUME Inv, NEW r \in Requests, Ends(r), UNCHANGED <<redmine, catalog, notify, history, edits>>
  PROVE  Inv'
<1>1. req' = [req EXCEPT ![r] = Idle] /\ requests' \in 0..MaxRequests
  BY DEF Ends, Inv, TypeOK
<1> QED BY <1>1, IdleSound, QuietStep

-----------------------------------------------------------------------------
(* Requests that read. *)

\* What is in the catalog may be in a list.
LEMMA ReadFine ==
  ASSUME TypeOK
  PROVE  /\ Active(Statuses) \subseteq Keys /\ Default(Statuses) \subseteq Active(Statuses)
         /\ \A k \in Active(Statuses) : Fine(k)
         /\ Fine(All)
BY DEF Active, Default, Fine

\* What a form will write.
LEMMA ChosenFine ==
  ASSUME TypeOK, NEW c \in Choices
  PROVE  /\ Chosen(c, Active(Statuses), Default(Statuses)) \in Lists
         /\ OwnChosen(c, Active(Statuses)) \in Lists
         /\ \A k \in Chosen(c, Active(Statuses), Default(Statuses)) : Fine(k)
         /\ \A k \in OwnChosen(c, Active(Statuses)) : Fine(k)
<1> DEFINE allowed == Active(Statuses)  list == NormalizeNotify(c.values, allowed)
<1>1. list \subseteq allowed \cup {All}
  BY DEF NormalizeNotify
<1>2. \A s : Chosen(c, allowed, s) \in {s, list} BY DEF Chosen
<1>3. OwnChosen(c, allowed) \in {{All}, list} BY <1>2 DEF OwnChosen
<1>4. \A s \in {list, {All}, Default(Statuses)} : s \in Lists /\ \A k \in s : Fine(k)
  BY <1>1, ReadFine DEF Lists
<1> HIDE DEF list, allowed
<1>5. Chosen(c, allowed, Default(Statuses)) \in {list, {All}, Default(Statuses)} BY <1>2
<1>6. OwnChosen(c, allowed) \in {list, {All}, Default(Statuses)} BY <1>3
<1> QED BY <1>4, <1>5, <1>6 DEF allowed

LEMMA FormsKeep ==
  ASSUME Inv, NEW r \in Requests, UserForm(r) \/ GroupForm(r) \/ OwnForm(r) \/ CreateRead(r)
  PROVE  Inv'
<1>1. TypeOK BY DEF Inv
<1>2. ASSUME NEW o \in Owners, NEW list \in Lists, \A k \in list : Fine(k), Asks(r, o, list)
      PROVE  Inv'
  <2> DEFINE q == [op |-> "form", at |-> "read", owner |-> o, old |-> NoRow, new |-> list]
  <2>1. q \in RequestType BY DEF RequestType, FormType
  <2>2. Sound(q) BY <1>2 DEF Sound, Held, RowsThere, EntriesThere, SyncOrder, AddedFree
  <2> QED BY <1>2, <2>1, <2>2, Answers DEF Asks
<1>3. CASE UserForm(r)
  <2>1. PICK u \in Users, c \in Choices : Asks(r, u, Chosen(c, Active(Statuses), Default(Statuses)))
    BY <1>3 DEF UserForm
  <2> QED BY <1>1, <1>2, <2>1, ChosenFine DEF Owners
<1>4. CASE GroupForm(r)
  <2>1. PICK g \in Groups, c \in Choices : Asks(r, g, Chosen(c, Active(Statuses), Default(Statuses)))
    BY <1>4 DEF GroupForm
  <2> QED BY <1>1, <1>2, <2>1, ChosenFine DEF Owners
<1>5. CASE OwnForm(r)
  <2>1. PICK u \in Users, c \in Choices : Asks(r, u, OwnChosen(c, Active(Statuses)))
    BY <1>5 DEF OwnForm
  <2> QED BY <1>1, <1>2, <2>1, ChosenFine DEF Owners
<1>6. CASE CreateRead(r)
  <2>1. PICK o \in Owners, c \in Choices :
          Begins(r, [op |-> "create", owner |-> o, new |-> Chosen(c, Active(Statuses), Default(Statuses))])
    BY <1>6 DEF CreateRead
  <2> DEFINE list == Chosen(c, Active(Statuses), Default(Statuses))
             q == [op |-> "create", owner |-> o, new |-> list]
  <2>2. list \in Lists /\ \A k \in list : Fine(k) BY <1>1, ChosenFine
  <2> HIDE DEF list
  <2>3. q \in RequestType BY <2>2 DEF RequestType, CreateType
  <2>4. Sound(q) BY <2>2 DEF Sound, Held, RowsThere, EntriesThere, SyncOrder, AddedFree
  <2>5. Begins(r, q) BY <2>1 DEF list
  <2> QED BY <1>6, <2>3, <2>4, <2>5, Answers DEF CreateRead
<1> QED BY <1>3, <1>4, <1>5, <1>6

LEMMA FormLoadKeeps ==
  ASSUME Inv, NEW r \in Requests, FormLoad(r)
  PROVE  Inv'
<1>1. TypeOK /\ Sound(req[r]) BY DEF Inv
<1>2. req[r] \in FormType BY <1>1, Requested, RequestFacts DEF FormLoad
<1>3. CASE req[r].at = "gone" /\ Ends(r) BY <1>3, Ended DEF FormLoad
<1>4. CASE req[r].at = "read" /\ Goes(r, [req[r] EXCEPT !.at = "loaded", !.old = notify[req[r].owner]])
  <2> DEFINE q == [req[r] EXCEPT !.at = "loaded", !.old = notify[req[r].owner]]
  <2>1. notify[req[r].owner] \in Lists \cup {NoRow} BY <1>1, <1>2 DEF TypeOK, FormType
  <2>2. q \in FormType /\ q.op = "form" /\ q.new = req[r].new BY <1>2, <2>1 DEF FormType
  <2>3. Sound(q) BY <1>1, <1>2, <1>4, <2>2 DEF Sound, Held, RowsThere, EntriesThere, SyncOrder, AddedFree, FormType
  <2> HIDE DEF q
  <2>4. Goes(r, q) BY <1>4 DEF q
  <2> QED BY <2>2, <2>3, <2>4, Answers DEF FormLoad, RequestType
<1> QED BY <1>3, <1>4 DEF FormLoad

LEMMA DropReadKeeps ==
  ASSUME Inv, NEW r \in Requests, DropRead(r)
  PROVE  Inv'
<1>1. PICK k \in Keys :
        Begins(r, [op |-> "drop", at |-> "users", key |-> k, row |-> TRUE, failed |-> FALSE,
                   lists |-> [o \in Owners |-> IF o \in Users THEN notify[o] ELSE NoRow]])
  BY DEF DropRead
<1> DEFINE lists == [o \in Owners |-> IF o \in Users THEN notify[o] ELSE NoRow]
           q == [op |-> "drop", at |-> "users", key |-> k, row |-> TRUE, failed |-> FALSE, lists |-> lists]
<1>2. lists \in [Owners -> Lists \cup {NoRow}] BY DEF Inv, TypeOK
<1>3. q \in DropType BY <1>2 DEF DropType
<1>4. \A o \in Owners : Names(lists[o], k) => lists[o] = notify[o] /\ notify[o] # NoRow
  BY DEF Names
<1>5. \A o \in Owners : notify[o] # NoRow => \A j \in notify[o] : Fine(j)
  BY DEF Inv, KeysComeFromCatalog, Fine
<1> HIDE DEF lists
<1>6. Sound(q) BY <1>4, <1>5 DEF Sound, Held, RowsThere, EntriesThere, SyncOrder, AddedFree
<1>7. Begins(r, q) BY <1>1 DEF lists
<1> QED BY <1>3, <1>6, <1>7, Answers DEF DropRead, RequestType, DropType

LEMMA DropUsersKeeps ==
  ASSUME Inv, NEW r \in Requests, DropUsers(r)
  PROVE  Inv'
<1>1. TypeOK /\ Sound(req[r]) BY DEF Inv
<1>2. req[r] \in DropType BY <1>1, Requested, RequestFacts DEF DropUsers
<1>3. CASE req[r].failed BY <1>3, Ended DEF DropUsers
<1>4. CASE ~req[r].failed
  <2> DEFINE lists == [o \in Owners |-> IF o \in Groups THEN notify[o] ELSE req[r].lists[o]]
             q == [req[r] EXCEPT !.at = "groups",
                      !.lists = [o \in Owners |-> IF o \in Groups THEN notify[o] ELSE @[o]]]
  <2>1. q = [req[r] EXCEPT !.at = "groups", !.lists = lists] BY <1>2 DEF DropType
  <2>2. lists \in [Owners -> Lists \cup {NoRow}] BY <1>1, <1>2 DEF TypeOK, DropType
  <2>3. q \in DropType /\ q.op = "drop" /\ q.key = req[r].key /\ q.lists = lists /\ ~q.failed
    BY <1>2, <1>4, <2>1, <2>2 DEF DropType
  <2>4. \A o \in Owners : notify[o] # NoRow => \A j \in notify[o] : Fine(j)
    BY DEF Inv, KeysComeFromCatalog, Fine
  <2>5. ASSUME NEW o \in Owners, Names(lists[o], req[r].key)
        PROVE  notify[o] # NoRow /\ \A j \in lists[o] \ {req[r].key} : Fine(j)
    <3>1. CASE o \in Groups BY <2>4, <2>5, <3>1 DEF Names
    <3>2. CASE o \notin Groups
      BY <1>1, <1>2, <1>4, <2>5, <3>2 DEF Sound, Held, RowsThere, DropType
    <3> QED BY <3>1, <3>2
  <2>6. Goes(r, q) BY <1>4 DEF DropUsers
  <2> HIDE DEF q, lists
  <2>7. Sound(q) BY <2>3, <2>5 DEF Sound, Held, RowsThere, EntriesThere, SyncOrder, AddedFree
  <2> QED BY <2>3, <2>6, <2>7, Answers DEF DropUsers, RequestType
<1> QED BY <1>3, <1>4

LEMMA ToggleReadKeeps ==
  ASSUME Inv, NEW r \in Requests, ToggleRead(r)
  PROVE  Inv'
<1>1. PICK c \in Catalogs, k \in Keys, f \in {"active", "default"} :
        /\ catalog[c][k] # NoRow
        /\ Begins(r, [op |-> "toggle", kind |-> c, key |-> k, field |-> f,
                      value |-> ~catalog[c][k][f], gone |-> FALSE])
  BY DEF ToggleRead
<1> DEFINE q == [op |-> "toggle", kind |-> c, key |-> k, field |-> f,
                 value |-> ~catalog[c][k][f], gone |-> FALSE]
<1>2. (~catalog[c][k][f]) \in BOOLEAN BY Zenon
<1>3. q \in ToggleType BY <1>2 DEF ToggleType
<1>4. Sound(q) BY <1>1 DEF Sound, Held, RowsThere, EntriesThere, SyncOrder, AddedFree
<1> QED BY <1>1, <1>3, <1>4, Answers DEF ToggleRead, RequestType

-----------------------------------------------------------------------------
(* A synchronisation. *)

LEMMA SyncStartKeeps ==
  ASSUME Inv, NEW r \in Requests, SyncStart(r)
  PROVE  Inv'
<1> DEFINE q == [op |-> "sync", at |-> 1, section |-> [c \in Catalogs |-> Unread],
                 flushed |-> {}, failed |-> FALSE]
<1>1. q \in SyncType BY CatalogFacts DEF SyncType, SectionType, Unread
<1>2. \A c \in Catalogs : q.section[c] = Unread /\ Hidden(q, c) = {}
  BY DEF Hidden, Unread
<1>3. Sound(q) BY <1>2 DEF Sound, Held, RowsThere, EntriesThere, SyncOrder, AddedFree
<1> QED BY <1>1, <1>3, Answers DEF SyncStart, RequestType, SyncType

\* A synchronisation that has moved on is one.
LEMMA SyncRecords ==
  ASSUME NEW q \in SyncType, NEW at \in 1..(Len(Kinds) + 1)
  PROVE  /\ \A failed \in BOOLEAN : [q EXCEPT !.at = at, !.failed = failed] \in SyncType
         /\ \A sections \in [Catalogs -> SectionType], flushed \in SUBSET Catalogs :
              [q EXCEPT !.at = at, !.section = sections, !.flushed = flushed] \in SyncType
BY DEF SyncType

\* A section that is left out, or fails: the request goes on to the next.
LEMMA SectionSkipped ==
  ASSUME Inv, NEW r \in Requests, req[r].op = "sync", req[r].at <= Len(Kinds), NEW failed \in BOOLEAN,
         req[r].failed => failed,
         Goes(r, [req[r] EXCEPT !.at = @ + 1, !.failed = failed]),
         UNCHANGED <<redmine, catalog, notify, history, edits>>
  PROVE  Inv'
<1>1. TypeOK /\ Sound(req[r]) /\ req[r] \in SyncType BY Requested, RequestFacts DEF Inv
<1> DEFINE q == [req[r] EXCEPT !.at = @ + 1, !.failed = failed]
<1>2. /\ q \in SyncType /\ q.op = "sync" /\ q.at = req[r].at + 1 /\ q.failed = failed
      /\ q.section = req[r].section /\ q.flushed = req[r].flushed
  <2> DEFINE at == req[r].at + 1
  <2>1. at \in 1..(Len(Kinds) + 1) BY <1>1, CatalogFacts DEF SyncType
  <2>2. q = [req[r] EXCEPT !.at = at, !.failed = failed] OBVIOUS
  <2> HIDE DEF at, q
  <2>3. q \in SyncType BY <1>1, <2>1, <2>2, SyncRecords
  <2> QED BY <1>1, <2>2, <2>3 DEF SyncType, at
<1> HIDE DEF q
<1>3. \A c \in Catalogs : Added(q, c) = Added(req[r], c) /\ Hidden(q, c) = Hidden(req[r], c)
  BY <1>2 DEF Added, Hidden
<1>4. q.flushed \subseteq Catalogs /\ Read(q) = Read(req[r]) /\ req[r].at \in Nat
  BY <1>1, <1>2, CatalogFacts DEF SyncType, Read
<1>5. SyncOrder(q)
  <2>1. ASSUME NEW c \in Catalogs
        PROVE  \/ q.section[c] = Unread
               \/ q.section[c].read /\ \E i \in 1..Len(Kinds) : i < q.at /\ Kinds[i] = c
    <3>1. CASE req[r].section[c] = Unread BY <1>2, <3>1
    <3>2. CASE req[r].section[c] # Unread
      <4>1. PICK i \in 1..Len(Kinds) : i < req[r].at /\ Kinds[i] = c
        BY <1>1, <3>2 DEF Sound, SyncOrder
      <4>2. req[r].section[c].read BY <1>1, <3>2 DEF Sound, SyncOrder
      <4>3. i < q.at BY <1>2, <1>4, <4>1, CatalogFacts
      <4> QED BY <1>2, <4>1, <4>2, <4>3
    <3> QED BY <3>1, <3>2
  <2>2. q.flushed \subseteq Read(q) BY <1>1, <1>2, <1>4 DEF Sound, SyncOrder
  <2> QED BY <2>1, <2>2 DEF SyncOrder
<1>6. Sound(q)
  BY <1>1, <1>2, <1>3, <1>4, <1>5 DEF Sound, Held, RowsThere, EntriesThere, AddedFree
<1>7. \A s \in Requests \ {r} : Apart(req[s], q)
  BY <1>2, <1>3, <1>4 DEF Inv, Apart, Syncing, Touched
<1>8. req' = [req EXCEPT ![r] = q] /\ requests' \in 0..MaxRequests BY <1>1 DEF Goes, q, TypeOK
<1>9. q \in RequestType BY <1>2 DEF RequestType
<1> QED BY <1>6, <1>7, <1>8, <1>9, QuietStep

\* A section that is read: the ones before it are flushed.
LEMMA SectionRead ==
  ASSUME Inv, NEW r \in Requests, req[r].op = "sync", req[r].at <= Len(Kinds),
         ~req[r].failed, ~MustWait(req[r]), ~Clashes(req[r]),
         NEW c, c = Kinds[req[r].at],
         Goes(r, [req[r] EXCEPT !.at = @ + 1, !.flushed = Read(req[r]),
                     !.section[c] = [got |-> redmine[c], seen |-> Seen(c), read |-> TRUE]]),
         UNCHANGED <<redmine, catalog, notify, history, edits>>
  PROVE  Inv'
<1>1. TypeOK /\ Sound(req[r]) /\ req[r] \in SyncType BY Requested, RequestFacts DEF Inv
<1>2. req[r].at \in 1..Len(Kinds) /\ c \in Catalogs BY <1>1, CatalogFacts DEF SyncType
<1> DEFINE new == [got |-> redmine[c], seen |-> Seen(c), read |-> TRUE]
           sections == [req[r].section EXCEPT ![c] = new]
           q == [req[r] EXCEPT !.at = @ + 1, !.flushed = Read(req[r]), !.section[c] = new]
<1>3. new \in SectionType BY <1>1, <1>2 DEF TypeOK, SectionType, Seen, Active
<1>4. sections \in [Catalogs -> SectionType] BY <1>1, <1>2, <1>3 DEF SyncType
<1>5. /\ q \in SyncType /\ q.op = "sync" /\ q.at = req[r].at + 1 /\ ~q.failed
      /\ q.section = sections /\ q.flushed = Read(req[r])
  <2> DEFINE at == req[r].at + 1
  <2>1. at \in 1..(Len(Kinds) + 1) /\ Read(req[r]) \subseteq Catalogs
    BY <1>2, CatalogFacts DEF Read
  <2> HIDE DEF at, new
  <2>2. q = [req[r] EXCEPT !.at = at, !.section = sections, !.flushed = Read(req[r])]
    BY <1>1 DEF SyncType, at
  <2> HIDE DEF sections, q
  <2>3. q \in SyncType BY <1>1, <1>4, <2>1, <2>2, SyncRecords
  <2> QED BY <1>1, <2>2, <2>3 DEF SyncType, at
<1>6. new.read /\ \A k \in Keys : k \in new.seen => catalog[c][k] # NoRow
  BY DEF Seen, Active
<1>7. new.seen \subseteq Keys BY <1>3 DEF SectionType
<1>8. Goes(r, q) OBVIOUS
<1> HIDE DEF q, new
<1>9. \A d \in Catalogs : sections[d] = IF d = c THEN new ELSE req[r].section[d]
  BY <1>1, <1>2 DEF SyncType
<1>10. c \notin Read(req[r])
  <2>1. CASE req[r].section[c] = Unread BY <2>1 DEF Unread, Read
  <2>2. CASE req[r].section[c] # Unread
    <3>1. PICK i \in 1..Len(Kinds) : i < req[r].at /\ Kinds[i] = c
      BY <1>1, <1>2, <2>2 DEF Sound, SyncOrder
    <3> QED BY <1>2, <3>1, SubscriptionsAssumption
  <2> QED BY <2>1, <2>2
<1>11. \A d \in Catalogs \ {c} : Added(q, d) = Added(req[r], d) /\ Hidden(q, d) = Hidden(req[r], d)
  BY <1>5, <1>9 DEF Added, Hidden
<1>12. Read(req[r]) \subseteq Catalogs \ {c} BY <1>10 DEF Read
<1>13. SyncOrder(q)
  <2>1. ASSUME NEW d \in Catalogs
        PROVE  \/ q.section[d] = Unread
               \/ q.section[d].read /\ \E i \in 1..Len(Kinds) : i < q.at /\ Kinds[i] = d
    <3>1. CASE d = c BY <1>2, <1>5, <1>6, <1>9, <3>1, CatalogFacts
    <3>2. CASE d # c /\ req[r].section[d] = Unread BY <1>5, <1>9, <3>2
    <3>3. CASE d # c /\ req[r].section[d] # Unread
      <4>1. PICK i \in 1..Len(Kinds) : i < req[r].at /\ Kinds[i] = d
        BY <1>1, <3>3 DEF Sound, SyncOrder
      <4>2. req[r].section[d].read BY <1>1, <3>3 DEF Sound, SyncOrder
      <4>3. i < q.at BY <1>2, <1>5, <4>1, CatalogFacts
      <4> QED BY <1>5, <1>9, <3>3, <4>1, <4>2, <4>3
    <3> QED BY <3>1, <3>2, <3>3
  <2>2. q.flushed \subseteq Read(q) BY <1>5, <1>9, <1>12 DEF Read
  <2> QED BY <2>1, <2>2 DEF SyncOrder
<1>14. EntriesThere(q)
  <2>1. ASSUME NEW d \in Catalogs, NEW k \in Hidden(q, d) PROVE catalog[d][k] # NoRow
    <3>1. CASE d = c BY <1>5, <1>6, <1>7, <1>9, <2>1, <3>1 DEF Hidden
    <3>2. CASE d # c BY <1>1, <1>11, <2>1, <3>2 DEF Sound, EntriesThere
    <3> QED BY <3>1, <3>2
  <2> QED BY <1>5, <2>1 DEF EntriesThere
<1>15. AddedFree(q)
  <2>1. ASSUME NEW d \in q.flushed, NEW k \in Added(q, d) PROVE catalog[d][k] = NoRow
    <3>1. d \in Read(req[r]) /\ k \in Added(req[r], d) BY <1>5, <1>11, <1>12, <2>1
    <3>2. CASE d \in req[r].flushed BY <1>1, <3>1, <3>2 DEF Sound, AddedFree
    <3>3. CASE d \notin req[r].flushed BY <3>1, <3>3 DEF Clashes
    <3> QED BY <3>2, <3>3
  <2> QED BY <2>1 DEF AddedFree
<1>16. Sound(q) BY <1>5, <1>13, <1>14, <1>15 DEF Sound, Held, RowsThere
<1>17. ASSUME NEW s \in Requests \ {r} PROVE Apart(req[s], q)
  <2> SUFFICES ASSUME Syncing(req[s]), NEW d \in req[s].flushed \cap q.flushed
               PROVE  Touched(req[s], d) \cap Touched(q, d) = {}
    BY DEF Apart
  <2>1. d \in Read(req[r]) /\ Touched(q, d) = Touched(req[r], d)
    BY <1>5, <1>11, <1>12 DEF Touched
  <2>2. CASE d \in req[r].flushed BY <2>1, <2>2 DEF Inv, Apart, Syncing
  <2>3. CASE d \notin req[r].flushed
    <3>1. \A k \in Touched(req[r], d) : ~EntryLocked(d, k)
      BY <2>1, <2>3 DEF MustWait, Touched
    <3>2. \A k \in Touched(req[s], d) : EntryLocked(d, k)
      BY DEF EntryLocked, Touched, Added, Hidden, Syncing
    <3> QED BY <2>1, <3>1, <3>2
  <2> QED BY <2>2, <2>3
<1>18. req' = [req EXCEPT ![r] = q] /\ requests' \in 0..MaxRequests BY <1>1, <1>8 DEF Goes, TypeOK
<1>19. q \in RequestType BY <1>5 DEF RequestType
<1> QED BY <1>16, <1>17, <1>18, <1>19, QuietStep

LEMMA SectionKeeps ==
  ASSUME Inv, NEW r \in Requests, SyncSection(r)
  PROVE  Inv'
<1>1. req[r] \in SyncType BY Requested, RequestFacts DEF Inv, SyncSection
<1> DEFINE c == Kinds[req[r].at]
           next == [req[r] EXCEPT !.at = @ + 1]
<1>2. /\ next = [req[r] EXCEPT !.at = @ + 1, !.failed = req[r].failed]
      /\ [next EXCEPT !.failed = TRUE] = [req[r] EXCEPT !.at = @ + 1, !.failed = TRUE]
  BY <1>1 DEF SyncType
<1>3. [next EXCEPT !.flushed = Read(req[r]),
                   !.section[c] = [got |-> redmine[c], seen |-> Seen(c), read |-> TRUE]]
        = [req[r] EXCEPT !.at = @ + 1, !.flushed = Read(req[r]),
                   !.section[c] = [got |-> redmine[c], seen |-> Seen(c), read |-> TRUE]]
  BY <1>1 DEF SyncType
<1>4. CASE Goes(r, next)
  <2>1. req[r].failed \in BOOLEAN BY <1>1 DEF SyncType
  <2> QED BY <1>2, <1>4, <2>1, SectionSkipped DEF SyncSection
<1>5. CASE Goes(r, [next EXCEPT !.failed = TRUE]) BY <1>2, <1>5, SectionSkipped DEF SyncSection
<1>6. CASE /\ ~req[r].failed /\ ~MustWait(req[r]) /\ ~Clashes(req[r])
           /\ Goes(r, [next EXCEPT !.flushed = Read(req[r]),
                   !.section[c] = [got |-> redmine[c], seen |-> Seen(c), read |-> TRUE]])
  <2>1. Goes(r, [req[r] EXCEPT !.at = @ + 1, !.flushed = Read(req[r]),
                   !.section[c] = [got |-> redmine[c], seen |-> Seen(c), read |-> TRUE]])
    BY <1>3, <1>6
  <2> QED BY <1>6, <2>1, SectionRead DEF SyncSection
<1> QED BY <1>4, <1>5, <1>6 DEF SyncSection

-----------------------------------------------------------------------------
(* Requests that write one list. *)

\* The list of a row is written, or found to be what was to be written.
LEMMA ListWritten ==
  ASSUME Inv, NEW r \in Requests, Ends(r) \/ (AtOnce(r) /\ UNCHANGED req),
         NEW o \in Owners, NEW list \in Lists, \A k \in list : Fine(k),
         \/ notify' = [notify EXCEPT ![o] = list] /\ raced' = raced \ {o}
         \/ notify' = notify /\ raced' = raced \cup {o}
         \/ notify' = notify /\ notify[o] = list /\ raced' = raced \ {o},
         chosen' = [chosen EXCEPT ![o] = list],
         UNCHANGED <<redmine, catalog, overlapped, edits>>
  PROVE  Inv'
<1>1. TypeOK /\ list # NoRow BY SubscriptionsAssumption DEF Inv
<1>2. \A s \in Requests : req'[s] = req[s] \/ req'[s] = Idle BY <1>1 DEF Ends, TypeOK
<1>3. req' \in [Requests -> RequestType] /\ requests' \in 0..MaxRequests
  BY <1>1, Requested, IdleSound, SubscriptionsAssumption DEF Ends, AtOnce, Free, TypeOK
<1>4. \A p \in Owners : /\ notify'[p] = notify[p] \/ (p = o /\ notify'[p] = list)
                        /\ chosen'[p] = IF p = o THEN list ELSE chosen[p]
  BY <1>1 DEF TypeOK
<1>5. TypeOK' BY <1>1, <1>3 DEF TypeOK, RequestType
<1>6. KeysComeFromCatalog'
  BY <1>4 DEF Inv, KeysComeFromCatalog, Fine
<1>7. SavedListsKept' BY <1>1, <1>4 DEF Inv, SavedListsKept, TypeOK
<1>8. ASSUME NEW s \in Requests PROVE Sound(req[s])'
  <2>1. CASE req'[s] = Idle
    BY <2>1 DEF Idle, Sound, Held, RowsThere, EntriesThere, SyncOrder, AddedFree
  <2>2. CASE req'[s] = req[s]
    BY <1>1, <1>4, <2>2 DEF Inv, Sound, Held, Fine, RowsThere, EntriesThere, SyncOrder, AddedFree,
                            Added, Hidden, Read
  <2> QED BY <1>2, <2>1, <2>2
<1>9. \A s, t \in Requests : s # t => Apart(req'[s], req'[t]) BY <1>2, IdleSound DEF Inv
<1> QED BY <1>5, <1>6, <1>7, <1>8, <1>9 DEF Inv, Apart, Touched, Syncing, Added, Hidden

LEMMA WritersKeep ==
  ASSUME Inv, NEW r \in Requests, FormCommit(r) \/ CreateCommit(r) \/ Import(r)
  PROVE  Inv'
<1>1. TypeOK /\ Sound(req[r]) /\ req[r] \in RequestType BY Requested DEF Inv
<1>2. CASE FormCommit(r)
  <2> DEFINE o == req[r].owner  list == req[r].new
  <2>1. o \in Owners /\ list \in Lists BY <1>1, <1>2, RequestFacts DEF FormCommit, FormType
  <2>2. \A k \in list : Fine(k) BY <1>1, <1>2 DEF FormCommit, Sound, Held
  <2>3. CASE list # req[r].old
    <3>1. notify' = [notify EXCEPT ![o] = list] /\ raced' = raced \ {o}
      BY <1>2, <2>3 DEF FormCommit
    <3> QED BY <1>2, <2>1, <2>2, <3>1, ListWritten DEF FormCommit
  <2>4. CASE list = req[r].old
    <3>1. notify' = notify BY <1>2, <2>4 DEF FormCommit
    <3>2. \/ raced' = raced \cup {o}
          \/ notify[o] = list /\ raced' = raced \ {o}
      BY <1>2, <2>4 DEF FormCommit
    <3> QED BY <1>2, <2>1, <2>2, <3>1, <3>2, ListWritten DEF FormCommit
  <2> QED BY <2>3, <2>4
<1>3. CASE CreateCommit(r)
  <2> DEFINE o == req[r].owner  list == req[r].new
  <2>1. o \in Owners /\ list \in Lists BY <1>1, <1>3, RequestFacts DEF CreateCommit, CreateType
  <2>2. \A k \in list : Fine(k) BY <1>1, <1>3 DEF CreateCommit, Sound, Held
  <2>3. CASE Enters(o, list)
    BY <1>3, <2>1, <2>2, <2>3, ListWritten DEF CreateCommit, Enters
  <2>4. CASE UNCHANGED <<notify, chosen, raced>>
    BY <1>3, <2>4, Ended DEF CreateCommit, history
  <2> QED BY <1>3, <2>3, <2>4 DEF CreateCommit
<1>4. CASE Import(r)
  <2>1. PICK o \in Users : Enters(o, {All}) BY <1>4 DEF Import
  <2>2. o \in Owners /\ {All} \in Lists /\ \A k \in {All} : Fine(k) BY DEF Owners, Lists, Fine
  <2> QED BY <1>4, <2>1, <2>2, ListWritten DEF Import, Enters
<1> QED BY <1>2, <1>3, <1>4

-----------------------------------------------------------------------------
(* Rows that are deleted. *)

LEMMA WithoutOwnersFacts ==
  ASSUME NEW q \in RequestType, NEW s \in SUBSET Owners
  PROVE  /\ WithoutOwners(q, s) \in RequestType
         /\ WithoutOwners(q, s).op = q.op
         /\ q.op \in {"idle", "create", "toggle", "sync"} => WithoutOwners(q, s) = q
         /\ q.op = "form" => \/ WithoutOwners(q, s) = q
                             \/ WithoutOwners(q, s).at = "gone"
         /\ q.op = "drop" =>
              /\ WithoutOwners(q, s).lists = q.lists /\ WithoutOwners(q, s).key = q.key
              /\ ~WithoutOwners(q, s).failed => ~q.failed /\ Affected(q, s) = {}
<1>1. CASE q.op = "form"
  <2>1. q \in FormType BY <1>1, RequestFacts
  <2>2. [q EXCEPT !.at = "gone"] \in FormType BY <2>1 DEF FormType
  <2>3. WithoutOwners(q, s) \in {q, [q EXCEPT !.at = "gone"]} BY <1>1 DEF WithoutOwners
  <2> QED BY <1>1, <2>1, <2>2, <2>3 DEF FormType, RequestType
<1>2. CASE q.op = "drop"
  <2>1. q \in DropType BY <1>2, RequestFacts
  <2>2. [q EXCEPT !.failed = TRUE] \in DropType BY <2>1 DEF DropType
  <2>3. WithoutOwners(q, s) = IF Affected(q, s) # {} THEN [q EXCEPT !.failed = TRUE] ELSE q
    BY <1>2 DEF WithoutOwners
  <2> QED BY <1>2, <2>1, <2>2, <2>3 DEF DropType, RequestType
<1>3. CASE q.op \notin {"form", "drop"}
  <2>1. WithoutOwners(q, s) = q BY <1>3 DEF WithoutOwners
  <2> QED BY <1>3, <2>1
<1> QED BY <1>1, <1>2, <1>3

LEMMA GoneKeeps ==
  ASSUME Inv, NEW r \in Requests, NEW s \in SUBSET Owners, Gone(r, s)
  PROVE  Inv'
<1>1. TypeOK BY DEF Inv
<1>2. \A q \in Requests : req[q] \in RequestType /\ req'[q] = WithoutOwners(req[q], s)
  BY <1>1, Requested DEF Gone
<1>3. req' \in [Requests -> RequestType] BY <1>2, WithoutOwnersFacts DEF Gone
<1>4. \A p \in Owners : /\ notify'[p] = IF p \in s THEN NoRow ELSE notify[p]
                        /\ chosen'[p] = IF p \in s THEN NoRow ELSE chosen[p]
  BY DEF Gone
<1>5. TypeOK'
  <2>1. requests' \in 0..MaxRequests BY <1>1, SubscriptionsAssumption DEF Gone, AtOnce, Free, TypeOK
  <2>2. notify' \in [Owners -> Lists \cup {NoRow}] /\ chosen' \in [Owners -> Lists \cup {NoRow}]
    BY <1>1 DEF TypeOK, Gone
  <2>3. UNCHANGED <<redmine, catalog, overlapped, edits>> /\ raced' \in SUBSET Owners
    BY <1>1 DEF TypeOK, Gone
  <2> QED BY <1>1, <1>3, <2>1, <2>2, <2>3 DEF TypeOK, RequestType
<1>6. UNCHANGED <<catalog, overlapped>> /\ raced' = raced \ s BY DEF Gone
<1>7. KeysComeFromCatalog' BY <1>4, <1>6 DEF Inv, KeysComeFromCatalog
<1>8. SavedListsKept' BY <1>4, <1>6 DEF Inv, SavedListsKept
<1>9. ASSUME NEW q \in Requests PROVE Sound(req[q])'
  <2>1. req[q] \in RequestType /\ Sound(req[q]) BY <1>2 DEF Inv
  <2>2. CASE req[q].op = "drop"
    <3>1. /\ req'[q].op = "drop" /\ req'[q].lists = req[q].lists /\ req'[q].key = req[q].key
          /\ ~req'[q].failed => ~req[q].failed /\ Affected(req[q], s) = {}
      BY <1>2, <2>2, WithoutOwnersFacts
    <3>2. ~req'[q].failed => \A o \in Owners : Names(req[q].lists[o], req[q].key) => notify'[o] # NoRow
      BY <1>4, <2>1, <2>2, <3>1 DEF Sound, RowsThere, Affected
    <3> QED BY <1>6, <2>1, <2>2, <3>1, <3>2
            DEF Sound, Held, Fine, RowsThere, EntriesThere, SyncOrder, AddedFree
  <2>3. CASE req[q].op # "drop" /\ req'[q] = req[q]
    BY <1>6, <2>1, <2>3 DEF Sound, Held, Fine, RowsThere, EntriesThere, SyncOrder, AddedFree,
                            Added, Hidden, Read
  <2>4. CASE req[q].op = "form" /\ req'[q].at = "gone"
    <3>1. req'[q].op = "form" BY <1>2, <2>4, WithoutOwnersFacts
    <3> QED BY <2>4, <3>1 DEF Sound, Held, RowsThere, EntriesThere, SyncOrder, AddedFree
  <2> QED BY <1>2, <2>2, <2>3, <2>4, WithoutOwnersFacts, RequestFacts
<1>10. \A q \in Requests : Syncing(req'[q]) => req'[q] = req[q]
  BY <1>2, WithoutOwnersFacts DEF Syncing
<1>11. \A q, t \in Requests : q # t => Apart(req'[q], req'[t])
  BY <1>10 DEF Inv, Apart
<1> QED BY <1>5, <1>7, <1>8, <1>9, <1>11 DEF Inv, Apart, Touched, Syncing, Added, Hidden

LEMMA RemovalsKeep ==
  ASSUME Inv, NEW r \in Requests, RemoveUsers(r) \/ RemoveGroup(r)
  PROVE  Inv'
<1>1. CASE RemoveUsers(r) BY <1>1, GoneKeeps DEF RemoveUsers, Owners
<1>2. CASE RemoveGroup(r)
  <2>1. PICK g \in Groups : Gone(r, {g}) BY <1>2 DEF RemoveGroup
  <2>2. {g} \in SUBSET Owners BY DEF Owners
  <2> QED BY <2>1, <2>2, GoneKeeps
<1> QED BY <1>1, <1>2

-----------------------------------------------------------------------------
(* Requests that write the catalogs. *)

Entries == [Catalogs -> [Keys -> Row \cup {NoRow}]]

\* Entries come and change, but none goes; what another synchronisation has flushed as
\* new stays without a row.
LEMMA EntriesWritten ==
  ASSUME Inv, NEW r \in Requests, Ends(r) \/ (AtOnce(r) /\ UNCHANGED req),
         catalog' \in Entries,
         \A c \in Catalogs, k \in Keys : catalog[c][k] # NoRow => catalog'[c][k] # NoRow,
         \A s \in Requests : req'[s] = req[s] /\ Syncing(req[s]) =>
           \A c \in req[s].flushed : \A k \in Added(req[s], c) : catalog'[c][k] = NoRow,
         UNCHANGED <<redmine, notify, history, edits>>
  PROVE  Inv'
<1>1. TypeOK BY DEF Inv
<1>2. \A s \in Requests : req'[s] = req[s] \/ req'[s] = Idle BY <1>1 DEF Ends, TypeOK
<1>3. req' \in [Requests -> RequestType] /\ requests' \in 0..MaxRequests
  BY <1>1, Requested, IdleSound, SubscriptionsAssumption DEF Ends, AtOnce, Free, TypeOK
<1>4. TypeOK' BY <1>1, <1>3 DEF TypeOK, RequestType, Entries, history
<1>5. \A k \in Keys \cup {All} : Fine(k) => Fine(k)' BY CatalogFacts DEF Fine, history
<1>6. KeysComeFromCatalog'
  <2> SUFFICES ASSUME NEW o \in Owners, notify[o] # NoRow, NEW k \in notify[o] \ {All}
               PROVE  catalog'[Statuses][k] # NoRow \/ k \in overlapped
    BY DEF KeysComeFromCatalog, history
  <2>1. k \in Keys BY <1>1 DEF TypeOK, Lists
  <2> QED BY <2>1, CatalogFacts DEF Inv, KeysComeFromCatalog
<1>7. SavedListsKept' BY DEF Inv, SavedListsKept, history
<1>8. ASSUME NEW s \in Requests PROVE Sound(req[s])'
  <2>1. CASE req'[s] = Idle
    BY <2>1 DEF Idle, Sound, Held, RowsThere, EntriesThere, SyncOrder, AddedFree
  <2>2. CASE req'[s] = req[s]
    <3>1. req[s] \in RequestType /\ Sound(req[s]) BY <1>1, Requested DEF Inv
    <3>2. Held(req[s])'
      <4>1. CASE req[s].op = "form"
        <5>1. req[s].new \subseteq Keys \cup {All} BY <3>1, <4>1, RequestFacts DEF FormType, Lists
        <5> QED BY <1>5, <2>2, <3>1, <4>1, <5>1 DEF Sound, Held
      <4>2. CASE req[s].op = "create"
        <5>1. req[s].new \subseteq Keys \cup {All} BY <3>1, <4>2, RequestFacts DEF CreateType, Lists
        <5> QED BY <1>5, <2>2, <3>1, <4>2, <5>1 DEF Sound, Held
      <4>3. CASE req[s].op = "drop"
        <5>1. \A o \in Owners : Names(req[s].lists[o], req[s].key)
                                  => req[s].lists[o] \subseteq Keys \cup {All}
          BY <3>1, <4>3, RequestFacts DEF DropType, Lists, Names
        <5> QED BY <1>5, <2>2, <3>1, <4>3, <5>1 DEF Sound, Held
      <4> QED BY <2>2, <4>1, <4>2, <4>3 DEF Held
    <3>3. RowsThere(req[s])' BY <2>2, <3>1 DEF Sound, RowsThere
    <3>4. EntriesThere(req[s])'
      <4>1. CASE req[s].op = "toggle"
        <5>1. req[s].kind \in Catalogs /\ req[s].key \in Keys
          BY <3>1, <4>1, RequestFacts DEF ToggleType
        <5> QED BY <2>2, <3>1, <4>1, <5>1 DEF Sound, EntriesThere
      <4>2. CASE req[s].op = "sync"
        <5>1. \A c \in Catalogs : Hidden(req[s], c) \subseteq Keys
          BY <3>1, <4>2, RequestFacts DEF SyncType, SectionType, Hidden
        <5> QED BY <2>2, <3>1, <4>2, <5>1 DEF Sound, EntriesThere, Hidden
      <4> QED BY <2>2, <4>1, <4>2 DEF EntriesThere
    <3>5. SyncOrder(req[s])' BY <2>2, <3>1 DEF Sound, SyncOrder, Read
    <3>6. AddedFree(req[s])' BY <2>2 DEF Syncing, AddedFree, Added
    <3> QED BY <3>2, <3>3, <3>4, <3>5, <3>6 DEF Sound
  <2> QED BY <1>2, <2>1, <2>2
<1>9. \A s, t \in Requests : s # t => Apart(req'[s], req'[t]) BY <1>2, IdleSound DEF Inv
<1> QED BY <1>4, <1>6, <1>7, <1>8, <1>9 DEF Inv, Apart, Touched, Syncing, Added, Hidden

\* What a synchronisation has flushed is locked, and has no row.
LEMMA FlushedLocked ==
  ASSUME Inv, NEW s \in Requests, Syncing(req[s]), NEW c \in req[s].flushed, NEW k \in Added(req[s], c)
  PROVE  c \in Catalogs /\ k \in Keys /\ EntryLocked(c, k) /\ catalog[c][k] = NoRow
<1>1. req[s] \in SyncType /\ Sound(req[s])
  BY Requested, RequestFacts DEF Inv, Syncing
<1>2. c \in Catalogs /\ k \in Keys BY <1>1 DEF SyncType, SectionType, Added
<1>3. EntryLocked(c, k) BY DEF EntryLocked, Syncing, Added
<1> QED BY <1>1, <1>2, <1>3 DEF Sound, AddedFree, Syncing

LEMMA ToggleKeeps ==
  ASSUME Inv, NEW r \in Requests, ToggleCommit(r) \/ AddEntry(r)
  PROVE  Inv'
<1>1. TypeOK /\ Sound(req[r]) /\ req[r] \in RequestType BY Requested DEF Inv
<1>2. ASSUME NEW c \in Catalogs, NEW k \in Keys, NEW row \in Row, ~EntryLocked(c, k),
             catalog' = [catalog EXCEPT ![c][k] = row],
             Ends(r) \/ (AtOnce(r) /\ UNCHANGED req),
             UNCHANGED <<redmine, notify, history, edits>>
      PROVE  Inv'
  <2>1. catalog' \in Entries BY <1>1, <1>2 DEF TypeOK, Entries
  <2>2. \A d \in Catalogs, l \in Keys :
          catalog'[d][l] = IF d = c /\ l = k THEN row ELSE catalog[d][l]
    BY <1>1, <1>2 DEF TypeOK
  <2>3. row # NoRow BY SubscriptionsAssumption
  <2>4. \A s \in Requests : Syncing(req[s]) =>
          \A d \in req[s].flushed : \A l \in Added(req[s], d) : catalog'[d][l] = NoRow
    BY <1>2, <2>2, FlushedLocked
  <2>5. \A d \in Catalogs, l \in Keys : catalog[d][l] # NoRow => catalog'[d][l] # NoRow
    BY <2>2, <2>3
  <2> QED BY <1>2, <2>1, <2>4, <2>5, EntriesWritten
<1>3. CASE ToggleCommit(r)
  <2> DEFINE c == req[r].kind  k == req[r].key
  <2>1. req[r] \in ToggleType BY <1>1, <1>3, RequestFacts DEF ToggleCommit
  <2>2. CASE req[r].gone BY <1>3, <2>2, Ended DEF ToggleCommit
  <2>3. CASE ~req[r].gone
    <3>1. c \in Catalogs /\ k \in Keys /\ req[r].value \in BOOLEAN
          /\ req[r].field \in {"active", "default"}
      BY <2>1 DEF ToggleType
    <3>2. catalog[c][k] \in Row BY <1>1, <1>3, <2>3, <3>1 DEF ToggleCommit, Sound, EntriesThere, TypeOK
    <3> DEFINE row == [catalog[c][k] EXCEPT ![req[r].field] = req[r].value]
    <3>3. row \in Row BY <3>1, <3>2 DEF Row
    <3>4. catalog' = [catalog EXCEPT ![c][k] = row]
      BY <1>1, <1>3, <2>3, <3>1 DEF ToggleCommit, TypeOK
    <3> HIDE DEF row
    <3> QED BY <1>2, <1>3, <2>3, <3>1, <3>3, <3>4 DEF ToggleCommit
  <2> QED BY <2>2, <2>3
<1>4. CASE AddEntry(r)
  <2>1. PICK k \in Keys :
          /\ ~EntryLocked(Statuses, k)
          /\ catalog' = [catalog EXCEPT ![Statuses][k] = [active |-> TRUE, default |-> FALSE]]
    BY <1>4 DEF AddEntry
  <2>2. [active |-> TRUE, default |-> FALSE] \in Row BY DEF Row
  <2> QED BY <1>2, <1>4, <2>1, <2>2, CatalogFacts DEF AddEntry
<1> QED BY <1>3, <1>4

\* What a synchronisation commits: new entries where there was none, and hidden ones.
LEMMA SyncWrites ==
  ASSUME Inv, NEW r \in Requests, SyncCommit(r), ~SyncLost(req[r])
  PROVE  /\ catalog' = [c \in Catalogs |-> [k \in Keys |-> Synced(req[r], c, k)]]
         /\ Syncing(req[r]) /\ req[r] \in SyncType
         /\ \A c \in Catalogs : \A k \in Added(req[r], c) : k \in Keys /\ catalog[c][k] = NoRow
         /\ \A c \in Catalogs : \A k \in Hidden(req[r], c) : k \in Keys /\ catalog[c][k] \in Row
<1>1. TypeOK /\ Sound(req[r]) BY DEF Inv
<1>2. req[r] \in SyncType /\ Syncing(req[r])
  BY <1>1, Requested, RequestFacts DEF SyncCommit, SyncLost, Syncing
<1>3. \A c \in Catalogs : Added(req[r], c) \subseteq Keys /\ Hidden(req[r], c) \subseteq Keys
  BY <1>2 DEF SyncType, SectionType, Added, Hidden
<1>4. ASSUME NEW c \in Catalogs, NEW k \in Added(req[r], c) PROVE catalog[c][k] = NoRow
  <2>1. CASE c \in req[r].flushed BY <1>1, <1>2, <2>1 DEF Sound, AddedFree, Syncing
  <2>2. CASE c \notin req[r].flushed /\ c \in Read(req[r])
    BY <2>2 DEF SyncLost, Clashes
  <2>3. CASE c \notin Read(req[r])
    <3>1. req[r].section[c] = Unread BY <1>1, <1>2, <2>3 DEF Sound, SyncOrder, Read, SyncCommit
    <3> QED BY <3>1 DEF Unread, Added
  <2> QED BY <2>1, <2>2, <2>3
<1>5. ASSUME NEW c \in Catalogs, NEW k \in Hidden(req[r], c) PROVE catalog[c][k] \in Row
  BY <1>1, <1>2, <1>3 DEF Sound, EntriesThere, Syncing, TypeOK
<1> QED BY <1>2, <1>3, <1>4, <1>5 DEF SyncCommit

LEMMA SyncCommitKeeps ==
  ASSUME Inv, NEW r \in Requests, SyncCommit(r)
  PROVE  Inv'
<1>1. CASE SyncLost(req[r])
  <2>1. UNCHANGED catalog BY <1>1 DEF SyncCommit
  <2> QED BY <2>1, Ended DEF SyncCommit
<1>2. CASE ~SyncLost(req[r])
  <2> DEFINE q == req[r]
  <2>1. TypeOK /\ ~MustWait(q) /\ Ends(r) BY <1>2 DEF Inv, SyncCommit, SyncLost
  <2>2. /\ catalog' = [c \in Catalogs |-> [k \in Keys |-> Synced(q, c, k)]]
        /\ Syncing(q) /\ q \in SyncType
        /\ \A c \in Catalogs : \A k \in Added(q, c) : k \in Keys /\ catalog[c][k] = NoRow
        /\ \A c \in Catalogs : \A k \in Hidden(q, c) : k \in Keys /\ catalog[c][k] \in Row
    BY <1>2, SyncWrites
  <2>3. ASSUME NEW c \in Catalogs, NEW k \in Keys
        PROVE  /\ Synced(q, c, k) \in Row \cup {NoRow}
               /\ catalog[c][k] # NoRow => Synced(q, c, k) # NoRow
               /\ k \notin Touched(q, c) => Synced(q, c, k) = catalog[c][k]
    <3>1. catalog[c][k] \in Row \cup {NoRow} BY <2>1 DEF TypeOK
    <3>2. Added(q, c) \cap Hidden(q, c) = {} BY DEF Added, Hidden
    <3>3. CASE k \in Added(q, c)
      <4>1. Synced(q, c, k) = [active |-> TRUE, default |-> FALSE] BY <3>2, <3>3 DEF Synced
      <4> QED BY <2>2, <3>3, <4>1 DEF Row, Touched
    <3>4. CASE k \in Hidden(q, c)
      <4>1. Synced(q, c, k) = [catalog[c][k] EXCEPT !.active = FALSE]
        BY <3>2, <3>4 DEF Synced
      <4>2. Synced(q, c, k) \in Row BY <2>2, <3>4, <4>1 DEF Row
      <4> QED BY <3>4, <4>2, SubscriptionsAssumption DEF Touched
    <3>5. CASE k \notin Touched(q, c)
      <4>1. Synced(q, c, k) = catalog[c][k] BY <3>5 DEF Synced, Touched
      <4> QED BY <3>1, <4>1
    <3> QED BY <3>3, <3>4, <3>5 DEF Touched
  <2>4. catalog' \in Entries BY <2>2, <2>3 DEF Entries
  <2>5. \A c \in Catalogs, k \in Keys : catalog[c][k] # NoRow => catalog'[c][k] # NoRow
    BY <2>2, <2>3
  <2>6. ASSUME NEW s \in Requests, req'[s] = req[s], Syncing(req[s]),
               NEW c \in req[s].flushed, NEW k \in Added(req[s], c)
        PROVE  catalog'[c][k] = NoRow
    <3>1. s # r BY <2>1, <2>2, <2>6 DEF Ends, TypeOK, Syncing, Idle
    <3>2. c \in Catalogs /\ k \in Keys /\ EntryLocked(c, k) /\ catalog[c][k] = NoRow
      BY <2>6, FlushedLocked
    <3>3. k \notin Touched(q, c)
      <4>1. CASE c \in q.flushed BY <2>2, <2>6, <3>1, <4>1 DEF Inv, Apart, Touched
      <4>2. CASE c \notin q.flushed /\ c \in Read(q)
        BY <2>1, <3>2, <4>2 DEF MustWait, Touched
      <4>3. CASE c \notin Read(q)
        <5>1. q.section[c] = Unread
          BY <2>2, <3>2, <4>3 DEF Inv, Sound, SyncOrder, Read, Syncing
        <5> QED BY <5>1 DEF Unread, Added, Hidden, Touched
      <4> QED BY <4>1, <4>2, <4>3
    <3> QED BY <2>2, <2>3, <3>2, <3>3
  <2> QED BY <2>1, <2>4, <2>5, <2>6, EntriesWritten DEF SyncCommit
<1> QED BY <1>1, <1>2

-----------------------------------------------------------------------------
(* Entries that are deleted. *)

LEMMA WithoutEntryFacts ==
  ASSUME NEW q \in RequestType, NEW c \in Catalogs, NEW k \in Keys
  PROVE  /\ WithoutEntry(q, c, k) \in RequestType
         /\ WithoutEntry(q, c, k).op = q.op
         /\ q.op \in {"idle", "form", "create"} => WithoutEntry(q, c, k) = q
         /\ q.op = "drop" => /\ WithoutEntry(q, c, k).lists = q.lists
                             /\ WithoutEntry(q, c, k).key = q.key
                             /\ WithoutEntry(q, c, k).failed = q.failed
         /\ q.op = "toggle" =>
              /\ WithoutEntry(q, c, k).kind = q.kind /\ WithoutEntry(q, c, k).key = q.key
              /\ ~WithoutEntry(q, c, k).gone => ~q.gone /\ <<q.kind, q.key>> # <<c, k>>
         /\ q.op = "sync" =>
              /\ WithoutEntry(q, c, k).section = q.section /\ WithoutEntry(q, c, k).flushed = q.flushed
              /\ WithoutEntry(q, c, k).at = q.at
              /\ ~WithoutEntry(q, c, k).failed => WithoutEntry(q, c, k) = q /\ k \notin Hidden(q, c)
<1> DEFINE p == WithoutEntry(q, c, k)
<1>1. CASE q.op = "drop"
  <2>1. q \in DropType BY <1>1, RequestFacts
  <2>2. [q EXCEPT !.row = FALSE] \in DropType BY <2>1 DEF DropType
  <2>3. p \in {q, [q EXCEPT !.row = FALSE]} BY <1>1 DEF WithoutEntry
  <2> QED BY <1>1, <2>1, <2>2, <2>3 DEF DropType, RequestType
<1>2. CASE q.op = "toggle"
  <2>1. q \in ToggleType BY <1>2, RequestFacts
  <2>2. [q EXCEPT !.gone = TRUE] \in ToggleType BY <2>1 DEF ToggleType
  <2>3. p = IF q.kind = c /\ q.key = k THEN [q EXCEPT !.gone = TRUE] ELSE q
    BY <1>2 DEF WithoutEntry
  <2> QED BY <1>2, <2>1, <2>2, <2>3 DEF ToggleType, RequestType
<1>3. CASE q.op = "sync"
  <2>1. q \in SyncType BY <1>3, RequestFacts
  <2>2. [q EXCEPT !.failed = TRUE] \in SyncType BY <2>1 DEF SyncType
  <2>3. p = IF k \in Hidden(q, c) THEN [q EXCEPT !.failed = TRUE] ELSE q
    BY <1>3 DEF WithoutEntry, Hidden
  <2> QED BY <1>3, <2>1, <2>2, <2>3 DEF SyncType, RequestType
<1>4. CASE q.op \notin {"drop", "toggle", "sync"}
  <2>1. p = q BY <1>4 DEF WithoutEntry
  <2> QED BY <1>4, <2>1
<1> QED BY <1>1, <1>2, <1>3, <1>4

\* A request that goes on while an entry is deleted: what it will write is named by a
\* deletion that overlapped, or is still there.
LEMMA StillSound ==
  ASSUME TypeOK, NEW r \in Requests, Sound(req[r]), NEW c \in Catalogs, NEW k \in Keys,
         req'[r] = WithoutEntry(req[r], c, k),
         catalog' = [catalog EXCEPT ![c][k] = NoRow], overlapped \subseteq overlapped',
         c = Statuses /\ HoldsKey(req[r], k) => k \in overlapped',
         req[r].op = "drop" /\ ~req[r].failed =>
           \A o \in Owners : Names(req[r].lists[o], req[r].key) => notify'[o] # NoRow
  PROVE  Sound(req[r])'
<1> DEFINE q == req[r]  p == req'[r]
<1>1. q \in RequestType /\ Sound(q) /\ p = WithoutEntry(q, c, k) BY Requested
<1>2. \A d \in Catalogs, j \in Keys :
        catalog'[d][j] = IF d = c /\ j = k THEN NoRow ELSE catalog[d][j]
  BY DEF TypeOK
<1>3. ASSUME NEW j \in Keys \cup {All}, Fine(j), j # k \/ c # Statuses \/ k \in overlapped'
      PROVE  Fine(j)'
  BY <1>1, <1>2, <1>3, CatalogFacts DEF Fine
<1> HIDE DEF p, q
<1>4. CASE q.op = "form"
  <2>1. p = q /\ q.new \subseteq Keys \cup {All}
    BY <1>1, <1>4, WithoutEntryFacts, RequestFacts DEF FormType, Lists
  <2>2. q.at # "gone" => \A j \in q.new : Fine(j)'
    BY <1>1, <1>3, <1>4, <2>1 DEF Sound, Held, HoldsKey, q
  <2> QED BY <1>1, <1>4, <2>1, <2>2 DEF p, Sound, Held, RowsThere, EntriesThere, SyncOrder, AddedFree
<1>5. CASE q.op = "create"
  <2>1. p = q /\ q.new \subseteq Keys \cup {All}
    BY <1>1, <1>5, WithoutEntryFacts, RequestFacts DEF CreateType, Lists
  <2>2. \A j \in q.new : Fine(j)'
    BY <1>1, <1>3, <1>5, <2>1 DEF Sound, Held, HoldsKey, q
  <2> QED BY <1>1, <1>5, <2>1, <2>2 DEF p, Sound, Held, RowsThere, EntriesThere, SyncOrder, AddedFree
<1>6. CASE q.op = "drop"
  <2>1. p.op = "drop" /\ p.lists = q.lists /\ p.key = q.key /\ p.failed = q.failed
    BY <1>1, <1>6, WithoutEntryFacts
  <2>2. ASSUME NEW o \in Owners, Names(q.lists[o], q.key), NEW j \in q.lists[o] \ {q.key}
        PROVE  Fine(j)'
    <3>1. j \in Keys \cup {All} BY <1>1, <1>6, <2>2, RequestFacts DEF DropType, Lists, Names
    <3>2. Fine(j) BY <1>1, <1>6, <2>2 DEF Sound, Held
    <3>3. j = k => HoldsKey(q, k) BY <1>1, <1>6, <2>2 DEF HoldsKey, Affected
    <3> QED BY <1>3, <3>1, <3>2, <3>3 DEF q
  <2>3. ~q.failed => \A o \in Owners : Names(q.lists[o], q.key) => notify'[o] # NoRow
    BY <1>6 DEF q
  <2> QED BY <2>1, <2>2, <2>3 DEF p, Sound, Held, RowsThere, EntriesThere, SyncOrder, AddedFree
<1>7. CASE q.op = "toggle"
  <2>1. /\ p.op = "toggle" /\ p.kind = q.kind /\ p.key = q.key
        /\ ~p.gone => ~q.gone /\ <<q.kind, q.key>> # <<c, k>>
    BY <1>1, <1>7, WithoutEntryFacts
  <2>2. q.kind \in Catalogs /\ q.key \in Keys BY <1>1, <1>7, RequestFacts DEF ToggleType
  <2>3. ~p.gone => catalog'[p.kind][p.key] # NoRow
    BY <1>1, <1>2, <1>7, <2>1, <2>2 DEF Sound, EntriesThere
  <2> QED BY <1>1, <2>1, <2>3 DEF p, Sound, Held, RowsThere, EntriesThere, SyncOrder, AddedFree
<1>8. CASE q.op = "sync"
  <2>1. /\ p.op = "sync" /\ p.section = q.section /\ p.flushed = q.flushed /\ p.at = q.at
        /\ ~p.failed => p = q /\ k \notin Hidden(q, c)
    BY <1>1, <1>8, WithoutEntryFacts
  <2>2. q \in SyncType BY <1>1, <1>8, RequestFacts
  <2>3. SyncOrder(p) BY <1>1, <1>8, <2>1 DEF Sound, SyncOrder, Read
  <2>4. ASSUME ~p.failed, NEW d \in Catalogs, NEW j \in Hidden(p, d) PROVE catalog'[d][j] # NoRow
    <3>1. j \in Keys BY <1>1, <2>1, <2>2, <2>4 DEF SyncType, SectionType, Hidden
    <3> QED BY <1>1, <1>2, <1>8, <2>1, <2>4, <3>1 DEF Sound, EntriesThere
  <2>5. ASSUME ~p.failed, NEW d \in p.flushed, NEW j \in Added(p, d) PROVE catalog'[d][j] = NoRow
    <3>1. d \in Catalogs /\ j \in Keys BY <1>1, <2>1, <2>2, <2>5 DEF SyncType, SectionType, Added
    <3> QED BY <1>1, <1>2, <1>8, <2>1, <2>5, <3>1 DEF Sound, AddedFree
  <2> QED BY <1>1, <2>1, <2>3, <2>4, <2>5
          DEF p, Sound, Held, RowsThere, EntriesThere, SyncOrder, AddedFree, Added, Hidden, Read
<1>9. CASE q.op = "idle"
  <2>1. p = q BY <1>1, <1>9, WithoutEntryFacts
  <2> QED BY <1>1, <1>9, <2>1 DEF p, Sound, Held, RowsThere, EntriesThere, SyncOrder, AddedFree
<1> QED BY <1>1, <1>4, <1>5, <1>6, <1>7, <1>8, <1>9, RequestFacts

LEMMA DeleteEntryKeeps ==
  ASSUME Inv, NEW r \in Requests, DeleteEntry(r)
  PROVE  Inv'
<1>1. TypeOK BY DEF Inv
<1>2. PICK c \in Catalogs \ {Statuses}, k \in Keys :
        /\ catalog' = [catalog EXCEPT ![c][k] = NoRow]
        /\ req' = [q \in Requests |-> WithoutEntry(req[q], c, k)]
  BY DEF DeleteEntry
<1>3. UNCHANGED <<redmine, notify, chosen, raced, overlapped, edits>> /\ requests' \in 0..MaxRequests
  BY <1>1, SubscriptionsAssumption DEF DeleteEntry, history, AtOnce, Free, TypeOK
<1>4. \A q \in Requests : req[q] \in RequestType /\ req'[q] = WithoutEntry(req[q], c, k)
  BY <1>1, <1>2, Requested
<1>5. TypeOK'
  <2>1. req' \in [Requests -> RequestType] BY <1>2, <1>4, WithoutEntryFacts
  <2>2. catalog' \in Entries BY <1>1, <1>2 DEF TypeOK, Entries
  <2> QED BY <1>1, <1>3, <2>1, <2>2 DEF TypeOK, RequestType, Entries
<1>6. catalog'[Statuses] = catalog[Statuses] BY <1>1, <1>2, CatalogFacts DEF TypeOK
<1>7. KeysComeFromCatalog' BY <1>3, <1>6 DEF Inv, KeysComeFromCatalog
<1>8. SavedListsKept' BY <1>3 DEF Inv, SavedListsKept
<1>9. ASSUME NEW q \in Requests PROVE Sound(req[q])'
  <2>1. Sound(req[q]) /\ RowsThere(req[q]) BY DEF Inv, Sound
  <2> QED BY <1>1, <1>2, <1>3, <1>4, <2>1, StillSound DEF RowsThere
<1>10. \A q \in Requests : Syncing(req'[q]) => req'[q] = req[q]
  BY <1>4, WithoutEntryFacts DEF Syncing
<1>11. \A q, t \in Requests : q # t => Apart(req'[q], req'[t])
  BY <1>10 DEF Inv, Apart
<1> QED BY <1>5, <1>7, <1>8, <1>9, <1>11 DEF Inv, Apart, Touched, Syncing, Added, Hidden

\* What the deletion of a status writes.
LEMMA DropWrites ==
  ASSUME Inv, NEW r \in Requests, DropCommit(r), ~req[r].failed, NEW k, k = req[r].key
  PROVE  /\ k \in Keys /\ req[r] \in DropType
         /\ \A o \in Owners :
              /\ o \in ToRewrite(req[r]) <=> Names(req[r].lists[o], k)
              /\ Names(req[r].lists[o], k) =>
                   /\ notify[o] # NoRow /\ req[r].lists[o] \in Lists
                   /\ notify'[o] = req[r].lists[o] \ {k} /\ notify'[o] \in Lists
              /\ ~Names(req[r].lists[o], k) => notify'[o] = notify[o]
              /\ notify'[o] = NoRow <=> notify[o] = NoRow
              /\ chosen'[o] = IF chosen[o] = NoRow THEN NoRow ELSE chosen[o] \ {k}
         /\ raced \subseteq raced' /\ overlapped \subseteq overlapped'
<1>1. TypeOK /\ Sound(req[r]) BY DEF Inv
<1>2. req[r] \in DropType BY <1>1, Requested, RequestFacts DEF DropCommit
<1>3. k \in Keys BY <1>2 DEF DropType
<1>4. /\ notify' = [o \in Owners |-> IF o \in ToRewrite(req[r]) THEN req[r].lists[o] \ {k} ELSE notify[o]]
      /\ chosen' = [o \in Owners |-> IF chosen[o] = NoRow THEN NoRow ELSE chosen[o] \ {k}]
      /\ raced \subseteq raced' /\ overlapped \subseteq overlapped'
  BY DEF DropCommit
<1>5. ASSUME NEW o \in Owners
      PROVE  /\ o \in ToRewrite(req[r]) <=> Names(req[r].lists[o], k)
             /\ Names(req[r].lists[o], k) =>
                  /\ notify[o] # NoRow /\ req[r].lists[o] \in Lists
                  /\ notify'[o] = req[r].lists[o] \ {k} /\ notify'[o] \in Lists
             /\ ~Names(req[r].lists[o], k) => notify'[o] = notify[o]
             /\ notify'[o] = NoRow <=> notify[o] = NoRow
  <2>1. o \in ToRewrite(req[r]) <=> Names(req[r].lists[o], k)
    BY DEF ToRewrite, Affected
  <2>2. CASE Names(req[r].lists[o], k)
    <3>1. req[r].lists[o] \in Lists BY <1>2, <2>2 DEF DropType, Names
    <3>2. notify'[o] = req[r].lists[o] \ {k} BY <1>4, <2>1, <2>2
    <3>3. notify'[o] \in Lists BY <3>1, <3>2 DEF Lists
    <3>4. notify[o] # NoRow BY <1>1, <2>2 DEF Sound, RowsThere, DropCommit
    <3> QED BY <2>1, <2>2, <3>1, <3>2, <3>3, <3>4, SubscriptionsAssumption
  <2>3. CASE ~Names(req[r].lists[o], k) BY <1>4, <2>1, <2>3
  <2> QED BY <2>1, <2>2, <2>3
<1> QED BY <1>2, <1>3, <1>4, <1>5

LEMMA DropCommitKeeps ==
  ASSUME Inv, NEW r \in Requests, DropCommit(r)
  PROVE  Inv'
<1>1. TypeOK /\ Sound(req[r]) BY DEF Inv
<1>2. CASE req[r].failed BY <1>2, Ended DEF DropCommit
<1>3. CASE ~req[r].failed
  <2> DEFINE k == req[r].key
  <2>1. /\ k \in Keys /\ req[r] \in DropType
        /\ \A o \in Owners :
             /\ Names(req[r].lists[o], k) =>
                  /\ notify[o] # NoRow /\ req[r].lists[o] \in Lists
                  /\ notify'[o] = req[r].lists[o] \ {k} /\ notify'[o] \in Lists
             /\ ~Names(req[r].lists[o], k) => notify'[o] = notify[o]
             /\ notify'[o] = NoRow <=> notify[o] = NoRow
             /\ chosen'[o] = IF chosen[o] = NoRow THEN NoRow ELSE chosen[o] \ {k}
        /\ raced \subseteq raced' /\ overlapped \subseteq overlapped'
    BY <1>3, DropWrites
  <2>2. /\ UNCHANGED <<redmine, edits, requests>>
        /\ catalog' = IF req[r].row THEN [catalog EXCEPT ![Statuses][k] = NoRow] ELSE catalog
        /\ req' = [q \in Requests |-> IF q = r THEN Idle
                                      ELSE IF req[r].row THEN WithoutEntry(req[q], Statuses, k)
                                      ELSE req[q]]
        /\ raced' = raced \cup {o \in Changed(req[r]) : Names(notify[o], k) \/ Names(req[r].lists[o], k)}
        /\ overlapped' \in {overlapped, overlapped \cup {k}}
        /\ \A q \in Requests \ {r} : HoldsKey(req[q], k) => k \in overlapped'
        /\ \A o \in Changed(req[r]) : Names(notify[o], k) => k \in overlapped'
    <3>1. UNCHANGED <<redmine, edits, requests>> BY <1>3 DEF DropCommit
    <3>2. catalog' = IF req[r].row THEN [catalog EXCEPT ![Statuses][k] = NoRow] ELSE catalog
      BY <1>3 DEF DropCommit
    <3>3. req' = [q \in Requests |-> IF q = r THEN Idle
                                     ELSE IF req[r].row THEN WithoutEntry(req[q], Statuses, k)
                                     ELSE req[q]]
      BY <1>3 DEF DropCommit
    <3>4. raced' = raced \cup {o \in Changed(req[r]) : Names(notify[o], k) \/ Names(req[r].lists[o], k)}
      BY <1>3 DEF DropCommit
    <3>5. overlapped' \in {overlapped, overlapped \cup {k}} BY <1>3 DEF DropCommit
    <3>6. ASSUME NEW q \in Requests \ {r}, HoldsKey(req[q], k) PROVE k \in overlapped'
      BY <1>3, <3>6 DEF DropCommit
    <3>7. ASSUME NEW o \in Changed(req[r]), Names(notify[o], k) PROVE k \in overlapped'
      BY <1>3, <3>7 DEF DropCommit
    <3> QED BY <3>1, <3>2, <3>3, <3>4, <3>5, <3>6, <3>7
  <2>3. \A q \in Requests : req[q] \in RequestType /\ Sound(req[q])
    BY <1>1, Requested DEF Inv
  <2>4. TypeOK'
    <3>1. req' \in [Requests -> RequestType]
      BY <2>1, <2>2, <2>3, IdleSound, WithoutEntryFacts, CatalogFacts
    <3>2. catalog' \in Entries BY <1>1, <2>1, <2>2, CatalogFacts DEF TypeOK, Entries
    <3>3. notify' \in [Owners -> Lists \cup {NoRow}]
      <4>1. \A o \in Owners : notify'[o] \in Lists \cup {NoRow} BY <1>1, <2>1 DEF TypeOK
      <4>2. notify' = [o \in Owners |-> notify'[o]] BY <1>3 DEF DropCommit
      <4> QED BY <4>1, <4>2
    <3>4. chosen' \in [Owners -> Lists \cup {NoRow}]
      <4>1. \A o \in Owners : chosen'[o] \in Lists \cup {NoRow} BY <1>1, <2>1 DEF TypeOK, Lists
      <4>2. chosen' = [o \in Owners |-> chosen'[o]] BY <1>3 DEF DropCommit
      <4> QED BY <4>1, <4>2
    <3>5. raced' \in SUBSET Owners /\ overlapped' \in SUBSET Keys
      BY <1>1, <2>1, <2>2 DEF TypeOK, Changed
    <3> QED BY <1>1, <2>2, <3>1, <3>2, <3>3, <3>4, <3>5 DEF TypeOK, RequestType, Entries
  <2>5. ASSUME NEW o \in Owners, notify[o] # NoRow, ~Names(req[r].lists[o], k), k \in notify[o]
        PROVE  o \in raced' /\ k \in overlapped'
    <3>1. o \in Changed(req[r]) /\ Names(notify[o], k) BY <2>5 DEF Changed, Names
    <3> QED BY <2>2, <3>1
  <2>6. \A j \in Keys \cup {All} : Fine(j) /\ j # k => Fine(j)'
    BY <1>1, <2>1, <2>2, CatalogFacts DEF Fine, TypeOK
  <2>7. KeysComeFromCatalog'
    <3> SUFFICES ASSUME NEW o \in Owners, notify'[o] # NoRow, NEW j \in notify'[o] \ {All}
                 PROVE  catalog'[Statuses][j] # NoRow \/ j \in overlapped'
      BY DEF KeysComeFromCatalog
    <3>1. CASE Names(req[r].lists[o], k)
      <4>1. j \in req[r].lists[o] \ {k} /\ j \in Keys BY <2>1, <3>1 DEF Lists
      <4>2. Fine(j) BY <1>1, <3>1, <4>1 DEF Sound, Held, DropCommit
      <4> QED BY <2>6, <4>1, <4>2 DEF Fine
    <3>2. CASE ~Names(req[r].lists[o], k)
      <4>1. notify[o] # NoRow /\ j \in notify[o] BY <2>1, <3>2
      <4>2. j \in Keys /\ Fine(j) BY <1>1, <4>1 DEF TypeOK, Lists, Inv, KeysComeFromCatalog, Fine
      <4>3. j = k => k \in overlapped' BY <2>5, <3>2, <4>1
      <4> QED BY <2>6, <4>2, <4>3 DEF Fine
    <3> QED BY <3>1, <3>2
  <2>8. SavedListsKept'
    <3> SUFFICES ASSUME NEW o \in Owners, o \notin raced' PROVE notify'[o] = chosen'[o]
      BY DEF SavedListsKept
    <3>1. notify[o] = chosen[o] BY <2>1 DEF Inv, SavedListsKept
    <3>2. CASE Names(req[r].lists[o], k)
      <4>1. notify[o] = req[r].lists[o] BY <2>1, <2>2, <3>2 DEF Changed
      <4> QED BY <2>1, <3>1, <3>2, <4>1
    <3>3. CASE ~Names(req[r].lists[o], k)
      <4>1. notify[o] # NoRow => notify[o] \ {k} = notify[o] BY <2>5, <3>3
      <4> QED BY <2>1, <3>1, <3>3, <4>1
    <3> QED BY <3>2, <3>3
  <2>9. ASSUME NEW q \in Requests PROVE Sound(req[q])'
    <3>1. CASE q = r
      <4>1. req'[q] = Idle BY <2>2, <3>1
      <4> QED BY <4>1 DEF Idle, Sound, Held, RowsThere, EntriesThere, SyncOrder, AddedFree
    <3>2. CASE q # r
      <4>1. req[q].op = "drop" /\ ~req[q].failed =>
              \A o \in Owners : Names(req[q].lists[o], req[q].key) => notify'[o] # NoRow
        BY <2>1, <2>3 DEF Sound, RowsThere
      <4>2. HoldsKey(req[q], k) => k \in overlapped' BY <2>2, <3>2
      <4>3. CASE req[r].row
        <5>1. req'[q] = WithoutEntry(req[q], Statuses, k) BY <2>2, <3>2, <4>3
        <5>2. catalog' = [catalog EXCEPT ![Statuses][k] = NoRow] BY <2>2, <4>3
        <5> QED BY <1>1, <2>1, <2>3, <4>1, <4>2, <5>1, <5>2, StillSound, CatalogFacts
      <4>4. CASE ~req[r].row
        <5>1. req'[q] = req[q] /\ catalog' = catalog BY <2>2, <3>2, <4>4
        <5>2. \A j : Fine(j) => Fine(j)' BY <2>1, <5>1 DEF Fine
        <5>3. Held(req[q])' BY <2>3, <5>1, <5>2 DEF Sound, Held
        <5> QED BY <2>3, <4>1, <5>1, <5>3
                DEF Sound, RowsThere, EntriesThere, SyncOrder, AddedFree, Added, Hidden, Read
      <4> QED BY <4>3, <4>4
    <3> QED BY <3>1, <3>2
  <2>10. \A q \in Requests : Syncing(req'[q]) => req'[q] = req[q]
    <3>1. ASSUME NEW q \in Requests, Syncing(req'[q]) PROVE req'[q] = req[q]
      <4>1. q # r BY <2>2, <3>1 DEF Syncing, Idle
      <4>2. req'[q] \in {req[q], WithoutEntry(req[q], Statuses, k)} BY <2>2, <4>1
      <4> QED BY <2>1, <2>3, <3>1, <4>2, WithoutEntryFacts, CatalogFacts DEF Syncing
    <3> QED BY <3>1
  <2>11. \A q, t \in Requests : q # t => Apart(req'[q], req'[t])
    BY <2>10 DEF Inv, Apart
  <2> QED BY <2>4, <2>7, <2>8, <2>9, <2>11 DEF Inv, Apart, Touched, Syncing, Added, Hidden
<1> QED BY <1>2, <1>3

-----------------------------------------------------------------------------
(* The whole. *)

LEMMA InvInit == Init => Inv
<1> SUFFICES ASSUME Init PROVE Inv OBVIOUS
<1>1. TypeOK
  <2>1. \A c \in Catalogs, k \in Keys : catalog[c][k] \in Row \cup {NoRow} BY DEF Init, Row
  <2>2. catalog \in Entries BY <2>1 DEF Init, Entries
  <2>3. redmine \in [Catalogs -> SUBSET Keys] BY SubscriptionsAssumption DEF Init
  <2>4. {All} \in Lists BY DEF Lists
  <2>5. notify \in [Owners -> Lists \cup {NoRow}] BY <2>4 DEF Init
  <2>6. req \in [Requests -> {Idle}] BY DEF Init
  <2>7. chosen = notify /\ raced = {} /\ overlapped = {} /\ requests = 0 /\ edits = 0 BY DEF Init
  <2> QED BY <2>2, <2>3, <2>5, <2>6, <2>7, SubscriptionsAssumption DEF TypeOK, Entries
<1>2. KeysComeFromCatalog /\ SavedListsKept
  BY DEF Init, KeysComeFromCatalog, SavedListsKept
<1>3. \A r \in Requests : req[r] = Idle BY DEF Init
<1> QED BY <1>1, <1>2, <1>3, IdleSound DEF Inv

LEMMA RedmineKeeps ==
  ASSUME Inv, RedmineChanges
  PROVE  Inv'
<1>1. UNCHANGED <<catalog, notify, req, history, requests>> BY DEF RedmineChanges
<1>2. TypeOK'
  <2>1. redmine' \in [Catalogs -> SUBSET Keys] /\ edits' \in 0..MaxEdits
    BY SubscriptionsAssumption DEF Inv, TypeOK, RedmineChanges
  <2> QED BY <1>1, <2>1 DEF Inv, TypeOK, history
<1> QED BY <1>1, <1>2 DEF Inv, KeysComeFromCatalog, SavedListsKept, Sound, Held, Fine, RowsThere,
    EntriesThere, SyncOrder, AddedFree, Apart, Touched, Syncing, Added, Hidden, Read, history

LEMMA InvStep == Inv /\ [Next]_vars => Inv'
<1> SUFFICES ASSUME Inv, [Next]_vars PROVE Inv' OBVIOUS
<1>1. CASE UNCHANGED vars
  BY <1>1 DEF vars, history, Inv, TypeOK, Active, KeysComeFromCatalog, SavedListsKept, Sound, Held, Fine,
     RowsThere, EntriesThere, SyncOrder, AddedFree, Apart, Touched, Syncing, Added, Hidden, Read
<1>2. CASE Next
  BY <1>2, DropReadKeeps, DropUsersKeeps, DropCommitKeeps, FormsKeep, FormLoadKeeps, WritersKeep,
     RemovalsKeep, ToggleReadKeeps, ToggleKeeps, DeleteEntryKeeps, SyncStartKeeps, SectionKeeps,
     SyncCommitKeeps, RedmineKeeps DEF Next
<1> QED BY <1>1, <1>2

\* Catalogs, lists and requests keep their types.
THEOREM TypeCorrect == Spec => []TypeOK
<1>1. Inv => TypeOK BY DEF Inv
<1> QED BY <1>1, InvInit, InvStep, PTL DEF Spec

\* What a list names has a row in the catalog, unless its deletion overlapped a request
\* that had read it.
THEOREM KeysKnown == Spec => []KeysComeFromCatalog
<1>1. Inv => KeysComeFromCatalog BY DEF Inv
<1> QED BY <1>1, InvInit, InvStep, PTL DEF Spec

\* A list is the one last saved for its row, less the statuses deleted since, unless two
\* requests went by the same list.
THEOREM SavedKept == Spec => []SavedListsKept
<1>1. Inv => SavedListsKept BY DEF Inv
<1> QED BY <1>1, InvInit, InvStep, PTL DEF Spec

\* Only an administrator shows again what was hidden.
THEOREM StaysHidden == Spec => HiddenStaysHidden
<1> DEFINE Hiding == \A c \in Catalogs, k \in Keys :
             /\ catalog[c][k] # NoRow /\ catalog'[c][k] # NoRow
             /\ ~catalog[c][k].active /\ catalog'[c][k].active
             => \E r \in Requests : req[r].op = "toggle" /\ req'[r] = Idle
<1>1. Inv /\ [Next]_vars => [Hiding]_vars
  <2> SUFFICES ASSUME Inv, Next, NEW c \in Catalogs, NEW k \in Keys,
                      catalog[c][k] # NoRow, catalog'[c][k] # NoRow,
                      ~catalog[c][k].active, catalog'[c][k].active
               PROVE  \E r \in Requests : req[r].op = "toggle" /\ req'[r] = Idle
    BY DEF Hiding
  <2>1. TypeOK BY DEF Inv
  <2>2. catalog'[c][k] # catalog[c][k] OBVIOUS
  <2>3. PICK r \in Requests :
          ToggleCommit(r) \/ AddEntry(r) \/ DeleteEntry(r) \/ DropCommit(r) \/ SyncCommit(r)
    BY <2>2 DEF Next, DropRead, DropUsers, UserForm, GroupForm, OwnForm, Asks, FormLoad, FormCommit,
       CreateRead, CreateCommit, Import, RemoveUsers, RemoveGroup, Gone, ToggleRead, SyncStart,
       SyncSection, RedmineChanges
  <2>4. CASE ToggleCommit(r) BY <2>1, <2>4 DEF ToggleCommit, Ends, TypeOK
  <2>5. CASE AddEntry(r) BY <2>1, <2>2, <2>5, CatalogFacts DEF AddEntry, TypeOK
  <2>6. CASE DeleteEntry(r)
    <3>1. PICK d \in Catalogs, j \in Keys : catalog' = [catalog EXCEPT ![d][j] = NoRow]
      BY <2>6 DEF DeleteEntry
    <3> QED BY <2>1, <2>2, <3>1 DEF TypeOK
  <2>7. CASE DropCommit(r)
    <3>1. catalog' \in {catalog, [catalog EXCEPT ![Statuses][req[r].key] = NoRow]}
      BY <2>7 DEF DropCommit
    <3> QED BY <2>1, <2>2, <3>1, CatalogFacts DEF TypeOK
  <2>8. CASE SyncCommit(r)
    <3>1. ~SyncLost(req[r]) BY <2>2, <2>8 DEF SyncCommit
    <3>2. /\ catalog' = [d \in Catalogs |-> [j \in Keys |-> Synced(req[r], d, j)]]
          /\ k \notin Added(req[r], c)
          /\ k \in Hidden(req[r], c) => catalog[c][k] \in Row
      BY <2>8, <3>1, SyncWrites
    <3>3. k \in Hidden(req[r], c) => catalog'[c][k] = [catalog[c][k] EXCEPT !.active = FALSE]
      BY <3>2 DEF Synced
    <3>4. k \notin Hidden(req[r], c) => catalog'[c][k] = catalog[c][k] BY <3>2 DEF Synced
    <3> QED BY <2>2, <3>2, <3>3, <3>4 DEF Row
  <2> QED BY <2>3, <2>4, <2>5, <2>6, <2>7, <2>8
<1> QED BY <1>1, InvInit, InvStep, PTL DEF Spec, HiddenStaysHidden
=============================================================================
