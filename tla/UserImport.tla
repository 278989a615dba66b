----------------------------- MODULE UserImport -----------------------------
(***************************************************************************)
(* The import of users from Redmine.  A scan reads which users there are,  *)
(* fetches a list of Redmine page by page, and looks each person up in the *)
(* directory of the homeserver, a batch of people at a time, all searches  *)
(* of a batch interleaved.  The page it shows stays open while others go   *)
(* on; an import posts the ticked rows of some page and inserts them one   *)
(* after the other, in one transaction: a unique id inserted by another    *)
(* open transaction makes it wait, PostgreSQL breaks a deadlock by failing *)
(* one of the two.                                                         *)
(* A request without credentials or by another than an administrator       *)
(* changes nothing and is left out.                                        *)
(***************************************************************************)
EXTENDS MatchRules, Sequences

CONSTANTS
  Groups,       \* entries that are memberships of a group, without a user
  Listings,     \* what Redmine may list under the URL, in order
  FirstListing, \* what it lists at first
  FirstPages,   \* pages of earlier scans, still open
  Limit,        \* entries Redmine sends at a time
  BatchSize,    \* people looked up at a time
  Stages,       \* rounds of queries for a person: directly, transliterated, two more
  Requests,
  NoRow, Placeholder, ByHand,      \* no row; rooms that come from no search
  MaxScans, MaxImports, MaxEdits   \* bounds

ResultType == [person : Persons, status : {"found", "existing", "not_found"},
               account : Accounts \cup {None}]

ASSUME ImportAssumption ==
  /\ Limit \in Nat \ {0} /\ BatchSize \in Nat \ {0} /\ Stages \in Nat \ {0}
  /\ Groups \subseteq Persons \ Humans
  /\ Listings \subseteq Seq(Persons) /\ FirstListing \in Listings
  /\ FirstPages \subseteq Seq(ResultType)
  /\ NoRow \notin Accounts \cup {Placeholder, ByHand}
  /\ MaxScans \in Nat /\ MaxImports \in Nat /\ MaxEdits \in Nat

VARIABLES
  listed,   \* what Redmine lists
  users,    \* the rooms of bot_users, by redmine_id
  pages,    \* the results administrators have before them
  req,
  scans, imports, edits
vars == <<listed, users, pages, req, scans, imports, edits>>
counters == <<scans, imports, edits>>

Idle == [op |-> "idle"]
Rooms == Accounts \cup {Placeholder, ByHand}

SearchType == [person : Persons, stage : 1..(Stages + 1), seen : SUBSET Accounts,
               answers : SUBSET Accounts, best : Accounts \cup {None}, raised : BOOLEAN]
ScanType(q) ==
  /\ q.at \in {"fetch", "match"}
  /\ q.known \subseteq Persons
  /\ q.offset \in Nat
  /\ q.listing \in Listings /\ q.steady \in BOOLEAN
  /\ q.got \in Seq(Persons)
  /\ q.batch \in Seq(SearchType) /\ Len(q.batch) <= BatchSize
  /\ q.results \in Seq(ResultType)
BulkType(q) ==
  /\ q.at \in {"check", "insert"} /\ q.failed \in BOOLEAN
  /\ q.body \in Seq(ResultType) /\ q.i \in 1..(Len(q.body) + 1)
  /\ q.created \subseteq Persons
  /\ q.rows \in [Persons -> Accounts \cup {Placeholder, NoRow}]

\* The type of every variable; an import holds no row it has not reported as created.
TypeOK ==
  /\ listed \in Listings
  /\ users \in [Persons -> Rooms \cup {NoRow}]
  /\ \A page \in pages : page \in Seq(ResultType)
  /\ \A r \in Requests :
       \/ req[r] = Idle
       \/ req[r].op = "scan" /\ ScanType(req[r])
       \/ req[r].op = "bulk" /\ BulkType(req[r])
            /\ \A p \in Persons : req[r].rows[p] # NoRow => p \in req[r].created
  /\ scans \in 0..MaxScans /\ imports \in 0..MaxImports /\ edits \in 0..MaxEdits

Init ==
  /\ listed = FirstListing
  /\ users = [p \in Persons |-> NoRow]
  /\ pages = FirstPages
  /\ req = [r \in Requests |-> Idle]
  /\ scans = 0 /\ imports = 0 /\ edits = 0

Goes(r, record) == req' = [req EXCEPT ![r] = record]
Ends(r) == Goes(r, Idle)
Scanning(r, at) == req[r].op = "scan" /\ req[r].at = at

-----------------------------------------------------------------------------
(* The scan. *)

ScanStart(r) ==
  /\ req[r] = Idle /\ scans < MaxScans /\ scans' = scans + 1
  /\ Goes(r, [op |-> "scan", at |-> "fetch", known |-> {p \in Persons : users[p] # NoRow},
              offset |-> 0, listing |-> listed, steady |-> TRUE,
              got |-> <<>>, batch |-> <<>>, results |-> <<>>])
  /\ UNCHANGED <<listed, users, pages, imports, edits>>

\* The next n elements after the first k.
Slice(seq, k, n) == SubSeq(seq, k + 1, IF k + n < Len(seq) THEN k + n ELSE Len(seq))

NewSearch(p) ==
  [person |-> p, stage |-> 1, seen |-> {}, answers |-> {}, best |-> None, raised |-> FALSE]

BatchMutant(people, done) ==
  LET next == Slice(people, done, BatchSize + 1)
  IN [i \in 1..Len(next) |-> NewSearch(next[i])]
\* The searches of the next batch of people.
Batch(people, done) ==
  LET next == Slice(people, done, BatchSize)
  IN [i \in 1..Len(next) |-> NewSearch(next[i])]

\* The elements at some positions, in their order.
Chosen(seq, at) ==
  LET upto[n \in 0..Len(seq)] ==
        IF n = 0 THEN <<>> ELSE IF n \in at THEN Append(upto[n - 1], seq[n]) ELSE upto[n - 1]
  IN upto[Len(seq)]

People(got) == Chosen(got, {n \in DOMAIN got : got[n] \in Humans})

\* The list is complete: on to the people in it, if there are any.
Fetched(r, got) ==
  IF People(got) = <<>>
    THEN Ends(r)
    ELSE Goes(r, [req[r] EXCEPT !.at = "match", !.offset = 0, !.got = People(got),
                                !.batch = Batch(People(got), 0)])

LastPageMutant(offset, total) == offset + Limit >= total
LastPage(offset, total) == offset >= total

Users(page) == {page[n] : n \in DOMAIN page} \ Groups

\* users.json and memberships.json come in pages; the list may change in between.  A page
\* without a user ends the paging, as the end of the list does.  (The memberships of groups
\* are dropped with the page; here they stay in "got" until People drops all who are none.)
FetchPage(r) ==
  /\ Scanning(r, "fetch")
  /\ LET q == req[r]
         page == Slice(listed, q.offset, Limit)
         got == q.got \o page
     IN IF Users(page) = {} THEN Fetched(r, q.got)
        ELSE IF LastPage(q.offset + Limit, Len(listed)) THEN Fetched(r, got)
        ELSE Goes(r, [q EXCEPT !.got = got, !.offset = @ + Limit])
  /\ UNCHANGED <<listed, users, pages, counters>>

\* The users of a group, or a single user, come in one answer.
FetchAll(r) ==
  /\ Scanning(r, "fetch") /\ req[r].offset = 0
  /\ \A n \in DOMAIN listed : listed[n] \notin Groups
  /\ Fetched(r, listed)
  /\ UNCHANGED <<listed, users, pages, counters>>

\* A query to Redmine that fails makes the whole list empty, and the scan end.
FetchFails(r) ==
  /\ Scanning(r, "fetch")
  /\ Ends(r)
  /\ UNCHANGED <<listed, users, pages, counters>>

Searching(s) == s.stage <= Stages

UnseenMutant(q, i, answer) == answer \ UNION {q.batch[j].seen : j \in DOMAIN q.batch}
\* Each search knows what it has seen itself.
Unseen(q, i, answer) == answer \ q.batch[i].seen

\* A round of queries for one person; queries that fail answer with nobody.
Search(r) ==
  /\ Scanning(r, "match")
  /\ \E i \in DOMAIN req[r].batch, answer \in SUBSET Accounts :
       LET s == req[r].batch[i]
           seen == s.seen \cup Unseen(req[r], i, answer)
           after == [s EXCEPT !.seen = seen, !.answers = @ \cup answer]
       IN /\ Searching(s)
          /\ IF BestMatches(s.person, seen) = {}
               THEN Goes(r, [req[r] EXCEPT !.batch[i] =
                                 [after EXCEPT !.stage = @ + 1]])
               ELSE \E best \in BestMatches(s.person, seen) :
                      Goes(r, [req[r] EXCEPT !.batch[i] =
                                 [after EXCEPT !.best = best, !.stage = Stages + 1]])
  /\ UNCHANGED <<listed, users, pages, counters>>

\* An answer that is no JSON raises; gather keeps the exception for this person.
SearchRaises(r) ==
  /\ Scanning(r, "match")
  /\ \E i \in DOMAIN req[r].batch :
       /\ Searching(req[r].batch[i])
       /\ Goes(r, [req[r] EXCEPT !.batch[i].raised = TRUE, !.batch[i].stage = Stages + 1])
  /\ UNCHANGED <<listed, users, pages, counters>>

Result(q, s) ==
  [person |-> s.person,
   status |-> IF s.person \in q.known THEN "existing"
              ELSE IF s.best = None THEN "not_found" ELSE "found",
   account |-> IF s.person \in q.known THEN None ELSE s.best]

\* All searches of the batch are done: the next batch, or the answer.
BatchDone(r) ==
  /\ Scanning(r, "match")
  /\ \A i \in DOMAIN req[r].batch : ~Searching(req[r].batch[i])
  /\ LET q == req[r]
         results == q.results \o [i \in DOMAIN q.batch |-> Result(q, q.batch[i])]
     IN IF Len(results) = Len(q.got)
          THEN Ends(r) /\ pages' = pages \cup {results}
          ELSE /\ Goes(r, [q EXCEPT !.results = results, !.batch = Batch(q.got, Len(results))])
               /\ UNCHANGED pages
  /\ UNCHANGED <<listed, users, counters>>

-----------------------------------------------------------------------------
(* The import. *)

\* What an administrator may have ticked: new people of a page, in its order.
Ticked(page, s) ==
  Chosen(page, {n \in DOMAIN page : page[n].person \in s /\ page[n].status # "existing"})

BulkStart(r) ==
  /\ req[r] = Idle /\ imports < MaxImports /\ imports' = imports + 1
  /\ \E page \in pages, s \in SUBSET Humans :
       /\ Ticked(page, s) # <<>>
       /\ Goes(r, [op |-> "bulk", at |-> "check", body |-> Ticked(page, s), i |-> 1,
                   failed |-> FALSE, created |-> {}, rows |-> [p \in Persons |-> NoRow]])
  /\ UNCHANGED <<listed, users, pages, scans, edits>>

Importing(r, at) == req[r].op = "bulk" /\ req[r].at = at /\ req[r].i <= Len(req[r].body)
Current(q) == q.body[q.i].person
NextRow(q) == [q EXCEPT !.at = "check", !.i = @ + 1]

\* Who has a row already is skipped.
Check(r) ==
  /\ Importing(r, "check") /\ ~req[r].failed
  /\ LET p == Current(req[r])
     IN Goes(r, IF users[p] # NoRow \/ req[r].rows[p] # NoRow
                  THEN NextRow(req[r]) ELSE [req[r] EXCEPT !.at = "insert"])
  /\ UNCHANGED <<listed, users, pages, counters>>

RoomFor(m) == IF m.account = None THEN Placeholder ELSE m.account

\* Another open transaction holds the unique id of the person.
HeldBy(q, r, p) == q # r /\ req[q].op = "bulk" /\ req[q].rows[p] # NoRow

FailedMutant(q) == [NextRow(q) EXCEPT !.rows = [p \in Persons |-> NoRow]]
\* A flush that fails has rolled everything back; the session is of no more use.
Failed(q) == [NextRow(q) EXCEPT !.rows = [p \in Persons |-> NoRow], !.failed = TRUE]

Insert(r) ==
  /\ Importing(r, "insert")
  /\ LET p == Current(req[r])
     IN /\ \A q \in Requests : ~HeldBy(q, r, p)
        /\ Goes(r, IF users[p] # NoRow
                     THEN Failed(req[r])
                     ELSE [NextRow(req[r]) EXCEPT !.created = @ \cup {p},
                                                  !.rows[p] = RoomFor(req[r].body[req[r].i])])
  /\ UNCHANGED <<listed, users, pages, counters>>

\* Two imports that wait for each other: PostgreSQL fails one of the INSERTs.
DeadlockBroken(r) ==
  /\ Importing(r, "insert")
  /\ \E q \in Requests : /\ HeldBy(q, r, Current(req[r]))
                         /\ Importing(q, "insert") /\ HeldBy(r, q, Current(req[q]))
  /\ Goes(r, Failed(req[r]))
  /\ UNCHANGED <<listed, users, pages, counters>>

\* Whatever comes next in a failed session raises: status 500, nothing is kept.
Raises(r) ==
  /\ req[r].op = "bulk" /\ req[r].failed
  /\ Ends(r)
  /\ UNCHANGED <<listed, users, pages, counters>>

BulkCommit(r) ==
  /\ req[r].op = "bulk" /\ req[r].i > Len(req[r].body) /\ ~req[r].failed
  /\ users' = [p \in Persons |-> IF req[r].rows[p] # NoRow THEN req[r].rows[p] ELSE users[p]]
  /\ Ends(r)
  /\ UNCHANGED <<listed, pages, counters>>

-----------------------------------------------------------------------------
(* Everybody else. *)

Edited == edits < MaxEdits /\ edits' = edits + 1

\* A user entered in the panel's form; the INSERT waits as the import's do.
AddByHand ==
  /\ Edited
  /\ \E p \in Humans :
       /\ users[p] = NoRow
       /\ \A q \in Requests : req[q].op = "bulk" => req[q].rows[p] = NoRow
       /\ users' = [users EXCEPT ![p] = ByHand]
  /\ UNCHANGED <<listed, pages, req, scans, imports>>

RemoveUser ==
  /\ Edited
  /\ \E p \in Humans : users[p] # NoRow /\ users' = [users EXCEPT ![p] = NoRow]
  /\ UNCHANGED <<listed, pages, req, scans, imports>>

RedmineChanges ==
  /\ Edited
  /\ \E l \in Listings : l # listed /\ listed' = l
  /\ req' = [r \in Requests |-> IF req[r].op = "scan" /\ req[r].at = "fetch"
                                  THEN [req[r] EXCEPT !.steady = FALSE] ELSE req[r]]
  /\ UNCHANGED <<users, pages, scans, imports>>

Step(r) ==
  \/ FetchPage(r) \/ FetchAll(r) \/ FetchFails(r) \/ Search(r) \/ SearchRaises(r) \/ BatchDone(r)
  \/ Check(r) \/ Insert(r) \/ DeadlockBroken(r) \/ Raises(r) \/ BulkCommit(r)

Next ==
  \/ \E r \in Requests : ScanStart(r) \/ BulkStart(r) \/ Step(r)
  \/ AddByHand \/ RemoveUser \/ RedmineChanges

Spec == Init /\ [][Next]_vars

-----------------------------------------------------------------------------
\* A person is offered the best account of all their own queries have brought, and none
\* only if none of these was good enough, whoever else in the batch was offered it
\* (user_matcher.py:668).
BestOfTheAnswers ==
  \A r \in Requests : req[r].op = "scan" =>
    \A i \in DOMAIN req[r].batch :
      LET s == req[r].batch[i] IN
      ~Searching(s) => \/ s.best \in BestMatches(s.person, s.answers)
                       \/ s.best = None /\ (s.raised \/ BestMatches(s.person, s.answers) = {})

\* The list is at its end, or goes on with memberships of groups for as long as a page.
NoUserFollows(list, n) == Users(Slice(list, n, Limit)) = {}

\* A scan shows everybody there is up to such a place, each once and in order, or nobody,
\* however pages and batches divide the list, unless it changed between two pages: nobody
\* is lost at the end of a page or of a batch (user_matcher.py:442, 579).
NobodyLostBetweenPages ==
  [][\A r \in Requests :
       req[r].op = "scan" /\ req'[r] = Idle /\ pages' # pages /\ req[r].steady =>
         \E page \in pages', n \in 0..Len(req[r].listing) :
           /\ NoUserFollows(req[r].listing, n)
           /\ [i \in DOMAIN page |-> page[i].person] = People(Slice(req[r].listing, 0, n))
           /\ pages' = pages \cup {page}]_vars

\* What an import answers is so: who it says was created has the row that was posted and
\* had none; after an error nothing was created; no row of others is touched
\* (user_import.py:197).
AnswerIsTrue ==
  [][\A r \in Requests :
       req[r].op = "bulk" /\ req'[r] = Idle =>
         /\ ~req[r].failed => \A p \in req[r].created :
              users[p] = NoRow /\ \E i \in DOMAIN req[r].body :
                req[r].body[i].person = p /\ users'[p] = RoomFor(req[r].body[i])
         /\ \A p \in Persons : req[r].failed \/ p \notin req[r].created => users'[p] = users[p]]_vars
=============================================================================
