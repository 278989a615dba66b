----------------------------- MODULE IssueCycle -----------------------------
(***************************************************************************)
(* One bot instance checking the issues of one user, cycle after cycle:    *)
(* the incremental query to Redmine, the state read from bot_issue_state,  *)
(* the loop over the issues with a wait at every notice, the upsert and    *)
(* its commit, last_check_time; and beside it the nightly cleanup, people  *)
(* who edit issues, failures, crashes.                                     *)
(***************************************************************************)
EXTENDS IssueRules

CONSTANTS
  Issues,         \* issues of the user
  Due,            \* issue -> day it is due, or Never
  UsedStatus,     \* statuses an issue may be given
  NewEntry,       \* journal entries people may write
  EditsAnyTime,   \* may people edit while a cycle runs
  MaxNow,         \* bound on the clock
  MaxEdits,       \* bound on the edits of each issue
  MaxTroubles     \* bound on crashes, failed transactions, failed queries, exceptions
                  \* in the loop's body and nightly cleanups, all together

ASSUME CycleAssumption ==
  /\ Due \in [Issues -> Int \cup {Never}]
  /\ UsedStatus \subseteq Status /\ NewEntry \subseteq Entry
  /\ EditsAnyTime \in BOOLEAN
  /\ {MaxNow, MaxEdits, MaxTroubles} \subseteq Nat

VARIABLES
  now,       \* the clock, one for Redmine, the bot and the database
  redmine,   \* issue -> status, journals, time of the last update
  db,        \* issue -> row of bot_issue_state
  lastCheck, \* last_check_time of the user: in memory only
  pc,        \* "idle", "fetched" or "processing"
  batch,     \* the fetched issues that are still to be processed
  mem,       \* what the cycle remembers of each issue
  changed,   \* issue_ids_changed so far
  outbox,    \* notices of the issue at hand not sent yet
  began,     \* the time the cycle took for "now", after it loaded the state
  openIds,   \* the open issues the running cleanup fetched, Never without one
  troubles,  \* crashes, failures and cleanups so far
  moves,     \* history: status changes per issue
  owed,      \* history: comments written while the bot remembered a journal id of the issue
  told,      \* history: how often each kind of notice was delivered to the user
  announced, \* history: notices of the present cycle
  covered,   \* history: journal entries that some issue_updated notice covers
  forgotten, \* history: how often the bot lost what it knew of an issue
  slipped    \* history: issues whose last update got out of the reach of the filter

env == <<redmine, moves, owed>>
cycle == <<lastCheck, pc, batch, mem, changed, outbox, began>>
history == <<told, announced, covered, forgotten>>
vars == <<now, env, db, cycle, openIds, troubles, history, slipped>>

\* open_status_ids of processor.py and of scheduler.py.
Fetched == {"New", "RV", "Reopened", "Work"}

Notice == {<<k, v>> : k \in Kind, v \in Via}
Row == [status : Status \cup {Never}, at : Int \cup {Never}, group : Int \cup {Never},
        jid : Nat \cup {Never}, rem : Int \cup {Never}, over : Int \cup {Never}]
Snapshot == [status : Status, journals : Seq(Entry), due : Int \cup {Never}]

TypeOK ==
  /\ now \in Nat /\ began \in Nat
  /\ redmine \in [Issues -> [status : Status, journals : Seq(Entry), updated : Nat]]
  /\ db \in [Issues -> Row] /\ mem \in [Issues -> Row]
  /\ lastCheck \in Nat \cup {Never}
  /\ pc \in {"idle", "fetched", "processing"}
  /\ DOMAIN batch \subseteq Issues /\ \A i \in DOMAIN batch : batch[i] \in Snapshot
  /\ changed \subseteq Issues
  /\ outbox \subseteq Issues \X Notice
  /\ openIds \in (SUBSET Issues) \cup {Never}
  /\ troubles \in Nat
  /\ {moves, forgotten} \subseteq [Issues -> Nat]
  /\ {owed, covered} \subseteq [Issues -> SUBSET Nat]
  /\ told \in [Issues -> [Kind -> Nat]]
  /\ announced \subseteq Issues \X Notice
  /\ slipped \subseteq Issues

NoBatch == [i \in {} |-> Never]

Init ==
  /\ now = 0
  /\ redmine \in [Issues -> {[status |-> s, journals |-> <<>>, updated |-> 0] :
                               s \in UsedStatus \cup {"Closed"}}]
  /\ db = [i \in Issues |-> Forgotten]
  /\ lastCheck = Never /\ pc = "idle" /\ batch = NoBatch
  /\ mem = [i \in Issues |-> Forgotten]
  /\ changed = {} /\ outbox = {} /\ began = 0 /\ openIds = Never
  /\ troubles = 0
  /\ moves = [i \in Issues |-> 0] /\ owed = [i \in Issues |-> {}]
  /\ told = [i \in Issues |-> [k \in Kind |-> 0]]
  /\ announced = {} /\ covered = [i \in Issues |-> {}]
  /\ forgotten = [i \in Issues |-> 0]
  /\ slipped = {}

-----------------------------------------------------------------------------
\* One more of what disturbs the cycles.
Trouble == troubles < MaxTroubles /\ troubles' = troubles + 1

\* External: people at work in Redmine.  Every edit writes a journal entry.
Edit(i, status, entry) ==
  /\ EditsAnyTime \/ pc = "idle"
  /\ Len(redmine[i].journals) < MaxEdits
  /\ status # redmine[i].status \/ entry # "status"
  /\ redmine' = [redmine EXCEPT ![i] = [status |-> status, journals |-> Append(@.journals, entry),
                                        updated |-> now]]
  /\ moves' = [moves EXCEPT ![i] = IF status # redmine[i].status THEN @ + 1 ELSE @]
  /\ owed' = [owed EXCEPT ![i] = IF db[i].jid # Never /\ entry = "comment"
                THEN @ \cup {Len(redmine[i].journals) + 1} ELSE @]
  /\ slipped' = IF pc = "idle" THEN slipped \ {i} ELSE slipped \cup {i}
  /\ UNCHANGED <<now, db, cycle, openIds, troubles, history>>

\* External: time.
Tick ==
  /\ now < MaxNow
  /\ now' = now + 1
  /\ UNCHANGED <<env, db, cycle, openIds, troubles, history, slipped>>

-----------------------------------------------------------------------------
IsOpen(i) == redmine[i].status \in Fetched

\* There is something in an open issue that the bot has not recorded.
Unrecorded(i) ==
  IsOpen(i) /\ (db[i].status # redmine[i].status \/ LastKnownId(db[i]) < Len(redmine[i].journals))

UpdatedSinceMutant(i, t) == t = Never \/ redmine[i].updated > t
\* The filter updated_on >= last_check; without a last check there is none.
UpdatedSince(i, t) == t = Never \/ redmine[i].updated >= t

SnapshotOf(S) ==
  [i \in S |-> [status |-> redmine[i].status, journals |-> redmine[i].journals, due |-> Due[i]]]

Asked(since) == {i \in Issues : IsOpen(i) /\ UpdatedSince(i, since)}

\* The query to Redmine.  When it fails to parse a date, the filter is dropped.
Fetch(since) ==
  /\ pc = "idle"
  /\ batch' = SnapshotOf(Asked(since))
  /\ pc' = "fetched"
  /\ UNCHANGED <<now, env, db, lastCheck, mem, changed, outbox, began, openIds, troubles, history,
                 slipped>>

\* The query fails: check_user_issues logs it and returns, and its caller cannot
\* tell this from success.
FetchFails ==
  /\ pc = "idle"
  /\ Trouble
  /\ lastCheck' = now
  /\ slipped' = slipped \cup Asked(lastCheck)
  /\ UNCHANGED <<now, env, db, pc, batch, mem, changed, outbox, began, openIds, history>>

LoadState ==
  /\ pc = "fetched"
  /\ mem' = [i \in Issues |-> FromRow(db[i])]
  /\ began' = now
  /\ pc' = "processing"
  /\ UNCHANGED <<now, env, db, lastCheck, batch, changed, outbox, openIds, troubles, history, slipped>>

\* One pass of the loop leaves st behind and sends notes one after the other.
Process(i, st, dirty, notes) ==
  /\ pc = "processing" /\ outbox = {}
  /\ mem' = [mem EXCEPT ![i] = st]
  /\ changed' = IF dirty THEN changed \cup {i} ELSE changed
  /\ outbox' = {i} \X notes
  /\ announced' = announced \cup ({i} \X notes)
  /\ covered' = [covered EXCEPT ![i] = IF <<"issue_updated", "personal">> \in notes
                                         THEN @ \cup NewEntries(batch[i], mem[i]) ELSE @]
  /\ batch' = [j \in DOMAIN batch \ {i} |-> batch[j]]
  /\ UNCHANGED <<now, env, db, lastCheck, pc, began, openIds, told>>

ProcessIssue(i) ==
  /\ i \in DOMAIN batch
  /\ LET w == Work(batch[i], mem[i], began, 4) IN Process(i, w.st, w.dirty, w.notes)
  /\ UNCHANGED <<troubles, forgotten, slipped>>

\* An exception in step k + 1, after some of its notices and before its result is
\* stored: the loop goes on with the next issue and keeps what the first k steps did.
ProcessRaises(i, k) ==
  /\ i \in DOMAIN batch
  /\ Trouble
  /\ slipped' = slipped \cup {i}
  /\ LET w == Work(batch[i], mem[i], began, k)
          v == Work(batch[i], mem[i], began, k + 1) IN
       \E notes \in SUBSET v.notes :
         /\ w.notes \subseteq notes
         /\ Process(i, w.st, w.dirty, notes)
         /\ forgotten' = IF notes # w.notes THEN [forgotten EXCEPT ![i] = @ + 1] ELSE forgotten

\* send_safe: the notice is delivered, or skipped (DND, working hours), or its last
\* attempt fails; the caller is told none of this.
Send(note, delivered) ==
  /\ outbox' = outbox \ {note}
  /\ told' = IF delivered /\ note[2][2] = "personal"
               THEN [told EXCEPT ![note[1]][note[2][1]] = @ + 1] ELSE told
  /\ UNCHANGED <<now, env, db, lastCheck, pc, batch, mem, changed, began, openIds, troubles,
                 announced, covered, forgotten, slipped>>

\* The session is closed and the local variables are gone.
EndCycle ==
  /\ pc' = "idle" /\ batch' = NoBatch /\ changed' = {} /\ outbox' = {} /\ began' = 0
  /\ mem' = [i \in Issues |-> Forgotten]
  /\ announced' = {}

\* Whole rows of the issues in issue_ids_changed are overwritten.
Upsert == [i \in Issues |-> IF i \in changed THEN ToRow(mem[i]) ELSE db[i]]

\* The upsert of the changed rows, the commit of the caller, last_check_time.
Commit ==
  /\ pc = "processing" /\ outbox = {} /\ batch = NoBatch
  /\ db' = Upsert
  /\ lastCheck' = now
  /\ EndCycle
  /\ UNCHANGED <<now, env, openIds, troubles, told, covered, forgotten>>
  /\ slipped' = {i \in slipped : Unrecorded(i)'}

\* The cycle is lost: its rows are not written, what was sent stays sent.
Lose ==
  /\ pc # "idle"
  /\ Trouble
  /\ EndCycle
  /\ forgotten' = [i \in Issues |-> IF i \in changed THEN forgotten[i] + 1 ELSE forgotten[i]]
  /\ UNCHANGED <<now, env, db, openIds, told, covered, slipped>>

RollbackMutant == Lose /\ lastCheck' = now
\* The database fails at the load, the upsert or the commit: rollback.
Rollback == Lose /\ UNCHANGED lastCheck

\* The process is killed and started again.
Crash == Lose /\ lastCheck' = Never

\* cleanup_state_files reads the open issues, and deletes the other rows later.
CleanupFetch ==
  /\ openIds = Never
  /\ Trouble
  /\ openIds' = {i \in Issues : IsOpen(i)}
  /\ UNCHANGED <<now, env, db, cycle, history, slipped>>

CleanupDelete ==
  /\ openIds # Never
  /\ db' = [i \in Issues |-> IF i \in openIds THEN db[i] ELSE Forgotten]
  /\ forgotten' = [i \in Issues |-> IF db[i] # db'[i] THEN forgotten[i] + 1 ELSE forgotten[i]]
  /\ owed' = [i \in Issues |-> IF i \in openIds THEN owed[i] ELSE {}]
  /\ slipped' = slipped \cup {i \in Issues : db[i] # db'[i]}
  /\ openIds' = Never
  /\ UNCHANGED <<now, redmine, moves, cycle, troubles, told, announced, covered>>

Next ==
  \/ \E i \in Issues, s \in UsedStatus \cup {"Closed"}, e \in NewEntry : Edit(i, s, e)
  \/ Tick
  \/ Fetch(lastCheck)
  \/ Fetch(Never)
  \/ FetchFails
  \/ LoadState
  \/ \E i \in Issues : ProcessIssue(i)
  \/ \E i \in Issues, k \in 0 .. 3 : ProcessRaises(i, k)
  \/ \E note \in outbox, delivered \in BOOLEAN : Send(note, delivered)
  \/ Commit
  \/ Rollback
  \/ Crash
  \/ CleanupFetch
  \/ CleanupDelete

Spec == Init /\ [][Next]_vars

-----------------------------------------------------------------------------
\* Nothing is told twice: a new issue is announced to the user once, a status change not
\* more often than there were changes, and each once more only when the bot lost what it
\* knew, to a crash, a rollback, an exception or a cleanup (scheduler.py:84, 241).
AnnouncedOnce(i) == told[i]["new"] <= 1 + forgotten[i]
StatusToldOnce(i) == told[i]["status_change"] <= moves[i] + forgotten[i]
NothingToldTwice == \A i \in Issues : AnnouncedOnce(i) /\ StatusToldOnce(i)

\* No journal entry is told of in two notices, unless the bot lost what it knew.
EntriesToldOnce ==
  [][\A i \in Issues :
       <<i, <<"issue_updated", "personal">>>> \in announced' \ announced
         => NewEntries(batch[i], mem[i]) \cap covered[i] = {} \/ forgotten[i] > 0]_announced

\* One overdue notice a day, from the day after the due day on: the daily notice of
\* README.md:35, which is not repeated on the same date in BOT_TIMEZONE
\* (tests/test_bot.py:846-855).
OverdueOncePerDay ==
  \A i \in Issues :
    LET late == IF Due[i] = Never \/ Day(now) <= Due[i] THEN 0 ELSE Day(now) - Due[i] IN
    told[i]["overdue"] <= late + forgotten[i]

\* Once the bot remembers a journal id of an issue, every comment written on it is
\* covered by a notice before the bot moves past it, through crashes, lost cycles,
\* exceptions, and closing and reopening of the issue.
TrackedCommentsCovered ==
  \A i \in Issues : \A c \in owed[i] : db[i].jid # Never /\ db[i].jid >= c => c \in covered[i]

\* A row's status moves only together with a status_change notice to the user.
StatusMovesAnnounced ==
  [][\A i \in Issues :
       Known(db[i]) /\ Known(db'[i]) /\ db[i].status # db'[i].status
         => <<i, <<"status_change", "personal">>>> \in announced]_db

\* What the docstring of check_user_issues promises of the incremental query: an
\* open issue with something in it that the bot has not recorded is in the next batch.
NoUpdateIsSkipped ==
  pc = "idle" => \A i \in Issues : Unrecorded(i) => UpdatedSince(i, lastCheck)

\* And what is true of it: the next query asks for every open issue that has something
\* unrecorded in it, but for those whose last update slipped away: it was made while a
\* cycle ran, its query failed, an exception cut the pass over it short, or the
\* cleanup deleted its row.
OnlySlippedAreSkipped ==
  pc = "idle" => \A i \in Issues : Unrecorded(i) => UpdatedSince(i, lastCheck) \/ i \in slipped

-----------------------------------------------------------------------------
\* The scheduler starts a cycle every CHECK_INTERVAL seconds, and Redmine, Matrix
\* and the database answer every request sooner or later.
Fairness ==
  /\ WF_vars(Fetch(lastCheck))
  /\ WF_vars(LoadState)
  /\ WF_vars(\E i \in Issues : ProcessIssue(i))
  /\ WF_vars(\E note \in outbox, delivered \in BOOLEAN : Send(note, delivered))
  /\ WF_vars(Commit)

FairSpec == Spec /\ Fairness

\* Every update of an open issue is recorded sooner or later, across crashes, rollbacks
\* and lost cycles, unless it slips out of the reach of the filter.
EveryUpdateRecorded == \A i \in Issues : Unrecorded(i) ~> (~Unrecorded(i) \/ i \in slipped)
=============================================================================
