# Via: a verification project in TLA+

Via is a bot that watches Redmine issues and tells their assignees, in Matrix,
what happens to them, with an admin panel beside it. The bot (`src/src/bot`) and
the panel (`src/src/admin`, FastAPI) are two processes of one code base that
share a PostgreSQL database; several bots may run against one database. This
directory holds TLA+ modules that model the parts of the program with state and
interleavings, TLC runs that check them on small instances, and TLAPS proofs of
theorems about them. Paths below are relative to `src/` of the repository
(`src/bot/...` is `src/src/bot/...` in `PROJECT.json`).

    tlc -workers 2 -config IssueCycle.cfg MCIssueCycle.tla    # one run
    for m in *Proofs.tla; do tlapm $m; done                   # the proofs

## 1. Inventory

| Component | State | Operations | Hard about it | Correct when |
|---|---|---|---|---|
| Check cycle and leases: `bot/scheduler.py`, `database/state_repo.py` | rows of `bot_user_leases`, tasks and semaphore of a cycle, instance id | `check_all_users`, `_process_user`, `try_acquire_user_lease` | several processes, clocks, kills, expiry, a lease computed long before it is used | while a lease lasts, one instance checks its user; nobody is left unchecked |
| Issue processing: `bot/processor.py`, `bot/logic.py` | four dictionaries per user, `last_check_time`, set of changed issues | the incremental query, eight blocks per issue | an await at every notice, edits during the cycle, exceptions that are swallowed | nothing is told twice, nothing is missed |
| Issue state: `database/state_repo.py` | rows of `bot_issue_state` | load, upsert, commit, rollback, nightly `cleanup_state_files` | crash between sending and commit; a stale list of open issues | rows agree with what was told |
| Rooms and sender: `bot/sender.py`, `bot/dm_cache.py` | `_mxid_to_room_cache`, `_dm_failed`, table `bot_dm_cache`, `REDMINE_URL` | warm-up, `_resolve_room_id`, `_create_dm`, `send_safe` | tasks race for one room; requests made up to three times over, whose answers may be lost; restarts | one room per person |
| Dead-letter queue: `database/dlq_repo.py`, `bot/scheduler.py` | rows of `pending_notifications` | enqueue, dequeue, retry, back-off | sending before the commit; rows not locked; lost answers | what is queued stays until it arrives; retries end |
| Start, configuration, stop: `bot/main.py`, `database/load_config.py`, `config.py` | environment of the container, secrets, `USERS`, `GROUPS`, routes, loaded once | wait for the secrets, load, start jobs, stop | polling that swallows everything; six SELECTs with commits in between; configuration that changes later | a bot that could run does; it works by what the panel shows |
| Notice filter and routing: `preferences.py`, `bot/logic.py` | none | `can_notify`, `should_notify`, `get_extra_rooms_for_new`, ... | hours, do-not-disturb, several rules and settings for one room | everyone who should hear does, at the right time |
| Transport: `matrix_send.py`, `matrix_client.py` | none | three attempts around a request | an answer that is lost after the message arrived | |
| Heartbeat and bot status: `bot/heartbeat.py`, `admin/routes/health.py` | none that is ever written | POST of the heartbeat, status page | | |
| Docker control: `ops/docker_control.py`, `admin/routes/ops.py` | container of the bot, threads of accepted restarts | start, stop, restart | commands answered before they are carried out, calls that time out | the last command holds |
| Accounts of the panel: `admin/middleware.py`, `admin/routes/auth.py`, `admin/routes/app_users.py`, `admin/helpers.py` | accounts, sessions with versions, cache of `_has_admin` | register, log in, log out, reset, admit | coroutines with stale reads; a cache beside the database | no one is let in by an old password; one first administrator |
| Settings and secrets: `admin/routes/settings.py`, `secrets.py`, `admin/db_config.py`, `admin/env_manager.py`, `security.py`, `scripts/init_env.py` | `.env`, environments of containers, `app_secrets`, PostgreSQL password, master key | save, regenerate, `docker compose up` | four stores changed one after the other, none with the others | every secret can be decrypted, the database reached |
| Users, groups, routes: `admin/routes/users.py`, `groups.py`, `routes_mgmt.py` | rows the bot's configuration is made of | create, edit, delete; routes of a card | rows that refer to each other, requests that go by what they read | a route leads to a room of its owner |
| Own settings: `admin/routes/me.py` | the list, hours and do-not-disturb of a user's row | the form | a second writer of a whole list | what was saved stays |
| Import and matching: `admin/routes/user_import.py`, `user_matcher.py` | rows of users, pages open in browsers | scan, match, bulk create | paging, interleaved searches, partial failure, deadlock | everybody is shown, the best account is offered, what is reported as created is there |
| Catalogs: `admin/routes/catalog.py` | statuses, versions, priorities | add, hide, delete, synchronise | deletion that rewrites lists it has read; one commit for three sections | lists name only what there is; hidden stays hidden |
| Redmine cache: `redmine_cache.py` | TTL caches | lookup, search, check of the connection | stale answers | |
| Logs, exports, dashboard, templates | files | display | | |

How they interact: the panel writes configuration and secrets into the database;
the bot waits for them and reads them once. A cycle of the bot takes the lease of
each user, loads the state, asks Redmine, sends notices through `send_safe` (which
asks `can_notify`, resolves the room, and is meant to queue failures), writes the
state and commits. The nightly cleanup and the dead-letter job run beside cycles
in the same event loop; other instances run beside the whole process. The panel
stops and restarts the bot through Docker. What the panel saves reaches the bot at
its next start only. The requests of the panel are transactions of their own that
interleave at every await.

`PROJECT.json` lists each component with its status, and under `hazards` the
places where these go wrong in ways a test would hardly reach.

## 2. Modules

| Module | Models | Built on |
|---|---|---|
| `ExclusiveChecks` | what the lease table promises: one checker per user, but for checks that have outlived their lease | |
| `UserLease` | leases, cycles, semaphore, kills and restarts of several instances | refines `ExclusiveChecks` |
| `MCUserLease` | constants for TLC | `UserLease` |
| `UserLeaseProofs` | theorems about `UserLease` | `UserLease`, `TLAPS` |
| `IssueRules` | what one pass of the loop does with one issue, as operators | |
| `IssueCycle` | the cycle of one user around these rules, Redmine, the database, the cleanup, failures | `IssueRules` |
| `MCIssueCycle` | constants for TLC | `IssueCycle` |
| `IssueCycleProofs` | theorems about `IssueCycle` | `IssueCycle`, `TLAPS` |
| `DmRooms` | direct-message rooms and the second import of `bot.main` | |
| `DeadLetters` | the dead-letter queue and its job | |
| `DeliveryProofs` | theorems about `DmRooms` and `DeadLetters` | `DmRooms`, `DeadLetters`, `TLAPS` |
| `PanelAccounts` | accounts, sessions, middleware, cache of `_has_admin` | |
| `PanelAccountsProofs` | theorems about `PanelAccounts` | `PanelAccounts`, `TLAPS` |
| `Deployment` | `.env`, containers, credentials, encrypted rows, start of both processes, Docker commands | |
| `DeploymentProofs` | theorems about `Deployment` | `Deployment`, `TLAPS` |
| `Subscriptions` | catalogs, the lists of users and groups that name their keys, and every request that writes either | |
| `MCSubscriptions` | constants for TLC | `Subscriptions` |
| `SubscriptionsProofs` | theorems about `Subscriptions` | `Subscriptions`, `TLAPS` |
| `NoticeRules` | the rooms of an announcement, working hours, do-not-disturb: as the code computes them and as the rows promise them | |
| `Directory` | users, groups, routes, the requests of the panel that write them, the bot that loads them | `NoticeRules` |
| `MCDirectory` | constants for TLC | `Directory` |
| `DirectoryProofs` | theorems about `Directory` | `Directory`, `TLAPS` |
| `MatchRules` | the score of an account for a person, as operators | |
| `UserImport` | the scan of Redmine and the homeserver, the page, the bulk import | `MatchRules` |
| `MCUserImport` | constants for TLC | `UserImport` |
| `UserImportProofs` | theorems about `UserImport` | `UserImport`, `TLAPS` |

**UserLease.** `pc[i][u]` is where `_process_user` stands for user `u` in instance
`i`: waiting for the semaphore, inside it, inside `check_user_issues`, or done.
`StartCycle` is the scheduler's call of `check_all_users`; all tasks compute
`lease_until` at once, before their first await. `Acquire` is the upsert with its
WHERE (`MayTake`) and the commit; `Refused` the early return; `AcquireFails` the
exception. Nothing releases a lease: `EndCheck` leaves the row alone. A process
started without `BOT_INSTANCE_ID` comes back from a kill under a new id, so the
rows of the old one belong to `Nobody`. Deadlines are ticks from now, clamped at
-1, which keeps the state finite without a bound on the clock. Nothing bounds the length
of a cycle: a check may begin after its lease has run out, and go on for ever. What is
left of exclusion is `ExclusiveChecks`: a check that outlives its lease becomes `late`, and
only late checks may run beside another instance's.

**IssueRules / IssueCycle.** `Work` runs the numbered blocks of the loop: status
change, first sight / group repeat / reminder (one `elif` chain), overdue,
journals. `FromRow` and `ToRow` are the conversions between dictionaries and rows,
with the field that has no column. In `IssueCycle`, `Fetch` takes a snapshot of
Redmine (with the filter, or without it when the date does not parse),
`LoadState` reads the rows, `ProcessIssue` is the part of a pass up to its
notices and `Send` each of them, because the event loop may switch at each;
`ProcessRaises` is a pass cut off by an exception after any subset of the notices
of the failing block; `Commit` writes the changed rows and sets
`last_check_time`. `Rollback` and `Crash` lose the cycle. `CleanupFetch` and
`CleanupDelete` are apart because the list of open issues is stale when it is
used. All of these troubles draw on one bound, `MaxTroubles`. `slipped` is a history: the
issues whose last update came while a cycle ran, or whose query, pass or row was lost.
There are two calendars: `Day` is the date in `BOT_TIMEZONE`, `UtcDay` that of a time as a
row has it, `Offset` ticks behind, because `ensure_tz` does not convert. `Edit` is the
outside world. Status ids are grouped: `Work` is every status
without a rule of its own, `Waiting` the ids 8 and 12, `Info` is 13; `Fetched` is
`open_status_ids`.

**DmRooms.** Rooms of a person are numbered. A task is looking (it may wait for a
sync), creating, or saving; the warm-up creates and saves as a task does (`Makers`).
`NotFound` is the search that always fails, for the reason told at `ImportMain`. A
creation is up to `Attempts` attempts: `AttemptFails` is one that is refused or whose
answer is lost, with or without a room on the homeserver, `Creates` one that succeeds,
`GivesUp` the end of the last one or `DM_CREATE_TIMEOUT`. `OtherBot` is another bot
process, which makes rooms of its own and shares `bot_dm_cache`. `unseen` counts the rooms
this process was not told of, `overlaps` the creations begun beside another one.

**DeadLetters.** A job remembers the rows it read, what it deleted and what it
counted a failure for; the table changes at its commit. An update of a row that
is gone raises (`RollbackJob`). A sending is up to `Requests` requests (`Arrive`): those
whose answer is lost have arrived, and are made again or count as failed in the end.
`SendSafeFails` writes a row or does not: no caller passes the session it needs (section 5),
so that the properties speak of what is in the queue (`queued`). The pauses between
attempts are powers of two (`Doubled`). `Queue` stands before the names `DmRooms` has as
well, because one module of proofs extends both.

**PanelAccounts.** A request is a coroutine: each action is a stretch between two
awaits. Registration, login and reset read first and commit later. `EntersKnown`,
`Asks`, `Remembers` are `_has_admin` with its cache, `LooksUp` and `Admits` the
session check and the commit of the new expiry, `Ends` the `finally` of
`get_session`. Expiry of sessions and of the cache may happen at any time.

**Deployment.** A password is a number, a key a number with a length: the only
thing that decides whether a key loads is its length, and `NewKey` has 64
characters where `load_master_key` wants 32 bytes. `env[c]` is what a container
was created with; a restart keeps it, `Up` (`docker compose up`: compose reads
`.env`, `init_env.py` may rewrite it, containers are created anew) replaces it.
`RegenTruncates`, `RegenWrites`, `RegenRows`, `RegenAlters` are the stretches of
`regenerate_db_config`, between which its process may die. PostgreSQL keeps
the password of its volume, and `Altered` says why: the attempt to change it raises
before the statement. `PanelStarts` is the migration and the lifespan of the panel,
`BotStarts` and `BotPolls` the environment and the loop of `main`. `Stop` and `Start`
are carried out, refused, or carried out after the panel's call timed out; `Restart` is
accepted and carried out by a thread, which a panel that ends takes with it and whose call
may fail (`RestartFails`). What is outstanding is in `pending` and takes effect in any order
(`Lands`, `Obeyed`). `last` remembers the last command that was not refused, `overtaken`
that an earlier one took effect after it, or that it came to nothing.

**Subscriptions.** `notify[o]` is the list of a user or group, `catalog` the rows
of each catalog. A form is three actions: it reads the catalog (`UserForm`,
`GroupForm`, `OwnForm` fix the list it will write), loads its row (`FormLoad`), and
commits (`FormCommit`, which sends only what differs from the row as loaded).
Deleting a status reads the users' lists (`DropRead`), flushes them and reads the
groups' (`DropUsers`), and commits (`DropCommit`). `SyncSection` is one
catalog of a synchronisation; the SELECT of a section flushes what the ones before
it changed, so that a clash poisons the transaction (`failed`). Rows changed by an
uncommitted transaction are locked (`Locked`, `EntryLocked`). `WithoutEntry` and
`WithoutOwners` say what becomes of a request whose row another one deletes.
`chosen`, `raced` and `overlapped` are histories: what was saved last for a row, and
where requests overlapped.

**NoticeRules / Directory.** `UserCfg` is `user_orm_to_cfg`, `Announced` says how often
`send_safe` is called with each room, `CfgForRoom` and `CanNotify` what holds a notice back;
`Delivered` composes them over what the bot has loaded. `AsPromised` states from the rows of
the database alone what they promise of a room: nothing while those whose settings hold there
may not be disturbed, a copy where somebody expects one, and no more copies than the room
has parts to play. Of a colleague who has switched his notices off, whose rooms the code asks
all the same, it says nothing (section 5).
In `Directory` each `...Form` of a card reads its row and each `Save...` writes what
was read; the other requests are one statement that matters. `Load` reads one of
the six tables; `fresh` says that nothing was committed since loading began.

**MatchRules / UserImport.** A word stands for all its spellings; what sounds like what
is given by the relations `Heard` and `Read`. `Score` is `score_matrix_candidate` in
halves. `FetchPage` is a page of Redmine (its members with their users; `Users` drops
memberships of groups, and a page that has nothing else ends the paging), `Batch` the
people looked up together, `Search` a round of queries of one person (`Unseen`: each
search has a list of its own of accounts it has seen). The page of a scan stays in
`pages`; `BulkStart` posts some of its rows, `Check` and `Insert` are the two statements
for each, `Failed` what an error of the database leaves of the session, `DeadlockBroken`
how PostgreSQL resolves two imports that wait for each other.

## 3. Runs

| Run | Shows | Bounds |
|---|---|---|
| `lease` | ownership of a live lease, refinement of `ExclusiveChecks`, nobody left out | 2 instances, clocks one tick slow and one fast, one pinned; 2 users for a semaphore of 1; lease 2, 1 kill, cycles of any length |
| `issue_cycle` | nothing told twice, tracked comments covered, entries told once, rows move with notices, only what slipped is passed over, every update is recorded in the end | 1 issue, 2 edits at any time, 2 troubles of any kind: lost cycle, failed query, exception, crash, cleanup |
| `issue_outage` (violation) | a failed query makes the filter skip issues | 1 failed query |
| `issue_overdue` (violation) | an overdue notice is repeated in the first hours of a day | 1 issue, days of 2 ticks, a zone 1 tick ahead of UTC, no trouble |
| `dm_rooms` | at most one room per person, restart, room unheard of and overlap; everyone gets one | 2 people, 2 tasks and the warm-up, 2 attempts, 1 restart, 2 failed attempts or rooms of another bot |
| `dead_letters` | what is queued is kept, deliveries are bounded, every notice is settled | 2 instances, 2 notices, one by Matrix id, 3 retries of 2 requests, 2 sendings that fail or lose answers, 1 lost job |
| `panel_accounts` | old passwords are shut out, one first administrator, a stale cache does not last | 2 logins, 2 passwords, 2 requests, 2 sessions, 2 resets |
| `deployment` | a restart is safe, a panel that is up reads every secret, the last command holds though earlier ones fail or come late, a bot that could run does | 2 secrets, 1 regeneration (password, key or both), 3 events from outside, 2 forms saved, 2 commands, 1 failure |
| `subscriptions` | lists name what the catalog holds, saved lists are kept, hidden entries stay hidden | 1 user, 1 group, 2 keys, 2 catalogs, 3 requests of which 2 at a time, 1 change in Redmine |
| `directory` | routes lead to rooms of their owner, announcements arrive where, and as often as, the rows promise | 2 users, 1 group, 3 rooms, 2 keys, 3 requests of which 2 at a time, 1 restart of the bot |
| `config_not_reloaded` (violation) | the bot does not take up what the panel saves | as `directory`, 2 requests |
| `user_import` | the best account of all answers, nobody lost between pages, the answer is true | 4 entries of Redmine, one of them a group, 2 accounts, pages of 1, batches of 2, 2 rounds; 1 scan, 2 imports, 1 change |

Why the bounds are enough. Two instances are what a stolen lease, a lost update or a
deleted row needs, and two users what a semaphore of one needs to delay somebody; a
third adds no new kind of conflict. Issues do not influence each other inside a cycle
except by being lost together, which `changed` of one issue shows. Two edits give a
change that was seen followed by one that was not. Each kind of failure may combine with
every other kind, or with itself where it can do so; the histories (`forgotten`,
`slipped`, `losses`, `unseen`, `unheard`, `overlaps`, `together`, `clashed`,
`overtaken`, `recreated`, `raced`, `overlapped`) appear in the properties, so that a
property says exactly what a failure or a race may cost. Two requests suffice for a
reset overtaken by another one with a login in between, because a request that has ended
may start again; three requests, two at a time, for a deletion overtaken by a form after
another deletion. In `deployment` three events from outside allow a regeneration to be
interrupted, its file to be taken over by `docker compose up`, and that again by a
second one. Versions and priorities are treated alike by `catalog.py`, so two catalogs
stand for three. In `dm_rooms` two attempts, the first of which may leave a room, stand
for the three of the code. In `user_import` the two people share a surname and the
second account has it twice; the robot moves the pages when it is entered before the
people, and the group between the two of them ends the paging where pages have one
entry.

`NoUpdateIsSkipped`, which `issue_outage` refutes, is what the docstring of
`check_user_issues` says; `OnlySlippedAreSkipped` of `issue_cycle` is what is true: an issue
with something unrecorded is left out of the next query only if its query failed, if an
exception cut the pass over it short, if it was edited while a cycle ran (`last_check_time` is
taken after the work, `scheduler.py:85`), or if the cleanup deleted its row by a list that
was out of date (`scheduler.py:241`). Crashes and rollbacks skip nothing. `EveryUpdateRecorded`
is the same in the long run.

One kill in `lease` takes either instance, the one that keeps its id or the one
that does not, at any point of a cycle; that both are down for good is what
`EveryUserKeepsBeingChecked` excludes.

`CHECK_DEADLOCK FALSE` is set where the system may really stop: the dead-letter queue
with every notice settled, and `deployment`, `subscriptions`, `directory` and
`user_import` when the bounded number of requests, commands and events is used up.

### Fairness

- `UserLease`: the event loop runs every ready task, and time passes (weak
  fairness of the steps and of `Tick`). `Acquire` is strongly fair: the scheduler
  retries every cycle and the database does not refuse for ever. `Boot` and
  `Crash` have none.
- `IssueCycle`: the scheduler starts cycles (`max_instances=1`, every
  `CHECK_INTERVAL`); Redmine, Matrix and the database answer in the end. Losses
  are bounded, not fair.
- `DmRooms`: warm-up and cycles go on; creation ends by an answer or by
  `DM_CREATE_TIMEOUT`. Strong fairness where another task may disable the step in
  between (a new cycle has to wait for the tasks of the last; a sync may fail).
- `DeadLetters`: the job is started every 120 seconds and each sending has an
  outcome.
- `PanelAccounts`: only that a cached answer expires and a query returns. No
  visitor has to come.
- `Deployment`: Docker starts again what has ended (`restart: unless-stopped` in
  docker-compose.yml), the loop of `main` polls for ever, and a request goes on while
  its process lives. Nobody has to save, regenerate or command, and a command that is
  outstanding need not ever take effect.
- `Directory`: for `config_not_reloaded` the bot goes on loading. The counterexample
  is a bot that has loaded everything and is never restarted.

## 4. Proofs

`UserLeaseProofs` proves for every set of instances and users, every lease,
clock skew, semaphore and number of kills, from the named assumptions of
`UserLease`:

- `TypeCorrect`: `Spec => []TypeOK`.
- `LiveLease`: `Spec => []LiveLeaseIsHeld`. Together with the types it is inductive: a
  row that a check holds and that has not expired lets no other instance in
  (`HeldKeepsOut`).
- `Refinement`: `Spec => ImplementsExclusiveChecks`, with `checker[u] = Holder(u)` and
  `late = LateChecks`. By `LiveLeaseIsHeld` at most one instance holds a user
  (`OneHolder`), so that `Holder` is well defined; `Acquire` is `Begin`, early or late, the
  end of a check or of a process is `End`, and `Tick` is `RunOut`. Cycles may be of any
  length and clocks wrong by any amount.

`PanelAccountsProofs` proves, for every finite set of logins and requests and any
passwords and bounds:

- `TypeCorrect`: `Spec => []TypeOK`. That no session is ahead of its account is
  not inductive: a login that is about to commit, or a reset that read an old
  version, could break it.
- `ShutOut`: `Spec => OldPasswordsShutOut`. The invariant `Inv` says, of every
  account whose resets never clashed: a session or a login under way with the
  account's present version has its present password (`SessionsHonest`,
  `LoginsHonest`); a reset under way is alone and knows the present version
  (`ResetsCurrent`), so that its commit makes every login under way out of date;
  a session that was found fresh is fresh while its row is there (`FoundFresh`);
  and a token that a request holds was given out before (`TokensGiven`), so that
  no new session takes its place. `Admits` needs the row, and the rest follows.
- `FirstAdminOnly`: `Spec => []OneFirstAdmin`. `Registrations` counts the
  registrations under way as if they had succeeded; only the check adds to the
  count, and when it is not alone it adds to `together` as well.

TLC has checked `Inv` and `Registrations` as invariants, with three resets, too.

`DeploymentProofs` proves, for every finite set of secrets and any bounds:

- `TypeCorrect`: `Spec => []TypeOK`.
- `RestartsLoseNothing`: `Spec => []RestartIsSafe`. The invariant: every row is under
  the first key (`RowsUnderFirst`); the password in PostgreSQL is the first one;
  credentials in `.env`, in an environment or in a regeneration that have the first
  password have the first key or one that does not load (`CredentialsFit`,
  `RegenFits`); and until something was recreated every environment is the first
  (`EnvFirst`).
- `UpPanelReads`: `Spec => []SecretsStayReadable`. A panel that is up has a password
  that connects and a key that loads, and by `CredentialsFit` that key is the first.
  This is why the invariant is needed: the property alone does not exclude an
  environment with the right password and a wrong key that loads.
- `CommandsObeyed`: `Spec => []LastCommandHolds`. With the types it is inductive: a command
  that takes effect late is the last one or is remembered in `overtaken`, and of the
  processes themselves none leaves or enters the stopped state without a command.

`IssueCycleProofs` proves, for any issues, edits, failures, subscriptions and
length of the clock:

- `TypeCorrect`: `Spec => []TypeOK`.
- `ToldOnce`: `Spec => []NothingToldTwice`, and `EntriesOnce`: `Spec => EntriesToldOnce`.
  `WorkFacts` says what the blocks of one pass may do to what is remembered, by a lemma
  for each block and for each prefix of them, because an exception may end a pass after
  any. The invariant `Inv`: a status that is remembered has its time (`Dated`); rows,
  memory and batch are within the journals of Redmine (`JournalsAgree`); as long as
  nothing was forgotten, entries that were told of are not above the journal id
  (`CoveredPassed`); and what was told or is about to be is paid for by what is
  remembered, by moves of the status, or by losses (`Accounted`). The last holds for what
  the cycle goes by and, while the row is not written, for the row too, so that a lost
  cycle owes nothing.
- `CommentsCovered`: `Spec => []TrackedCommentsCovered` for a user who wants
  `issue_updated`, and `MovesAnnounced`: `Spec => StatusMovesAnnounced` for one who wants
  `status_change`. On top of `Inv` they need that owed comments below the remembered id
  are covered (`CommentsKept`), and that a status that moved in memory has its notice
  announced (`StatusTracked`).
- `NothingSkipped`: `Spec => []OnlySlippedAreSkipped`, with failed queries, exceptions,
  cleanups, crashes, rollbacks and edits at any point. The property speaks of the bot between
  two cycles; the invariant `UpToDate` says what a running one has in hand of every issue
  that has not slipped: a batch as Redmine has it, a row to be written that is up to date,
  or nothing unrecorded (`InHand`).

TLC has checked these invariants on the instances of section 3.

`DeliveryProofs` proves, about `DmRooms`, for every set of people, every finite set of
tasks and any bounds:

- `TypeCorrect`: `Spec => []TypeOK`; nobody knows a room that there is not.
- `Accounted`: `Spec => []RoomsAccountedFor`, whatever the number of attempts, each of
  which may leave a room, and of other bot processes. The property is not inductive, for a
  creation under way will add a room. `Counted` counts it in advance, and where no
  room is known and no creation is under way says that one more is allowed for;
  `WarmUpFirst` carries that through the warm-up.

and about `DeadLetters`, for every finite set of instances and any notices, retries and
failures:

- `QueueTypeCorrect`: `QueueSpec => []QueueTypeOK`. What has to be shown is that the pause
  after any number of attempts is a number: `DoubledType`, by induction over the number.
  The induction theorems of the library take an operator as a parameter, so
  `SetInduction` is stated here for sets, from the least-element theorem for
  well-founded relations.
- `Deliveries`: `QueueSpec => []DeliveredOnce`. While the row of a notice is there, it
  was delivered at most once by each run that sent it and has not committed, and once
  for each loss, each rollback and each request that was not answered; without the row,
  each run that still has it to come sends it once more (`CopiesCounted`). A run handles
  a row once (`RunHonest`).
- `Vanishing`: `QueueSpec => []QueuedIsKept`. A run deletes only what it has sent.

`DirectoryProofs` proves, for any users, groups, rooms, keys, forms and bounds:

- `TypeCorrect`: `Spec => []TypeOK`, which includes that no user is in a group that is
  gone: a form that names a deleted group is refused by the foreign key, and one that
  does not touch the group cannot bring it back, for only changed fields are written.
- `Home`: `Spec => []RoutesLeadHome`. The invariant adds that a route about to be written
  leads to a room its owner had when the card was read (`Leads`), and that an owner's
  room is among those he has had (`Remembers`).
- `Announcements`: `Spec => []AnnouncedAsPromised`. `NoticePromised` is about the rules
  alone: from tables in which members are live, what the bot computes is what the rows
  promise, for every user, issue and moment. What was read so far is what there is,
  while nothing was committed since loading began (`ReadSoFar`).

`SubscriptionsProofs` proves, for any users, groups and catalogs, and any number of
requests, of which any number at a time:

- `TypeCorrect`, and `KeysKnown`: `Spec => []KeysComeFromCatalog`. What a form, a new row
  or another deletion is going to write names only entries that are there or whose
  deletion overlapped (`Held`).
- `SavedKept`: `Spec => []SavedListsKept`. A deletion under way rewrites only rows that
  are there, else it has failed (`RowsThere`).
- `StaysHidden`: `Spec => HiddenStaysHidden`. A synchronisation writes a row as shown only
  where there was none: what it has flushed as new has no row (`AddedFree`), which holds
  because such an entry is locked, because two synchronisations never have flushed the
  same one (`Apart`), and because a section is flushed after it was read, once
  (`SyncOrder`; this is where the catalogs have to be distinct).

`UserImportProofs` proves, for any people, accounts, names and spellings, any listings, pages,
batches and rounds, and any number of scans and imports at a time:

- `TypeCorrect`: `Spec => []TypeOK`, and `BestOffered`: `Spec => []BestOfTheAnswers`.
- `EverybodyShown`: `Spec => NobodyLostBetweenPages`. What is shown when a page without
  users ends the paging is shown as if the list ended there (`EndOfList`).
- `AnswersTrue`: `Spec => AnswerIsTrue`.

They share the invariant `Inv`: the results of a scan are those of the batches before
the present one, and these add up to the listing as far as it was read (`ScanFine`, with
`SlicesAddUp`); an import holds the rows it reports as created, as they were posted, for
people who have none, and one that has failed holds none (`BulkFine`); and no two
imports hold a row of the same person (`Exclusive`).

Every invariant and action property of a passing run is stated by a theorem. Left to TLC,
because liveness under fairness is beyond the prover: `EveryUserKeepsBeingChecked`,
`EveryUpdateRecorded`, `EveryoneGetsARoom`, `EveryNoticeSettled`, `AdminNoticed`,
`ConfiguredBotRuns`. The three violation runs stay what they are; `NothingSkipped` says to
which issues the first can happen.

## 5. Disagreements met

Three violation runs show disagreements (`findings` of `PROJECT.json` quotes the lines):
a failed query, an overdue notice that is repeated, a configuration that is not taken
up. Others were read in the code and are modelled as the code has them, without a run of
their own.

The bot:

- `models.py:190-191` and README.md:67 say without conditions that two instances do not
  process one user at the same time. The lease is computed before the semaphore and never
  renewed (`scheduler.py:55-60`), so that a cycle may outlive it, and then two instances check
  the same user; no length of the lease excludes it.
  `ExclusiveChecks` says what is left, and no property claims exclusion.
- In the first hours of a day, as many as `BOT_TIMEZONE` is ahead of UTC, each further cycle
  repeats the overdue notice (`processor.py:265-269`): the run `issue_overdue`.
- Status 13 has a reminder (README.md:36) but is not among the statuses the query
  asks for (`processor.py:62`): such issues are never fetched.
- The time of the last notice to the group's room is not stored
  (`state_repo.py:102-136`): `GROUP_REPEAT_SECONDS` has no effect across cycles.
- The first comment on an issue that had no journals when first seen is taken
  over in silence (`processor.py:297`); hence "once the bot remembers a journal
  id" in `TrackedCommentsCovered`.
- The cleanup deletes the state of issues in status 8, 12 or 13, which are not
  closed (`scheduler.py:227`).
- `main.py:389` loads `bot_dm_cache` into a local variable: saved rooms are not
  used after a restart; hence `restarts` in `RoomsAccountedFor`.
- A second import of `bot.main` empties `REDMINE_URL` of `sender.py`
  (`sender.py:24`, `main.py:636`): from the first search for a room on, links have no
  base. `linkBase` of `DmRooms` follows it.
- README.md:68 promises that notices which fail are queued and sent again. `send_safe` puts
  them into the queue only with a session (`sender.py:540`), and no caller passes one: every
  notice that fails is gone. `DeadLetters` has both outcomes, and its properties speak of the
  queue and what is in it.
- A request whose answer is lost is made again with a new transaction id
  (`matrix_send.py:43-66`), so that a notice may arrive several times without any other
  failure; hence `unheard` in `DeliveredOnce`. The same holds for the creation of rooms
  (`sender.py:319-362`); hence `unseen` in `RoomsAccountedFor`.
- With two instances a stale `retry_count` may be written back, so that a notice
  may be retried more often than `MAX_DLQ_RETRIES`; `EveryNoticeSettled` shows
  that retrying ends nevertheless.
- A colleague of the group who has do-not-disturb on, or who does not want announcements,
  gets them all the same: `send_safe` goes by the settings of the issue's assignee.
  `user_form.html:173`, `:192` and README.md:38 promise otherwise. `AsPromised` does not
  promise it to anybody and does not forbid it.
- The time zone of a user that the form offers (`user_form.html:157`) is stored and read by
  nothing: hours are those of the bot's zone.
- A room asked for by several parts of an announcement (somebody's own, the group's, that of a
  route) gets a copy for each (`processor.py:164-194`); `AsPromised` counts the parts.
- The forms store ids of statuses in a list that `should_notify` compares with names of
  notices (README.md:32): ticking statuses means hearing of nothing. Lists of versions and
  priorities are never read, nor is a group's `is_active`, nor a status route of a status
  other than the one of `STATUS_RV`.
- The heartbeat of the bot is redirected to the login page by the middleware
  (`middleware.py:84`) and never stored.

The panel:

- Two registrations at once both pass (`FOR UPDATE` locks no row when there is
  none); hence `together` in `OneFirstAdmin`. Two resets of one account at once
  end with the same version; hence `clashed` in `OldPasswordsShutOut`.
- `_has_admin` may store an answer that was true before the cache was cleared
  (`helpers.py:264`), against what `session.py:94` is there for; `AdminNoticed` says
  that it does not last.
- A regenerated master key has 64 characters and encrypts nothing; a regenerated
  password never reaches PostgreSQL, because a name is missing (`settings.py:206`).
  Both processes live on until their containers are created again, and then find no way
  in. `RestartIsSafe` and `SecretsStayReadable` say exactly what is still safe.
- "Deletes in cascade" (`catalog.py:155`) does not hold against requests in flight;
  hence `overlapped` in `KeysComeFromCatalog`.
- A synchronisation fails as a whole when Redmine lists an entry that is hidden here
  (`Clashes`).
- The preset "default" with no status marked as default saves an empty list, and the
  form of a person's own settings takes "default" for everything.
- Creating a user in the form raises after its INSERT when versions are ticked.
- A route keeps its room when the room of its card changes; a group's status routes stay
  when the group goes; a room of another homeserver is rewritten to the bot's own domain
  by a round trip through the form (`helpers_ext.py:938`).
- `user_matcher.py:217-218` wants at least two parts of a name to agree before an account is
  offered. One word heard in two parts of a localpart counts as two: `ivanov.ivanova` is
  offered to everybody of that surname. `MatchRules` does what the code does, and no property
  claims the rule.
- A page of Redmine that holds nothing but memberships of groups ends the paging, and
  everybody after it is left out (`user_matcher.py:455-460`); `NobodyLostBetweenPages` says
  that nobody else is.
- Two people may be offered and given one Matrix account. The transliteration of a display name
  adds to a score but not to the two words that are needed. `SCAN_COOLDOWN` is not used.
- A successful check of the connection is cached without its URL and key
  (`redmine_cache.py:109`), so that of two checks at once one may report the other's success.

## 6. Not modelled

- Texts, templates, logging, exports and the dashboard have no state of their own.
- The Redmine cache serves completion and the check of the connection in forms; nothing
  else depends on it. The heartbeat changes nothing (section 5).
- `matrix_send.py`: its attempts and their lost answers are in `Arrive` of `DeadLetters`; in
  `IssueCycle` a send has one outcome, delivered or not, of which the caller is told nothing.
- `daily_report` only reads, and appears as a task of `DmRooms`.
- The change of a login, CSRF and the rate limiter are left out of `PanelAccounts`.
  `/reset-password` works like the reset by an administrator; no code issues its tokens.
- Migrations and the schema appear as the state of the modules: unique and foreign keys
  as guards.

## 7. Plan

Done: the modules of section 2. Left, in this order:

1. The rate limiter and the change of a login in `PanelAccounts`.
2. The six liveness properties have safety parts that could be proved: that what each of
   them waits for is never disabled for good.
3. The Redmine cache with its breaker, should anything but forms come to use it.

