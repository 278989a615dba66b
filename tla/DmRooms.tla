------------------------------ MODULE DmRooms ------------------------------
(***************************************************************************)
(* Direct-message rooms: how bot/sender.py turns the Matrix id of a person *)
(* into a room.  Known ids are in a dictionary of the process; for others  *)
(* a room is created, by the warm-up at the start of the process or by     *)
(* whichever task is the first to send something.  The tasks share the     *)
(* dictionary and run between each other's awaits.  One request may be     *)
(* made up to three times over, and an answer that is lost leaves a room   *)
(* behind that the process does not know.                                  *)
(***************************************************************************)
EXTENDS Integers, FiniteSets

CONSTANTS
  Mxids,        \* people the bot writes to
  Tasks,        \* tasks that may resolve a room at the same time
  Reporter,     \* the one among them that runs daily_report
  WarmUp,       \* the warm-up, which creates rooms like a task
  Attempts,     \* max_attempts of _create_dm
  MaxRestarts,  \* bound on restarts of the process
  MaxTroubles   \* bound on attempts that fail and on rooms of another bot process

Makers == Tasks \cup {WarmUp}

ASSUME DmAssumption ==
  /\ Reporter \in Tasks /\ WarmUp \notin Tasks /\ IsFiniteSet(Tasks)
  /\ Attempts \in Nat \ {0} /\ {MaxRestarts, MaxTroubles} \subseteq Nat

VARIABLES
  phase,     \* "prewarm" or "running"
  todo,      \* need_create of the warm-up: whom it has not come to
  rooms,     \* person -> how many direct rooms with the bot the homeserver has
  cache,     \* person -> number of the room in _mxid_to_room_cache, 0 for none
  db,        \* person -> number of the room in bot_dm_cache, 0 for none
  failed,    \* _dm_failed
  task,      \* task, or warm-up -> where it stands in _resolve_room_id, and for whom
  attempt,   \* task, or warm-up -> attempts of its creation that have failed
  linkBase,  \* is REDMINE_URL of sender.py set
  imported,  \* has sender.py imported bot.main
  restarts, troubles,   \* how often these happened
  unseen,    \* history: rooms that were made without this process being told
  overlaps   \* history: creations begun while another one for the same person ran

process == <<phase, todo, cache, failed, task, attempt, linkBase, imported>>
vars == <<process, rooms, db, restarts, troubles, unseen, overlaps>>

None == 0
Idle == [at |-> "idle"]
At(step, m) == [at |-> step, who |-> m]
Saving(m, room) == [at |-> "saving", who |-> m, room |-> room]

TaskType == [at : {"idle"}] \cup [at : {"looking", "creating"}, who : Mxids]
              \cup [at : {"saving"}, who : Mxids, room : Nat]

\* The type of every variable; nobody knows a room that there is not.
TypeOK ==
  /\ phase \in {"prewarm", "running"} /\ todo \subseteq Mxids
  /\ {rooms, cache, db, unseen, overlaps} \subseteq [Mxids -> Nat]
  /\ \A m \in Mxids : cache[m] <= rooms[m] /\ db[m] <= rooms[m]
  /\ failed \subseteq Mxids
  /\ task \in [Makers -> TaskType] /\ attempt \in [Makers -> 0 .. Attempts]
  /\ \A t \in Makers : task[t].at = "saving" => task[t].room \in 1 .. rooms[task[t].who]
  /\ linkBase \in BOOLEAN /\ imported \in BOOLEAN
  /\ restarts \in 0 .. MaxRestarts /\ troubles \in 0 .. MaxTroubles

\* A process starts with nothing in its dictionary: main() keeps what it reads from
\* bot_dm_cache in a variable of its own.
Booted ==
  /\ phase' = "prewarm" /\ todo' = Mxids
  /\ cache' = [m \in Mxids |-> None] /\ failed' = {}
  /\ task' = [t \in Makers |-> Idle] /\ attempt' = [t \in Makers |-> 0]
  /\ linkBase' = TRUE /\ imported' = FALSE

Init ==
  /\ phase = "prewarm" /\ todo = Mxids
  /\ rooms = [m \in Mxids |-> 0] /\ db = [m \in Mxids |-> None]
  /\ cache = [m \in Mxids |-> None] /\ failed = {}
  /\ task = [t \in Makers |-> Idle] /\ attempt = [t \in Makers |-> 0]
  /\ linkBase = TRUE /\ imported = FALSE
  /\ restarts = 0 /\ troubles = 0
  /\ unseen = [m \in Mxids |-> 0] /\ overlaps = [m \in Mxids |-> 0]

-----------------------------------------------------------------------------
Trouble == troubles < MaxTroubles /\ troubles' = troubles + 1

\* The homeserver makes a room that this process does not hear of.
Unseen(m) ==
  /\ rooms' = [rooms EXCEPT ![m] = @ + 1]
  /\ unseen' = [unseen EXCEPT ![m] = @ + 1]

\* External: another bot process, which neither finds nor reads the rooms of this one,
\* makes one of its own and may save it.
OtherBot(m) ==
  /\ Trouble
  /\ Unseen(m)
  /\ db' = [db EXCEPT ![m] = rooms[m] + 1] \/ UNCHANGED db
  /\ UNCHANGED <<process, restarts, overlaps>>

\* An attempt of _create_dm fails: it is refused, or its answer does not come though the
\* room was made.
AttemptFails(t, m) ==
  /\ task[t] = At("creating", m)
  /\ attempt[t] < Attempts
  /\ Trouble
  /\ attempt' = [attempt EXCEPT ![t] = @ + 1]
  /\ Unseen(m) \/ UNCHANGED <<rooms, unseen>>
  /\ UNCHANGED <<phase, todo, cache, db, failed, task, linkBase, imported, restarts, overlaps>>

CreatesMutant(t, m) ==
  /\ task[t] = At("creating", m)
  /\ attempt[t] < Attempts
  /\ cache' = [cache EXCEPT ![m] = rooms[m] + 1]
  /\ task' = [task EXCEPT ![t] = Saving(m, rooms[m] + 1)]
  /\ attempt' = [attempt EXCEPT ![t] = 0]
  /\ UNCHANGED <<phase, todo, rooms, db, failed, linkBase, imported, restarts, troubles, unseen, overlaps>>
\* An attempt succeeds: the homeserver makes a room, and the bot learns its number.
Creates(t, m) ==
  /\ task[t] = At("creating", m)
  /\ attempt[t] < Attempts
  /\ rooms' = [rooms EXCEPT ![m] = @ + 1]
  /\ cache' = [cache EXCEPT ![m] = rooms[m] + 1]
  /\ task' = [task EXCEPT ![t] = Saving(m, rooms[m] + 1)]
  /\ attempt' = [attempt EXCEPT ![t] = 0]
  /\ UNCHANGED <<phase, todo, db, failed, linkBase, imported, restarts, troubles, unseen, overlaps>>

\* The last attempt has failed, or the timeout of the whole creation strikes.  The
\* warm-up bars nobody.
GivesUp(t, m) ==
  /\ task[t] = At("creating", m)
  /\ attempt[t] > 0
  /\ failed' = IF t = WarmUp THEN failed ELSE failed \cup {m}
  /\ task' = [task EXCEPT ![t] = Idle]
  /\ attempt' = [attempt EXCEPT ![t] = 0]
  /\ UNCHANGED <<phase, todo, rooms, cache, db, linkBase, imported, restarts, troubles, unseen, overlaps>>

\* save_dm_cache, through a session that all tasks share; an error is only logged.
Saves(t, m) ==
  /\ task[t].at = "saving" /\ task[t].who = m
  /\ db' = [db EXCEPT ![m] = task[t].room] \/ UNCHANGED db
  /\ task' = [task EXCEPT ![t] = Idle]
  /\ UNCHANGED <<phase, todo, rooms, cache, failed, attempt, linkBase, imported, restarts, troubles,
                 unseen, overlaps>>

\* The second phase of the warm-up: one person after the other.
PrewarmCreates(m) ==
  /\ phase = "prewarm" /\ m \in todo
  /\ task[WarmUp] = Idle
  /\ task' = [task EXCEPT ![WarmUp] = At("creating", m)]
  /\ todo' = todo \ {m}
  /\ UNCHANGED <<phase, rooms, cache, db, failed, attempt, linkBase, imported, restarts, troubles,
                 unseen, overlaps>>

PrewarmEnds ==
  /\ phase = "prewarm" /\ todo = {} /\ task[WarmUp] = Idle
  /\ phase' = "running"
  /\ failed' = {}
  /\ UNCHANGED <<todo, rooms, cache, db, task, attempt, linkBase, imported, restarts, troubles, unseen,
                 overlaps>>

\* check_all_users starts: reset_dm_failed.  None of its own tasks is left from the
\* cycle before, the daily report may be under way.
StartCycleMutant ==
  /\ phase = "running"
  /\ \A t \in Tasks \ {Reporter} : task[t] = Idle
  /\ UNCHANGED vars
StartCycle ==
  /\ phase = "running"
  /\ \A t \in Tasks \ {Reporter} : task[t] = Idle
  /\ failed' = {}
  /\ UNCHANGED <<phase, todo, rooms, cache, db, task, attempt, linkBase, imported, restarts, troubles,
                 unseen, overlaps>>

-----------------------------------------------------------------------------
\* Neither in the dictionary nor a failure of this cycle.
MustResolve(m) == cache[m] = None /\ m \notin failed

\* A task has something to send to m.  (With the room known it is sent at once, with
\* m in failed it is given up; neither changes anything here.)  As long as the
\* client knows of no room at all, a sync is awaited before the search goes on.
Resolve(t, m) ==
  /\ phase = "running" /\ task[t] = Idle
  /\ MustResolve(m)
  /\ task' = [task EXCEPT ![t] = At("looking", m)]
  /\ UNCHANGED <<phase, todo, rooms, cache, db, failed, attempt, linkBase, imported, restarts, troubles,
                 unseen, overlaps>>

\* The sync raises.
SyncFails(t, m) ==
  /\ task[t] = At("looking", m)
  /\ task' = [task EXCEPT ![t] = Idle]
  /\ UNCHANGED <<phase, todo, rooms, cache, db, failed, attempt, linkBase, imported, restarts, troubles,
                 unseen, overlaps>>

\* Another task has found the room meanwhile: it is used and saved.
FoundInCache(t, m) ==
  /\ task[t] = At("looking", m)
  /\ cache[m] # None
  /\ task' = [task EXCEPT ![t] = Saving(m, cache[m])]
  /\ UNCHANGED <<phase, todo, rooms, cache, db, failed, attempt, linkBase, imported, restarts, troubles,
                 unseen, overlaps>>

\* The running program is the module src.bot.main, so that an import of bot.main is a
\* second copy of it: nobody fills in its HOMESERVER and REDMINE_URL, and its last line
\* overwrites REDMINE_URL of sender.py with its own empty one.
ImportMain ==
  /\ imported' = TRUE
  /\ linkBase' = (linkBase /\ imported)

NotFoundMutant(t, m) ==
  /\ task[t] = At("looking", m)
  /\ ImportMain
  /\ task' = [task EXCEPT ![t] = At("creating", m)]
  /\ overlaps' = IF \E u \in Tasks : task[u] = At("creating", m)
                   THEN [overlaps EXCEPT ![m] = @ + 1] ELSE overlaps
  /\ UNCHANGED <<phase, todo, rooms, cache, db, failed, attempt, restarts, troubles, unseen>>
\* _find_dm_via_api imports bot.main for the address of the homeserver, gets an empty
\* one, and finds nothing: a room has to be created.
NotFound(t, m) ==
  /\ task[t] = At("looking", m)
  /\ cache[m] = None
  /\ ImportMain
  /\ task' = [task EXCEPT ![t] = At("creating", m)]
  /\ overlaps' = IF \E u \in Tasks : task[u] = At("creating", m)
                   THEN [overlaps EXCEPT ![m] = @ + 1] ELSE overlaps
  /\ UNCHANGED <<phase, todo, rooms, cache, db, failed, attempt, restarts, troubles, unseen>>

\* send_matrix_message imports bot.main for the number of days an issue is overdue.
SendOverdue ==
  /\ phase = "running"
  /\ ImportMain
  /\ UNCHANGED <<phase, todo, rooms, cache, db, failed, task, attempt, restarts, troubles, unseen, overlaps>>

\* The process is stopped or dies, and starts again.
Restart ==
  /\ restarts < MaxRestarts
  /\ restarts' = restarts + 1
  /\ Booted
  /\ UNCHANGED <<rooms, db, troubles, unseen, overlaps>>

Next ==
  \/ \E m \in Mxids : PrewarmCreates(m) \/ OtherBot(m)
  \/ PrewarmEnds
  \/ StartCycle
  \/ \E t \in Tasks, m \in Mxids :
       Resolve(t, m) \/ SyncFails(t, m) \/ FoundInCache(t, m) \/ NotFound(t, m)
  \/ \E t \in Makers, m \in Mxids :
       AttemptFails(t, m) \/ Creates(t, m) \/ GivesUp(t, m) \/ Saves(t, m)
  \/ SendOverdue
  \/ Restart

Spec == Init /\ [][Next]_vars

\* The warm-up goes on, cycles start, messages for everybody keep coming, and the
\* homeserver answers or the timeout strikes.
Fairness ==
  /\ \A m \in Mxids : WF_vars(PrewarmCreates(m))
  /\ WF_vars(PrewarmEnds)
  /\ SF_vars(StartCycle)
  /\ \A m \in Mxids : SF_vars(\E t \in Tasks : Resolve(t, m))
  /\ \A t \in Tasks, m \in Mxids : SF_vars(FoundInCache(t, m) \/ NotFound(t, m))
  /\ \A t \in Makers, m \in Mxids :
       /\ WF_vars(Creates(t, m) \/ GivesUp(t, m))
       /\ WF_vars(Saves(t, m))

FairSpec == Spec /\ Fairness

-----------------------------------------------------------------------------
\* A person has one direct room with the bot, and another one only for each restart,
\* for each room the process was not told of (its answer was lost, or another bot process
\* made it), and for each creation begun while another one ran.
RoomsAccountedFor == \A m \in Mxids : rooms[m] <= 1 + restarts + unseen[m] + overlaps[m]

\* However often creations fail, everybody gets a room in the end: a failure bars a
\* person for the rest of the cycle only.
EveryoneGetsARoom == \A m \in Mxids : <>[](cache[m] # None)
=============================================================================
