----------------------------- MODULE IssueRules -----------------------------
(***************************************************************************)
(* What check_user_issues does with one issue: the eight numbered blocks   *)
(* of the loop of processor.py, as functions from what the bot remembers   *)
(* of the issue and what Redmine says of it to what it remembers next and  *)
(* the notices it sends.  Nothing here waits or fails; IssueCycle runs it. *)
(***************************************************************************)
EXTENDS Integers, FiniteSets, Sequences

CONSTANTS
  Never,          \* no time, no status, no journal id: the column is NULL
  Notify,         \* kinds of notices the user is subscribed to
  GroupNotify,    \* kinds of notices the group's room is subscribed to
  Others,         \* "member" and "extra": whom else a new issue is announced to
  HasGroupRoom,   \* does the user's group have a room
  GroupRepeat,    \* GROUP_REPEAT_SECONDS
  ReminderAfter,  \* REMINDER_AFTER
  DayLength,      \* ticks in a day
  Offset          \* ticks by which BOT_TIMEZONE is ahead of UTC

\* "Work" is any status the bot has no rule for, "Waiting" one of those that are
\* neither final nor in the list the bot asks Redmine for (ids 8 and 12).
Status == {"New", "RV", "Info", "Reopened", "Work", "Waiting", "Closed"}

ASSUME RulesAssumption ==
  /\ Never \notin Int \cup Status
  /\ Others \subseteq {"member", "extra"}
  /\ HasGroupRoom \in BOOLEAN
  /\ GroupRepeat \in Nat /\ ReminderAfter \in Nat /\ DayLength \in Nat \ {0}
  /\ Offset \in Int

\* The kinds of notices, and who gets one: the user, the rooms of the group's
\* members, rooms by version or status, the group's room at first and at repeats.
Kind == {"new", "info", "reminder", "overdue", "status_change", "issue_updated", "reopened"}
Via == {"personal", "member", "extra", "group", "repeat"}

\* A journal entry holds a comment, a status change only, or fields nobody is told of.
Entry == {"comment", "status", "hidden"}

\* What the bot remembers of an issue: the four dictionaries sent, reminders,
\* overdue_n and journals at this issue's key.
Forgotten == [status |-> Never, at |-> Never, group |-> Never,
              jid |-> Never, rem |-> Never, over |-> Never]
Known(st) == st.status # Never

\* The date of a time in BOT_TIMEZONE, and its date in UTC.
Day(t) == t \div DayLength
UtcDay(t) == (t - Offset) \div DayLength

TellMutant(kind, via) == IF kind \in Notify THEN {<<via, kind>>} ELSE {}
Tell(kind, via) == IF kind \in Notify THEN {<<kind, via>>} ELSE {}

-----------------------------------------------------------------------------
\* The work on one issue: what is remembered, which notices are sent, whether the
\* issue joined a changed_* set.
Begun(st) == [st |-> st, notes |-> {}, dirty |-> FALSE]

\* detect_status_change: a remembered status that is not the present one.
StatusChanged(x, st) == Known(st) /\ st.status # x.status

StatusStepMutant(x, w) ==
  IF StatusChanged(x, w.st)
    THEN [st |-> w.st, notes |-> w.notes \cup Tell("status_change", "personal"), dirty |-> TRUE]
    ELSE w
StatusStepSilentMutant(x, w) ==
  IF StatusChanged(x, w.st)
    THEN [st |-> [w.st EXCEPT !.status = x.status], notes |-> w.notes, dirty |-> TRUE]
    ELSE w
\* Block 1.
StatusStep(x, w) ==
  IF StatusChanged(x, w.st)
    THEN [st |-> [w.st EXCEPT !.status = x.status],
          notes |-> w.notes \cup Tell("status_change", "personal"), dirty |-> TRUE]
    ELSE w

GroupWants == HasGroupRoom /\ "new" \in GroupNotify

\* To whom an issue is announced as new.
Announcement ==
  IF "new" \in Notify
    THEN {<<"new", via>> : via \in {"personal"} \cup Others}
           \cup (IF GroupWants THEN {<<"new", "group">>} ELSE {})
    ELSE {}

\* The notices about an issue met for the first time, by its status.
FirstNotices(status) ==
  CASE status \in {"New", "RV"} -> Announcement
    [] status = "Info"          -> Tell("info", "personal")
    [] status = "Reopened"      -> Tell("reopened", "personal")
    [] OTHER                    -> {}

FirstSeen(x, st, now) ==
  [st EXCEPT !.status = x.status, !.at = now,
             !.group = IF x.status \in {"New", "RV"} THEN now ELSE Never]

RepeatDue(x, st, now) ==
  /\ x.status \in {"New", "RV"}
  /\ GroupWants
  /\ st.group = Never \/ now - st.group >= GroupRepeat

ReminderDue(x, st, now) ==
  /\ x.status = "Info"
  /\ "reminder" \in Notify
  /\ now - (IF st.rem # Never THEN st.rem ELSE st.at) >= ReminderAfter

FirstStepMutant(x, w, now) ==
  CASE ~Known(w.st) ->
         [st |-> w.st, notes |-> w.notes \cup FirstNotices(x.status), dirty |-> TRUE]
    [] OTHER -> w
\* Blocks 2 to 6, one chain of elif: an issue met for the first time is recorded,
\* with the notices its status calls for; a known one may be due for the group's
\* room again, or for a reminder.
FirstStep(x, w, now) ==
  CASE ~Known(w.st) ->
         [st |-> FirstSeen(x, w.st, now), notes |-> w.notes \cup FirstNotices(x.status),
          dirty |-> TRUE]
    [] Known(w.st) /\ RepeatDue(x, w.st, now) ->
         [st |-> [w.st EXCEPT !.group = now], notes |-> w.notes \cup {<<"new", "repeat">>},
          dirty |-> TRUE]
    [] Known(w.st) /\ ReminderDue(x, w.st, now) ->
         [st |-> [w.st EXCEPT !.rem = now], notes |-> w.notes \cup {<<"reminder", "personal">>},
          dirty |-> TRUE]
    [] OTHER -> w

\* Today is the date in BOT_TIMEZONE.  The time of the last notice comes from a row,
\* where it is kept in UTC, and ensure_tz leaves it there: its date is the UTC one.
OverdueDue(x, st, now) ==
  /\ x.due # Never /\ x.due < Day(now)
  /\ "overdue" \in Notify
  /\ st.over = Never \/ UtcDay(st.over) < Day(now)

\* Block 7: on a day after that of the last notice.
OverdueStep(x, w, now) ==
  IF OverdueDue(x, w.st, now)
    THEN [st |-> [w.st EXCEPT !.over = now], notes |-> w.notes \cup {<<"overdue", "personal">>},
          dirty |-> TRUE]
    ELSE w

DescribesMutant(entry, skipStatus) == ~skipStatus /\ entry \in {"comment", "status"}
\* describe_journal, as far as it returns a text at all.
Describes(entry, skipStatus) == entry = "comment" \/ (entry = "status" /\ ~skipStatus)

LastKnownId(st) == IF st.jid = Never THEN 0 ELSE st.jid

\* detect_new_journals: entries are numbered by their place, ids only grow.
NewEntries(x, st) == {j \in DOMAIN x.journals : j > LastKnownId(st)}

JournalAdvanceMutant(x, st) == Cardinality(NewEntries(x, st))
\* The highest id of the journals, when that is news.
JournalAdvance(x, st) == IF Len(x.journals) > LastKnownId(st) THEN Len(x.journals) ELSE st.jid

JournalStepMutant(x, skipStatus, w) ==
  [st |-> [w.st EXCEPT !.jid = IF w.st.jid = Never THEN JournalAdvance(x, w.st) ELSE @],
   notes |-> IF w.st.jid # Never /\ \E j \in NewEntries(x, w.st) : Describes(x.journals[j], skipStatus)
               THEN w.notes \cup Tell("issue_updated", "personal") ELSE w.notes,
   dirty |-> TRUE]
\* Block 8: new entries are told of, unless no journal id is remembered yet: then
\* the highest id is taken over in silence.
JournalStep(x, skipStatus, w) ==
  [st |-> [w.st EXCEPT !.jid = JournalAdvance(x, w.st)],
   notes |-> IF /\ w.st.jid # Never
                /\ Known(w.st)
                /\ \E j \in NewEntries(x, w.st) : Describes(x.journals[j], skipStatus)
               THEN w.notes \cup Tell("issue_updated", "personal") ELSE w.notes,
   dirty |-> w.dirty \/ JournalAdvance(x, w.st) # w.st.jid]

\* The body of the loop up to and including its k-th step: 4 when nothing raises;
\* after an exception the loop goes on to the next issue and keeps what was done.
Work(x, st, now, k) ==
  LET w1 == StatusStep(x, Begun(st))
      w2 == FirstStep(x, w1, now)
      w3 == OverdueStep(x, w2, now)
      w4 == JournalStep(x, StatusChanged(x, st), w3)
  IN <<Begun(st), w1, w2, w3, w4>>[k + 1]

-----------------------------------------------------------------------------
\* build_state_dicts_from_rows: a row has no column for the last notice to the
\* group's room, and a status without its time counts as unknown.  A time is the same
\* instant as before, but in UTC: differences stay what they were, dates do not.
FromRow(row) ==
  [row EXCEPT !.group = Never,
              !.status = IF row.at = Never THEN Never ELSE row.status,
              !.at = IF row.status = Never THEN Never ELSE row.at]

\* _fields_for_issue and the upsert of all five columns.
ToRow(st) == [st EXCEPT !.group = Never]
=============================================================================
