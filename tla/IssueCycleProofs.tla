-------------------------- MODULE IssueCycleProofs --------------------------
(***************************************************************************)
(* Proofs about IssueCycle, for any number of issues, edits and failures,  *)
(* any subscriptions and any length of the clock: the type invariant, that *)
(* nothing is told twice, that no journal entry is told of twice or passed *)
(* over, that a row's status moves with a notice, that there is one        *)
(* overdue notice a day, and that undisturbed cycles skip no update.       *)
(***************************************************************************)
EXTENDS IssueCycle, TLAPS

Personal(kind) == <<kind, "personal">>

\* A status that is remembered has its time, in a row as in memory.
Dated(st) == Known(st) => st.at # Never

\* What the bot goes by: the memory of a cycle that has loaded it, else the row.
Current(i) == IF pc = "processing" THEN mem[i] ELSE db[i]

\* Told, or about to be.
Due1(i, kind) == told[i][kind] + (IF <<i, Personal(kind)>> \in outbox THEN 1 ELSE 0)

-----------------------------------------------------------------------------
\* Rows, memory, batch and Redmine agree about the journals.
JournalsAgree(i) ==
  /\ db[i].jid # Never => db[i].jid <= Len(redmine[i].journals) /\ Current(i).jid # Never
  /\ mem[i].jid # Never => mem[i].jid <= Len(redmine[i].journals)
  /\ i \in DOMAIN batch =>
       /\ Len(batch[i].journals) <= Len(redmine[i].journals)
       /\ \A c \in 1 .. Len(batch[i].journals) : batch[i].journals[c] = redmine[i].journals[c]

\* Where a cycle stands.
CyclePhase ==
  /\ pc # "processing" => outbox = {} /\ announced = {} /\ changed = {}
  /\ pc = "idle" => DOMAIN batch = {}

\* Comments that are owed are comments, written while a journal id was known; what the
\* bot has moved past is covered.
CommentsKept(i) ==
  /\ owed[i] # {} => db[i].jid # Never
  /\ \A c \in owed[i] :
       /\ c \in 1 .. Len(redmine[i].journals) /\ redmine[i].journals[c] = "comment"
       /\ db[i].jid # Never /\ c <= db[i].jid => c \in covered[i]
       /\ Current(i).jid # Never /\ c <= Current(i).jid => c \in covered[i]

\* The notice about a status goes with what is remembered of it.
StatusTracked(i) ==
  pc = "processing" /\ Known(db[i]) =>
    \/ mem[i].status = db[i].status
    \/ i \notin DOMAIN batch /\ <<i, Personal("status_change")>> \in announced

\* As long as nothing was lost, what is covered is what the bot has moved past.
CoveredPassed(i) ==
  forgotten[i] = 0 =>
    /\ \A c \in covered[i] : c <= LastKnownId(Current(i))
    /\ pc = "processing" /\ i \notin changed => mem[i].jid = db[i].jid

\* An announcement has been paid for by the memory of the issue, or by its loss.
Announced1(i, st) == Due1(i, "new") <= forgotten[i] + (IF Known(st) THEN 1 ELSE 0)

\* A notice of a status change has been paid for by a change, of which those are left
\* that lie between what is remembered, the batch and Redmine.
Differs(st, status) == IF Known(st) /\ st.status # status THEN 1 ELSE 0
Unseen(i, st) ==
  IF i \in DOMAIN batch
    THEN Differs(st, batch[i].status) + (IF batch[i].status # redmine[i].status THEN 1 ELSE 0)
    ELSE Differs(st, redmine[i].status)
ChangesCounted(i, st) == Due1(i, "status_change") + Unseen(i, st) <= moves[i] + forgotten[i]

Accounts(i, st) == Announced1(i, st) /\ ChangesCounted(i, st)

\* What is changed is accounted for by the memory, the rest by the row as well.
Accounted(i) == Accounts(i, Current(i)) /\ (i \notin changed => Accounts(i, db[i]))

IssueInv(i) ==
  /\ Dated(db[i]) /\ Dated(mem[i])
  /\ JournalsAgree(i) /\ CoveredPassed(i) /\ Accounted(i)

Inv == TypeOK /\ CyclePhase /\ \A i \in Issues : IssueInv(i)
Kept == \A i \in Issues : CommentsKept(i)
Tracked == \A i \in Issues : StatusTracked(i)
-----------------------------------------------------------------------------
(* The rules: what one pass of the loop does. *)

Progress == [st : Row, notes : SUBSET Notice, dirty : BOOLEAN]

\* A notice to the user is a notice.
LEMMA PersonalNotice == \A k \in Kind : Personal(k) \in Notice /\ Tell(k, "personal") \subseteq Notice
BY DEF Personal, Notice, Via, Tell

\* Block 1 touches the status only.
LEMMA StatusStepFacts ==
  ASSUME NEW x \in Snapshot, NEW st \in Row, NEW w, w = StatusStep(x, Begun(st))
  PROVE  /\ w \in Progress
         /\ w.st.at = st.at /\ w.st.jid = st.jid
         /\ Known(st) => w.st.status = x.status
         /\ ~Known(st) => w.st.status = st.status
         /\ w.notes \subseteq {Personal("status_change")}
         /\ Personal("status_change") \in w.notes => Known(st) /\ st.status # x.status
         /\ "status_change" \in Notify /\ w.st.status # st.status
              => Personal("status_change") \in w.notes
         /\ w.dirty <=> Known(st) /\ st.status # x.status
<1>1. x.status \in Status /\ st.status \in Status \cup {Never} BY DEF Snapshot, Row
<1>2. CASE Known(st) /\ st.status # x.status
  <2>1. w = [st |-> [st EXCEPT !.status = x.status],
             notes |-> {} \cup Tell("status_change", "personal"), dirty |-> TRUE]
    BY <1>2 DEF StatusStep, Begun, StatusChanged
  <2>2. Tell("status_change", "personal") \subseteq {Personal("status_change")}
        /\ ("status_change" \in Notify => Personal("status_change") \in Tell("status_change", "personal"))
    BY DEF Tell, Personal
  <2>3. Personal("status_change") \in Notice BY PersonalNotice DEF Kind
  <2>4. [st EXCEPT !.status = x.status] \in Row BY <1>1 DEF Row
  <2>5. w \in Progress BY <2>1, <2>2, <2>3, <2>4 DEF Progress
  <2>6. w.st.at = st.at /\ w.st.jid = st.jid /\ w.st.status = x.status BY <2>1 DEF Row
  <2>7. w.notes = Tell("status_change", "personal") /\ w.dirty = TRUE BY <2>1
  <2> QED BY <1>2, <2>2, <2>5, <2>6, <2>7
<1>3. CASE ~(Known(st) /\ st.status # x.status)
  <2>1. w = [st |-> st, notes |-> {}, dirty |-> FALSE]
    BY <1>3 DEF StatusStep, Begun, StatusChanged
  <2>2. w \in Progress BY <2>1 DEF Progress
  <2>3. w.st = st /\ w.notes = {} /\ w.dirty = FALSE BY <2>1
  <2> QED BY <1>3, <2>2, <2>3
<1> QED BY <1>2, <1>3

\* What a block after the first may do.
Follows(w, v) ==
  /\ v \in Progress
  /\ w.notes \subseteq v.notes
  /\ w.dirty => v.dirty
  /\ Personal("status_change") \in v.notes => Personal("status_change") \in w.notes

\* Blocks 2 to 6 make an issue known, and announce it if it was not.
LEMMA FirstStepFacts ==
  ASSUME NEW x \in Snapshot, NEW w \in Progress, NEW t \in Nat, NEW v, v = FirstStep(x, w, t)
  PROVE  /\ Follows(w, v)
         /\ v.st.jid = w.st.jid
         /\ Known(v.st) /\ (Dated(w.st) => Dated(v.st))
         /\ Known(w.st) => v.st.status = w.st.status
         /\ ~Known(w.st) => v.st.status = x.status /\ v.dirty
         /\ Personal("new") \in v.notes => Personal("new") \in w.notes \/ ~Known(w.st)
         /\ Personal("issue_updated") \in v.notes => Personal("issue_updated") \in w.notes
<1>1. x.status \in Status /\ Never \notin Status /\ t # Never /\ t \in Int
  BY RulesAssumption DEF Snapshot
<1>2. w.st \in Row /\ w.notes \subseteq Notice /\ w.dirty \in BOOLEAN BY DEF Progress
<1>3. CASE ~Known(w.st)
  <2> DEFINE g == IF x.status \in {"New", "RV"} THEN t ELSE Never
  <2>1. v = [st |-> FirstSeen(x, w.st, t), notes |-> w.notes \cup FirstNotices(x.status), dirty |-> TRUE]
    BY <1>3 DEF FirstStep
  <2>2. FirstNotices(x.status) \subseteq Notice
        /\ Personal("status_change") \notin FirstNotices(x.status)
        /\ Personal("issue_updated") \notin FirstNotices(x.status)
    <3>1. Announcement \subseteq {"new"} \X Via
      BY RulesAssumption DEF Announcement, Via
    <3> QED BY <3>1 DEF FirstNotices, Tell, Notice, Kind, Via, Personal
  <2>3. g \in Int \cup {Never} BY <1>1
  <2>4. FirstSeen(x, w.st, t) = [w.st EXCEPT !.status = x.status, !.at = t, !.group = g]
    BY DEF FirstSeen
  <2> HIDE DEF g
  <2>5. FirstSeen(x, w.st, t) \in Row /\ FirstSeen(x, w.st, t).jid = w.st.jid
        /\ FirstSeen(x, w.st, t).status = x.status /\ FirstSeen(x, w.st, t).at = t
    BY <1>1, <1>2, <2>3, <2>4 DEF Row
  <2>6. v.st = FirstSeen(x, w.st, t) /\ v.notes = w.notes \cup FirstNotices(x.status) /\ v.dirty = TRUE
    BY <2>1
  <2>7. v \in Progress BY <1>2, <2>1, <2>2, <2>5 DEF Progress
  <2> QED BY <1>1, <1>3, <2>2, <2>5, <2>6, <2>7 DEF Follows, Known, Dated
<1>4. /\ (Known(w.st) /\ RepeatDue(x, w.st, t))
        => (v = [st |-> [w.st EXCEPT !.group = t], notes |-> w.notes \cup {<<"new", "repeat">>},
                 dirty |-> TRUE])
      /\ (Known(w.st) /\ ~RepeatDue(x, w.st, t) /\ ReminderDue(x, w.st, t))
        => (v = [st |-> [w.st EXCEPT !.rem = t],
                 notes |-> w.notes \cup {<<"reminder", "personal">>}, dirty |-> TRUE])
  <2> DEFINE r == RepeatDue(x, w.st, t)
             m == ReminderDue(x, w.st, t)
             kn == Known(w.st)
             a == [st |-> FirstSeen(x, w.st, t), notes |-> w.notes \cup FirstNotices(x.status),
                   dirty |-> TRUE]
             b == [st |-> [w.st EXCEPT !.group = t], notes |-> w.notes \cup {<<"new", "repeat">>},
                   dirty |-> TRUE]
             c == [st |-> [w.st EXCEPT !.rem = t],
                   notes |-> w.notes \cup {<<"reminder", "personal">>}, dirty |-> TRUE]
  <2>1. v = CASE ~kn -> a [] kn /\ r -> b [] kn /\ m -> c [] OTHER -> w
    BY DEF FirstStep
  <2>2. (kn /\ r => v = b) /\ (kn /\ ~r /\ m => v = c)
    <3>1. r \in BOOLEAN /\ m \in BOOLEAN /\ kn \in BOOLEAN /\ ~(r /\ m)
      BY DEF RepeatDue, ReminderDue, Known
    <3>2. CASE kn /\ r /\ ~m BY <2>1, <3>2
    <3>3. CASE kn /\ ~r /\ m BY <2>1, <3>3
    <3> HIDE DEF r, m, kn, a, b, c
    <3> QED BY <3>1, <3>2, <3>3
  <2> QED BY <2>2
<1>5. CASE Known(w.st) /\ RepeatDue(x, w.st, t)
  <2>1. v = [st |-> [w.st EXCEPT !.group = t], notes |-> w.notes \cup {<<"new", "repeat">>}, dirty |-> TRUE]
    BY <1>5, <1>4
  <2>2. <<"new", "repeat">> \in Notice /\ \A k \in Kind : <<"new", "repeat">> # Personal(k)
    BY DEF Notice, Kind, Via, Personal
  <2>3. [w.st EXCEPT !.group = t] \in Row BY <1>2, <1>1 DEF Row
  <2> QED BY <1>2, <1>5, <2>1, <2>2, <2>3 DEF Follows, Progress, Known, Dated, Row, Kind
<1>6. CASE Known(w.st) /\ ~RepeatDue(x, w.st, t) /\ ReminderDue(x, w.st, t)
  <2>1. v = [st |-> [w.st EXCEPT !.rem = t], notes |-> w.notes \cup {<<"reminder", "personal">>}, dirty |-> TRUE]
    BY <1>6, <1>4
  <2>2. <<"reminder", "personal">> \in Notice
        /\ \A k \in {"new", "status_change", "issue_updated"} : <<"reminder", "personal">> # Personal(k)
    BY DEF Notice, Kind, Via, Personal
  <2>3. [w.st EXCEPT !.rem = t] \in Row BY <1>2, <1>1 DEF Row
  <2> QED BY <1>2, <1>6, <2>1, <2>2, <2>3 DEF Follows, Progress, Known, Dated, Row
<1>7. CASE Known(w.st) /\ ~RepeatDue(x, w.st, t) /\ ~ReminderDue(x, w.st, t)
  <2>1. v = w BY <1>7 DEF FirstStep
  <2> QED BY <1>2, <1>7, <2>1 DEF Follows
<1> QED BY <1>3, <1>5, <1>6, <1>7

\* Block 7 adds its notice and its time.
LEMMA OverdueStepFacts ==
  ASSUME NEW x \in Snapshot, NEW w \in Progress, NEW t \in Nat, NEW v, v = OverdueStep(x, w, t)
  PROVE  /\ Follows(w, v)
         /\ v.st.jid = w.st.jid /\ v.st.status = w.st.status /\ v.st.at = w.st.at
         /\ Personal("new") \in v.notes => Personal("new") \in w.notes
         /\ Personal("issue_updated") \in v.notes => Personal("issue_updated") \in w.notes
<1>1. w.st \in Row /\ w.notes \subseteq Notice /\ w.dirty \in BOOLEAN BY DEF Progress
<1>2. CASE OverdueDue(x, w.st, t)
  <2>1. v = [st |-> [w.st EXCEPT !.over = t], notes |-> w.notes \cup {<<"overdue", "personal">>}, dirty |-> TRUE]
    BY <1>2 DEF OverdueStep
  <2>2. <<"overdue", "personal">> \in Notice
        /\ \A k \in {"new", "status_change", "issue_updated"} : <<"overdue", "personal">> # Personal(k)
    BY DEF Notice, Kind, Via, Personal
  <2>3. [w.st EXCEPT !.over = t] \in Row BY <1>1 DEF Row
  <2> QED BY <1>1, <2>1, <2>2, <2>3 DEF Follows, Progress, Row
<1>3. CASE ~OverdueDue(x, w.st, t)
  <2>1. v = w BY <1>3 DEF OverdueStep
  <2> QED BY <2>1 DEF Follows
<1> QED BY <1>2, <1>3

\* Block 8 moves the journal id, and tells of comments once an id is known.
LEMMA JournalStepFacts ==
  ASSUME NEW x \in Snapshot, NEW skip \in BOOLEAN, NEW w \in Progress,
         NEW v, v = JournalStep(x, skip, w)
  PROVE  /\ Follows(w, v)
         /\ v.st.jid = JournalAdvance(x, w.st) /\ v.st.status = w.st.status /\ v.st.at = w.st.at
         /\ Personal("new") \in v.notes => Personal("new") \in w.notes
         /\ v.st.jid # w.st.jid => v.dirty
         /\ /\ "issue_updated" \in Notify /\ w.st.jid # Never /\ Known(w.st)
            /\ \E j \in NewEntries(x, w.st) : x.journals[j] = "comment"
            => Personal("issue_updated") \in v.notes
<1> DEFINE told1 == /\ w.st.jid # Never /\ Known(w.st)
                    /\ \E j \in NewEntries(x, w.st) : Describes(x.journals[j], skip)
           more == IF told1 THEN Tell("issue_updated", "personal") ELSE {}
           jid == JournalAdvance(x, w.st)
<1>1. w.st \in Row /\ w.notes \subseteq Notice /\ w.dirty \in BOOLEAN BY DEF Progress
<1>2. jid \in Nat \cup {Never}
  BY <1>1 DEF JournalAdvance, Row, Snapshot
<1>3. /\ more \subseteq Notice
      /\ Personal("new") \notin more /\ Personal("status_change") \notin more
      /\ "issue_updated" \in Notify /\ told1 => Personal("issue_updated") \in more
  BY DEF Tell, Personal, Notice, Kind, Via
<1>4. v = [st |-> [w.st EXCEPT !.jid = jid], notes |-> w.notes \cup more,
           dirty |-> w.dirty \/ jid # w.st.jid]
  <2>1. CASE told1 BY <2>1 DEF JournalStep
  <2>2. CASE ~told1 BY <2>2 DEF JournalStep
  <2> QED BY <2>1, <2>2
<1>5. /\ w.st.jid # Never /\ Known(w.st)
      /\ \E j \in NewEntries(x, w.st) : x.journals[j] = "comment"
      => told1
  BY DEF Describes
<1> HIDE DEF told1, more, jid
<1>6. [w.st EXCEPT !.jid = jid] \in Row BY <1>1, <1>2 DEF Row
<1>7. v \in Progress BY <1>1, <1>6, <1>3, <1>4 DEF Progress
<1>8. /\ v.st.jid = jid /\ v.st.status = w.st.status /\ v.st.at = w.st.at
      /\ v.notes = w.notes \cup more
  BY <1>1, <1>4 DEF Row
<1>9. v.dirty <=> w.dirty \/ jid # w.st.jid
  <2>1. v.dirty = (w.dirty \/ jid # w.st.jid) BY <1>4
  <2> QED BY <2>1
<1> QED BY <1>3, <1>7, <1>8, <1>5, <1>9 DEF Follows, jid

-----------------------------------------------------------------------------
\* What the journal id is advanced to.
LEMMA AdvanceFacts ==
  ASSUME NEW x \in Snapshot, NEW st \in Row
  PROVE  LET j == JournalAdvance(x, st) IN
         /\ j \in Nat \cup {Never}
         /\ j # Never => j = st.jid \/ j = Len(x.journals)
         /\ st.jid # Never => j # Never /\ j >= st.jid
         /\ \A c \in NewEntries(x, st) : c \in Nat /\ j # Never /\ c <= j /\ c > LastKnownId(st)
         /\ j # Never => \A c \in 1 .. j : c <= LastKnownId(st) \/ c \in NewEntries(x, st)
<1>1. Len(x.journals) \in Nat /\ DOMAIN x.journals = 1 .. Len(x.journals) /\ st.jid \in Nat \cup {Never}
  BY DEF Snapshot, Row
<1>2. Never \notin Nat BY RulesAssumption
<1>3. CASE st.jid = Never
  BY <1>1, <1>2, <1>3 DEF JournalAdvance, NewEntries, LastKnownId
<1>4. CASE st.jid \in Nat
  BY <1>1, <1>2, <1>4 DEF JournalAdvance, NewEntries, LastKnownId
<1> QED BY <1>1, <1>3, <1>4

\* What the k steps of one pass leave behind.
WorkDone(x, st, w, k) ==
  /\ w \in Progress
  /\ Dated(st) => Dated(w.st)
  /\ Known(st) => Known(w.st)
  /\ w.st.status \in {st.status, x.status}
  /\ Personal("status_change") \in w.notes => Known(st) /\ st.status # x.status /\ w.st.status = x.status
  /\ "status_change" \in Notify /\ Known(st) /\ w.st.status # st.status
       => Personal("status_change") \in w.notes
  /\ Personal("new") \in w.notes => ~Known(st) /\ Known(w.st)
  /\ ~w.dirty => w.st.status = st.status /\ w.st.jid = st.jid
  /\ w.st.jid = IF k = 4 THEN JournalAdvance(x, st) ELSE st.jid
  /\ k < 4 => Personal("issue_updated") \notin w.notes
  /\ /\ k = 4 /\ "issue_updated" \in Notify /\ st.jid # Never
     /\ \E j \in NewEntries(x, st) : x.journals[j] = "comment"
     => Personal("issue_updated") \in w.notes

\* Every prefix of the pass does no more and no less than that.
LEMMA WorkFacts ==
  ASSUME NEW x \in Snapshot, NEW st \in Row, NEW t \in Nat, NEW k \in 0 .. 4
  PROVE  WorkDone(x, st, Work(x, st, t, k), k)
<1> DEFINE w0 == Begun(st)
           w1 == StatusStep(x, w0)
           w2 == FirstStep(x, w1, t)
           w3 == OverdueStep(x, w2, t)
           w4 == JournalStep(x, StatusChanged(x, st), w3)
<1>1. Work(x, st, t, k) = <<w0, w1, w2, w3, w4>>[k + 1] BY DEF Work
<1>2. StatusChanged(x, st) \in BOOLEAN BY DEF StatusChanged
<1>3. w0 = [st |-> st, notes |-> {}, dirty |-> FALSE] BY DEF Begun
<1>4. \A a, b \in {"new", "status_change", "issue_updated"} : Personal(a) = Personal(b) => a = b
  BY DEF Personal
<1>5. x.status \in Status /\ Never \notin Status BY RulesAssumption DEF Snapshot
<1>6. Personal("status_change") # Personal("new") /\ Personal("status_change") # Personal("issue_updated")
  BY <1>4
<1>7. WorkDone(x, st, w0, 0)
  BY <1>3 DEF WorkDone, Progress
<1>8. /\ WorkDone(x, st, w1, 1)
      /\ Known(st) => w1.st.status = x.status
      /\ w1.st.at = st.at /\ w1 \in Progress
      /\ ~Known(st) => ~Known(w1.st)
  <2> DEFINE w == StatusStep(x, Begun(st))
  <2>1. /\ w \in Progress
        /\ w.st.at = st.at /\ w.st.jid = st.jid
        /\ Known(st) => w.st.status = x.status
        /\ ~Known(st) => w.st.status = st.status
        /\ w.notes \subseteq {Personal("status_change")}
        /\ Personal("status_change") \in w.notes => Known(st) /\ st.status # x.status
        /\ "status_change" \in Notify /\ w.st.status # st.status
              => Personal("status_change") \in w.notes
        /\ w.dirty <=> Known(st) /\ st.status # x.status
    BY StatusStepFacts
  <2> HIDE DEF w
  <2>2. WorkDone(x, st, w, 1) BY <2>1, <1>6, <1>5 DEF WorkDone, Known, Dated
  <2>3. ~Known(st) => ~Known(w.st) BY <2>1 DEF Known
  <2> QED BY <2>1, <2>2, <2>3 DEF w
<1> HIDE DEF w1
<1>9. /\ WorkDone(x, st, w2, 2) /\ w2 \in Progress
      /\ w2.st.status = x.status /\ Known(w2.st)
  <2>1. /\ Follows(w1, w2)
        /\ w2.st.jid = w1.st.jid
        /\ Known(w2.st) /\ (Dated(w1.st) => Dated(w2.st))
        /\ Known(w1.st) => w2.st.status = w1.st.status
        /\ ~Known(w1.st) => w2.st.status = x.status /\ w2.dirty
        /\ Personal("new") \in w2.notes => Personal("new") \in w1.notes \/ ~Known(w1.st)
        /\ Personal("issue_updated") \in w2.notes => Personal("issue_updated") \in w1.notes
    BY <1>8, FirstStepFacts
  <2> HIDE DEF w2
  <2>2. w2.st.status = x.status BY <1>8, <2>1 DEF WorkDone
  <2>3. WorkDone(x, st, w2, 2) BY <1>8, <2>1, <2>2, <1>5 DEF WorkDone, Known, Follows
  <2> QED BY <2>1, <2>2, <2>3 DEF Follows
<1> HIDE DEF w2
<1>10. /\ WorkDone(x, st, w3, 3) /\ w3 \in Progress
      /\ w3.st.status = x.status /\ Known(w3.st)
  <2>1. /\ Follows(w2, w3)
        /\ w3.st.jid = w2.st.jid /\ w3.st.status = w2.st.status /\ w3.st.at = w2.st.at
        /\ Personal("new") \in w3.notes => Personal("new") \in w2.notes
        /\ Personal("issue_updated") \in w3.notes => Personal("issue_updated") \in w2.notes
    BY <1>9, OverdueStepFacts
  <2> HIDE DEF w3
  <2>2. WorkDone(x, st, w3, 3) BY <1>9, <2>1 DEF WorkDone, Known, Dated, Follows
  <2> QED BY <1>9, <2>1, <2>2 DEF Follows, Known
<1> HIDE DEF w3
<1>11. WorkDone(x, st, w4, 4)
  <2>1. /\ Follows(w3, w4)
        /\ w4.st.jid = JournalAdvance(x, w3.st) /\ w4.st.status = w3.st.status /\ w4.st.at = w3.st.at
        /\ Personal("new") \in w4.notes => Personal("new") \in w3.notes
        /\ w4.st.jid # w3.st.jid => w4.dirty
        /\ /\ "issue_updated" \in Notify /\ w3.st.jid # Never /\ Known(w3.st)
           /\ \E j \in NewEntries(x, w3.st) : x.journals[j] = "comment"
           => Personal("issue_updated") \in w4.notes
    BY <1>2, <1>10, JournalStepFacts
  <2>2. w3.st.jid = st.jid BY <1>10 DEF WorkDone
  <2>3. JournalAdvance(x, w3.st) = JournalAdvance(x, st) /\ NewEntries(x, w3.st) = NewEntries(x, st)
    BY <2>2 DEF JournalAdvance, NewEntries, LastKnownId
  <2> HIDE DEF w4
  <2> QED BY <1>10, <2>1, <2>2, <2>3 DEF WorkDone, Known, Dated, Follows
<1> HIDE DEF w0, w4
<1>12. CASE k = 0 BY <1>7, <1>1, <1>12
<1>13. CASE k = 1 BY <1>1, <1>8, <1>13
<1>14. CASE k = 2 BY <1>1, <1>9, <1>14
<1>15. CASE k = 3 BY <1>1, <1>10, <1>15
<1>16. CASE k = 4 BY <1>1, <1>11, <1>16
<1> QED BY <1>12, <1>13, <1>14, <1>15, <1>16

\* What one pass over an issue leaves behind, an exception in it included: lost says
\* that notices went out whose memory the exception threw away.
Passed(x, st, s, dirty, notes, lost) ==
  /\ s \in Row /\ dirty \in BOOLEAN /\ notes \in SUBSET Notice /\ lost \in BOOLEAN
  /\ Dated(st) => Dated(s)
  /\ Known(st) => Known(s)
  /\ s.status \in {st.status, x.status}
  /\ Personal("status_change") \in notes
       => Known(st) /\ st.status # x.status /\ (lost \/ s.status = x.status)
  /\ "status_change" \in Notify /\ Known(st) /\ s.status # st.status
       => Personal("status_change") \in notes
  /\ Personal("new") \in notes => ~Known(st) /\ (lost \/ Known(s))
  /\ ~dirty => s.status = st.status /\ s.jid = st.jid
  /\ s.jid # st.jid => s.jid = JournalAdvance(x, st)
  /\ /\ s.jid # st.jid /\ "issue_updated" \in Notify /\ st.jid # Never
     /\ \E j \in NewEntries(x, st) : x.journals[j] = "comment"
     => Personal("issue_updated") \in notes
  /\ Personal("issue_updated") \in notes => lost \/ s.jid = JournalAdvance(x, st)

\* An issue of the batch is passed with an exception or without one.
LEMMA PassFacts ==
  ASSUME TypeOK, NEW i \in Issues,
         ProcessIssue(i) \/ (\E k \in 0 .. 3 : ProcessRaises(i, k))
  PROVE  /\ i \in DOMAIN batch /\ batch[i] \in Snapshot /\ mem[i] \in Row
         /\ \E s, dirty, notes, lost :
              /\ Process(i, s, dirty, notes)
              /\ Passed(batch[i], mem[i], s, dirty, notes, lost)
              /\ troubles' \in Nat /\ slipped' \subseteq Issues
              /\ forgotten' = IF lost THEN [forgotten EXCEPT ![i] = @ + 1] ELSE forgotten
<1>1. i \in DOMAIN batch /\ began \in Nat /\ mem[i] \in Row /\ troubles \in Nat /\ slipped \subseteq Issues
  BY DEF TypeOK, ProcessIssue, ProcessRaises
<1>2. batch[i] \in Snapshot BY <1>1 DEF TypeOK
<1>3. \A k \in 0 .. 4 : WorkDone(batch[i], mem[i], Work(batch[i], mem[i], began, k), k)
  BY <1>1, <1>2, WorkFacts
<1>4. CASE ProcessIssue(i)
  <2> DEFINE w == Work(batch[i], mem[i], began, 4)
  <2>1. Process(i, w.st, w.dirty, w.notes) /\ UNCHANGED <<troubles, forgotten, slipped>>
    BY <1>4 DEF ProcessIssue
  <2>2. WorkDone(batch[i], mem[i], w, 4) BY <1>3
  <2> HIDE DEF w
  <2>3. Passed(batch[i], mem[i], w.st, w.dirty, w.notes, FALSE)
    BY <2>2 DEF WorkDone, Passed, Progress
  <2> QED BY <1>1, <1>2, <2>1, <2>3
<1>5. CASE \E k \in 0 .. 3 : ProcessRaises(i, k)
  <2>1. PICK k \in 0 .. 3 : ProcessRaises(i, k) BY <1>5
  <2> DEFINE w == Work(batch[i], mem[i], began, k)
             v == Work(batch[i], mem[i], began, k + 1)
  <2>2. PICK notes \in SUBSET v.notes :
          /\ w.notes \subseteq notes
          /\ Process(i, w.st, w.dirty, notes)
          /\ forgotten' = IF notes # w.notes THEN [forgotten EXCEPT ![i] = @ + 1] ELSE forgotten
    BY <2>1 DEF ProcessRaises
  <2>3. troubles' = troubles + 1 /\ slipped' = slipped \cup {i} BY <2>1 DEF ProcessRaises, Trouble
  <2>4. WorkDone(batch[i], mem[i], w, k) /\ WorkDone(batch[i], mem[i], v, k + 1) /\ k # 4
    BY <1>3, <2>1
  <2> HIDE DEF w, v
  <2>5. Passed(batch[i], mem[i], w.st, w.dirty, notes, notes # w.notes)
    BY <2>2, <2>4 DEF WorkDone, Passed, Progress
  <2> DEFINE lost == notes # w.notes
  <2>6. /\ Process(i, w.st, w.dirty, notes)
        /\ Passed(batch[i], mem[i], w.st, w.dirty, notes, lost)
        /\ troubles' \in Nat /\ slipped' \subseteq Issues
        /\ forgotten' = IF lost THEN [forgotten EXCEPT ![i] = @ + 1] ELSE forgotten
    BY <1>1, <2>2, <2>3, <2>5
  <2> HIDE DEF lost
  <2> QED BY <1>1, <1>2, <2>6
<1> QED BY <1>4, <1>5

-----------------------------------------------------------------------------
(* The type invariant. *)

\* A pass keeps the types.
LEMMA ProcessTypes ==
  ASSUME TypeOK, NEW i \in Issues, NEW s, NEW dirty, NEW notes, NEW lost,
         i \in DOMAIN batch, batch[i] \in Snapshot,
         Process(i, s, dirty, notes), Passed(batch[i], mem[i], s, dirty, notes, lost),
         troubles' \in Nat, slipped' \subseteq Issues,
         forgotten' = IF lost THEN [forgotten EXCEPT ![i] = @ + 1] ELSE forgotten
  PROVE  TypeOK'
<1>1. s \in Row /\ dirty \in BOOLEAN /\ notes \in SUBSET Notice BY DEF Passed
<1>2. NewEntries(batch[i], mem[i]) \subseteq Nat
  BY DEF Snapshot, NewEntries
<1>3. forgotten' \in [Issues -> Nat] BY DEF TypeOK
<1>4. covered' \in [Issues -> SUBSET Nat]
  <2>1. covered \in [Issues -> SUBSET Nat] BY DEF TypeOK
  <2>2. CASE <<"issue_updated", "personal">> \in notes BY <1>2, <2>1, <2>2 DEF Process
  <2>3. CASE <<"issue_updated", "personal">> \notin notes BY <2>1, <2>3 DEF Process
  <2> QED BY <2>2, <2>3
<1>5. mem' \in [Issues -> Row] BY <1>1 DEF TypeOK, Process
<1>6. DOMAIN batch' \subseteq Issues /\ \A j \in DOMAIN batch' : batch'[j] \in Snapshot
  BY DEF TypeOK, Process
<1>7. changed' \subseteq Issues /\ outbox' \subseteq Issues \X Notice /\ announced' \subseteq Issues \X Notice
  BY <1>1 DEF TypeOK, Process
<1> QED BY <1>3, <1>4, <1>5, <1>6, <1>7 DEF TypeOK, Process, env

\* A forgotten issue is a row like any other, and so is what is read from one.
LEMMA RowFacts ==
  /\ Forgotten \in Row
  /\ \A r \in Row : FromRow(r) \in Row /\ ToRow(r) \in Row
BY DEF Forgotten, Row, FromRow, ToRow

\* The initial rows, batch and counters have their types.
LEMMA TypeInit == Init => TypeOK
<1> SUFFICES ASSUME Init PROVE TypeOK
  OBVIOUS
<1>1. redmine \in [Issues -> [status : Status, journals : Seq(Entry), updated : Nat]]
  <2>1. UsedStatus \cup {"Closed"} \subseteq Status BY CycleAssumption DEF Status
  <2>2. <<>> \in Seq(Entry) OBVIOUS
  <2> DEFINE R == {[status |-> st, journals |-> <<>>, updated |-> 0] : st \in UsedStatus \cup {"Closed"}}
  <2>3. R \subseteq [status : Status, journals : Seq(Entry), updated : Nat]
    <3>1. \A st \in UsedStatus \cup {"Closed"} :
            [status |-> st, journals |-> <<>>, updated |-> 0]
              \in [status : Status, journals : Seq(Entry), updated : Nat]
      BY <2>1, <2>2
    <3> QED BY <3>1
  <2>4. redmine \in [Issues -> R] BY DEF Init
  <2> HIDE DEF R
  <2> QED BY <2>3, <2>4
<1>2. db \in [Issues -> Row] /\ mem \in [Issues -> Row] BY RowFacts DEF Init
<1>3. DOMAIN batch = {} BY DEF Init, NoBatch
<1>4. told \in [Issues -> [Kind -> Nat]] /\ {moves, forgotten} \subseteq [Issues -> Nat]
      /\ {owed, covered} \subseteq [Issues -> SUBSET Nat]
  BY DEF Init
<1> QED BY <1>1, <1>2, <1>3, <1>4 DEF Init, TypeOK

\* Every step keeps the types.
LEMMA TypeStep == TypeOK /\ [Next]_vars => TypeOK'
<1> SUFFICES ASSUME TypeOK, [Next]_vars PROVE TypeOK'
  OBVIOUS
<1> USE DEF env, cycle, history
<1>1. ASSUME NEW i \in Issues, NEW st \in UsedStatus \cup {"Closed"}, NEW e \in NewEntry, Edit(i, st, e)
      PROVE  TypeOK'
  <2>1. st \in Status /\ e \in Entry BY <1>1, CycleAssumption DEF Status
  <2>2. redmine[i].journals \in Seq(Entry) /\ redmine[i] \in [status : Status, journals : Seq(Entry), updated : Nat]
    BY DEF TypeOK
  <2>3. Append(redmine[i].journals, e) \in Seq(Entry) /\ Len(redmine[i].journals) + 1 \in Nat
    BY <2>1, <2>2
  <2>4. redmine' \in [Issues -> [status : Status, journals : Seq(Entry), updated : Nat]]
    BY <1>1, <2>1, <2>2, <2>3 DEF TypeOK, Edit
  <2>5. moves' \in [Issues -> Nat] BY <1>1 DEF TypeOK, Edit
  <2>6. owed' \in [Issues -> SUBSET Nat]
    <3>1. owed \in [Issues -> SUBSET Nat] BY DEF TypeOK
    <3>2. CASE db[i].jid # Never /\ e = "comment" BY <1>1, <2>3, <3>1, <3>2 DEF Edit
    <3>3. CASE ~(db[i].jid # Never /\ e = "comment") BY <1>1, <3>1, <3>3 DEF Edit
    <3> QED BY <3>2, <3>3
  <2> QED BY <1>1, <2>4, <2>5, <2>6 DEF TypeOK, Edit
<1>2. CASE Tick BY <1>2 DEF TypeOK, Tick
<1>3. ASSUME NEW t, Fetch(t) PROVE TypeOK'
  <2>1. \A S \in SUBSET Issues : /\ DOMAIN SnapshotOf(S) = S
                                 /\ \A i \in S : SnapshotOf(S)[i] \in Snapshot
    BY CycleAssumption DEF TypeOK, SnapshotOf, Snapshot
  <2>2. DOMAIN batch' \subseteq Issues /\ \A j \in DOMAIN batch' : batch'[j] \in Snapshot
    <3> DEFINE S == Asked(t)
    <3>1. batch' = SnapshotOf(S) /\ S \in SUBSET Issues BY <1>3 DEF Fetch, Asked
    <3> HIDE DEF S
    <3> QED BY <2>1, <3>1
  <2> QED BY <1>3, <2>2 DEF TypeOK, Fetch
<1>4. CASE FetchFails
  <2>1. troubles' \in Nat /\ lastCheck' \in Nat \cup {Never} /\ slipped' \subseteq Issues
    BY <1>4 DEF TypeOK, FetchFails, Trouble, Asked
  <2> QED BY <1>4, <2>1 DEF TypeOK, FetchFails
<1>5. CASE LoadState
  <2>1. mem' \in [Issues -> Row] BY <1>5, RowFacts DEF TypeOK, LoadState
  <2> QED BY <1>5, <2>1 DEF TypeOK, LoadState
<1>6. ASSUME NEW i \in Issues, ProcessIssue(i) \/ \E k \in 0 .. 3 : ProcessRaises(i, k)
      PROVE  TypeOK'
  BY <1>6, PassFacts, ProcessTypes
<1>7. ASSUME NEW note \in outbox, NEW delivered \in BOOLEAN, Send(note, delivered)
      PROVE  TypeOK'
  <2>1. note[1] \in Issues /\ note[2][1] \in Kind BY DEF TypeOK, Notice
  <2>2. told' \in [Issues -> [Kind -> Nat]] BY <1>7, <2>1 DEF TypeOK, Send
  <2> QED BY <1>7, <2>2 DEF TypeOK, Send
<1>8. ASSUME EndCycle
      PROVE  /\ pc' = "idle" /\ changed' = {} /\ outbox' = {} /\ began' \in Nat /\ announced' = {}
             /\ mem' \in [Issues -> Row]
             /\ DOMAIN batch' \subseteq Issues /\ \A j \in DOMAIN batch' : batch'[j] \in Snapshot
  BY <1>8, RowFacts DEF EndCycle, NoBatch
<1>9. CASE Commit
  <2>1. db' \in [Issues -> Row] BY <1>9, RowFacts DEF TypeOK, Commit, Upsert
  <2> QED BY <1>8, <1>9, <2>1 DEF TypeOK, Commit
<1>10. ASSUME Lose, lastCheck' \in Nat \cup {Never} PROVE TypeOK'
  <2>1. forgotten' \in [Issues -> Nat] /\ troubles' \in Nat BY <1>10 DEF TypeOK, Lose, Trouble
  <2> QED BY <1>8, <1>10, <2>1 DEF TypeOK, Lose
<1>11. CASE Rollback BY <1>10, <1>11 DEF TypeOK, Rollback
<1>12. CASE Crash BY <1>10, <1>12 DEF Crash
<1>13. CASE CleanupFetch
  <2>1. troubles' \in Nat /\ openIds' \in SUBSET Issues BY <1>13 DEF TypeOK, CleanupFetch, Trouble
  <2> QED BY <1>13, <2>1 DEF TypeOK, CleanupFetch
<1>14. CASE CleanupDelete
  <2>1. db' \in [Issues -> Row] /\ forgotten' \in [Issues -> Nat] /\ owed' \in [Issues -> SUBSET Nat]
    BY <1>14, RowFacts DEF TypeOK, CleanupDelete
  <2> QED BY <1>14, <2>1 DEF TypeOK, CleanupDelete
<1>15. CASE UNCHANGED vars BY <1>15 DEF TypeOK, vars
<1> QED BY <1>1, <1>2, <1>3, <1>4, <1>5, <1>6, <1>7, <1>9, <1>11, <1>12, <1>13, <1>14, <1>15 DEF Next

\* Every variable of the cycle keeps its type, for any issues and failures.
THEOREM TypeCorrect == Spec => []TypeOK
BY TypeInit, TypeStep, PTL DEF Spec

-----------------------------------------------------------------------------
(* The inductive invariant. *)

\* The types of what the invariant counts and compares.
LEMMA IssueTypes ==
  ASSUME TypeOK, NEW i \in Issues
  PROVE  /\ db[i] \in Row /\ mem[i] \in Row
         /\ Len(redmine[i].journals) \in Nat /\ redmine[i].status \in Status
         /\ DOMAIN redmine[i].journals = 1 .. Len(redmine[i].journals)
         /\ moves[i] \in Nat /\ forgotten[i] \in Nat
         /\ covered[i] \in SUBSET Nat /\ owed[i] \in SUBSET Nat
         /\ \A k \in Kind : told[i][k] \in Nat /\ Due1(i, k) \in Nat
         /\ i \in DOMAIN batch => batch[i] \in Snapshot /\ Len(batch[i].journals) \in Nat
<1>1. redmine[i] \in [status : Status, journals : Seq(Entry), updated : Nat] BY DEF TypeOK
<1>2. \A k \in Kind : told[i][k] \in Nat BY DEF TypeOK
<1>3. i \in DOMAIN batch => batch[i] \in Snapshot BY DEF TypeOK
<1>4. moves[i] \in Nat /\ forgotten[i] \in Nat /\ covered[i] \in SUBSET Nat /\ owed[i] \in SUBSET Nat
  BY DEF TypeOK
<1>5. db[i] \in Row /\ mem[i] \in Row BY DEF TypeOK
<1> QED BY <1>1, <1>2, <1>3, <1>4, <1>5 DEF Due1, Snapshot

\* Nothing of the issue has changed.
Untouched(i) ==
  /\ db'[i] = db[i] /\ mem'[i] = mem[i] /\ redmine'[i] = redmine[i]
  /\ moves'[i] = moves[i] /\ forgotten'[i] = forgotten[i]
  /\ told'[i] = told[i] /\ covered'[i] = covered[i] /\ owed'[i] = owed[i]
  /\ i \in DOMAIN batch' <=> i \in DOMAIN batch
  /\ i \in DOMAIN batch => batch'[i] = batch[i]
  /\ i \in changed' <=> i \in changed
  /\ \A k \in Kind : <<i, Personal(k)>> \in outbox' <=> <<i, Personal(k)>> \in outbox
  /\ pc' = "processing" <=> pc = "processing"
  /\ \A k \in Kind : <<i, Personal(k)>> \in announced => <<i, Personal(k)>> \in announced'

\* An issue that is left alone keeps its invariant.
LEMMA UntouchedInv ==
  ASSUME NEW i \in Issues, IssueInv(i), Untouched(i)
  PROVE  IssueInv(i)'
<1>1. Current(i)' = Current(i) BY DEF Current, Untouched
<1>2. \A k \in Kind : Due1(i, k)' = Due1(i, k) BY DEF Due1, Untouched
<1>3. Accounts(i, Current(i))' /\ (i \notin changed' => Accounts(i, db[i])')
  <2>1. Unseen(i, Current(i))' = Unseen(i, Current(i)) /\ Unseen(i, db[i])' = Unseen(i, db[i])
    BY <1>1 DEF Unseen, Differs, Known, Untouched
  <2> QED BY <1>1, <1>2, <2>1
       DEF IssueInv, Accounted, Accounts, Announced1, ChangesCounted, Untouched, Kind, Known
<1>4. JournalsAgree(i)' BY <1>1 DEF IssueInv, JournalsAgree, Untouched
<1>5. CoveredPassed(i)' BY <1>1 DEF IssueInv, CoveredPassed, Untouched, LastKnownId
<1>6. Dated(db[i])' /\ Dated(mem[i])' BY DEF IssueInv, Dated, Known, Untouched
<1> QED BY <1>3, <1>4, <1>5, <1>6 DEF IssueInv, Accounted

\* A notice of a status change that went out, and what is still to be told of.
LEMMA DiffersFacts ==
  ASSUME NEW r \in Row, NEW a, NEW b
  PROVE  /\ Differs(r, a) \in {0, 1}
         /\ Differs(r, b) <= Differs(r, a) + (IF a # b THEN 1 ELSE 0)
         /\ ~Known(r) => Differs(r, a) = 0
         /\ r.status = a => Differs(r, a) = 0
         /\ Known(r) /\ r.status # a => Differs(r, a) = 1
BY DEF Differs

\* The issue that is passed over stays accounted for, in the memory and in the row.
LEMMA PassedInv ==
  ASSUME Inv, NEW i \in Issues, NEW s, NEW dirty, NEW notes, NEW lost,
         i \in DOMAIN batch, batch[i] \in Snapshot, mem[i] \in Row, TypeOK',
         Process(i, s, dirty, notes), Passed(batch[i], mem[i], s, dirty, notes, lost),
         forgotten' = IF lost THEN [forgotten EXCEPT ![i] = @ + 1] ELSE forgotten
  PROVE  IssueInv(i)'
<1> DEFINE x == batch[i]
           st == mem[i]
<1>1. /\ pc = "processing" /\ pc' = pc /\ outbox = {}
      /\ mem'[i] = s /\ db'[i] = db[i] /\ redmine'[i] = redmine[i]
      /\ i \notin DOMAIN batch' /\ moves'[i] = moves[i] /\ told'[i] = told[i]
      /\ i \in changed' <=> i \in changed \/ dirty
      /\ \A k \in Kind : <<i, Personal(k)>> \in outbox' <=> Personal(k) \in notes
      /\ forgotten'[i] = forgotten[i] + (IF lost THEN 1 ELSE 0)
  BY DEF Inv, TypeOK, Process, Passed, env
<1>2. /\ IssueInv(i) /\ db[i] \in Row /\ s \in Row /\ forgotten[i] \in Nat /\ moves[i] \in Nat
      /\ \A k \in Kind : told[i][k] \in Nat
      /\ Len(redmine[i].journals) \in Nat /\ Len(x.journals) \in Nat /\ covered[i] \in SUBSET Nat
      /\ lost \in BOOLEAN /\ dirty \in BOOLEAN
  BY IssueTypes DEF Inv, Passed
<1>3. Current(i) = st /\ Current(i)' = s BY <1>1 DEF Current
<1>4. \A k \in Kind : /\ Due1(i, k) = told[i][k]
                      /\ Due1(i, k)' = told[i][k] + (IF Personal(k) \in notes THEN 1 ELSE 0)
  BY <1>1, <1>2 DEF Due1
<1>5. Dated(s) BY DEF Inv, IssueInv, Passed
<1>6. /\ s.jid # Never => s.jid <= Len(redmine[i].journals)
      /\ st.jid # Never => s.jid # Never
  BY <1>2, AdvanceFacts DEF Passed, IssueInv, JournalsAgree, Row
<1>7. JournalsAgree(i)'
  BY <1>1, <1>2, <1>3, <1>6 DEF IssueInv, JournalsAgree
<1>8. CoveredPassed(i)'
  <2> SUFFICES ASSUME forgotten'[i] = 0
               PROVE  /\ \A c \in covered'[i] : c <= LastKnownId(s)
                      /\ i \notin changed' => s.jid = db[i].jid
    BY <1>1, <1>3 DEF CoveredPassed
  <2>1. ~lost /\ forgotten[i] = 0 BY <1>1, <1>2
  <2>2. i \notin changed' => s.jid = db[i].jid
    BY <1>1, <1>2, <2>1 DEF IssueInv, CoveredPassed, Passed
  <2>3. LastKnownId(st) <= LastKnownId(s) /\ LastKnownId(s) \in Nat /\ LastKnownId(st) \in Nat
    BY <1>2, AdvanceFacts DEF LastKnownId, Passed, Row
  <2>4. \A c \in covered[i] : c <= LastKnownId(st) /\ c \in Nat
    BY <1>2, <1>3, <2>1 DEF IssueInv, CoveredPassed
  <2>5. CASE Personal("issue_updated") \in notes
    <3>1. covered'[i] = covered[i] \cup NewEntries(x, st)
      BY <2>5, <1>2 DEF Process, Personal, Inv, TypeOK
    <3>2. s.jid = JournalAdvance(x, st) BY <2>1, <2>5 DEF Passed
    <3>3. \A c \in NewEntries(x, st) : c <= LastKnownId(s)
      BY <1>2, <3>2, AdvanceFacts DEF LastKnownId
    <3> QED BY <2>2, <2>3, <2>4, <3>1, <3>3
  <2>6. CASE Personal("issue_updated") \notin notes
    <3>1. covered'[i] = covered[i] BY <2>6 DEF Process, Personal, Inv, TypeOK
    <3> QED BY <2>2, <2>3, <2>4, <3>1
  <2> QED BY <2>5, <2>6
<1>9. Accounts(i, s)'
  <2>1. Due1(i, "new")' <= forgotten'[i] + (IF Known(s) THEN 1 ELSE 0)
    <3>1. Due1(i, "new") <= forgotten[i] + (IF Known(st) THEN 1 ELSE 0)
      BY <1>2, <1>3 DEF IssueInv, Accounted, Accounts, Announced1
    <3>2. Due1(i, "new") \in Nat /\ Due1(i, "new")' =
            Due1(i, "new") + (IF Personal("new") \in notes THEN 1 ELSE 0)
      BY <1>2, <1>4 DEF Kind
    <3>3. CASE Personal("new") \in notes
      <4>1. ~Known(st) /\ (lost \/ Known(s)) BY <3>3 DEF Passed
      <4>2. Due1(i, "new") <= forgotten[i] BY <1>2, <3>1, <4>1
      <4> QED BY <1>1, <1>2, <3>2, <3>3, <4>1, <4>2
    <3>4. CASE Personal("new") \notin notes
      <4>1. Known(st) => Known(s) BY DEF Passed
      <4> QED BY <1>1, <1>2, <3>1, <3>2, <3>4, <4>1
    <3> QED BY <3>3, <3>4
  <2>2. Due1(i, "status_change")' + Differs(s, redmine[i].status) <= moves[i] + forgotten'[i]
    <3> DEFINE d == IF x.status # redmine[i].status THEN 1 ELSE 0
    <3>1. Due1(i, "status_change") + Differs(st, x.status) + d <= moves[i] + forgotten[i]
      <4>1. Due1(i, "status_change") + (Differs(st, x.status) + d) <= moves[i] + forgotten[i]
        BY <1>2, <1>3 DEF IssueInv, Accounted, Accounts, ChangesCounted, Unseen
      <4>2. Differs(st, x.status) \in {0, 1} /\ d \in {0, 1} /\ Due1(i, "status_change") \in Nat
        BY <1>2, <1>4, DiffersFacts DEF Kind
      <4> HIDE DEF d
      <4> QED BY <1>2, <4>1, <4>2
    <3>2. Differs(s, redmine[i].status) <= Differs(s, x.status) + d BY <1>2, DiffersFacts
    <3>3. Differs(s, x.status) <= Differs(st, x.status)
      BY <1>2, DiffersFacts DEF Passed, Differs, Known
    <3>4. Personal("status_change") \in notes
            => Differs(st, x.status) = 1 /\ (lost \/ Differs(s, x.status) = 0)
      BY <1>2, DiffersFacts DEF Passed
    <3>5. /\ Differs(st, x.status) \in {0, 1} /\ Differs(s, x.status) \in {0, 1} /\ d \in {0, 1}
          /\ Differs(s, redmine[i].status) \in {0, 1}
      BY <1>2, DiffersFacts
    <3>6. Due1(i, "status_change")' = Due1(i, "status_change")
                                      + (IF Personal("status_change") \in notes THEN 1 ELSE 0)
      BY <1>4 DEF Kind
    <3>7. Due1(i, "status_change") \in Nat BY <1>2, <1>4 DEF Kind
    <3> HIDE DEF d
    <3>8. CASE Personal("status_change") \in notes
      BY <1>1, <1>2, <3>1, <3>2, <3>3, <3>4, <3>5, <3>6, <3>7, <3>8
    <3>9. CASE Personal("status_change") \notin notes
      BY <1>1, <1>2, <3>1, <3>2, <3>3, <3>5, <3>6, <3>7, <3>9
    <3> QED BY <3>8, <3>9
  <2> QED BY <1>1, <2>1, <2>2 DEF Accounts, Announced1, ChangesCounted, Unseen
<1>10. ASSUME i \notin changed' PROVE Accounts(i, db[i])'
  <2>1. ~dirty /\ Accounts(i, db[i]) BY <1>1, <1>2, <1>10 DEF IssueInv, Accounted
  <2>2. ~lost => Personal("new") \notin notes /\ Personal("status_change") \notin notes
    BY <2>1 DEF Passed, Known
  <2>3. \A k \in {"new", "status_change"} :
          Due1(i, k)' <= Due1(i, k) + (IF lost THEN 1 ELSE 0) /\ Due1(i, k) \in Nat /\ Due1(i, k)' \in Nat
    <3> TAKE k \in {"new", "status_change"}
    <3>1. k \in Kind BY DEF Kind
    <3>2. Due1(i, k) \in Nat /\ Due1(i, k)' = Due1(i, k) + (IF Personal(k) \in notes THEN 1 ELSE 0)
      BY <1>2, <1>4, <3>1
    <3>3. Personal(k) \in notes => lost BY <1>2, <2>2
    <3> QED BY <1>2, <3>2, <3>3
  <2>4. Due1(i, "new")' <= forgotten'[i] + (IF Known(db[i]) THEN 1 ELSE 0)
    BY <1>1, <1>2, <2>1, <2>3 DEF Accounts, Announced1
  <2>5. Due1(i, "status_change")' + Differs(db[i], redmine[i].status) <= moves[i] + forgotten'[i]
    <3> DEFINE d == IF x.status # redmine[i].status THEN 1 ELSE 0
    <3>1. Due1(i, "status_change") + (Differs(db[i], x.status) + d) <= moves[i] + forgotten[i]
      BY <2>1 DEF Accounts, ChangesCounted, Unseen
    <3>2. /\ Differs(db[i], redmine[i].status) <= Differs(db[i], x.status) + d
          /\ Differs(db[i], x.status) \in {0, 1} /\ d \in {0, 1}
          /\ Differs(db[i], redmine[i].status) \in {0, 1}
      BY <1>2, DiffersFacts
    <3> HIDE DEF d
    <3>3. Due1(i, "status_change")' <= Due1(i, "status_change") + (IF lost THEN 1 ELSE 0)
          /\ Due1(i, "status_change") \in Nat /\ Due1(i, "status_change")' \in Nat
      BY <2>3
    <3>4. CASE lost BY <1>1, <1>2, <3>1, <3>2, <3>3, <3>4
    <3>5. CASE ~lost BY <1>1, <1>2, <3>1, <3>2, <3>3, <3>5
    <3> QED BY <1>2, <3>4, <3>5
  <2> QED BY <1>1, <2>4, <2>5 DEF Accounts, Announced1, ChangesCounted, Unseen
<1> QED BY <1>1, <1>2, <1>3, <1>5, <1>7, <1>8, <1>9, <1>10 DEF IssueInv, Accounted, Dated

\* A pass over one issue keeps the invariant of them all.
LEMMA ProcessInv ==
  ASSUME Inv, TypeOK', NEW i \in Issues, ProcessIssue(i) \/ \E k \in 0 .. 3 : ProcessRaises(i, k)
  PROVE  CyclePhase' /\ \A j \in Issues : IssueInv(j)'
<1> TypeOK BY DEF Inv
<1>1. PICK s, dirty, notes, lost :
        /\ Process(i, s, dirty, notes)
        /\ Passed(batch[i], mem[i], s, dirty, notes, lost)
        /\ troubles' \in Nat /\ slipped' \subseteq Issues
        /\ forgotten' = IF lost THEN [forgotten EXCEPT ![i] = @ + 1] ELSE forgotten
  BY PassFacts
<1>2. i \in DOMAIN batch /\ batch[i] \in Snapshot /\ mem[i] \in Row BY PassFacts
<1>3. IssueInv(i)' BY <1>1, <1>2, PassedInv
<1>4. ASSUME NEW j \in Issues, j # i PROVE IssueInv(j)'
  <2>1. Untouched(j) BY <1>1, <1>4 DEF Process, Untouched, TypeOK, env
  <2> QED BY <2>1, UntouchedInv DEF Inv
<1>5. CyclePhase' BY <1>1 DEF Process, CyclePhase
<1> QED BY <1>3, <1>4, <1>5

\* An edit writes an entry beyond every id the bot knows, and counts what it changes.
LEMMA EditInv ==
  ASSUME Inv, TypeOK', NEW i \in Issues, NEW st \in UsedStatus \cup {"Closed"},
         NEW e \in NewEntry, Edit(i, st, e)
  PROVE  CyclePhase' /\ \A j \in Issues : IssueInv(j)'
<1> TypeOK BY DEF Inv
<1> USE DEF cycle, history
<1>1. CyclePhase' BY DEF Inv, CyclePhase, Edit
<1>2. ASSUME NEW j \in Issues, j # i PROVE IssueInv(j)'
  <2>1. Untouched(j)
    <3>1. /\ redmine'[j] = redmine[j] /\ moves'[j] = moves[j]
          /\ owed'[j] = owed[j]
      BY <1>2 DEF Edit, TypeOK
    <3> QED BY <3>1 DEF Edit, Untouched
  <2> QED BY <2>1, UntouchedInv DEF Inv
<1>3. IssueInv(i)'
  <2> DEFINE r == redmine[i].status
  <2>1. /\ db[i] \in Row /\ mem[i] \in Row /\ Len(redmine[i].journals) \in Nat
        /\ moves[i] \in Nat /\ forgotten[i] \in Nat
        /\ \A k \in Kind : Due1(i, k) \in Nat
        /\ i \in DOMAIN batch => batch[i] \in Snapshot /\ Len(batch[i].journals) \in Nat
        /\ IssueInv(i)
    BY IssueTypes DEF Inv
  <2>2. /\ redmine'[i].status = st /\ redmine'[i].journals = Append(redmine[i].journals, e)
        /\ moves'[i] = moves[i] + (IF st # r THEN 1 ELSE 0)
    BY <2>1 DEF Edit, TypeOK
  <2>3. /\ Len(redmine'[i].journals) = Len(redmine[i].journals) + 1
        /\ \A c \in 1 .. Len(redmine[i].journals) : redmine'[i].journals[c] = redmine[i].journals[c]
    <3>1. redmine[i].journals \in Seq(Entry) BY DEF TypeOK
    <3> QED BY <2>2, <3>1
  <2>4. /\ db' = db /\ mem' = mem /\ batch' = batch /\ pc' = pc /\ outbox' = outbox /\ told' = told
        /\ changed' = changed /\ forgotten' = forgotten /\ covered' = covered
    BY DEF Edit
  <2>5. Current(i)' = Current(i) BY <2>4 DEF Current
  <2>6. \A k \in Kind : Due1(i, k)' = Due1(i, k) BY <2>4 DEF Due1
  <2>7. JournalsAgree(i)'
    <3>1. \A n \in Nat : n <= Len(redmine[i].journals) => n <= Len(redmine'[i].journals)
      BY <2>1, <2>3
    <3>2. JournalsAgree(i) /\ db[i].jid \in Nat \cup {Never} /\ mem[i].jid \in Nat \cup {Never}
      BY <2>1 DEF IssueInv, Row
    <3>3. /\ (db[i].jid # Never => db[i].jid <= Len(redmine[i].journals) /\ Current(i).jid # Never)'
          /\ (mem[i].jid # Never => mem[i].jid <= Len(redmine[i].journals))'
      BY <2>4, <2>5, <3>1, <3>2 DEF JournalsAgree
    <3>4. (i \in DOMAIN batch =>
             /\ Len(batch[i].journals) <= Len(redmine[i].journals)
             /\ \A c \in 1 .. Len(batch[i].journals) : batch[i].journals[c] = redmine[i].journals[c])'
      BY <2>1, <2>3, <2>4, <3>1, <3>2 DEF JournalsAgree
    <3> QED BY <3>3, <3>4 DEF JournalsAgree
  <2>8. CoveredPassed(i)' BY <2>1, <2>4, <2>5 DEF IssueInv, CoveredPassed
  <2>9. ASSUME NEW row \in Row, row' = row, Accounts(i, row) PROVE Accounts(i, row)'
    <3>1. Announced1(i, row)'
      BY <2>4, <2>6, <2>9 DEF Accounts, Announced1, Known, Kind
    <3>2. Unseen(i, row)' <= Unseen(i, row) + (IF st # r THEN 1 ELSE 0)
          /\ Unseen(i, row) \in Nat /\ Unseen(i, row)' \in Nat
      <4>1. CASE i \in DOMAIN batch
        BY <2>2, <2>4, <2>9, <4>1 DEF Unseen, Differs
      <4>2. CASE i \notin DOMAIN batch
        BY <2>2, <2>4, <2>9, <4>2 DEF Unseen, Differs, Known
      <4> QED BY <4>1, <4>2
    <3>3. Due1(i, "status_change") \in Nat /\ Due1(i, "status_change")' = Due1(i, "status_change")
      BY <2>1, <2>6 DEF Kind
    <3>4. Due1(i, "status_change") + Unseen(i, row) <= moves[i] + forgotten[i]
      BY <2>9 DEF Accounts, ChangesCounted
    <3>5. Due1(i, "status_change")' + Unseen(i, row)' <= moves'[i] + forgotten'[i]
      <4>1. CASE st # r BY <2>1, <2>2, <2>4, <3>2, <3>3, <3>4, <4>1
      <4>2. CASE st = r BY <2>1, <2>2, <2>4, <3>2, <3>3, <3>4, <4>2
      <4> QED BY <4>1, <4>2
    <3> QED BY <3>1, <3>5 DEF Accounts, ChangesCounted
  <2>10. Accounts(i, db[i])' \/ i \in changed'
    BY <2>1, <2>4, <2>9 DEF IssueInv, Accounted
  <2>11. Accounts(i, Current(i))'
    <3>1. CASE pc = "processing" BY <2>1, <2>4, <2>9, <3>1 DEF IssueInv, Accounted, Current
    <3>2. CASE pc # "processing" BY <2>1, <2>4, <2>9, <3>2 DEF IssueInv, Accounted, Current
    <3> QED BY <3>1, <3>2
  <2> QED BY <2>1, <2>4, <2>7, <2>8, <2>10, <2>11 DEF IssueInv, Accounted, Dated, Known
<1> QED BY <1>1, <1>2, <1>3

\* A fetched batch is what Redmine says.
LEMMA FetchInv ==
  ASSUME Inv, TypeOK', NEW t, Fetch(t)
  PROVE  CyclePhase' /\ \A i \in Issues : IssueInv(i)'
<1> TypeOK BY DEF Inv
<1> USE DEF env, history
<1>1. pc = "idle" /\ pc' = "fetched" /\ DOMAIN batch = {} /\ outbox = {} /\ announced = {} /\ changed = {}
  BY DEF Inv, CyclePhase, Fetch
<1>2. CyclePhase' BY <1>1 DEF Fetch, CyclePhase
<1>3. ASSUME NEW i \in Issues PROVE IssueInv(i)'
  <2>1. /\ db' = db /\ mem' = mem /\ redmine' = redmine /\ moves' = moves /\ forgotten' = forgotten
        /\ told' = told /\ covered' = covered /\ outbox' = outbox /\ changed' = changed
    BY DEF Fetch
  <2>2. i \in DOMAIN batch' => /\ batch'[i].status = redmine[i].status
                               /\ batch'[i].journals = redmine[i].journals
    <3> DEFINE S == Asked(t)
    <3>1. batch' = SnapshotOf(S) BY DEF Fetch
    <3> HIDE DEF S
    <3> QED BY <3>1 DEF SnapshotOf
  <2>3. IssueInv(i) /\ db[i] \in Row /\ Len(redmine[i].journals) \in Nat BY IssueTypes DEF Inv
  <2>4. Current(i)' = db[i] /\ Current(i) = db[i] BY <1>1, <2>1 DEF Current
  <2>5. Unseen(i, db[i])' = Unseen(i, db[i])
    <3>1. Unseen(i, db[i]) = Differs(db[i], redmine[i].status) BY <1>1 DEF Unseen
    <3>2. Differs(db[i], redmine[i].status) \in {0, 1} BY <2>3, DiffersFacts
    <3>3. CASE i \in DOMAIN batch'
      <4>1. Unseen(i, db[i])' = Differs(db[i], redmine[i].status) + 0
        BY <2>1, <2>2, <3>3 DEF Unseen, Differs, Known
      <4> QED BY <3>1, <3>2, <4>1
    <3>4. CASE i \notin DOMAIN batch'
      <4>1. Unseen(i, db[i])' = Differs(db[i], redmine[i].status)
        BY <2>1, <3>4 DEF Unseen, Differs, Known
      <4> QED BY <3>1, <4>1
    <3> QED BY <3>3, <3>4
  <2>6. \A k \in Kind : Due1(i, k)' = Due1(i, k) BY <2>1 DEF Due1
  <2>7. Accounts(i, db[i])'
    BY <2>1, <2>3, <2>4, <2>5, <2>6
       DEF IssueInv, Accounted, Accounts, Announced1, ChangesCounted, Known, Kind
  <2>8. JournalsAgree(i)' BY <2>1, <2>2, <2>3, <2>4 DEF IssueInv, JournalsAgree
  <2>9. CoveredPassed(i)' BY <1>1, <2>1, <2>3, <2>4 DEF IssueInv, CoveredPassed, LastKnownId
  <2> QED BY <2>1, <2>3, <2>4, <2>7, <2>8, <2>9 DEF IssueInv, Accounted, Dated, Known
<1> QED BY <1>2, <1>3

\* A row that is dated is read into the memory as it is, but for the group's time.
LEMMA FromRowFacts ==
  ASSUME NEW r \in Row, Dated(r)
  PROVE  /\ FromRow(r).status = r.status /\ FromRow(r).jid = r.jid
         /\ (Known(FromRow(r)) <=> Known(r)) /\ Dated(FromRow(r))
BY DEF FromRow, Row, Known, Dated

\* Loading the state puts the memory in the place of the row.
LEMMA LoadInv ==
  ASSUME Inv, TypeOK', LoadState
  PROVE  CyclePhase' /\ \A i \in Issues : IssueInv(i)'
<1> TypeOK BY DEF Inv
<1> USE DEF env, history
<1>1. pc = "fetched" /\ pc' = "processing" /\ outbox = {} /\ changed = {}
  BY DEF Inv, CyclePhase, LoadState
<1>2. CyclePhase' BY <1>1 DEF LoadState, CyclePhase
<1>3. ASSUME NEW i \in Issues PROVE IssueInv(i)'
  <2>1. /\ db' = db /\ redmine' = redmine /\ moves' = moves /\ forgotten' = forgotten /\ batch' = batch
        /\ told' = told /\ covered' = covered /\ outbox' = outbox /\ changed' = changed
        /\ mem'[i] = FromRow(db[i])
    BY DEF LoadState
  <2>2. IssueInv(i) /\ db[i] \in Row /\ Dated(db[i]) BY IssueTypes DEF Inv, IssueInv
  <2>3. Current(i)' = FromRow(db[i]) /\ Current(i) = db[i] BY <1>1, <2>1 DEF Current
  <2>4. /\ FromRow(db[i]).status = db[i].status /\ FromRow(db[i]).jid = db[i].jid
        /\ (Known(FromRow(db[i])) <=> Known(db[i])) /\ Dated(FromRow(db[i]))
    BY <2>2, FromRowFacts
  <2>5. \A k \in Kind : Due1(i, k)' = Due1(i, k) BY <2>1 DEF Due1
  <2>6. ASSUME NEW row, row' = row, row.status = db[i].status PROVE Accounts(i, row)'
    <3>1. (Known(row) <=> Known(db[i])) /\ (Known(row)' <=> Known(row)) BY <2>6 DEF Known
    <3>2. Unseen(i, row)' = Unseen(i, db[i]) BY <2>1, <2>6, <3>1 DEF Unseen, Differs, Known
    <3> QED BY <2>1, <2>2, <2>3, <2>5, <2>6, <3>1, <3>2
            DEF IssueInv, Accounted, Accounts, Announced1, ChangesCounted, Kind
  <2>7. Accounts(i, Current(i))' /\ Accounts(i, db[i])'
    <3>1. Accounts(i, db[i])' BY <2>1, <2>6
    <3>2. Known(Current(i))' <=> Known(db[i])' BY <2>1, <2>3, <2>4 DEF Known
    <3>3. Unseen(i, Current(i))' = Unseen(i, db[i])' BY <2>1, <2>3, <2>4 DEF Unseen, Differs, Known
    <3> QED BY <3>1, <3>2, <3>3 DEF Accounts, Announced1, ChangesCounted
  <2>8. JournalsAgree(i)' BY <2>1, <2>2, <2>3, <2>4 DEF IssueInv, JournalsAgree
  <2>9. CoveredPassed(i)' BY <2>1, <2>2, <2>3, <2>4 DEF IssueInv, CoveredPassed, LastKnownId
  <2> QED BY <2>1, <2>2, <2>4, <2>7, <2>8, <2>9 DEF IssueInv, Accounted, Dated, Known
<1> QED BY <1>2, <1>3

\* A notice that is sent was due before.
LEMMA SendFacts ==
  ASSUME TypeOK, NEW note \in outbox, NEW delivered \in BOOLEAN, Send(note, delivered),
         NEW i \in Issues, NEW k \in Kind
  PROVE  Due1(i, k)' <= Due1(i, k) /\ Due1(i, k)' \in Nat
<1>1. note[1] \in Issues /\ note[2][1] \in Kind /\ note = <<note[1], <<note[2][1], note[2][2]>>>>
  <2>1. \E j \in Issues, n \in Notice : note = <<j, n>> BY DEF TypeOK
  <2>2. \A n \in Notice : \E kd \in Kind, v \in Via : n = <<kd, v>> BY DEF Notice
  <2>3. PICK j \in Issues, kd \in Kind, v \in Via : note = <<j, <<kd, v>>>> BY <2>1, <2>2
  <2> QED BY <2>3
<1>2. told[i][k] \in Nat /\ Due1(i, k) \in Nat BY IssueTypes
<1>3. CASE note = <<i, Personal(k)>> /\ delivered
  <2>1. told'[i][k] = told[i][k] + 1 BY <1>2, <1>3 DEF Send, Personal, TypeOK
  <2>2. <<i, Personal(k)>> \in outbox /\ <<i, Personal(k)>> \notin outbox' BY <1>3 DEF Send
  <2> QED BY <1>2, <2>1, <2>2 DEF Due1
<1>4. CASE ~(note = <<i, Personal(k)>> /\ delivered)
  <2>1. told'[i][k] = told[i][k]
    <3>1. CASE delivered /\ note[2][2] = "personal"
      <4>1. note[1] # i \/ note[2][1] # k BY <1>1, <1>4, <3>1 DEF Personal
      <4> QED BY <1>1, <3>1, <4>1 DEF Send, TypeOK
    <3>2. CASE ~(delivered /\ note[2][2] = "personal") BY <3>2 DEF Send
    <3> QED BY <3>1, <3>2
  <2>2. <<i, Personal(k)>> \in outbox' => <<i, Personal(k)>> \in outbox BY DEF Send
  <2> QED BY <1>2, <2>1, <2>2 DEF Due1
<1> QED BY <1>3, <1>4

\* A notice that is sent is no longer about to be.
LEMMA SendInv ==
  ASSUME Inv, TypeOK', NEW note \in outbox, NEW delivered \in BOOLEAN, Send(note, delivered)
  PROVE  CyclePhase' /\ \A i \in Issues : IssueInv(i)'
<1> TypeOK BY DEF Inv
<1> USE DEF env
<1>1. CyclePhase' BY DEF Inv, CyclePhase, Send
<1>2. ASSUME NEW i \in Issues PROVE IssueInv(i)'
  <2>1. /\ db' = db /\ mem' = mem /\ redmine' = redmine /\ moves' = moves /\ forgotten' = forgotten
        /\ batch' = batch /\ covered' = covered /\ changed' = changed /\ pc' = pc
    BY DEF Send
  <2>2. IssueInv(i) /\ \A k \in Kind : told[i][k] \in Nat /\ Due1(i, k) \in Nat BY IssueTypes DEF Inv
  <2>3. \A k \in Kind : Due1(i, k)' <= Due1(i, k) /\ Due1(i, k)' \in Nat BY SendFacts
  <2>4. Current(i)' = Current(i) BY <2>1 DEF Current
  <2>5. ASSUME NEW row, row' = row, Accounts(i, row) PROVE Accounts(i, row)'
    <3>1. Unseen(i, row)' = Unseen(i, row) /\ Unseen(i, row) \in Nat
      BY <2>1, <2>5 DEF Unseen, Differs, Known
    <3>2. moves[i] \in Nat /\ forgotten[i] \in Nat BY IssueTypes
    <3>3. (Known(row)' <=> Known(row)) BY <2>5 DEF Known
    <3>4. Announced1(i, row)'
      BY <2>1, <2>2, <2>3, <2>5, <3>2, <3>3 DEF Accounts, Announced1, Kind
    <3>5. ChangesCounted(i, row)'
      BY <2>1, <2>2, <2>3, <2>5, <3>1, <3>2 DEF Accounts, ChangesCounted, Kind
    <3> QED BY <3>4, <3>5 DEF Accounts
  <2>6. Accounts(i, db[i])' \/ i \in changed' BY <2>1, <2>2, <2>5 DEF IssueInv, Accounted
  <2>7. Accounts(i, Current(i))' BY <2>2, <2>4, <2>5 DEF IssueInv, Accounted
  <2>8. JournalsAgree(i)' BY <2>1, <2>2, <2>4 DEF IssueInv, JournalsAgree
  <2>9. CoveredPassed(i)' BY <2>1, <2>2, <2>4 DEF IssueInv, CoveredPassed, LastKnownId
  <2> QED BY <2>1, <2>2, <2>6, <2>7, <2>8, <2>9 DEF IssueInv, Accounted, Dated, Known
<1> QED BY <1>1, <1>2

\* A committed row is what the cycle remembers of the issue.
LEMMA CommitInv ==
  ASSUME Inv, TypeOK', Commit
  PROVE  CyclePhase' /\ \A i \in Issues : IssueInv(i)'
<1> TypeOK BY DEF Inv
<1> USE DEF env
<1>1. /\ pc = "processing" /\ pc' = "idle" /\ outbox = {} /\ outbox' = {} /\ changed' = {}
      /\ announced' = {} /\ DOMAIN batch = {} /\ DOMAIN batch' = {}
  BY DEF Commit, EndCycle, NoBatch
<1>2. CyclePhase' BY <1>1 DEF CyclePhase
<1>3. ASSUME NEW i \in Issues PROVE IssueInv(i)'
  <2>1. /\ redmine' = redmine /\ moves' = moves /\ forgotten' = forgotten /\ told' = told
        /\ covered' = covered /\ mem'[i] = Forgotten
        /\ db'[i] = IF i \in changed THEN ToRow(mem[i]) ELSE db[i]
    BY DEF Commit, EndCycle, Upsert
  <2>2. IssueInv(i) /\ db[i] \in Row /\ mem[i] \in Row /\ forgotten[i] \in Nat BY IssueTypes DEF Inv
  <2>3. Current(i)' = db'[i] /\ Current(i) = mem[i] BY <1>1 DEF Current
  <2>4. /\ ToRow(mem[i]).status = mem[i].status /\ ToRow(mem[i]).jid = mem[i].jid
        /\ ToRow(mem[i]).at = mem[i].at
    BY <2>2 DEF ToRow, Row
  <2>5. \A k \in Kind : Due1(i, k)' = Due1(i, k) BY <1>1, <2>1 DEF Due1
  <2>6. /\ Accounts(i, Current(i)) /\ (i \notin changed => Accounts(i, db[i]))
    BY <2>2 DEF IssueInv, Accounted
  <2>7. ASSUME NEW row, row.status = db'[i].status, Accounts(i, row) PROVE Accounts(i, db[i])'
    <3>1. (Known(db[i])' <=> Known(row)) /\ Unseen(i, db[i])' = Unseen(i, row)
      BY <1>1, <2>1, <2>7 DEF Unseen, Differs, Known
    <3> QED BY <2>1, <2>5, <2>7, <3>1 DEF Accounts, Announced1, ChangesCounted, Kind
  <2>8. Accounts(i, db[i])'
    <3>1. CASE i \in changed BY <2>1, <2>3, <2>4, <2>6, <2>7, <3>1
    <3>2. CASE i \notin changed BY <2>1, <2>6, <2>7, <3>2
    <3> QED BY <3>1, <3>2
  <2>9. JournalsAgree(i)'
    <3>1. mem'[i].jid = Never BY <2>1 DEF Forgotten
    <3>2. db'[i].jid = mem[i].jid \/ db'[i].jid = db[i].jid BY <2>1, <2>4
    <3> QED BY <1>1, <2>1, <2>2, <2>3, <3>1, <3>2 DEF IssueInv, JournalsAgree
  <2>10. CoveredPassed(i)'
    <3>1. forgotten[i] = 0 => db'[i].jid = mem[i].jid
      BY <1>1, <2>1, <2>2, <2>4 DEF IssueInv, CoveredPassed
    <3> QED BY <1>1, <2>1, <2>2, <2>3, <3>1 DEF IssueInv, CoveredPassed, LastKnownId
  <2>11. Dated(db[i])' /\ Dated(mem[i])'
    BY <2>1, <2>2, <2>4 DEF IssueInv, Dated, Known, Forgotten
  <2> QED BY <2>3, <2>8, <2>9, <2>10, <2>11 DEF IssueInv, Accounted
<1> QED BY <1>2, <1>3

\* What a lost cycle has changed counts as forgotten; the rest is in the row.
LEMMA LoseInv ==
  ASSUME Inv, TypeOK', Lose
  PROVE  CyclePhase' /\ \A i \in Issues : IssueInv(i)'
<1> TypeOK BY DEF Inv
<1> USE DEF env
<1>1. pc' = "idle" /\ outbox' = {} /\ changed' = {} /\ announced' = {} /\ DOMAIN batch' = {}
  BY DEF Lose, EndCycle, NoBatch
<1>2. CyclePhase' BY <1>1 DEF CyclePhase
<1>3. ASSUME NEW i \in Issues PROVE IssueInv(i)'
  <2>1. /\ redmine' = redmine /\ moves' = moves /\ told' = told /\ db' = db
        /\ covered' = covered /\ mem'[i] = Forgotten
        /\ forgotten'[i] = IF i \in changed THEN forgotten[i] + 1 ELSE forgotten[i]
    BY DEF Lose, EndCycle
  <2>2. /\ IssueInv(i) /\ db[i] \in Row /\ mem[i] \in Row
        /\ forgotten[i] \in Nat /\ moves[i] \in Nat /\ Current(i) \in Row
        /\ \A k \in Kind : told[i][k] \in Nat /\ Due1(i, k) \in Nat
    BY IssueTypes DEF Inv, Current
  <2>3. Current(i)' = db[i] BY <1>1, <2>1 DEF Current
  <2>4. \A k \in Kind : Due1(i, k)' <= Due1(i, k) /\ Due1(i, k)' \in Nat
    BY <1>1, <2>1, <2>2 DEF Due1
  <2>5. Accounts(i, db[i])'
    <3> DEFINE u == Unseen(i, db[i])
               d == Differs(db[i], redmine[i].status)
               kn == IF Known(db[i]) THEN 1 ELSE 0
    <3>1. u \in Nat /\ d \in {0, 1} /\ d <= u
      <4>1. CASE i \in DOMAIN batch
        <5> DEFINE e == IF batch[i].status # redmine[i].status THEN 1 ELSE 0
        <5>1. u = Differs(db[i], batch[i].status) + e BY <4>1 DEF Unseen
        <5>2. d <= Differs(db[i], batch[i].status) + e /\ d \in {0, 1}
              /\ Differs(db[i], batch[i].status) \in {0, 1}
          BY <2>2, DiffersFacts
        <5>3. e \in {0, 1} OBVIOUS
        <5> HIDE DEF e, u, d
        <5> QED BY <5>1, <5>2, <5>3
      <4>2. CASE i \notin DOMAIN batch
        <5>1. u = d /\ d \in {0, 1} BY <2>2, <4>2, DiffersFacts DEF Unseen
        <5> HIDE DEF u, d
        <5> QED BY <5>1
      <4> QED BY <4>1, <4>2
    <3>2. Unseen(i, db[i])' = d BY <1>1, <2>1 DEF Unseen, Differs, Known
    <3>3. Due1(i, "new")' <= forgotten'[i] + kn
          /\ Due1(i, "status_change")' + d <= moves[i] + forgotten'[i]
      <4>1. CASE i \in changed
        <5>1. Due1(i, "new") <= forgotten[i] + 1 /\ Due1(i, "status_change") <= moves[i] + forgotten[i]
          <6>1. Accounts(i, Current(i)) BY <2>2 DEF IssueInv, Accounted
          <6>2. Due1(i, "new") <= forgotten[i] + 1
            BY <2>2, <6>1 DEF Accounts, Announced1, Kind
          <6>3. Unseen(i, Current(i)) \in Nat
            BY <2>2, DiffersFacts DEF Unseen
          <6>4. Due1(i, "status_change") \in Nat BY <2>2 DEF Kind
          <6>5. Due1(i, "status_change") + Unseen(i, Current(i)) <= moves[i] + forgotten[i]
            BY <6>1 DEF Accounts, ChangesCounted
          <6> HIDE DEF u, d
          <6> QED BY <2>2, <6>2, <6>3, <6>4, <6>5
        <5>2. forgotten'[i] = forgotten[i] + 1 BY <2>1, <4>1
        <5>3. kn \in {0, 1} OBVIOUS
        <5>4. \A k \in {"new", "status_change"} :
                Due1(i, k)' <= Due1(i, k) /\ Due1(i, k)' \in Nat /\ Due1(i, k) \in Nat
          BY <2>2, <2>4 DEF Kind
        <5> HIDE DEF u, d, kn
        <5> QED BY <2>2, <3>1, <5>1, <5>2, <5>3, <5>4
      <4>2. CASE i \notin changed
        <5>1. Due1(i, "new") <= forgotten[i] + kn /\ Due1(i, "status_change") + u <= moves[i] + forgotten[i]
          BY <2>2, <4>2 DEF IssueInv, Accounted, Accounts, Announced1, ChangesCounted
        <5>2. forgotten'[i] = forgotten[i] BY <2>1, <4>2
        <5>3. kn \in {0, 1} OBVIOUS
        <5>4. \A k \in {"new", "status_change"} :
                Due1(i, k)' <= Due1(i, k) /\ Due1(i, k)' \in Nat /\ Due1(i, k) \in Nat
          BY <2>2, <2>4 DEF Kind
        <5> HIDE DEF u, d, kn
        <5> QED BY <2>2, <3>1, <5>1, <5>2, <5>3, <5>4
      <4> QED BY <4>1, <4>2
    <3> QED BY <2>1, <3>2, <3>3 DEF Accounts, Announced1, ChangesCounted, Known
  <2>6. JournalsAgree(i)'
    <3>1. mem'[i].jid = Never BY <2>1 DEF Forgotten
    <3> QED BY <1>1, <2>1, <2>2, <2>3, <3>1 DEF IssueInv, JournalsAgree
  <2>7. CoveredPassed(i)'
    <3>1. forgotten'[i] = 0 => forgotten[i] = 0 /\ i \notin changed BY <2>1, <2>2
    <3>2. forgotten[i] = 0 /\ i \notin changed => Current(i).jid = db[i].jid
      BY <2>2 DEF IssueInv, CoveredPassed, Current
    <3> QED BY <1>1, <2>1, <2>2, <2>3, <3>1, <3>2 DEF IssueInv, CoveredPassed, LastKnownId
  <2>8. Dated(db[i])' /\ Dated(mem[i])'
    BY <2>1, <2>2 DEF IssueInv, Dated, Known, Forgotten
  <2> QED BY <2>1, <2>3, <2>5, <2>6, <2>7, <2>8 DEF IssueInv, Accounted
<1> QED BY <1>2, <1>3

\* A row that is deleted counts as forgotten, unless it was empty.
LEMMA DeleteInv ==
  ASSUME Inv, TypeOK', CleanupDelete
  PROVE  CyclePhase' /\ \A i \in Issues : IssueInv(i)'
<1> TypeOK BY DEF Inv
<1> USE DEF cycle
<1>1. CyclePhase' BY DEF Inv, CyclePhase, CleanupDelete
<1>2. ASSUME NEW i \in Issues, db'[i] = db[i] PROVE IssueInv(i)'
  <2>1. IssueInv(i) BY DEF Inv
  <2>2. /\ mem' = mem /\ redmine' = redmine /\ moves' = moves /\ forgotten'[i] = forgotten[i]
        /\ told' = told /\ covered' = covered /\ batch' = batch /\ changed' = changed
        /\ outbox' = outbox /\ pc' = pc
    BY <1>2 DEF CleanupDelete
  <2>3. Current(i)' = Current(i) /\ Accounts(i, Current(i))' = Accounts(i, Current(i))
        /\ Accounts(i, db[i])' = Accounts(i, db[i])
    BY <1>2, <2>2
       DEF Current, Accounts, Announced1, ChangesCounted, Due1, Unseen, Differs, Known
  <2> QED BY <1>2, <2>1, <2>2, <2>3
        DEF IssueInv, JournalsAgree, CoveredPassed, Accounted, Dated, Known, LastKnownId
<1>3. ASSUME NEW i \in Issues, db'[i] # db[i] PROVE IssueInv(i)'
  <2>1. /\ IssueInv(i) /\ db[i] \in Row /\ mem[i] \in Row /\ forgotten[i] \in Nat /\ moves[i] \in Nat
        /\ \A k \in Kind : Due1(i, k) \in Nat
    BY IssueTypes DEF Inv
  <2>2. /\ mem' = mem /\ redmine' = redmine /\ moves' = moves /\ forgotten'[i] = forgotten[i] + 1
        /\ told' = told /\ covered' = covered /\ batch' = batch /\ changed' = changed
        /\ outbox' = outbox /\ pc' = pc /\ db'[i] = Forgotten
    BY <1>3 DEF CleanupDelete
  <2>3. ~Known(Forgotten) /\ Forgotten.jid = Never /\ Forgotten \in Row
    BY RowFacts DEF Known, Forgotten
  <2>4. \A k \in Kind : Due1(i, k)' = Due1(i, k) BY <2>2 DEF Due1
  <2>5. ASSUME NEW row \in Row, row' = row, Accounts(i, row) PROVE Accounts(i, row)'
    <3>1. Unseen(i, row)' = Unseen(i, row) /\ (Known(row)' <=> Known(row)) /\ Unseen(i, row) \in Nat
      BY <2>2, <2>5 DEF Unseen, Differs, Known
    <3>2. Announced1(i, row)'
      BY <2>1, <2>2, <2>4, <2>5, <3>1 DEF Accounts, Announced1, Kind
    <3>3. ChangesCounted(i, row)'
      BY <2>1, <2>2, <2>4, <2>5, <3>1 DEF Accounts, ChangesCounted, Kind
    <3> QED BY <3>2, <3>3 DEF Accounts
  <2>6. ASSUME Accounts(i, db[i]) PROVE Accounts(i, db[i])'
    <3> DEFINE d == IF i \in DOMAIN batch /\ batch[i].status # redmine[i].status THEN 1 ELSE 0
    <3>1. Unseen(i, db[i])' = d
      <4>1. \A status : Differs(Forgotten, status) = 0 BY <2>3, DiffersFacts
      <4>2. CASE i \in DOMAIN batch
        <5>1. Unseen(i, db[i])' = Differs(Forgotten, batch[i].status)
                                  + (IF batch[i].status # redmine[i].status THEN 1 ELSE 0)
          BY <2>2, <4>2 DEF Unseen, Differs, Known
        <5> QED BY <4>1, <4>2, <5>1
      <4>3. CASE i \notin DOMAIN batch
        <5>1. Unseen(i, db[i])' = Differs(Forgotten, redmine[i].status)
          BY <2>2, <4>3 DEF Unseen, Differs, Known
        <5> QED BY <4>1, <4>3, <5>1
      <4> QED BY <4>2, <4>3
    <3>2. Unseen(i, db[i]) >= d /\ Unseen(i, db[i]) \in Nat /\ d \in {0, 1}
      BY <2>1, DiffersFacts DEF Unseen
    <3>3. Due1(i, "new") \in Nat /\ Due1(i, "status_change") \in Nat BY <2>1 DEF Kind
    <3>4. Due1(i, "new") <= forgotten[i] + 1
      BY <2>1, <2>6, <3>3 DEF Accounts, Announced1
    <3>5. Due1(i, "status_change") + Unseen(i, db[i]) <= moves[i] + forgotten[i]
      BY <2>6 DEF Accounts, ChangesCounted
    <3>6. Announced1(i, db[i])'
      <4>1. ~Known(db[i])' BY <2>2, <2>3 DEF Known
      <4>2. Due1(i, "new")' <= forgotten'[i] + 0 BY <2>1, <2>2, <2>4, <3>3, <3>4 DEF Kind
      <4> QED BY <4>1, <4>2 DEF Announced1
    <3>7. ChangesCounted(i, db[i])'
      <4> HIDE DEF d
      <4>1. Due1(i, "status_change")' = Due1(i, "status_change") BY <2>4 DEF Kind
      <4>2. Due1(i, "status_change") + d <= moves[i] + (forgotten[i] + 1)
        BY <2>1, <3>2, <3>3, <3>5
      <4> QED BY <2>2, <3>1, <4>1, <4>2 DEF ChangesCounted
    <3> QED BY <3>6, <3>7 DEF Accounts
  <2>7. Accounts(i, Current(i))' /\ (i \notin changed' => Accounts(i, db[i])')
    <3>1. i \notin changed' => Accounts(i, db[i])'
      BY <2>1, <2>2, <2>6 DEF IssueInv, Accounted
    <3>2. CASE pc = "processing"
      <4>1. Accounts(i, mem[i]) /\ mem'[i] = mem[i]
        BY <2>1, <2>2, <3>2 DEF IssueInv, Accounted, Current
      <4>2. Accounts(i, mem[i])' BY <2>1, <2>5, <4>1
      <4>3. Current(i)' = mem[i]' BY <2>2, <3>2 DEF Current
      <4> QED BY <3>1, <4>2, <4>3 DEF Accounts, Announced1, ChangesCounted, Unseen, Differs, Known
    <3>3. CASE pc # "processing"
      <4>1. Accounts(i, db[i]) BY <2>1, <3>3 DEF IssueInv, Accounted, Current
      <4>2. Accounts(i, db[i])' BY <2>6, <4>1
      <4>3. Current(i)' = db[i]' BY <2>2, <3>3 DEF Current
      <4> QED BY <3>1, <4>2, <4>3 DEF Accounts, Announced1, ChangesCounted, Unseen, Differs, Known
    <3> QED BY <3>2, <3>3
  <2>8. JournalsAgree(i)' BY <2>1, <2>2, <2>3 DEF IssueInv, JournalsAgree
  <2>9. CoveredPassed(i)' BY <2>1, <2>2 DEF CoveredPassed
  <2>10. Dated(db[i])' /\ Dated(mem[i])' BY <2>1, <2>2, <2>3 DEF IssueInv, Dated, Known
  <2> QED BY <2>7, <2>8, <2>9, <2>10 DEF IssueInv, Accounted
<1> QED BY <1>1, <1>2, <1>3

\* At the start nothing is remembered, owed or told.
LEMMA InvInit == Init => Inv
<1> SUFFICES ASSUME Init PROVE Inv
  OBVIOUS
<1>1. TypeOK BY TypeInit
<1>2. CyclePhase BY DEF Init, CyclePhase, NoBatch
<1>3. ASSUME NEW i \in Issues PROVE IssueInv(i)
  <2>1. /\ db[i] = Forgotten /\ mem[i] = Forgotten /\ i \notin DOMAIN batch /\ outbox = {}
        /\ moves[i] = 0 /\ forgotten[i] = 0 /\ covered[i] = {} /\ pc = "idle"
        /\ \A k \in Kind : told[i][k] = 0
    BY DEF Init, NoBatch
  <2>2. ~Known(Forgotten) /\ Forgotten.jid = Never BY DEF Known, Forgotten
  <2>3. Current(i) = Forgotten BY <2>1 DEF Current
  <2>4. Due1(i, "new") = 0 /\ Due1(i, "status_change") = 0 BY <2>1 DEF Due1, Kind
  <2>5. Unseen(i, Forgotten) = 0 BY <2>1, <2>2 DEF Unseen, Differs
  <2>6. Accounts(i, Forgotten)
    BY <2>1, <2>2, <2>4, <2>5 DEF Accounts, Announced1, ChangesCounted
  <2> QED BY <2>1, <2>2, <2>3, <2>6
        DEF IssueInv, Dated, JournalsAgree, CoveredPassed, Accounted
<1> QED BY <1>1, <1>2, <1>3 DEF Inv

\* The invariant is inductive.
LEMMA InvStep == Inv /\ [Next]_vars => Inv'
<1> SUFFICES ASSUME Inv, [Next]_vars PROVE Inv'
  OBVIOUS
<1>1. TypeOK' BY TypeStep DEF Inv
<1> USE DEF env, cycle, history
<1>2. ASSUME \A i \in Issues : Untouched(i), CyclePhase' PROVE Inv'
  BY <1>1, <1>2, UntouchedInv DEF Inv
<1>3. ASSUME NEW i \in Issues, NEW st \in UsedStatus \cup {"Closed"}, NEW e \in NewEntry, Edit(i, st, e)
      PROVE  Inv'
  BY <1>1, <1>3, EditInv DEF Inv
<1>4. CASE Tick BY <1>2, <1>4 DEF Tick, Untouched, Inv, CyclePhase
<1>5. ASSUME NEW t, Fetch(t) PROVE Inv' BY <1>1, <1>5, FetchInv DEF Inv
<1>6. CASE FetchFails BY <1>2, <1>6 DEF FetchFails, Untouched, Inv, CyclePhase
<1>7. CASE LoadState BY <1>1, <1>7, LoadInv DEF Inv
<1>8. ASSUME NEW i \in Issues, ProcessIssue(i) \/ \E k \in 0 .. 3 : ProcessRaises(i, k)
      PROVE  Inv'
  BY <1>1, <1>8, ProcessInv DEF Inv
<1>9. ASSUME NEW note \in outbox, NEW delivered \in BOOLEAN, Send(note, delivered) PROVE Inv'
  BY <1>1, <1>9, SendInv DEF Inv
<1>10. CASE Commit BY <1>1, <1>10, CommitInv DEF Inv
<1>11. CASE Lose BY <1>1, <1>11, LoseInv DEF Inv
<1>12. CASE CleanupFetch BY <1>2, <1>12 DEF CleanupFetch, Untouched, Inv, CyclePhase
<1>13. CASE CleanupDelete BY <1>1, <1>13, DeleteInv DEF Inv
<1>14. CASE UNCHANGED vars BY <1>2, <1>14 DEF vars, Untouched, Inv, CyclePhase
<1> QED BY <1>3, <1>4, <1>5, <1>6, <1>7, <1>8, <1>9, <1>10, <1>11, <1>12, <1>13, <1>14
     DEF Next, Rollback, Crash

\* The invariant holds in every reachable state.
LEMMA InvHolds == Spec => []Inv
BY InvInit, InvStep, PTL DEF Spec

-----------------------------------------------------------------------------
(* Comments that are owed are covered before the bot moves past them. *)

\* An issue that is left alone keeps its comments.
LEMMA UntouchedKept ==
  ASSUME NEW i \in Issues, CommentsKept(i), Untouched(i)
  PROVE  CommentsKept(i)'
BY DEF CommentsKept, Untouched, Current

\* An issue that is passed over: what is new and was owed is told of.
LEMMA PassedKept ==
  ASSUME "issue_updated" \in Notify, Inv, NEW i \in Issues, CommentsKept(i),
         NEW s, NEW dirty, NEW notes, NEW lost,
         i \in DOMAIN batch, batch[i] \in Snapshot, mem[i] \in Row,
         Process(i, s, dirty, notes), Passed(batch[i], mem[i], s, dirty, notes, lost)
  PROVE  CommentsKept(i)'
<1> TypeOK BY DEF Inv
<1> DEFINE x == batch[i]
           st == mem[i]
<1>1. /\ pc = "processing" /\ pc' = pc /\ mem'[i] = s /\ db'[i] = db[i]
      /\ redmine'[i] = redmine[i] /\ owed'[i] = owed[i] /\ covered[i] \subseteq covered'[i]
      /\ Personal("issue_updated") \in notes => NewEntries(x, st) \subseteq covered'[i]
  BY DEF TypeOK, Process, env, Personal
<1>2. Current(i) = st /\ Current(i)' = s /\ s \in Row BY <1>1 DEF Current, Passed
<1>3. db[i] \in Row /\ owed[i] \in SUBSET Nat /\ JournalsAgree(i)
  BY IssueTypes DEF Inv, IssueInv
<1>4. ASSUME NEW c \in owed[i], s.jid # Never, c <= s.jid PROVE c \in covered'[i]
  <2>1. /\ c \in 1 .. Len(redmine[i].journals) /\ redmine[i].journals[c] = "comment"
        /\ st.jid # Never /\ (c <= st.jid => c \in covered[i])
    BY <1>2, <1>3 DEF CommentsKept, JournalsAgree
  <2>2. CASE c <= st.jid BY <1>1, <2>1, <2>2
  <2>3. CASE ~(c <= st.jid)
    <3>1. s.jid # st.jid /\ s.jid = JournalAdvance(x, st) BY <1>4, <2>3 DEF Passed
    <3>2. s.jid = Len(x.journals) BY <1>4, <3>1, AdvanceFacts
    <3>3. c \in NewEntries(x, st) /\ c \in 1 .. Len(x.journals)
      <4>1. x.journals \in Seq(Entry) /\ st.jid \in Nat /\ c \in Nat
        BY <1>3, <2>1 DEF Snapshot, Row
      <4>2. DOMAIN x.journals = 1 .. Len(x.journals) /\ Len(x.journals) \in Nat BY <4>1
      <4>3. c \in 1 .. Len(x.journals) /\ c > st.jid BY <1>4, <2>1, <2>3, <3>2, <4>1, <4>2
      <4> HIDE DEF st, x
      <4> QED BY <2>1, <4>2, <4>3 DEF NewEntries, LastKnownId
    <3>4. x.journals[c] = "comment" BY <1>3, <2>1, <3>3 DEF JournalsAgree
    <3>5. Personal("issue_updated") \in notes BY <2>1, <3>1, <3>3, <3>4 DEF Passed
    <3> QED BY <1>1, <3>3, <3>5
  <2> QED BY <2>2, <2>3
<1> QED BY <1>1, <1>2, <1>3, <1>4 DEF CommentsKept

\* Every step keeps the comments that are owed.
LEMMA KeptStep ==
  ASSUME "issue_updated" \in Notify, Inv, Inv', Kept, [Next]_vars
  PROVE  Kept'
<1> TypeOK BY DEF Inv
<1> USE DEF env, cycle, history
<1>1. ASSUME \A i \in Issues : Untouched(i) PROVE Kept'
  BY <1>1, UntouchedKept DEF Kept
<1>2. ASSUME NEW i \in Issues, NEW st \in UsedStatus \cup {"Closed"}, NEW e \in NewEntry, Edit(i, st, e)
      PROVE  Kept'
  <2>1. ASSUME NEW j \in Issues, j # i PROVE CommentsKept(j)'
    <3>1. redmine'[j] = redmine[j] /\ moves'[j] = moves[j] /\ owed'[j] = owed[j]
      BY <1>2, <2>1 DEF Edit, TypeOK
    <3>2. Untouched(j) BY <1>2, <3>1 DEF Edit, Untouched
    <3> QED BY <3>2, UntouchedKept DEF Kept
  <2>2. CommentsKept(i)'
    <3> DEFINE n == Len(redmine[i].journals)
    <3>1. /\ db' = db /\ pc' = pc /\ mem' = mem /\ covered' = covered
          /\ redmine'[i].journals = Append(redmine[i].journals, e)
          /\ owed'[i] = IF db[i].jid # Never /\ e = "comment" THEN owed[i] \cup {n + 1} ELSE owed[i]
      BY <1>2 DEF Edit, TypeOK
    <3>2. redmine[i].journals \in Seq(Entry) /\ n \in Nat BY DEF TypeOK
    <3>3. /\ Len(redmine'[i].journals) = n + 1 /\ redmine'[i].journals[n + 1] = e
          /\ \A c \in 1 .. n : redmine'[i].journals[c] = redmine[i].journals[c]
      BY <3>1, <3>2
    <3>4. Current(i)' = Current(i) /\ db'[i] = db[i] BY <3>1 DEF Current
    <3>5. /\ db[i].jid # Never => db[i].jid \in Nat /\ db[i].jid <= n
          /\ Current(i).jid # Never => Current(i).jid \in Nat /\ Current(i).jid <= n
      BY IssueTypes DEF Inv, IssueInv, JournalsAgree, Current, Row
    <3>6. CommentsKept(i) /\ owed[i] \in SUBSET Nat BY IssueTypes DEF Kept
    <3>7. ASSUME NEW c \in owed[i]
          PROVE  /\ c \in 1 .. n + 1 /\ redmine'[i].journals[c] = "comment"
                 /\ db'[i].jid # Never /\ c <= db'[i].jid => c \in covered'[i]
                 /\ Current(i)'.jid # Never /\ c <= Current(i)'.jid => c \in covered'[i]
      <4>1. c \in 1 .. n BY <3>6, <3>7 DEF CommentsKept
      <4> HIDE DEF n
      <4>2. c \in 1 .. n + 1 /\ redmine'[i].journals[c] = redmine[i].journals[c]
        BY <3>2, <3>3, <4>1
      <4> QED BY <3>1, <3>4, <3>6, <4>2 DEF CommentsKept
    <3>8. CASE db[i].jid # Never /\ e = "comment"
      <4>1. /\ n + 1 \in 1 .. n + 1 /\ redmine'[i].journals[n + 1] = "comment"
            /\ ~(db'[i].jid # Never /\ n + 1 <= db'[i].jid)
            /\ ~(Current(i)'.jid # Never /\ n + 1 <= Current(i)'.jid)
        <5> HIDE DEF n
        <5> QED BY <3>2, <3>3, <3>4, <3>5, <3>8
      <4>2. owed'[i] = owed[i] \cup {n + 1} BY <3>1, <3>8
      <4> QED BY <3>3, <3>4, <3>7, <3>8, <4>1, <4>2 DEF CommentsKept
    <3>9. CASE ~(db[i].jid # Never /\ e = "comment")
      <4>1. owed'[i] = owed[i] BY <3>1, <3>9
      <4> QED BY <3>3, <3>4, <3>6, <3>7, <4>1 DEF CommentsKept
    <3> QED BY <3>8, <3>9
  <2> QED BY <2>1, <2>2 DEF Kept
<1>3. CASE Tick BY <1>1, <1>3 DEF Tick, Untouched
<1>4. ASSUME NEW t, Fetch(t) PROVE Kept'
  BY <1>4 DEF Fetch, Kept, CommentsKept, Current
<1>5. CASE FetchFails BY <1>1, <1>5 DEF FetchFails, Untouched
<1>6. CASE LoadState
  <2> SUFFICES ASSUME NEW i \in Issues PROVE CommentsKept(i)'
    BY DEF Kept
  <2>1. Dated(db[i]) /\ db[i] \in Row /\ CommentsKept(i) BY IssueTypes DEF Inv, IssueInv, Kept
  <2>2. FromRow(db[i]).jid = db[i].jid BY <2>1, FromRowFacts
  <2>3. Current(i)' = FromRow(db[i]) BY <1>6 DEF LoadState, Current
  <2>4. db' = db /\ redmine' = redmine /\ owed' = owed /\ covered' = covered BY <1>6 DEF LoadState
  <2> QED BY <2>1, <2>2, <2>3, <2>4 DEF CommentsKept
<1>7. ASSUME NEW i \in Issues, ProcessIssue(i) \/ \E k \in 0 .. 3 : ProcessRaises(i, k)
      PROVE  Kept'
  <2>1. PICK s, dirty, notes, lost :
          /\ Process(i, s, dirty, notes)
          /\ Passed(batch[i], mem[i], s, dirty, notes, lost)
          /\ troubles' \in Nat /\ slipped' \subseteq Issues
          /\ forgotten' = IF lost THEN [forgotten EXCEPT ![i] = @ + 1] ELSE forgotten
    BY <1>7, PassFacts
  <2>2. i \in DOMAIN batch /\ batch[i] \in Snapshot /\ mem[i] \in Row BY <1>7, PassFacts
  <2>3. CommentsKept(i)' BY <2>1, <2>2, PassedKept DEF Kept
  <2>4. ASSUME NEW j \in Issues, j # i PROVE CommentsKept(j)'
    <3>1. Untouched(j) BY <2>1, <2>4 DEF Process, Untouched, TypeOK
    <3> QED BY <3>1, UntouchedKept DEF Kept
  <2> QED BY <2>3, <2>4 DEF Kept
<1>8. ASSUME NEW note \in outbox, NEW delivered \in BOOLEAN, Send(note, delivered) PROVE Kept'
  BY <1>8 DEF Send, Kept, CommentsKept, Current
<1>9. CASE Commit
  <2> SUFFICES ASSUME NEW i \in Issues PROVE CommentsKept(i)'
    BY DEF Kept
  <2>1. /\ redmine' = redmine /\ owed' = owed /\ covered' = covered /\ pc' = "idle" /\ pc = "processing"
        /\ db'[i] = IF i \in changed THEN ToRow(mem[i]) ELSE db[i]
    BY <1>9 DEF Commit, EndCycle, Upsert
  <2>2. /\ CommentsKept(i) /\ ToRow(mem[i]).jid = mem[i].jid /\ JournalsAgree(i)
    BY IssueTypes DEF Kept, ToRow, Row, Inv, IssueInv
  <2>3. Current(i) = mem[i] /\ Current(i)' = db'[i] BY <2>1 DEF Current
  <2>4. CASE i \in changed BY <2>1, <2>2, <2>3, <2>4 DEF CommentsKept, JournalsAgree
  <2>5. CASE i \notin changed BY <2>1, <2>2, <2>3, <2>5 DEF CommentsKept
  <2> QED BY <2>4, <2>5
<1>10. CASE Lose BY <1>10 DEF Lose, EndCycle, Kept, CommentsKept, Current
<1>11. CASE CleanupFetch BY <1>1, <1>11 DEF CleanupFetch, Untouched
<1>12. CASE CleanupDelete
  <2> SUFFICES ASSUME NEW i \in Issues PROVE CommentsKept(i)'
    BY DEF Kept
  <2>1. CASE i \in openIds
    <3>1. db'[i] = db[i] /\ owed'[i] = owed[i] BY <1>12, <2>1 DEF CleanupDelete
    <3> QED BY <1>12, <3>1 DEF CleanupDelete, Kept, CommentsKept, Current
  <2>2. CASE i \notin openIds
    <3>1. owed'[i] = {} BY <1>12, <2>2 DEF CleanupDelete
    <3> QED BY <3>1 DEF CommentsKept
  <2> QED BY <2>1, <2>2
<1>13. CASE UNCHANGED vars BY <1>1, <1>13 DEF vars, Untouched
<1> QED BY <1>2, <1>3, <1>4, <1>5, <1>6, <1>7, <1>8, <1>9, <1>10, <1>11, <1>12, <1>13
     DEF Next, Rollback, Crash

-----------------------------------------------------------------------------
(* A row's status moves with a notice. *)

\* Every step keeps a status and its notice together.
LEMMA TrackedStep ==
  ASSUME "status_change" \in Notify, Inv, Tracked, [Next]_vars
  PROVE  Tracked'
<1> TypeOK BY DEF Inv
<1> USE DEF env, cycle, history
<1>1. ASSUME NEW i \in Issues, StatusTracked(i), Untouched(i) PROVE StatusTracked(i)'
  BY <1>1 DEF StatusTracked, Untouched, Known, Kind
<1>2. ASSUME \A i \in Issues : Untouched(i) PROVE Tracked'
  BY <1>1, <1>2 DEF Tracked
<1>3. ASSUME NEW i \in Issues, NEW st \in UsedStatus \cup {"Closed"}, NEW e \in NewEntry, Edit(i, st, e)
      PROVE  Tracked'
  BY <1>3 DEF Edit, Tracked, StatusTracked, Known
<1>4. CASE Tick BY <1>2, <1>4 DEF Tick, Untouched
<1>5. ASSUME NEW t, Fetch(t) PROVE Tracked' BY <1>5 DEF Fetch, Tracked, StatusTracked
<1>6. CASE FetchFails BY <1>2, <1>6 DEF FetchFails, Untouched
<1>7. CASE LoadState
  <2> SUFFICES ASSUME NEW i \in Issues PROVE StatusTracked(i)'
    BY DEF Tracked
  <2>1. FromRow(db[i]).status = db[i].status BY IssueTypes, FromRowFacts DEF Inv, IssueInv
  <2> QED BY <1>7, <2>1 DEF LoadState, StatusTracked
<1>8. ASSUME NEW i \in Issues, ProcessIssue(i) \/ \E k \in 0 .. 3 : ProcessRaises(i, k)
      PROVE  Tracked'
  <2>1. PICK s, dirty, notes, lost :
          /\ Process(i, s, dirty, notes)
          /\ Passed(batch[i], mem[i], s, dirty, notes, lost)
          /\ troubles' \in Nat /\ slipped' \subseteq Issues
          /\ forgotten' = IF lost THEN [forgotten EXCEPT ![i] = @ + 1] ELSE forgotten
    BY <1>8, PassFacts
  <2>2. StatusTracked(i)'
    <3>1. /\ i \in DOMAIN batch /\ i \notin DOMAIN batch' /\ mem'[i] = s /\ db'[i] = db[i]
          /\ \A k \in Kind : Personal(k) \in notes => <<i, Personal(k)>> \in announced'
      BY <1>8, <2>1, PassFacts DEF Process, TypeOK
    <3>2. pc = "processing" /\ StatusTracked(i) BY <2>1 DEF Process, Tracked
    <3>3. Known(db[i]) => mem[i].status = db[i].status BY <3>1, <3>2 DEF StatusTracked
    <3>4. Known(db[i]) /\ s.status # db[i].status => Personal("status_change") \in notes
      BY <2>1, <3>3 DEF Passed, Known
    <3> QED BY <3>1, <3>4 DEF StatusTracked, Known, Kind
  <2>3. ASSUME NEW j \in Issues, j # i PROVE StatusTracked(j)'
    <3>1. Untouched(j) BY <2>1, <2>3 DEF Process, Untouched, TypeOK
    <3> QED BY <1>1, <3>1 DEF Tracked
  <2> QED BY <2>2, <2>3 DEF Tracked
<1>9. ASSUME NEW note \in outbox, NEW delivered \in BOOLEAN, Send(note, delivered) PROVE Tracked'
  BY <1>9 DEF Send, Tracked, StatusTracked, Known
<1>10. CASE Commit \/ Lose BY <1>10 DEF Commit, Lose, EndCycle, Tracked, StatusTracked
<1>11. CASE CleanupFetch BY <1>2, <1>11 DEF CleanupFetch, Untouched
<1>12. CASE CleanupDelete
  <2>1. \A i \in Issues : Known(db'[i]) => db'[i] = db[i]
    BY <1>12 DEF CleanupDelete, Known, Forgotten
  <2> QED BY <1>12, <2>1 DEF CleanupDelete, Tracked, StatusTracked, Known
<1>13. CASE UNCHANGED vars BY <1>2, <1>13 DEF vars, Untouched
<1> QED BY <1>3, <1>4, <1>5, <1>6, <1>7, <1>8, <1>9, <1>10, <1>11, <1>12, <1>13
     DEF Next, Rollback, Crash

-----------------------------------------------------------------------------
\* Nothing is told twice: the user hears of a new issue once and of a status not more
\* often than it changed, and once more only for what the bot lost.
THEOREM ToldOnce == Spec => []NothingToldTwice
<1>1. Inv => NothingToldTwice
  <2> SUFFICES ASSUME Inv, NEW i \in Issues PROVE AnnouncedOnce(i) /\ StatusToldOnce(i)
    BY DEF NothingToldTwice
  <2>1. /\ Accounts(i, Current(i)) /\ Current(i) \in Row /\ moves[i] \in Nat /\ forgotten[i] \in Nat
        /\ \A k \in Kind : told[i][k] \in Nat
    BY IssueTypes DEF Inv, IssueInv, Accounted, Current
  <2>2. \A k \in {"new", "status_change"} : told[i][k] \in Nat /\ Due1(i, k) \in Nat /\ told[i][k] <= Due1(i, k)
    BY <2>1 DEF Due1, Kind
  <2>3. Unseen(i, Current(i)) \in Nat BY <2>1, DiffersFacts DEF Unseen
  <2>4. Due1(i, "new") <= forgotten[i] + 1
    BY <2>1, <2>2 DEF Accounts, Announced1
  <2>5. Due1(i, "status_change") + Unseen(i, Current(i)) <= moves[i] + forgotten[i]
    BY <2>1 DEF Accounts, ChangesCounted
  <2>6. told[i]["status_change"] <= moves[i] + forgotten[i]
    BY <2>1, <2>2, <2>3, <2>5
  <2> QED BY <2>1, <2>2, <2>4, <2>6 DEF AnnouncedOnce, StatusToldOnce
<1> QED BY <1>1, InvHolds, PTL

\* No journal entry is told of in two notices, unless the bot lost what it knew.
THEOREM EntriesOnce == Spec => EntriesToldOnce
<1> DEFINE Once == \A i \in Issues :
             <<i, <<"issue_updated", "personal">>>> \in announced' \ announced
               => NewEntries(batch[i], mem[i]) \cap covered[i] = {} \/ forgotten[i] > 0
<1>1. Inv /\ [Next]_vars => [Once]_announced
  <2> SUFFICES ASSUME Inv, [Next]_vars, NEW i \in Issues,
                      <<i, <<"issue_updated", "personal">>>> \in announced' \ announced,
                      ~(forgotten[i] > 0)
               PROVE  NewEntries(batch[i], mem[i]) \cap covered[i] = {}
    OBVIOUS
  <2> TypeOK BY DEF Inv
  <2>1. ProcessIssue(i) \/ \E k \in 0 .. 3 : ProcessRaises(i, k)
    <3>1. PICK j \in Issues : ProcessIssue(j) \/ \E k \in 0 .. 3 : ProcessRaises(j, k)
      BY DEF Next, vars, Edit, Tick, Fetch, FetchFails, LoadState, Send, Commit, EndCycle, Rollback,
             Crash, Lose, CleanupFetch, CleanupDelete, env, cycle, history
    <3>2. PICK s, dirty, notes, lost : Process(j, s, dirty, notes) BY <3>1, PassFacts
    <3>3. j = i BY <3>2 DEF Process
    <3> QED BY <3>1, <3>3
  <2>2. batch[i] \in Snapshot /\ mem[i] \in Row /\ forgotten[i] = 0 /\ covered[i] \in SUBSET Nat
    BY <2>1, PassFacts, IssueTypes
  <2>3. pc = "processing" BY <2>1 DEF ProcessIssue, ProcessRaises, Process
  <2>4. \A c \in covered[i] : c \in Nat /\ c <= LastKnownId(mem[i])
    BY <2>2, <2>3 DEF Inv, IssueInv, CoveredPassed, Current
  <2>5. \A c \in NewEntries(batch[i], mem[i]) : c > LastKnownId(mem[i]) BY <2>2, AdvanceFacts
  <2>6. LastKnownId(mem[i]) \in Nat BY <2>2 DEF LastKnownId, Row
  <2> QED BY <2>4, <2>5, <2>6
<1> QED BY <1>1, InvHolds, PTL DEF Spec, EntriesToldOnce

\* For a user who wants notices of updates: a comment written once a journal id of the
\* issue was known is covered by a notice before the bot moves past it.
THEOREM CommentsCovered ==
  ASSUME "issue_updated" \in Notify
  PROVE  Spec => []TrackedCommentsCovered
<1>1. Init => Kept BY DEF Init, Kept, CommentsKept
<1>2. Inv /\ Inv' /\ Kept /\ [Next]_vars => Kept' BY KeptStep
<1>3. Kept => TrackedCommentsCovered
  BY DEF Kept, CommentsKept, TrackedCommentsCovered
<1> QED BY <1>1, <1>2, <1>3, InvHolds, PTL DEF Spec

\* For a user who wants notices of status changes: a row's status moves only together
\* with one.
THEOREM MovesAnnounced ==
  ASSUME "status_change" \in Notify
  PROVE  Spec => StatusMovesAnnounced
<1> DEFINE Announcing == \A i \in Issues :
             Known(db[i]) /\ Known(db'[i]) /\ db[i].status # db'[i].status
               => <<i, <<"status_change", "personal">>>> \in announced
<1>1. Init => Tracked BY DEF Init, Tracked, StatusTracked
<1>2. Inv /\ Tracked /\ [Next]_vars => Tracked' BY TrackedStep
<1>3. Inv /\ Tracked /\ [Next]_vars => [Announcing]_db
  <2> SUFFICES ASSUME Inv, Tracked, [Next]_vars, NEW i \in Issues,
                      Known(db[i]), Known(db'[i]), db[i].status # db'[i].status
               PROVE  <<i, Personal("status_change")>> \in announced
    BY DEF Personal
  <2> TypeOK BY DEF Inv
  <2>1. CASE Commit
    <3>1. mem[i].status = db'[i].status
      BY <2>1, IssueTypes DEF Commit, Upsert, ToRow, Row
    <3>2. pc = "processing" BY <2>1 DEF Commit
    <3> QED BY <3>1, <3>2 DEF Tracked, StatusTracked
  <2>2. CASE CleanupDelete BY <2>2 DEF CleanupDelete, Known, Forgotten
  <2>3. CASE db' = db BY <2>3
  <2>4. Commit \/ CleanupDelete \/ db' = db
    <3>1. ASSUME NEW j \in Issues, ProcessIssue(j) \/ \E k \in 0 .. 3 : ProcessRaises(j, k)
          PROVE  db' = db
      BY <3>1 DEF ProcessIssue, ProcessRaises, Process
    <3> QED BY <3>1 DEF Next, vars, Edit, Tick, Fetch, FetchFails, LoadState, Send, Rollback, Crash,
                        Lose, CleanupFetch, env, cycle, history
  <2> QED BY <2>1, <2>2, <2>3, <2>4
<1> QED BY <1>1, <1>2, <1>3, InvHolds, PTL DEF Spec, StatusMovesAnnounced
-----------------------------------------------------------------------------
(* No update is skipped but one that slipped away. *)

\* What is remembered of an issue is what Redmine says.
Recorded(i, st) ==
  st.status = redmine[i].status /\ LastKnownId(st) >= Len(redmine[i].journals)

\* A running cycle has in hand whatever the rows do not record: in the batch, which is
\* fresh, or among what it is going to write, which is up to date.
InHand(i) ==
  /\ i \in DOMAIN batch =>
       batch[i].status = redmine[i].status /\ batch[i].journals = redmine[i].journals
  /\ i \in DOMAIN batch /\ pc = "processing" =>
       i \notin changed /\ mem[i].status = db[i].status /\ mem[i].jid = db[i].jid
  /\ i \in changed => Recorded(i, mem[i])
  /\ Unrecorded(i) => i \in DOMAIN batch \cup changed

\* What the rows do not record passes the filter of the next query.
NothingLeft(i) == Unrecorded(i) => UpdatedSince(i, lastCheck)

\* What every step keeps of an issue that has not slipped away.
Held(i) == NothingLeft(i) /\ (pc # "idle" => InHand(i))

UpToDate ==
  /\ lastCheck = Never \/ lastCheck <= now
  /\ \A i \in Issues : i \in slipped \/ Held(i)

\* A whole pass leaves behind the status and the last journal entry it was given, and
\* says so when that is news.
LEMMA PassRecords ==
  ASSUME NEW x \in Snapshot, NEW st \in Row, NEW t \in Nat
  PROVE  LET w == Work(x, st, t, 4) IN
         /\ w.st.status = x.status /\ LastKnownId(w.st) >= Len(x.journals)
         /\ ~w.dirty => w.st.status = st.status /\ w.st.jid = st.jid
<1> DEFINE w == Work(x, st, t, 4)
           w1 == StatusStep(x, Begun(st))
           w2 == FirstStep(x, w1, t)
           w3 == OverdueStep(x, w2, t)
           w4 == JournalStep(x, StatusChanged(x, st), w3)
<1>1. WorkDone(x, st, w, 4) BY WorkFacts
<1>2. w = w4 BY DEF Work
<1>3. x.status # Never BY RulesAssumption DEF Snapshot
<1>4. w1 \in Progress /\ w2 \in Progress
  <2>1. w1 \in Progress BY StatusStepFacts
  <2> HIDE DEF w1
  <2>2. Follows(w1, w2) BY <2>1, FirstStepFacts
  <2> QED BY <2>1, <2>2 DEF Follows
<1>5. Known(w1.st) => w1.st.status = x.status
  BY DEF StatusStep, Begun, StatusChanged, Known, Row
<1> HIDE DEF w1
<1>6. w2.st.status = x.status
  <2>1. w1.st \in Row BY <1>4 DEF Progress
  <2>2. CASE Known(w1.st)
    <3>1. w2.st \in {w1.st, [w1.st EXCEPT !.group = t], [w1.st EXCEPT !.rem = t]}
      BY <2>2 DEF FirstStep
    <3> QED BY <1>5, <2>1, <2>2, <3>1 DEF Row
  <2>3. CASE ~Known(w1.st)
    <3>1. w2.st = FirstSeen(x, w1.st, t) BY <2>3 DEF FirstStep
    <3> QED BY <2>1, <3>1 DEF FirstSeen, Row
  <2> QED BY <2>2, <2>3
<1> HIDE DEF w2
<1>7. w3.st.status = x.status /\ w3.st \in Row
  <2>1. w2.st \in Row BY <1>4 DEF Progress
  <2>2. w3.st \in {w2.st, [w2.st EXCEPT !.over = t]} BY DEF OverdueStep
  <2> QED BY <1>6, <2>1, <2>2 DEF Row
<1> HIDE DEF w3
<1>8. w4.st.status = x.status
  <2>1. w4.st = [w3.st EXCEPT !.jid = JournalAdvance(x, w3.st)] BY DEF JournalStep
  <2> QED BY <1>7, <2>1 DEF Row
<1> HIDE DEF w4, w
<1>9. LastKnownId(w.st) >= Len(x.journals)
  <2>1. w.st.jid = JournalAdvance(x, st) BY <1>1 DEF WorkDone
  <2>2. Len(x.journals) \in Nat /\ st.jid \in Nat \cup {Never} BY DEF Snapshot, Row
  <2>3. Never \notin Nat BY RulesAssumption
  <2> QED BY <2>1, <2>2, <2>3 DEF JournalAdvance, LastKnownId
<1> QED BY <1>1, <1>2, <1>8, <1>9 DEF WorkDone, w

\* An issue nobody touches stays recorded, or in hand.
LEMMA UntouchedHeld ==
  ASSUME NEW i \in Issues, Untouched(i), pc' = pc, lastCheck' = lastCheck, Held(i)
  PROVE  Held(i)'
<1>1. /\ db'[i] = db[i] /\ mem'[i] = mem[i] /\ redmine'[i] = redmine[i]
      /\ i \in DOMAIN batch' <=> i \in DOMAIN batch
      /\ i \in DOMAIN batch => batch'[i] = batch[i]
      /\ i \in changed' <=> i \in changed
      /\ pc' = "processing" <=> pc = "processing"
  BY DEF Untouched
<1>2. Unrecorded(i)' <=> Unrecorded(i) BY <1>1 DEF Unrecorded, IsOpen, LastKnownId
<1>3. NothingLeft(i)' BY <1>1, <1>2 DEF Held, NothingLeft, UpdatedSince
<1>4. InHand(i) => InHand(i)'
  <2>1. Recorded(i, mem[i])' <=> Recorded(i, mem[i]) BY <1>1 DEF Recorded, LastKnownId
  <2> QED BY <1>1, <1>2, <2>1 DEF InHand
<1> QED BY <1>3, <1>4 DEF Held

\* An issue that is passed is recorded, in its row or in what will be written.
LEMMA PassedHeld ==
  ASSUME Inv, NEW i \in Issues, Held(i), ProcessIssue(i)
  PROVE  Held(i)'
<1> TypeOK BY DEF Inv
<1> DEFINE w == Work(batch[i], mem[i], began, 4)
<1>1. i \in DOMAIN batch /\ batch[i] \in Snapshot /\ mem[i] \in Row /\ began \in Nat
  BY PassFacts DEF TypeOK
<1>2. /\ w.st.status = batch[i].status /\ LastKnownId(w.st) >= Len(batch[i].journals)
      /\ ~w.dirty => w.st.status = mem[i].status /\ w.st.jid = mem[i].jid
  BY <1>1, PassRecords
<1>3. Process(i, w.st, w.dirty, w.notes) BY DEF ProcessIssue
<1> HIDE DEF w
<1>4. /\ pc = "processing" /\ pc' = pc /\ mem'[i] = w.st /\ db' = db /\ redmine' = redmine
      /\ lastCheck' = lastCheck /\ i \notin DOMAIN batch'
      /\ w.dirty => i \in changed'
      /\ ~w.dirty => changed' = changed
  BY <1>3 DEF Process, env, TypeOK
<1>5. InHand(i) /\ NothingLeft(i) BY <1>4 DEF Held
<1>6. Recorded(i, w.st) BY <1>1, <1>2, <1>5 DEF InHand, Recorded
<1>7. Recorded(i, mem[i])' BY <1>4, <1>6 DEF Recorded
<1>8. (Unrecorded(i)' <=> Unrecorded(i)) /\ NothingLeft(i)'
  BY <1>4, <1>5 DEF Unrecorded, IsOpen, NothingLeft, UpdatedSince
<1>9. CASE w.dirty
  <2>1. i \notin DOMAIN batch' /\ i \in changed' BY <1>4, <1>9
  <2>2. (Unrecorded(i) => i \in DOMAIN batch \cup changed)' BY <2>1
  <2> QED BY <1>7, <1>8, <2>1, <2>2 DEF InHand, Held
<1>10. CASE ~w.dirty
  <2>1. db[i].status = w.st.status /\ db[i].jid = w.st.jid BY <1>1, <1>2, <1>4, <1>5, <1>10 DEF InHand
  <2>2. LastKnownId(db[i]) >= Len(redmine[i].journals) /\ db[i].status = redmine[i].status
    BY <1>6, <2>1 DEF Recorded, LastKnownId
  <2>3. LastKnownId(db[i]) \in Nat /\ Len(redmine[i].journals) \in Nat
    BY IssueTypes DEF LastKnownId, Row
  <2>4. ~Unrecorded(i) BY <2>2, <2>3 DEF Unrecorded
  <2> QED BY <1>4, <1>7, <1>8, <2>4 DEF InHand, Held
<1> QED BY <1>9, <1>10

\* What a committed cycle leaves unrecorded had slipped away.
LEMMA CommittedHeld ==
  ASSUME Inv, Commit, NEW i \in Issues, Held(i)
  PROVE  ~Unrecorded(i)'
<1> TypeOK BY DEF Inv
<1> USE DEF env
<1>1. redmine' = redmine /\ pc = "processing" /\ DOMAIN batch = {}
  BY DEF Commit, NoBatch
<1>2. InHand(i) /\ db[i] \in Row /\ mem[i] \in Row /\ Len(redmine[i].journals) \in Nat
  BY <1>1, IssueTypes DEF Held
<1>3. CASE i \in changed
  <2>1. Recorded(i, mem[i]) BY <1>2, <1>3 DEF InHand
  <2>2. db'[i].status = mem[i].status /\ db'[i].jid = mem[i].jid
    BY <1>2, <1>3 DEF Commit, Upsert, ToRow, Row
  <2>3. LastKnownId(mem[i]) \in Nat BY <1>2 DEF LastKnownId, Row
  <2> QED BY <1>1, <1>2, <2>1, <2>2, <2>3 DEF Recorded, Unrecorded, LastKnownId
<1>4. CASE i \notin changed
  <2>1. db'[i] = db[i] BY <1>4 DEF Commit, Upsert
  <2>2. ~Unrecorded(i) BY <1>1, <1>2, <1>4 DEF InHand
  <2> QED BY <1>1, <2>1, <2>2 DEF Unrecorded, IsOpen
<1> QED BY <1>3, <1>4

\* Every step leaves what has not slipped away within the reach of the filter.
LEMMA UpToDateStep ==
  ASSUME Inv, Inv', UpToDate, [Next]_vars
  PROVE  UpToDate'
<1> TypeOK /\ CyclePhase /\ TypeOK' BY DEF Inv
<1> USE DEF env, cycle, history
<1>1. now \in Nat /\ lastCheck \in Nat \cup {Never} /\ Never \notin Nat
  BY RulesAssumption DEF TypeOK
<1>2. ASSUME \A i \in Issues : Untouched(i) \/ i \in slipped', pc' = pc, lastCheck' = lastCheck,
             now' = now \/ now' = now + 1, slipped \subseteq slipped'
      PROVE  UpToDate'
  <2>1. \A i \in Issues : i \in slipped' \/ Held(i)' BY <1>2, UntouchedHeld DEF UpToDate
  <2>2. lastCheck' = Never \/ lastCheck' <= now' BY <1>1, <1>2 DEF UpToDate
  <2> QED BY <2>1, <2>2 DEF UpToDate
<1>3. ASSUME NEW i \in Issues, NEW st \in UsedStatus \cup {"Closed"}, NEW e \in NewEntry, Edit(i, st, e)
      PROVE  UpToDate'
  <2>1. pc' = pc /\ lastCheck' = lastCheck /\ now' = now BY <1>3 DEF Edit
  <2>2. \A j \in Issues \ {i} : Untouched(j)
    <3>1. \A j \in Issues \ {i} : redmine'[j] = redmine[j] /\ moves'[j] = moves[j] /\ owed'[j] = owed[j]
      BY <1>3 DEF Edit, TypeOK
    <3> QED BY <1>3, <3>1 DEF Edit, Untouched
  <2>3. CASE pc = "idle"
    <3>1. slipped' = slipped \ {i} BY <1>3, <2>3 DEF Edit
    <3>2. Held(i)'
      <4>1. redmine'[i].updated = now BY <1>3 DEF Edit, TypeOK
      <4> QED BY <1>1, <2>1, <2>3, <4>1 DEF UpToDate, Held, NothingLeft, UpdatedSince
    <3>3. \A j \in Issues \ {i} : j \in slipped' \/ Held(j)'
      BY <2>1, <2>2, <3>1, UntouchedHeld DEF UpToDate
    <3> QED BY <2>1, <3>2, <3>3 DEF UpToDate
  <2>4. CASE pc # "idle"
    <3>1. slipped' = slipped \cup {i} BY <1>3, <2>4 DEF Edit
    <3> QED BY <1>2, <2>1, <2>2, <3>1
  <2> QED BY <2>3, <2>4
<1>4. CASE Tick BY <1>2, <1>4 DEF Tick, Untouched
<1>5. ASSUME NEW t, Fetch(t), t \in {lastCheck, Never} PROVE UpToDate'
  <2> DEFINE S == Asked(t)
  <2>1. batch' = SnapshotOf(S) BY <1>5 DEF Fetch
  <2>2. /\ db' = db /\ redmine' = redmine /\ lastCheck' = lastCheck /\ now' = now /\ changed' = {}
        /\ pc' = "fetched" /\ slipped' = slipped
    BY <1>5 DEF Fetch, CyclePhase
  <2> SUFFICES ASSUME NEW i \in Issues \ slipped PROVE NothingLeft(i)' /\ InHand(i)'
    BY <1>1, <2>2 DEF UpToDate, Held
  <2>3. (Unrecorded(i)' <=> Unrecorded(i)) /\ NothingLeft(i) /\ NothingLeft(i)'
    BY <2>2 DEF UpToDate, Held, NothingLeft, Unrecorded, IsOpen, UpdatedSince
  <2>4. Unrecorded(i) => i \in S
    BY <1>5, <2>3 DEF NothingLeft, Unrecorded, UpdatedSince, Asked
  <2> HIDE DEF S
  <2>5. DOMAIN batch' = S BY <2>1 DEF SnapshotOf
  <2>6. i \in S => batch'[i].status = redmine[i].status /\ batch'[i].journals = redmine[i].journals
    BY <2>1 DEF SnapshotOf
  <2> QED BY <2>2, <2>3, <2>4, <2>5, <2>6 DEF InHand
<1>6. CASE FetchFails
  <2>1. /\ lastCheck' = now /\ now' = now /\ redmine' = redmine /\ db' = db /\ pc' = "idle"
        /\ slipped' = slipped \cup Asked(lastCheck)
    BY <1>6 DEF FetchFails
  <2>2. ASSUME NEW i \in Issues, i \notin slipped' PROVE ~Unrecorded(i)'
    <3>1. Held(i) /\ ~(IsOpen(i) /\ UpdatedSince(i, lastCheck)) BY <2>1, <2>2 DEF UpToDate, Asked
    <3> QED BY <2>1, <3>1 DEF Held, NothingLeft, Unrecorded, IsOpen
  <2> QED BY <1>1, <2>1, <2>2 DEF UpToDate, Held, NothingLeft
<1>7. CASE LoadState
  <2>1. /\ db' = db /\ redmine' = redmine /\ lastCheck' = lastCheck /\ now' = now /\ batch' = batch
        /\ pc = "fetched" /\ changed = {} /\ changed' = {} /\ slipped' = slipped
    BY <1>7 DEF LoadState, CyclePhase
  <2> SUFFICES ASSUME NEW i \in Issues \ slipped PROVE NothingLeft(i)' /\ InHand(i)'
    BY <1>1, <2>1 DEF UpToDate, Held
  <2>2. InHand(i) /\ NothingLeft(i) BY <2>1 DEF UpToDate, Held
  <2>3. mem'[i].status = db[i].status /\ mem'[i].jid = db[i].jid
    <3>1. db[i] \in Row /\ Dated(db[i]) BY DEF Inv, IssueInv, TypeOK
    <3> QED BY <1>7, <3>1, FromRowFacts DEF LoadState
  <2>4. (Unrecorded(i)' <=> Unrecorded(i)) /\ NothingLeft(i)'
    BY <2>1, <2>2 DEF NothingLeft, Unrecorded, IsOpen, UpdatedSince
  <2> QED BY <2>1, <2>2, <2>3, <2>4 DEF InHand
<1>8. ASSUME NEW i \in Issues, ProcessIssue(i) PROVE UpToDate'
  <2> DEFINE w == Work(batch[i], mem[i], began, 4)
  <2>1. /\ Process(i, w.st, w.dirty, w.notes) /\ slipped' = slipped /\ forgotten' = forgotten
        /\ i \in DOMAIN batch
    BY <1>8 DEF ProcessIssue
  <2> HIDE DEF w
  <2>2. pc' = pc /\ lastCheck' = lastCheck /\ now' = now BY <2>1 DEF Process
  <2>3. i \in slipped \/ Held(i)' BY <1>8, PassedHeld DEF UpToDate
  <2>4. ASSUME NEW j \in Issues \ slipped, j # i PROVE Held(j)'
    <3>1. Untouched(j) BY <2>1, <2>4 DEF Process, Untouched, TypeOK
    <3> QED BY <2>2, <3>1, UntouchedHeld DEF UpToDate
  <2> QED BY <2>1, <2>2, <2>3, <2>4 DEF UpToDate
<1>9. ASSUME NEW i \in Issues, NEW k \in 0 .. 3, ProcessRaises(i, k) PROVE UpToDate'
  <2>1. slipped' = slipped \cup {i} BY <1>9 DEF ProcessRaises
  <2>2. PICK s, dirty, notes, lost :
          /\ Process(i, s, dirty, notes)
          /\ forgotten' = IF lost THEN [forgotten EXCEPT ![i] = @ + 1] ELSE forgotten
    BY <1>9, PassFacts
  <2>3. i \in DOMAIN batch BY <1>9 DEF ProcessRaises
  <2>4. \A j \in Issues \ {i} : Untouched(j) BY <2>2, <2>3 DEF Process, Untouched, TypeOK
  <2>5. pc' = pc /\ lastCheck' = lastCheck /\ now' = now BY <2>2 DEF Process
  <2> QED BY <1>2, <2>1, <2>4, <2>5
<1>10. ASSUME NEW note \in outbox, NEW delivered \in BOOLEAN, Send(note, delivered) PROVE UpToDate'
  BY <1>10 DEF Send, UpToDate, Held, InHand, NothingLeft, Unrecorded, IsOpen, UpdatedSince, Recorded
<1>11. CASE Commit
  <2>1. /\ lastCheck' = now /\ now' = now /\ pc' = "idle"
        /\ slipped' = {i \in slipped : Unrecorded(i)'}
    BY <1>11 DEF Commit, EndCycle
  <2>2. ASSUME NEW i \in Issues, i \notin slipped' PROVE ~Unrecorded(i)'
    <3>1. CASE i \in slipped BY <2>1, <2>2, <3>1
    <3>2. CASE i \notin slipped BY <1>11, <3>2, CommittedHeld DEF UpToDate
    <3> QED BY <3>1, <3>2
  <2> QED BY <1>1, <2>1, <2>2 DEF UpToDate, Held, NothingLeft
<1>12. CASE Lose /\ (lastCheck' = lastCheck \/ lastCheck' = Never)
  <2>1. pc' = "idle" /\ UNCHANGED <<now, redmine, db, slipped>>
    BY <1>12 DEF Lose, EndCycle
  <2> QED BY <1>12, <2>1 DEF UpToDate, Held, NothingLeft, Unrecorded, IsOpen, UpdatedSince
<1>13. CASE CleanupFetch BY <1>2, <1>13 DEF CleanupFetch, Untouched
<1>14. CASE CleanupDelete
  <2>1. /\ lastCheck' = lastCheck /\ now' = now /\ redmine' = redmine /\ pc' = pc
        /\ batch' = batch /\ mem' = mem /\ changed' = changed
        /\ slipped' = slipped \cup {i \in Issues : db[i] # db'[i]}
    BY <1>14 DEF CleanupDelete
  <2>2. ASSUME NEW i \in Issues, i \notin slipped' PROVE Held(i)'
    <3>1. Held(i) /\ db'[i] = db[i] BY <2>1, <2>2 DEF UpToDate
    <3> QED BY <2>1, <3>1 DEF Held, InHand, NothingLeft, Unrecorded, IsOpen, UpdatedSince, Recorded
  <2> QED BY <2>1, <2>2 DEF UpToDate
<1>15. CASE UNCHANGED vars BY <1>2, <1>15 DEF vars, Untouched
<1> QED BY <1>3, <1>4, <1>5, <1>6, <1>7, <1>8, <1>9, <1>10, <1>11, <1>12, <1>13, <1>14, <1>15
     DEF Next, Rollback, Crash

\* The incremental query skips no update but one that slipped away: whatever cycles fail,
\* crash, raise or race with edits and the cleanup, an open issue with something in it
\* that its row does not record passes the filter of the next query, unless its last
\* update came during a cycle, or its query failed, its pass raised or its row was deleted.
THEOREM NothingSkipped == Spec => []OnlySlippedAreSkipped
<1>1. Init => UpToDate
  BY DEF Init, UpToDate, Held, NothingLeft, UpdatedSince
<1>2. Inv /\ Inv' /\ UpToDate /\ [Next]_vars => UpToDate' BY UpToDateStep
<1>3. UpToDate => OnlySlippedAreSkipped BY DEF UpToDate, Held, NothingLeft, OnlySlippedAreSkipped
<1> QED BY <1>1, <1>2, <1>3, InvHolds, PTL DEF Spec
=============================================================================
