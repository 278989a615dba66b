---------------------------- MODULE DeadLetters ----------------------------
(***************************************************************************)
(* The dead-letter queue (table pending_notifications): notices whose      *)
(* sending failed are put there by send_safe, and the job                  *)
(* retry_dlq_notifications of every bot instance sends them again, up to   *)
(* MAX_DLQ_RETRIES times and ever less often.                              *)
(*                                                                         *)
(* A sending makes up to Requests requests (room_send_with_retry).  One    *)
(* whose answer is lost has arrived, and is made again under a new id or   *)
(* counts as failed in the end.                                            *)
(*                                                                         *)
(* Times are ticks until next_retry_at, as in UserLease.  A job works in   *)
(* one transaction: its deletes and updates are seen at its commit.        *)
(* Names that DmRooms has too begin with Queue: one module of proofs is    *)
(* about both.                                                             *)
(***************************************************************************)
EXTENDS Integers, FiniteSets

CONSTANTS
  Instances,     \* bot processes
  Notices,       \* notices that may have to be queued
  ByMxid,        \* those addressed to a person's Matrix id instead of a room
  Requests,      \* MATRIX_RETRY_MAX_ATTEMPTS
  MaxRetries,    \* MAX_DLQ_RETRIES
  Delay,         \* DLQ_RETRY_DELAY_SEC, in ticks
  MaxLosses,     \* bound on jobs that lose their transaction
  MaxOutage      \* bound on sendings that the homeserver fails or does not answer

ASSUME DeadLettersAssumption ==
  /\ IsFiniteSet(Instances) /\ ByMxid \subseteq Notices
  /\ MaxRetries \in Nat \ {0} /\ Delay \in Nat \ {0} /\ MaxLosses \in Nat /\ MaxOutage \in Nat
  /\ Requests \in Nat \ {0}

VARIABLES
  rows,       \* the table: a function from the ids of its rows to retry_count and timer
  job,        \* instance -> its run of retry_dlq_notifications
  losses, outage,   \* how often these happened
  rolledBack, \* history: jobs rolled back by a row that was gone
  missed,     \* history: notices whose first sending failed
  queued,     \* history: those of them that were put into the table
  delivered,  \* history: notice -> how often it arrived
  unheard     \* history: notice -> how often it did without the sender knowing

queueVars == <<rows, job, losses, outage, rolledBack, missed, queued, delivered, unheard>>
arrivals == <<delivered, unheard>>
counts == <<losses, outage, rolledBack>>

\* What a run remembers: the rows it read and has not handled, with the retry_count
\* they had, those it deleted, and those it counted a failure for.
Empty == [n \in {} |-> 0]
NoJob == [active |-> FALSE, due |-> Empty, gone |-> {}, bad |-> Empty]

QueueTypeOK ==
  /\ DOMAIN rows \subseteq Notices
  /\ \A n \in DOMAIN rows : rows[n].tries \in 0 .. MaxRetries /\ rows[n].wait \in Nat
  /\ \A i \in Instances :
       /\ DOMAIN job[i].due \cup job[i].gone \cup DOMAIN job[i].bad \subseteq Notices
       /\ job[i].active \in BOOLEAN
  /\ losses \in 0 .. MaxLosses /\ outage \in 0 .. MaxOutage /\ rolledBack \in Nat
  /\ missed \subseteq Notices /\ queued \subseteq missed
  /\ delivered \in [Notices -> Nat] /\ unheard \in [Notices -> Nat]

QueueInit ==
  /\ rows = Empty
  /\ job = [i \in Instances |-> NoJob]
  /\ losses = 0 /\ outage = 0 /\ rolledBack = 0
  /\ missed = {} /\ queued = {}
  /\ delivered = [n \in Notices |-> 0] /\ unheard = [n \in Notices |-> 0]

-----------------------------------------------------------------------------
\* room_send_with_retry: of the requests of one sending, heard arrive and are answered,
\* lost arrive and are not.
Arrive(n, heard, lost) ==
  /\ delivered' = [delivered EXCEPT ![n] = @ + heard + lost]
  /\ unheard' = [unheard EXCEPT ![n] = @ + lost]
  /\ IF lost = 0 /\ heard = 1 THEN UNCHANGED outage
                              ELSE outage < MaxOutage /\ outage' = outage + 1

\* send_safe: the sending fails.  A row is written if the caller passes a session, which
\* none does so far, and if that session can write it.
SendSafeFails(n) ==
  /\ n \notin missed
  /\ \/ UNCHANGED <<arrivals, outage>>
     \/ \E lost \in 1 .. Requests : Arrive(n, 0, lost)
  /\ missed' = missed \cup {n}
  /\ \/ UNCHANGED <<rows, queued>>
     \/ /\ queued' = queued \cup {n}
        /\ rows' = [m \in DOMAIN rows \cup {n} |->
                      IF m = n THEN [tries |-> 0, wait |-> Delay] ELSE rows[m]]
  /\ UNCHANGED <<job, losses, rolledBack>>

DueMutant(n) == rows[n].wait = 0
DueOnceMutant(n) == rows[n].wait = 0 /\ rows[n].tries < 1
\* dequeue_due_notifications: the time has come and retries are left.
Due(n) == rows[n].wait = 0 /\ rows[n].tries < MaxRetries

\* The job starts; it reads the due rows and locks none of them.
StartJob(i) ==
  /\ ~job[i].active
  /\ \E n \in DOMAIN rows : Due(n)
  /\ job' = [job EXCEPT ![i] = [active |-> TRUE, gone |-> {}, bad |-> Empty,
                                due |-> [n \in {m \in DOMAIN rows : Due(m)} |-> rows[n].tries]]]
  /\ UNCHANGED <<rows, counts, missed, queued, arrivals>>

Without(f, n) == [m \in DOMAIN f \ {n} |-> f[m]]

\* room_send_with_retry hears of a success at last, mark_sent.
RetrySucceeds(i, n) ==
  /\ n \in DOMAIN job[i].due \ ByMxid
  /\ \E lost \in 0 .. Requests - 1 : Arrive(n, 1, lost)
  /\ job' = [job EXCEPT ![i].due = Without(@, n), ![i].gone = @ \cup {n}]
  /\ UNCHANGED <<rows, losses, rolledBack, missed, queued>>

\* It hears of none, mark_failed: the homeserver is down, or is asked for a room that is
\* none, for a Matrix id is not resolved here.  A row that is gone by now is passed over.
RetryFails(i, n) ==
  /\ n \in DOMAIN job[i].due
  /\ IF n \in ByMxid THEN UNCHANGED <<arrivals, outage>>
                      ELSE \E lost \in 0 .. Requests : Arrive(n, 0, lost)
  /\ job' = [job EXCEPT ![i].due = Without(@, n),
                        ![i].bad = IF n \in DOMAIN rows
                                     THEN [m \in DOMAIN @ \cup {n} |->
                                             IF m = n THEN job[i].due[n] + 1 ELSE @[m]]
                                     ELSE @]
  /\ UNCHANGED <<rows, losses, rolledBack, missed, queued>>

\* Powers of two, up to that of the number of retries.
Doubled[n \in 0 .. MaxRetries] == IF n = 0 THEN 1 ELSE 2 * Doubled[n - 1]
\* The pause doubles with every failure.
Backoff(tries) == Delay * Doubled[tries - 1]

CommittedMutant(i) ==
  [n \in DOMAIN rows \ (job[i].gone \cup DOMAIN job[i].bad) |-> rows[n]]
CommittedKeepMutant(i) ==
  [n \in DOMAIN rows |->
     IF n \in DOMAIN job[i].bad
       THEN [tries |-> job[i].bad[n], wait |-> Backoff(job[i].bad[n])] ELSE rows[n]]
\* The table after the job's deletes and updates.
Committed(i) ==
  [n \in DOMAIN rows \ job[i].gone |->
     IF n \in DOMAIN job[i].bad
       THEN [tries |-> job[i].bad[n], wait |-> Backoff(job[i].bad[n])] ELSE rows[n]]

\* The end of the job.  An update of a row that another instance has deleted raises.
CommitJob(i) ==
  /\ job[i].active /\ job[i].due = Empty
  /\ DOMAIN job[i].bad \subseteq DOMAIN rows
  /\ rows' = Committed(i)
  /\ job' = [job EXCEPT ![i] = NoJob]
  /\ UNCHANGED <<counts, missed, queued, arrivals>>

RollbackJob(i) ==
  /\ job[i].active /\ ~(DOMAIN job[i].bad \subseteq DOMAIN rows)
  /\ job' = [job EXCEPT ![i] = NoJob]
  /\ rolledBack' = rolledBack + 1
  /\ UNCHANGED <<rows, losses, outage, missed, queued, arrivals>>

\* The database fails, or the process dies: nothing the job did is kept, but what it
\* sent has been sent.
LoseJob(i) ==
  /\ job[i].active
  /\ losses < MaxLosses
  /\ losses' = losses + 1
  /\ job' = [job EXCEPT ![i] = NoJob]
  /\ UNCHANGED <<rows, outage, rolledBack, missed, queued, arrivals>>

Tick ==
  /\ \E n \in DOMAIN rows : rows[n].wait > 0
  /\ rows' = [n \in DOMAIN rows |-> [rows[n] EXCEPT !.wait = IF @ > 0 THEN @ - 1 ELSE 0]]
  /\ UNCHANGED <<job, counts, missed, queued, arrivals>>

QueueNext ==
  \/ \E n \in Notices : SendSafeFails(n)
  \/ \E i \in Instances : StartJob(i) \/ CommitJob(i) \/ RollbackJob(i) \/ LoseJob(i)
  \/ \E i \in Instances, n \in Notices : RetrySucceeds(i, n) \/ RetryFails(i, n)
  \/ Tick

QueueSpec == QueueInit /\ [][QueueNext]_queueVars

\* Time passes, the scheduler starts the job every 120 seconds, and a started job
\* goes on: every sending has an outcome.
QueueFairness ==
  /\ WF_queueVars(Tick)
  /\ \A i \in Instances :
       /\ WF_queueVars(StartJob(i))
       /\ WF_queueVars(CommitJob(i))
       /\ WF_queueVars(RollbackJob(i))
       /\ \A n \in Notices : WF_queueVars(RetrySucceeds(i, n) \/ RetryFails(i, n))

QueueFairSpec == QueueSpec /\ QueueFairness

-----------------------------------------------------------------------------
\* What is in the queue leaves it only by arriving: across failures, rollbacks and
\* concurrent jobs, a notice once written to the table is still there or has arrived.  This
\* is the table's part; that a failed notice gets there at all is up to the caller.
QueuedIsKept == \A n \in queued : n \in DOMAIN rows \/ delivered[n] > 0

\* A notice arrives once, and again only for another instance that read its row too, for
\* every job lost between the sending and the commit, and for a request whose answer was
\* lost.
DeliveredOnce ==
  \A n \in Notices :
    delivered[n] <= Cardinality(Instances) + losses + rolledBack + unheard[n]

\* No notice waits for ever: it arrives or uses up its retries, however the others
\* in the queue fare.
EveryNoticeSettled ==
  \A n \in Notices :
    n \in DOMAIN rows ~> n \notin DOMAIN rows \/ rows[n].tries = MaxRetries
=============================================================================
