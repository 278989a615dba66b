----------------------------- MODULE UserLease -----------------------------
(***************************************************************************)
(* The per-user leases (table bot_user_leases) under which several bot     *)
(* instances run check_all_users against one database.                     *)
(*                                                                         *)
(* Times are kept relative to the present: a deadline t is the number of   *)
(* ticks until t, and Tick lowers every one of them; -1 stands for every   *)
(* deadline that has passed.  The state space is finite without a bound on *)
(* the clock.  "Now" is the database's clock, which the upsert compares    *)
(* lease_until with; an instance computes lease_until from its own clock,  *)
(* Skew ticks ahead of it.                                                 *)
(***************************************************************************)
EXTENDS Integers, FiniteSets

CONSTANTS
  Instances,      \* bot processes
  Users,          \* users of the runtime configuration (USERS)
  Nobody,         \* lease owner of a user that no running process owns
  Pinned,         \* instances started with BOT_INSTANCE_ID set
  LeaseTTL,       \* BOT_LEASE_TTL_SECONDS, in ticks
  MaxConcurrent,  \* semaphore of check_all_users
  Skew,           \* how far an instance's clock is ahead of the database's
  MaxCrashes      \* how many times a process is killed

ASSUME InstancesAssumption == Nobody \notin Instances /\ Pinned \subseteq Instances
ASSUME TTLAssumption == LeaseTTL \in Nat \ {0} /\ MaxCrashes \in Nat
ASSUME SkewAssumption == Skew \in [Instances -> Int]
ASSUME SemaphoreAssumption == MaxConcurrent \in Nat \ {0} /\ IsFiniteSet(Users)

VARIABLES
  up,        \* instance -> is the process running
  pc,        \* instance, user -> where _process_user stands
  deadline,  \* instance, user -> the lease_until that this task computed
  lease,     \* user -> row of bot_user_leases
  crashes    \* kills so far

vars == <<up, pc, deadline, lease, crashes>>

\* A task waits for the semaphore ("queued"), is inside it but has not asked for
\* the lease ("entered"), runs check_user_issues ("checking") or has returned.
PC == {"queued", "entered", "checking", "done"}

Expired == -1
Clamp(t) == IF t < 0 THEN Expired ELSE t

InSemaphore(i) == {u \in Users : pc[i][u] \in {"entered", "checking"}}

\* The tables are well formed, and no cycle has more users inside the semaphore of
\* check_all_users than BOT_MAX_CONCURRENT lets in.
TypeOK ==
  /\ up \in [Instances -> BOOLEAN]
  /\ pc \in [Instances -> [Users -> PC]]
  /\ deadline \in [Instances -> [Users -> Nat \cup {Expired}]]
  /\ lease \in [Users -> [owner : Instances \cup {Nobody}, left : Nat \cup {Expired}]]
  /\ crashes \in 0 .. MaxCrashes
  /\ \A i \in Instances : Cardinality(InSemaphore(i)) <= MaxConcurrent

\* A missing row gives way to the insert just as an expired one does to the update.
NoRow == [owner |-> Nobody, left |-> Expired]

Init ==
  /\ up = [i \in Instances |-> TRUE]
  /\ pc = [i \in Instances |-> [u \in Users |-> "done"]]
  /\ deadline = [i \in Instances |-> [u \in Users |-> Expired]]
  /\ lease = [u \in Users |-> NoRow]
  /\ crashes = 0

-----------------------------------------------------------------------------
Idle(i) == \A u \in Users : pc[i][u] = "done"

\* lease_until as a task computes it when it starts, before the semaphore.
FreshLease(i) == Clamp(LeaseTTL + Skew[i])

\* The scheduler starts a cycle once the previous one has ended (max_instances=1);
\* its tasks all start at once and compute lease_until before their first await.
StartCycle(i) ==
  /\ up[i]
  /\ Idle(i)
  /\ pc' = [pc EXCEPT ![i] = [u \in Users |-> "queued"]]
  /\ deadline' = [deadline EXCEPT ![i] = [u \in Users |-> FreshLease(i)]]
  /\ UNCHANGED <<up, lease, crashes>>

Goto(i, u, from, to) ==
  /\ pc[i][u] = from
  /\ pc' = [pc EXCEPT ![i][u] = to]

EnterSemaphoreMutant(i, u) ==
  /\ Goto(i, u, "queued", "entered")
  /\ UNCHANGED <<up, deadline, lease, crashes>>
EnterSemaphore(i, u) ==
  /\ Cardinality(InSemaphore(i)) < MaxConcurrent
  /\ Goto(i, u, "queued", "entered")
  /\ UNCHANGED <<up, deadline, lease, crashes>>

MayTakeMutant(i, u) == lease[u].left <= 0 \/ lease[u].owner = i
MayTakeNewMutant(i, u) == lease[u] = NoRow \/ lease[u].owner = i
\* The WHERE of the upsert: lease_until < now(), or the row is this instance's own.
MayTake(i, u) == lease[u].left < 0 \/ lease[u].owner = i

\* The upsert and the commit behind it: until the commit every other instance's
\* upsert of this row waits, so that the two are one step.
Acquire(i, u) ==
  /\ MayTake(i, u)
  /\ Goto(i, u, "entered", "checking")
  /\ lease' = [lease EXCEPT ![u] = [owner |-> i, left |-> deadline[i][u]]]
  /\ UNCHANGED <<up, deadline, crashes>>

\* Another instance has the user: the task returns.
Refused(i, u) ==
  /\ ~MayTake(i, u)
  /\ Goto(i, u, "entered", "done")
  /\ UNCHANGED <<up, deadline, lease, crashes>>

\* The upsert raises: the error is counted, the session rolled back.
AcquireFails(i, u) ==
  /\ Goto(i, u, "entered", "done")
  /\ UNCHANGED <<up, deadline, lease, crashes>>

\* check_user_issues returns or raises.  The lease stays until it expires.
EndCheck(i, u) ==
  /\ Goto(i, u, "checking", "done")
  /\ UNCHANGED <<up, deadline, lease, crashes>>

\* What a kill leaves of the leases: a process without BOT_INSTANCE_ID comes back
\* under a new random id, so that its old one is nobody's from now on.
Disown(i) ==
  [u \in Users |-> IF lease[u].owner = i /\ i \notin Pinned
                     THEN [lease[u] EXCEPT !.owner = Nobody] ELSE lease[u]]

Crash(i) ==
  /\ up[i]
  /\ crashes < MaxCrashes
  /\ crashes' = crashes + 1
  /\ up' = [up EXCEPT ![i] = FALSE]
  /\ pc' = [pc EXCEPT ![i] = [u \in Users |-> "done"]]
  /\ deadline' = [deadline EXCEPT ![i] = [u \in Users |-> Expired]]
  /\ lease' = Disown(i)

Boot(i) ==
  /\ ~up[i]
  /\ up' = [up EXCEPT ![i] = TRUE]
  /\ UNCHANGED <<pc, deadline, lease, crashes>>

\* Time passes.  Nothing bounds the length of a cycle or renews its leases.
Tick ==
  /\ deadline' = [i \in Instances |-> [u \in Users |-> Clamp(deadline[i][u] - 1)]]
  /\ lease' = [u \in Users |-> [lease[u] EXCEPT !.left = Clamp(lease[u].left - 1)]]
  /\ UNCHANGED <<up, pc, crashes>>

UserTask(i, u) ==
  \/ EnterSemaphore(i, u)
  \/ Acquire(i, u)
  \/ Refused(i, u)
  \/ AcquireFails(i, u)
  \/ EndCheck(i, u)

Next ==
  \/ \E i \in Instances : StartCycle(i) \/ Crash(i) \/ Boot(i)
  \/ \E i \in Instances, u \in Users : UserTask(i, u)
  \/ Tick

Spec == Init /\ [][Next]_vars

\* The event loop runs every ready task and time passes; a killed process need not
\* come back.  Strong fairness of Acquire: the database does not fail for ever.
Fairness ==
  /\ WF_vars(Tick)
  /\ \A i \in Instances : WF_vars(StartCycle(i))
  /\ \A i \in Instances, u \in Users :
       /\ WF_vars(EnterSemaphore(i, u))
       /\ WF_vars(Refused(i, u))
       /\ WF_vars(EndCheck(i, u))
       /\ SF_vars(Acquire(i, u))

FairSpec == Spec /\ Fairness

-----------------------------------------------------------------------------
Checking(i, u) == pc[i][u] = "checking"

\* Whatever the length of a cycle: as long as the lease_until of a running check
\* has not passed, the row in the database is that very lease, so that no other
\* instance can have entered.
LiveLeaseIsHeld ==
  \A i \in Instances, u \in Users :
    Checking(i, u) /\ deadline[i][u] >= 0 => lease[u] = [owner |-> i, left |-> deadline[i][u]]

\* A killed owner does not block its users for ever: while any process is left,
\* every user is checked again and again, although leases are never released but
\* only expire.
EveryUserKeepsBeingChecked ==
  <>[](\E i \in Instances : up[i]) => \A u \in Users : []<>(\E i \in Instances : Checking(i, u))

\* The abstract specification, seen through the program counters: an instance holds
\* a user while it checks it under a lease_until that lies ahead, and is late once
\* the lease_until has passed.
Holds(i, u) == Checking(i, u) /\ deadline[i][u] >= 0
Holder(u) == IF \E i \in Instances : Holds(i, u)
               THEN CHOOSE i \in Instances : Holds(i, u) ELSE Nobody
LateChecks == {c \in Instances \X Users : Checking(c[1], c[2]) /\ deadline[c[1]][c[2]] < 0}
Abstract == INSTANCE ExclusiveChecks
  WITH checker <- [u \in Users |-> Holder(u)], late <- LateChecks
ImplementsExclusiveChecks == Abstract!Spec
=============================================================================
