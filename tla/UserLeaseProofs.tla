-------------------------- MODULE UserLeaseProofs --------------------------
(***************************************************************************)
(* What the leases guarantee, for any number of instances and users, any   *)
(* clock skews, any lease duration and cycles of any length.               *)
(***************************************************************************)
EXTENDS UserLease, FiniteSetTheorems, TLAPS

\* The inductive invariant.
IInv == TypeOK /\ LiveLeaseIsHeld

Row == [owner : Instances \cup {Nobody}, left : Nat \cup {Expired}]

\* The part of TypeOK that types the variables, and the part that counts.
Typed ==
  /\ up \in [Instances -> BOOLEAN]
  /\ pc \in [Instances -> [Users -> PC]]
  /\ deadline \in [Instances -> [Users -> Nat \cup {Expired}]]
  /\ lease \in [Users -> Row]
  /\ crashes \in 0 .. MaxCrashes
SemaphoreKept == \A i \in Instances : Cardinality(InSemaphore(i)) <= MaxConcurrent

\* TypeOK is both of them.
LEMMA Parts == TypeOK <=> Typed /\ SemaphoreKept
  BY DEF TypeOK, Typed, SemaphoreKept, Row

-----------------------------------------------------------------------------
\* Clamping a time to "in the past" keeps it a time.
LEMMA ClampType == \A t \in Int : Clamp(t) \in Nat \cup {Expired}
  BY DEF Clamp, Expired

\* The tasks inside a semaphore can be counted.
LEMMA SemaphoreCount ==
  ASSUME NEW i \in Instances
  PROVE  IsFiniteSet(InSemaphore(i)) /\ Cardinality(InSemaphore(i)) \in Nat
  <1>1. InSemaphore(i) \subseteq Users  BY DEF InSemaphore
  <1>2. QED  BY <1>1, SemaphoreAssumption, FS_Subset, FS_CardinalityType

\* Nobody exceeds a semaphore that nobody new has entered.
LEMMA NobodyEnters ==
  ASSUME SemaphoreKept, \A i \in Instances : InSemaphore(i)' \subseteq InSemaphore(i)
  PROVE  SemaphoreKept'
  <1> SUFFICES ASSUME NEW i \in Instances PROVE Cardinality(InSemaphore(i)') <= MaxConcurrent
    BY DEF SemaphoreKept
  <1>1. IsFiniteSet(InSemaphore(i)) /\ Cardinality(InSemaphore(i)) \in Nat  BY SemaphoreCount
  <1>2. Cardinality(InSemaphore(i)) <= MaxConcurrent  BY DEF SemaphoreKept
  <1> DEFINE now == InSemaphore(i)'  before == InSemaphore(i)
  <1>3. now \subseteq before  OBVIOUS
  <1> HIDE DEF now, before
  <1>4. Cardinality(now) <= Cardinality(before) /\ Cardinality(now) \in Nat
    BY <1>1, <1>3, FS_Subset, FS_CardinalityType DEF before
  <1>5. QED  BY <1>1, <1>2, <1>4, SemaphoreAssumption DEF now, before

\* Entering takes a place that was free.
LEMMA OneEnters ==
  ASSUME NEW i \in Instances, NEW u \in Users, Typed, SemaphoreKept, EnterSemaphore(i, u)
  PROVE  SemaphoreKept'
  <1> SUFFICES ASSUME NEW j \in Instances PROVE Cardinality(InSemaphore(j)') <= MaxConcurrent
    BY DEF SemaphoreKept
  <1>1. CASE j # i
    <2>1. InSemaphore(j)' = InSemaphore(j)
      BY <1>1 DEF EnterSemaphore, Goto, InSemaphore, Typed
    <2>2. QED  BY <2>1 DEF SemaphoreKept
  <1>2. CASE j = i
    <2>1. InSemaphore(i)' = InSemaphore(i) \cup {u}
      BY DEF EnterSemaphore, Goto, InSemaphore, Typed, PC
    <2>2. IsFiniteSet(InSemaphore(i)) /\ Cardinality(InSemaphore(i)) \in Nat  BY SemaphoreCount
    <2>3. Cardinality(InSemaphore(i)) < MaxConcurrent  BY DEF EnterSemaphore
    <2> DEFINE S == InSemaphore(i)
    <2> HIDE DEF S
    <2>4. Cardinality(S \cup {u}) = Cardinality(S) \/ Cardinality(S \cup {u}) = Cardinality(S) + 1
      BY <2>2, FS_AddElement DEF S
    <2>5. QED  BY <1>2, <2>1, <2>2, <2>3, <2>4, SemaphoreAssumption DEF S
  <1>3. QED  BY <1>1, <1>2

\* The tables are well formed from the start.
LEMMA TypeInit == Init => TypeOK
  <1> SUFFICES ASSUME Init PROVE TypeOK  OBVIOUS
  <1>1. Typed  BY TTLAssumption DEF Init, Typed, Row, PC, NoRow, Expired
  <1>2. \A i \in Instances : InSemaphore(i) = {}  BY DEF Init, InSemaphore
  <1>3. SemaphoreKept  BY <1>2, FS_EmptySet, SemaphoreAssumption DEF SemaphoreKept
  <1>4. QED  BY <1>1, <1>3, Parts

\* A step of one task touches nothing but its own counter and its user's lease.
LEMMA TypeTask ==
  ASSUME NEW i \in Instances, NEW u \in Users, TypeOK, UserTask(i, u)
  PROVE  TypeOK'
  <1> Typed /\ SemaphoreKept  BY Parts
  <1>1. CASE EnterSemaphore(i, u)
    <2>1. Typed'  BY <1>1 DEF Typed, PC, Goto, EnterSemaphore
    <2>2. QED  BY <1>1, <2>1, OneEnters, Parts DEF SemaphoreKept, Typed, TypeOK, Row
  <1>2. CASE Acquire(i, u) \/ Refused(i, u) \/ AcquireFails(i, u) \/ EndCheck(i, u)
    <2>1. Typed'
      <3>1. CASE Acquire(i, u)  BY <3>1 DEF Typed, Row, PC, Goto, Acquire
      <3>2. CASE Refused(i, u)       BY <3>2 DEF Typed, PC, Goto, Refused
      <3>3. CASE AcquireFails(i, u)  BY <3>3 DEF Typed, PC, Goto, AcquireFails
      <3>4. CASE EndCheck(i, u)      BY <3>4 DEF Typed, PC, Goto, EndCheck
      <3>5. QED  BY <1>2, <3>1, <3>2, <3>3, <3>4
    <2>2. \A j \in Instances : InSemaphore(j)' \subseteq InSemaphore(j)
      BY <1>2 DEF Typed, PC, Goto, Acquire, Refused, AcquireFails, EndCheck, InSemaphore
    <2>3. QED  BY <2>1, <2>2, NobodyEnters DEF SemaphoreKept, Typed, TypeOK, Row
  <1>3. QED  BY <1>1, <1>2 DEF UserTask

\* Time moves the timers, and leaves them well formed.
LEMMA TypeTick == ASSUME TypeOK, Tick PROVE TypeOK'
  <1> Typed /\ SemaphoreKept  BY Parts
  <1>1. \A i \in Instances, u \in Users : Clamp(deadline[i][u] - 1) \in Nat \cup {Expired}
    BY ClampType DEF Typed, Expired
  <1>2. \A u \in Users : [lease[u] EXCEPT !.left = Clamp(lease[u].left - 1)] \in Row
    <2> TAKE u \in Users
    <2>1. lease[u].left - 1 \in Int  BY DEF Typed, Row, Expired
    <2>2. Clamp(lease[u].left - 1) \in Nat \cup {Expired}  BY <2>1, ClampType
    <2>3. QED  BY <2>2 DEF Typed, Row
  <1>3. Typed'  BY <1>1, <1>2 DEF Tick, Typed
  <1>4. \A j \in Instances : InSemaphore(j)' \subseteq InSemaphore(j)  BY DEF Tick, InSemaphore
  <1>5. QED  BY <1>3, <1>4, NobodyEnters DEF SemaphoreKept, Typed, TypeOK, Row

\* So does every step of any instance.
LEMMA TypeNext == TypeOK /\ [Next]_vars => TypeOK'
  <1> SUFFICES ASSUME TypeOK, [Next]_vars PROVE TypeOK'
    OBVIOUS
  <1> Typed /\ SemaphoreKept  BY Parts
  <1>1. ASSUME NEW i \in Instances, StartCycle(i) \/ Crash(i) \/ Boot(i) PROVE TypeOK'
    <2>1. CASE StartCycle(i)
      <3>1. FreshLease(i) \in Nat \cup {Expired}
        BY ClampType, TTLAssumption, SkewAssumption DEF FreshLease
      <3>2. Typed'  BY <2>1, <3>1, TTLAssumption DEF StartCycle, Typed, PC
      <3>3. \A j \in Instances : InSemaphore(j)' \subseteq InSemaphore(j)
        BY <2>1 DEF StartCycle, InSemaphore, Typed
      <3>4. QED  BY <3>2, <3>3, NobodyEnters DEF SemaphoreKept, Typed, TypeOK, Row
    <2>2. CASE Crash(i)
      <3>1. Disown(i) \in [Users -> Row]  BY DEF Disown, Typed, Row
      <3>2. crashes' \in 0 .. MaxCrashes  BY <2>2, TTLAssumption DEF Crash, Typed
      <3>3. Typed'  BY <2>2, <3>1, <3>2 DEF Crash, Typed, PC
      <3>4. \A j \in Instances : InSemaphore(j)' \subseteq InSemaphore(j)
        BY <2>2 DEF Crash, InSemaphore, Typed
      <3>5. QED  BY <3>3, <3>4, NobodyEnters DEF SemaphoreKept, Typed, TypeOK, Row
    <2>3. CASE Boot(i)
      <3>1. Typed'  BY <2>3 DEF Boot, Typed
      <3>2. \A j \in Instances : InSemaphore(j)' \subseteq InSemaphore(j)  BY <2>3 DEF Boot, InSemaphore
      <3>3. QED  BY <3>1, <3>2, NobodyEnters DEF SemaphoreKept, Typed, TypeOK, Row
    <2>4. QED  BY <1>1, <2>1, <2>2, <2>3
  <1>2. ASSUME NEW i \in Instances, NEW u \in Users, UserTask(i, u) PROVE TypeOK'
    BY <1>2, TypeTask
  <1>3. CASE Tick
    BY <1>3, TypeTick
  <1>4. CASE UNCHANGED vars
    BY <1>4 DEF vars, TypeOK, InSemaphore
  <1>5. QED  BY <1>1, <1>2, <1>3, <1>4 DEF Next

\* Type correctness, and no cycle ever has more users inside its semaphore than
\* BOT_MAX_CONCURRENT.
THEOREM TypeCorrect == Spec => []TypeOK
  <1>1. QED  BY TypeInit, TypeNext, PTL DEF Spec

-----------------------------------------------------------------------------
\* While an instance holds a user, the row that says so keeps the others out.
LEMMA HeldKeepsOut ==
  ASSUME IInv, NEW i \in Instances, NEW u \in Users, MayTake(i, u),
         NEW j \in Instances, j # i
  PROVE  ~Holds(j, u)
  <1> SUFFICES ASSUME Holds(j, u) PROVE FALSE  OBVIOUS
  <1>1. lease[u] = [owner |-> j, left |-> deadline[j][u]]
    BY DEF IInv, LiveLeaseIsHeld, Holds
  <1>2. lease[u].owner = j /\ lease[u].left = deadline[j][u] /\ deadline[j][u] >= 0
    BY <1>1 DEF Holds
  <1>3. deadline[j][u] \in Int  BY DEF IInv, TypeOK, Expired
  <1>4. QED  BY <1>2, <1>3 DEF MayTake

\* The lease stays with a check that goes on, one task step at a time.
LEMMA InvTask ==
  ASSUME NEW i \in Instances, NEW u \in Users, IInv, UserTask(i, u)
  PROVE  LiveLeaseIsHeld'
  <1> USE DEF IInv, TypeOK, LiveLeaseIsHeld, Checking, Goto
  <1>1. CASE EnterSemaphore(i, u)  BY <1>1 DEF EnterSemaphore
  <1>2. CASE Acquire(i, u)
    <2>1. ASSUME NEW j \in Instances, NEW v \in Users, Checking(j, v)', deadline[j][v] >= 0
          PROVE  lease'[v] = [owner |-> j, left |-> deadline[j][v]]
      <3>1. CASE v # u             BY <1>2, <2>1, <3>1 DEF Acquire
      <3>2. CASE v = u /\ j = i    BY <1>2, <3>2 DEF Acquire
      <3>3. CASE v = u /\ j # i
        <4>1. Holds(j, u)          BY <1>2, <2>1, <3>3 DEF Acquire, Holds
        <4>2. MayTake(i, u)        BY <1>2 DEF Acquire
        <4>3. QED                  BY <3>3, <4>1, <4>2, HeldKeepsOut
      <3>4. QED  BY <3>1, <3>2, <3>3
    <2>2. QED  BY <1>2, <2>1 DEF Acquire
  <1>3. CASE Refused(i, u)         BY <1>3 DEF Refused
  <1>4. CASE AcquireFails(i, u)    BY <1>4 DEF AcquireFails
  <1>5. CASE EndCheck(i, u)        BY <1>5 DEF EndCheck
  <1>6. QED  BY <1>1, <1>2, <1>3, <1>4, <1>5 DEF UserTask

\* Time brings a deadline nearer by a tick in the task and in the row alike.
LEMMA InvTick == ASSUME IInv, Tick PROVE LiveLeaseIsHeld'
  <1> USE DEF IInv
  <1>1. ASSUME NEW i \in Instances, NEW u \in Users, Checking(i, u), deadline'[i][u] >= 0
        PROVE  lease'[u] = [owner |-> i, left |-> deadline'[i][u]]
    <2>1. deadline'[i][u] = Clamp(deadline[i][u] - 1)  BY DEF Tick
    <2>2. deadline[i][u] \in Nat \cup {Expired}        BY DEF TypeOK
    <2>3. deadline[i][u] >= 1                          BY <1>1, <2>1, <2>2 DEF Clamp, Expired
    <2>4. lease[u] = [owner |-> i, left |-> deadline[i][u]]
      BY <1>1, <2>3, <2>2 DEF LiveLeaseIsHeld, Expired
    <2>5. QED  BY <2>1, <2>4 DEF Tick
  <1>2. QED  BY <1>1 DEF Tick, LiveLeaseIsHeld, Checking

\* No step breaks the inductive invariant.
LEMMA InvNext == IInv /\ [Next]_vars => IInv'
  <1> SUFFICES ASSUME IInv, [Next]_vars PROVE LiveLeaseIsHeld'
    BY TypeNext DEF IInv
  <1> USE DEF IInv, LiveLeaseIsHeld, Checking
  <1>1. ASSUME NEW i \in Instances, StartCycle(i) PROVE LiveLeaseIsHeld'
    BY <1>1 DEF StartCycle, TypeOK
  <1>2. ASSUME NEW i \in Instances, Crash(i) PROVE LiveLeaseIsHeld'
    BY <1>2 DEF Crash, Disown, TypeOK
  <1>3. ASSUME NEW i \in Instances, Boot(i) PROVE LiveLeaseIsHeld'
    BY <1>3 DEF Boot
  <1>4. ASSUME NEW i \in Instances, NEW u \in Users, UserTask(i, u) PROVE LiveLeaseIsHeld'
    BY <1>4, InvTask
  <1>5. CASE Tick
    BY <1>5, InvTick
  <1>6. CASE UNCHANGED vars
    BY <1>6 DEF vars
  <1>7. QED  BY <1>1, <1>2, <1>3, <1>4, <1>5, <1>6 DEF Next

\* It holds before the first cycle.
LEMMA InvInit == Init => IInv
  BY TypeInit DEF Init, IInv, LiveLeaseIsHeld, Checking

\* While its lease_until lies ahead, a running check owns the row in the database,
\* however long cycles are and however the clocks differ.
THEOREM LiveLease == Spec => []LiveLeaseIsHeld
  <1>1. IInv => LiveLeaseIsHeld  BY DEF IInv
  <1>2. QED  BY InvInit, InvNext, <1>1, PTL DEF Spec

-----------------------------------------------------------------------------
(***************************************************************************)
(* UserLease implements ExclusiveChecks: the abstract checker of a user is *)
(* the instance whose running check has a lease_until that lies ahead.     *)
(***************************************************************************)
Checkers == [u \in Users |-> Holder(u)]

\* The row of the lease has one owner, so that at most one instance holds a user.
LEMMA OneHolder ==
  ASSUME IInv, NEW u \in Users, NEW i \in Instances, NEW j \in Instances,
         Holds(i, u), Holds(j, u)
  PROVE  i = j
  <1>1. lease[u] = [owner |-> i, left |-> deadline[i][u]] /\ lease[u] = [owner |-> j, left |-> deadline[j][u]]
    BY DEF IInv, LiveLeaseIsHeld, Holds
  <1>2. lease[u].owner = i /\ lease[u].owner = j  BY <1>1
  <1>3. QED  BY <1>2

\* Who holds a user in this state.
LEMMA HolderValue ==
  ASSUME IInv, NEW u \in Users
  PROVE  /\ \A i \in Instances : Holds(i, u) => Holder(u) = i
         /\ (\A i \in Instances : ~Holds(i, u)) => Holder(u) = Nobody
  BY OneHolder DEF Holder

\* Who holds a user in the next state.
LEMMA HolderValueNext ==
  ASSUME IInv', NEW u \in Users
  PROVE  /\ \A i \in Instances : Holds(i, u)' => Holder(u)' = i
         /\ (\A i \in Instances : ~Holds(i, u)') => Holder(u)' = Nobody
  <1>1. \A i, j \in Instances : Holds(i, u)' /\ Holds(j, u)' => i = j
    <2> SUFFICES ASSUME NEW i \in Instances, NEW j \in Instances, Holds(i, u)', Holds(j, u)'
                 PROVE  i = j
      OBVIOUS
    <2>1. /\ lease'[u] = [owner |-> i, left |-> deadline'[i][u]]
          /\ lease'[u] = [owner |-> j, left |-> deadline'[j][u]]
      BY DEF IInv, LiveLeaseIsHeld, Holds, Checking
    <2>2. lease'[u].owner = i /\ lease'[u].owner = j  BY <2>1
    <2>3. QED  BY <2>2
  <1>2. QED  BY <1>1 DEF Holder

\* A user keeps its holder as long as the same instance holds it.
LEMMA SameHolder ==
  ASSUME IInv, IInv', NEW u \in Users, \A i \in Instances : Holds(i, u)' <=> Holds(i, u)
  PROVE  Holder(u)' = Holder(u)
  <1>1. CASE \E i \in Instances : Holds(i, u)
    <2>1. PICK i \in Instances : Holds(i, u)  BY <1>1
    <2>2. QED  BY <2>1, HolderValue, HolderValueNext
  <1>2. CASE \A i \in Instances : ~Holds(i, u)
    BY <1>2, HolderValue, HolderValueNext
  <1>3. QED  BY <1>1, <1>2

\* A step after which the same checks run under the same deadlines is a stutter.
LEMMA SameChecks ==
  ASSUME IInv, IInv',
         \A i \in Instances, u \in Users :
            /\ Checking(i, u)' <=> Checking(i, u)
            /\ Checking(i, u) => deadline'[i][u] = deadline[i][u]
  PROVE  UNCHANGED <<Checkers, LateChecks>>
  <1>1. \A i \in Instances, u \in Users : Holds(i, u)' <=> Holds(i, u)  BY DEF Holds
  <1>2. \A u \in Users : Holder(u)' = Holder(u)  BY <1>1, SameHolder
  <1>3. Checkers' = Checkers  BY <1>2 DEF Checkers
  <1>4. LateChecks' = LateChecks  BY DEF LateChecks
  <1>5. QED  BY <1>3, <1>4

\* Taking the lease begins the check of a user nobody holds.
LEMMA AcquireBegins ==
  ASSUME IInv, IInv', NEW i \in Instances, NEW u \in Users, Acquire(i, u)
  PROVE  Abstract!Begin(i, u)
  <1> TypeOK  BY DEF IInv
  <1>1. /\ deadline' = deadline
        /\ ~Checking(i, u) /\ Checking(i, u)'
        /\ \A j \in Instances, v \in Users :
             ~(j = i /\ v = u) => (Checking(j, v)' <=> Checking(j, v))
    BY DEF Acquire, Goto, TypeOK, Checking
  <1>2. \A j \in Instances : ~Holds(j, u)
    <2>1. MayTake(i, u)  BY DEF Acquire
    <2>2. QED  BY <1>1, <2>1, HeldKeepsOut DEF Holds
  <1>3. Checkers[u] = Nobody /\ <<i, u>> \notin LateChecks
    BY <1>1, <1>2, HolderValue DEF Checkers, LateChecks
  <1>4. ASSUME NEW v \in Users, v # u PROVE Holder(v)' = Holder(v)
    BY <1>1, <1>4, SameHolder DEF Holds
  <1>5. CASE deadline[i][u] >= 0
    <2>1. Holder(u)' = i  BY <1>1, <1>5, HolderValueNext DEF Holds
    <2>2. Checkers' = [Checkers EXCEPT ![u] = i]  BY <1>4, <2>1 DEF Checkers
    <2>3. LateChecks' = LateChecks
      <3>1. deadline[i][u] \in Int  BY DEF TypeOK, Expired
      <3>2. ~(deadline[i][u] < 0)  BY <1>5, <3>1
      <3>3. QED  BY <1>1, <3>2 DEF LateChecks
    <2>4. QED  BY <1>3, <2>2, <2>3 DEF Abstract!Begin, Checkers
  <1>6. CASE deadline[i][u] < 0
    <2>1. deadline[i][u] \in Int  BY DEF TypeOK, Expired
    <2>2. ~(deadline[i][u] >= 0)  BY <1>6, <2>1
    <2>3. \A j \in Instances : ~Holds(j, u)'  BY <1>1, <1>2, <2>2 DEF Holds
    <2>4. Holder(u)' = Holder(u)  BY <1>2, <2>3, HolderValue, HolderValueNext
    <2>5. Checkers' = Checkers  BY <1>4, <2>4 DEF Checkers
    <2>6. LateChecks' = LateChecks \cup {<<i, u>>}  BY <1>1, <1>6 DEF LateChecks
    <2>7. QED  BY <1>3, <2>5, <2>6 DEF Abstract!Begin, Checkers
  <1>7. deadline[i][u] \in Int  BY DEF TypeOK, Expired
  <1>8. QED  BY <1>5, <1>6, <1>7

\* When an instance ends some of its checks, their users have no holder any more.
LEMMA ChecksEnd ==
  ASSUME IInv, IInv', NEW i \in Instances, NEW S \in SUBSET Users,
         \A j \in Instances, u \in Users :
            /\ Checking(j, u)' <=> (Checking(j, u) /\ ~(j = i /\ u \in S))
            /\ Checking(j, u)' => deadline'[j][u] = deadline[j][u]
  PROVE  Abstract!End(i)
  <1>1. \A j \in Instances, u \in Users :
          Holds(j, u)' <=> (Holds(j, u) /\ ~(j = i /\ u \in S))
    BY DEF Holds
  <1>2. ASSUME NEW u \in Users
        PROVE  Holder(u)' = IF u \in S /\ Holder(u) = i THEN Nobody ELSE Holder(u)
    <2>1. CASE \A j \in Instances : ~Holds(j, u)
      BY <1>1, <2>1, HolderValue, HolderValueNext
    <2>2. CASE \E j \in Instances : Holds(j, u)
      <3>1. PICK j \in Instances : Holds(j, u)  BY <2>2
      <3>2. Holder(u) = j  BY <3>1, HolderValue
      <3>3. CASE j = i /\ u \in S
        <4>1. \A k \in Instances : ~Holds(k, u)'  BY <1>1, <3>1, <3>3, OneHolder
        <4>2. QED  BY <3>2, <3>3, <4>1, HolderValueNext
      <3>4. CASE ~(j = i /\ u \in S)
        <4>1. Holds(j, u)'  BY <1>1, <3>1, <3>4
        <4>2. QED  BY <3>2, <3>4, <4>1, HolderValueNext
      <3>5. QED  BY <3>3, <3>4
    <2>3. QED  BY <2>1, <2>2
  <1>3. Checkers' = [u \in Users |-> IF u \in {v \in S : Checkers[v] = i} THEN Nobody ELSE Checkers[u]]
    BY <1>2 DEF Checkers
  <1>4. LateChecks' = LateChecks \ ({i} \X S)  BY DEF LateChecks
  <1>5. QED  BY <1>3, <1>4 DEF Abstract!End, Abstract!Without, Checkers

\* A tick makes late the checks whose lease_until is now.
LEMMA TickRunsOut == ASSUME IInv, IInv', Tick PROVE Abstract!RunOut
  <1> TypeOK  BY DEF IInv
  <1> DEFINE Last(j, u) == Checking(j, u) /\ deadline[j][u] = 0
             S == {u \in Users : \E j \in Instances : Last(j, u)}
  <1>1. ASSUME NEW j \in Instances, NEW u \in Users
        PROVE  /\ Checking(j, u)' <=> Checking(j, u)
               /\ Holds(j, u)' <=> (Holds(j, u) /\ ~Last(j, u))
               /\ deadline'[j][u] < 0 <=> (deadline[j][u] < 0 \/ deadline[j][u] = 0)
               /\ Last(j, u) => Holds(j, u)
    <2>1. deadline'[j][u] = Clamp(deadline[j][u] - 1)  BY DEF Tick
    <2>2. deadline[j][u] \in Nat \cup {Expired}  BY DEF TypeOK
    <2>3. Checking(j, u)' <=> Checking(j, u)  BY DEF Tick, Checking
    <2>4. QED  BY <2>1, <2>2, <2>3 DEF Holds, Clamp, Expired
  <1>2. ASSUME NEW u \in Users
        PROVE  /\ u \in S => Last(Holder(u), u) /\ Holder(u) \in Instances /\ Holder(u)' = Nobody
               /\ u \notin S => Holder(u)' = Holder(u)
    <2>1. CASE u \in S
      <3>1. PICK j \in Instances : Last(j, u)  BY <2>1
      <3>2. Holder(u) = j  BY <1>1, <3>1, HolderValue
      <3>3. \A k \in Instances : ~Holds(k, u)'  BY <1>1, <3>1, OneHolder
      <3>4. QED  BY <2>1, <3>1, <3>2, <3>3, HolderValueNext
    <2>2. CASE u \notin S
      <3>1. \A j \in Instances : ~Last(j, u)  BY <2>2
      <3>2. QED  BY <1>1, <2>2, <3>1, SameHolder
    <2>3. QED  BY <2>1, <2>2
  <1>3. S \in SUBSET {u \in Users : Checkers[u] # Nobody}
    BY <1>2, InstancesAssumption DEF Checkers
  <1>4. Checkers' = [u \in Users |-> IF u \in S THEN Nobody ELSE Checkers[u]]
    BY <1>2 DEF Checkers
  <1>5. LateChecks' = LateChecks \cup {<<Checkers[u], u>> : u \in S}
    <2>1. LateChecks' = LateChecks \cup {c \in Instances \X Users : Last(c[1], c[2])}
      BY <1>1 DEF LateChecks
    <2>2. \A j \in Instances, u \in Users : Last(j, u) => u \in S /\ Checkers[u] = j
      BY <1>1, HolderValue DEF Checkers
    <2>3. \A u \in S : Checkers[u] \in Instances /\ Last(Checkers[u], u)
      BY <1>2 DEF Checkers
    <2>4. {c \in Instances \X Users : Last(c[1], c[2])} = {<<Checkers[u], u>> : u \in S}
      <3> HIDE DEF Last
      <3>1. S \subseteq Users  OBVIOUS
      <3> HIDE DEF S
      <3>2. QED  BY <2>2, <2>3, <3>1
    <2>5. QED  BY <2>1, <2>4
  <1> HIDE DEF S
  <1>6. QED  BY <1>3, <1>4, <1>5 DEF Abstract!RunOut, Abstract!Without, Checkers

\* Every step of UserLease is a step of ExclusiveChecks, or changes nothing it sees.
LEMMA StepRefines ==
  ASSUME IInv, IInv', [Next]_vars
  PROVE  [Abstract!Next]_<<Checkers, LateChecks>>
  <1> TypeOK  BY DEF IInv
  <1>1. ASSUME NEW i \in Instances, StartCycle(i) \/ Boot(i) PROVE UNCHANGED <<Checkers, LateChecks>>
    <2>1. \A j \in Instances, u \in Users :
             /\ Checking(j, u)' <=> Checking(j, u)
             /\ Checking(j, u) => deadline'[j][u] = deadline[j][u]
      BY <1>1 DEF StartCycle, Boot, Idle, TypeOK, Checking
    <2>2. QED  BY <2>1, SameChecks
  <1>2. ASSUME NEW i \in Instances, Crash(i) PROVE Abstract!Next
    <2>1. \A j \in Instances, u \in Users :
             /\ Checking(j, u)' <=> (Checking(j, u) /\ ~(j = i /\ u \in Users))
             /\ Checking(j, u)' => deadline'[j][u] = deadline[j][u]
      BY <1>2 DEF Crash, TypeOK, Checking
    <2>2. Abstract!End(i)  BY <2>1, ChecksEnd
    <2>3. QED  BY <2>2 DEF Abstract!Next
  <1>3. ASSUME NEW i \in Instances, NEW u \in Users, UserTask(i, u)
        PROVE  [Abstract!Next]_<<Checkers, LateChecks>>
    <2>1. CASE Acquire(i, u)
      BY <2>1, AcquireBegins DEF Abstract!Next
    <2>2. CASE EnterSemaphore(i, u) \/ Refused(i, u) \/ AcquireFails(i, u)
      <3>1. pc[i][u] # "checking" /\ deadline' = deadline
        BY <2>2 DEF EnterSemaphore, Refused, AcquireFails, Goto
      <3>2. PICK to \in {"entered", "done"} : pc' = [pc EXCEPT ![i][u] = to]
        BY <2>2 DEF EnterSemaphore, Refused, AcquireFails, Goto
      <3>3. \A j \in Instances, v \in Users : Checking(j, v)' <=> Checking(j, v)
        BY <3>1, <3>2 DEF TypeOK, Checking
      <3>4. QED  BY <3>1, <3>3, SameChecks
    <2>3. CASE EndCheck(i, u)
      <3>1. \A j \in Instances, v \in Users :
               /\ Checking(j, v)' <=> (Checking(j, v) /\ ~(j = i /\ v \in {u}))
               /\ Checking(j, v)' => deadline'[j][v] = deadline[j][v]
        BY <2>3 DEF EndCheck, Goto, TypeOK, Checking
      <3>2. Abstract!End(i)  BY <3>1, ChecksEnd, {u} \in SUBSET Users
      <3>3. QED  BY <3>2 DEF Abstract!Next
    <2>4. QED  BY <1>3, <2>1, <2>2, <2>3 DEF UserTask
  <1>4. CASE Tick
    BY <1>4, TickRunsOut DEF Abstract!Next
  <1>5. CASE UNCHANGED vars
    BY <1>5, SameChecks DEF vars, Checking
  <1>6. QED  BY <1>1, <1>2, <1>3, <1>4, <1>5 DEF Next

\* The leases implement the promise of the abstract specification, for cycles of any
\* length: a user is taken by one instance at a time, and only a check that has
\* lasted longer than its lease may find another one beside it.
THEOREM Refinement == Spec => ImplementsExclusiveChecks
  <1>1. ASSUME Init PROVE Abstract!Init
    <2>1. \A i \in Instances, u \in Users : ~Checking(i, u)  BY <1>1 DEF Init, Checking
    <2>2. QED  BY <2>1 DEF Abstract!Init, Holder, Holds, LateChecks
  <1>2. IInv /\ IInv' /\ [Next]_vars => [Abstract!Next]_<<Checkers, LateChecks>>
    BY StepRefines
  <1>3. QED
    BY InvInit, InvNext, <1>1, <1>2, PTL
       DEF Spec, ImplementsExclusiveChecks, Abstract!Spec, Abstract!vars, Checkers
=============================================================================
