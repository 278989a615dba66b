---------------------------- MODULE DeliveryProofs ----------------------------
(***************************************************************************)
(* Proofs about how a notice gets to a person: DmRooms, for any people,    *)
(* tasks, restarts and failures, and DeadLetters, for any finite set of    *)
(* instances, any notices, retries, pauses and failures.  Direct rooms are *)
(* accounted for; a queue that is given a session loses nothing, and a     *)
(* notice arrives at most once per instance and unseen job.                  *)
(***************************************************************************)
EXTENDS DmRooms, DeadLetters, FiniteSetTheorems, WellFoundedInduction, TLAPS

(* Direct rooms. *)

Creating(m) == {t \in Makers : task[t] = At("creating", m)}
Allowance(m) == 1 + restarts + unseen[m] + overlaps[m]

\* The warm-up runs before any task does; who is still on its list has no room yet.
WarmUpFirst ==
  /\ phase = "prewarm" =>
       /\ \A t \in Tasks : task[t] = Idle
       /\ \A m \in todo : cache[m] = None /\ task[WarmUp] # At("creating", m)
  /\ phase # "prewarm" => task[WarmUp] = Idle

\* The creations under way count as rooms; where nothing is known and nothing is under
\* way, one more room is allowed for.
Counted(m) ==
  /\ rooms[m] + Cardinality(Creating(m)) <= Allowance(m)
  /\ cache[m] = None /\ Creating(m) = {} => rooms[m] < Allowance(m)

Inv == TypeOK /\ WarmUpFirst /\ \A m \in Mxids : Counted(m)

-----------------------------------------------------------------------------
\* The steps of a task in the types.
LEMMA TaskTypes ==
  /\ Idle \in TaskType
  /\ \A m \in Mxids : At("looking", m) \in TaskType /\ At("creating", m) \in TaskType
  /\ \A m \in Mxids, n \in Nat : Saving(m, n) \in TaskType
BY DEF Idle, At, Saving, TaskType

\* The steps of a task are told apart by their names.
LEMMA StepsDiffer ==
  ASSUME NEW m, NEW k, NEW n
  PROVE  /\ Idle # At("creating", k) /\ At("looking", m) # At("creating", k)
         /\ Saving(m, n) # At("creating", k)
         /\ At("creating", m) = At("creating", k) => m = k
BY DEF Idle, At, Saving

\* There are finitely many creations under way.
LEMMA CreatingFinite ==
  ASSUME NEW m
  PROVE  IsFiniteSet(Creating(m)) /\ Cardinality(Creating(m)) \in Nat
<1>1. Creating(m) \subseteq Makers BY DEF Creating
<1>2. IsFiniteSet(Makers) BY DmAssumption, FS_AddElement DEF Makers
<1> QED BY <1>1, <1>2, FS_Subset, FS_CardinalityType

\* A step from something else to something else changes nothing of them.
LEMMA CreatingSame ==
  ASSUME NEW m, NEW t \in Makers, NEW x, task \in [Makers -> TaskType],
         task' = [task EXCEPT ![t] = x], x # At("creating", m), task[t] # At("creating", m)
  PROVE  Creating(m)' = Creating(m)
BY DEF Creating, At

\* A creation begins.
LEMMA CreatingMore ==
  ASSUME NEW m, NEW t \in Makers, task \in [Makers -> TaskType],
         task' = [task EXCEPT ![t] = At("creating", m)], task[t] # At("creating", m)
  PROVE  /\ Creating(m)' # {}
         /\ Cardinality(Creating(m)') = Cardinality(Creating(m)) + 1
<1>1. Creating(m)' = Creating(m) \cup {t} /\ t \notin Creating(m)
  BY DEF Creating, At
<1> QED BY <1>1, CreatingFinite, FS_AddElement

\* A creation ends.
LEMMA CreatingLess ==
  ASSUME NEW m, NEW t \in Makers, NEW x, task \in [Makers -> TaskType],
         task' = [task EXCEPT ![t] = x], x # At("creating", m), task[t] = At("creating", m)
  PROVE  Cardinality(Creating(m)') = Cardinality(Creating(m)) - 1
<1>1. Creating(m)' = Creating(m) \ {t} /\ t \in Creating(m)
  BY DEF Creating, At
<1> QED BY <1>1, CreatingFinite, FS_RemoveElement

\* With nothing under way the count is zero.
LEMMA NothingUnderWay == ASSUME NEW m, Creating(m) = {} PROVE Cardinality(Creating(m)) = 0
BY FS_EmptySet

-----------------------------------------------------------------------------
\* The first process.
LEMMA InvInit == Init => Inv
<1> SUFFICES ASSUME Init PROVE Inv OBVIOUS
<1>1. TypeOK
  <2>1. task \in [Makers -> TaskType] BY TaskTypes DEF Init
  <2>2. \A t \in Makers : task[t].at # "saving" BY DEF Init, Idle
  <2>3. {rooms, cache, db, unseen, overlaps} \subseteq [Mxids -> Nat] BY DEF Init, None
  <2>4. \A m \in Mxids : cache[m] <= rooms[m] /\ db[m] <= rooms[m] BY DEF Init, None
  <2>5. restarts \in 0 .. MaxRestarts /\ troubles \in 0 .. MaxTroubles BY DmAssumption DEF Init
  <2>6. attempt \in [Makers -> 0 .. Attempts] BY DmAssumption DEF Init
  <2> QED BY <2>1, <2>2, <2>3, <2>4, <2>5, <2>6 DEF Init, TypeOK
<1>2. WarmUpFirst BY StepsDiffer DEF Init, WarmUpFirst, Makers
<1>3. \A m \in Mxids : Creating(m) = {}
  BY StepsDiffer DEF Init, Creating
<1>4. \A m \in Mxids : Counted(m)
  BY <1>3, NothingUnderWay DEF Init, Counted, Allowance
<1> QED BY <1>1, <1>2, <1>4 DEF Inv

\* What the count of a person depends on.
LEMMA CountedSame ==
  ASSUME NEW m, Counted(m), Creating(m)' = Creating(m),
         UNCHANGED <<rooms[m], cache[m], restarts, unseen[m], overlaps[m]>>
  PROVE  Counted(m)'
BY DEF Counted, Allowance

\* While the warm-up runs, whoever is on its list is one room short of the allowance.
LEMMA RoomForOne ==
  ASSUME Inv, phase = "prewarm", NEW m \in todo
  PROVE  m \in Mxids /\ rooms[m] < Allowance(m) /\ Creating(m) = {}
<1>1. m \in Mxids BY DEF Inv, TypeOK
<1>2. Creating(m) = {} BY StepsDiffer DEF Inv, WarmUpFirst, Creating, Makers
<1> QED BY <1>1, <1>2 DEF Inv, WarmUpFirst, Counted

\* What the warm-up or a task creates, saves or gives up has to do with where it stands.
LEMMA TaskOrWarmUp ==
  ASSUME Inv, NEW t \in Makers, task[t] # Idle
  PROVE  IF t = WarmUp THEN phase = "prewarm" ELSE t \in Tasks /\ phase # "prewarm"
BY DmAssumption DEF Inv, WarmUpFirst, Makers

\* The warm-up begins a creation for m.
LEMMA InvPrewarmCreates ==
  ASSUME Inv, NEW m \in Mxids, PrewarmCreates(m)
  PROVE  Inv'
<1> USE DEF PrewarmCreates
<1>0. WarmUp \in Makers /\ At("creating", m) \in TaskType /\ At("creating", m).at # "saving"
  BY TaskTypes DEF Makers, At
<1>1. TypeOK' BY <1>0 DEF Inv, TypeOK
<1>2. WarmUpFirst'
  <2>1. \A t \in Tasks : task'[t] = task[t] BY DmAssumption DEF Inv, TypeOK, Makers
  <2>2. task'[WarmUp] = At("creating", m) BY <1>0 DEF Inv, TypeOK
  <2> QED BY <2>1, <2>2, StepsDiffer DEF Inv, WarmUpFirst
<1>3. ASSUME NEW k \in Mxids PROVE Counted(k)'
  <2>1. CASE k # m
    <3>1. Creating(k)' = Creating(k) BY <1>0, <2>1, StepsDiffer, CreatingSame DEF Inv, TypeOK
    <3> QED BY <3>1, CountedSame DEF Inv
  <2>2. CASE k = m
    <3>1. Creating(m)' # {} /\ Cardinality(Creating(m)') = Cardinality(Creating(m)) + 1
      BY <1>0, StepsDiffer, CreatingMore DEF Inv, TypeOK
    <3>2. rooms[m] < Allowance(m) /\ Cardinality(Creating(m)) = 0 BY RoomForOne, NothingUnderWay
    <3>3. rooms[m] \in Nat /\ Allowance(m) \in Nat BY DmAssumption DEF Inv, TypeOK, Allowance
    <3> QED BY <2>2, <3>1, <3>2, <3>3 DEF Counted, Allowance
  <2> QED BY <2>1, <2>2
<1> QED BY <1>1, <1>2, <1>3 DEF Inv

\* A room that the process is not told of: its own by a lost answer, or another's.
LEMMA InvUnseen ==
  ASSUME Inv, NEW m \in Mxids, Unseen(m) \/ UNCHANGED <<rooms, unseen>>,
         db' \in {db, [db EXCEPT ![m] = rooms[m] + 1]}, db' # db => Unseen(m),
         troubles' \in 0 .. MaxTroubles, attempt' \in [Makers -> 0 .. Attempts],
         UNCHANGED <<phase, todo, cache, failed, task, linkBase, imported, restarts, overlaps>>
  PROVE  Inv'
<1>0. \A k \in Mxids : /\ rooms[k] \in Nat /\ unseen[k] \in Nat
                       /\ \/ rooms'[k] = rooms[k] /\ unseen'[k] = unseen[k]
                          \/ rooms'[k] = rooms[k] + 1 /\ unseen'[k] = unseen[k] + 1
  BY DEF Inv, TypeOK, Unseen
<1>1. TypeOK'
  <2>1. {rooms, cache, db, unseen, overlaps}' \subseteq [Mxids -> Nat]
    BY DEF Inv, TypeOK, Unseen
  <2>2. \A k \in Mxids : (cache[k] <= rooms[k] /\ db[k] <= rooms[k])'
    BY <1>0 DEF Inv, TypeOK, Unseen
  <2>3. \A t \in Makers : (task[t].at = "saving" => task[t].room \in 1 .. rooms[task[t].who])'
    <3>1. ASSUME NEW t \in Makers, task[t].at = "saving"
          PROVE  task[t].who \in Mxids /\ task[t].room \in 1 .. rooms[task[t].who]
      BY <3>1 DEF Inv, TypeOK, TaskType
    <3> QED BY <1>0, <3>1
  <2> QED BY <2>1, <2>2, <2>3 DEF Inv, TypeOK
<1>2. WarmUpFirst' BY DEF Inv, WarmUpFirst
<1>3. ASSUME NEW k \in Mxids PROVE Counted(k)'
  <2>1. Creating(k)' = Creating(k) BY DEF Creating
  <2>2. restarts \in Nat /\ overlaps[k] \in Nat /\ Cardinality(Creating(k)) \in Nat
    BY CreatingFinite, DmAssumption DEF Inv, TypeOK
  <2> QED BY <1>0, <2>1, <2>2 DEF Inv, Counted, Allowance
<1> QED BY <1>1, <1>2, <1>3 DEF Inv

\* Another bot makes its room, or an attempt fails.
LEMMA InvTroubles ==
  ASSUME Inv, NEW m \in Mxids, OtherBot(m) \/ \E t \in Makers : AttemptFails(t, m)
  PROVE  Inv'
<1>1. troubles' \in 0 .. MaxTroubles
  BY DmAssumption DEF Inv, TypeOK, OtherBot, AttemptFails, Trouble
<1>2. CASE OtherBot(m)
  BY <1>1, <1>2, InvUnseen DEF OtherBot, process, Inv, TypeOK
<1>3. CASE \E t \in Makers : AttemptFails(t, m)
  <2>1. attempt' \in [Makers -> 0 .. Attempts]
    BY <1>3, DmAssumption DEF AttemptFails, Inv, TypeOK
  <2> QED BY <1>1, <1>3, <2>1, InvUnseen DEF AttemptFails
<1> QED BY <1>2, <1>3

\* Steps that touch neither the rooms nor the tasks.
LEMMA InvAround ==
  ASSUME Inv, PrewarmEnds \/ StartCycle \/ SendOverdue
  PROVE  Inv'
<1> USE DEF PrewarmEnds, StartCycle, SendOverdue, ImportMain
<1>1. TypeOK' BY DEF Inv, TypeOK
<1>2. WarmUpFirst' BY DEF Inv, WarmUpFirst
<1>3. ASSUME NEW k \in Mxids PROVE Counted(k)'
  <2>1. Creating(k)' = Creating(k) BY DEF Creating
  <2> QED BY <2>1, CountedSame DEF Inv
<1> QED BY <1>1, <1>2, <1>3 DEF Inv

\* A step of task t to x, when neither of them is a creation.
LEMMA InvTask ==
  ASSUME Inv, NEW t \in Makers, NEW x \in TaskType,
         IF t = WarmUp THEN phase = "prewarm" ELSE phase # "prewarm",
         task' = [task EXCEPT ![t] = x],
         \A k \in Mxids : x # At("creating", k) /\ task[t] # At("creating", k),
         x.at = "saving" => x.room \in 1 .. rooms[x.who],
         db' \in [Mxids -> Nat], \A k \in Mxids : db'[k] <= rooms[k],
         UNCHANGED <<phase, todo, rooms, cache, failed, attempt, linkBase, imported, restarts, troubles,
                     unseen, overlaps>>
  PROVE  Inv'
<1>1. TypeOK'
  <2>1. task' \in [Makers -> TaskType] BY DEF Inv, TypeOK
  <2>2. \A u \in Makers : (task[u].at = "saving" => task[u].room \in 1 .. rooms[task[u].who])'
    BY DEF Inv, TypeOK
  <2> QED BY <2>1, <2>2 DEF Inv, TypeOK
<1>2. WarmUpFirst'
  <2>1. \A u \in Makers \ {t} : task'[u] = task[u] BY DEF Inv, TypeOK
  <2>2. task'[t] = x BY DEF Inv, TypeOK
  <2>3. CASE t = WarmUp
    BY <2>1, <2>2, <2>3, DmAssumption DEF Inv, TypeOK, WarmUpFirst, Makers
  <2>4. CASE t # WarmUp BY <2>1, <2>4, DmAssumption DEF Inv, WarmUpFirst, Makers
  <2> QED BY <2>3, <2>4
<1>3. ASSUME NEW k \in Mxids PROVE Counted(k)'
  <2>1. Creating(k)' = Creating(k) BY CreatingSame DEF Inv, TypeOK
  <2> QED BY <2>1, CountedSame DEF Inv
<1> QED BY <1>1, <1>2, <1>3 DEF Inv

\* Steps of a task that neither begin nor end a creation.
LEMMA InvLooks ==
  ASSUME Inv, NEW t \in Tasks, NEW m \in Mxids,
         Resolve(t, m) \/ SyncFails(t, m) \/ FoundInCache(t, m)
  PROVE  Inv'
<1>0. /\ db \in [Mxids -> Nat] /\ \A k \in Mxids : db[k] <= rooms[k]
      /\ t \in Makers /\ t # WarmUp
  BY DmAssumption DEF Inv, TypeOK, Makers
<1>1. CASE Resolve(t, m)
  <2>1. \A k \in Mxids : At("looking", m) # At("creating", k) /\ task[t] # At("creating", k)
    BY <1>1, StepsDiffer DEF Resolve
  <2>2. At("looking", m).at # "saving" BY DEF At
  <2> QED BY <1>0, <1>1, <2>1, <2>2, TaskTypes, InvTask DEF Resolve
<1>2. CASE SyncFails(t, m)
  <2>1. \A k \in Mxids : Idle # At("creating", k) /\ task[t] # At("creating", k)
    BY <1>2, StepsDiffer DEF SyncFails
  <2>2. Idle.at # "saving" /\ phase # "prewarm"
    BY <1>2 DEF SyncFails, Inv, WarmUpFirst, Idle, At
  <2> QED BY <1>0, <1>2, <2>1, <2>2, TaskTypes, InvTask DEF SyncFails
<1>3. CASE FoundInCache(t, m)
  <2>1. cache[m] \in Nat /\ cache[m] \in 1 .. rooms[m]
    BY <1>3 DEF FoundInCache, Inv, TypeOK, None
  <2>2. \A k \in Mxids : Saving(m, cache[m]) # At("creating", k) /\ task[t] # At("creating", k)
    BY <1>3, StepsDiffer DEF FoundInCache
  <2>3. Saving(m, cache[m]).room \in 1 .. rooms[Saving(m, cache[m]).who]
    BY <2>1 DEF Saving
  <2>4. phase # "prewarm" BY <1>3 DEF FoundInCache, Inv, WarmUpFirst, Idle, At
  <2>5. Saving(m, cache[m]) \in TaskType BY <2>1, TaskTypes
  <2> QED BY <1>0, <1>3, <2>2, <2>3, <2>4, <2>5, InvTask DEF FoundInCache
<1> QED BY <1>1, <1>2, <1>3

\* A room is saved, by a task or by the warm-up.
LEMMA InvSaves ==
  ASSUME Inv, NEW t \in Makers, NEW m \in Mxids, Saves(t, m)
  PROVE  Inv'
<1>0. db \in [Mxids -> Nat] /\ \A k \in Mxids : db[k] <= rooms[k]
  BY DEF Inv, TypeOK
<1>1. \A k \in Mxids : Idle # At("creating", k) /\ task[t] # At("creating", k)
  <2>1. \A k \in Mxids : task[t].at # At("creating", k).at BY DEF Saves, At
  <2> QED BY <2>1, StepsDiffer
<1>2. Idle.at # "saving" BY DEF Idle
<1>3. IF t = WarmUp THEN phase = "prewarm" ELSE phase # "prewarm"
  <2>1. task[t] # Idle BY <1>2 DEF Saves
  <2> QED BY <2>1, TaskOrWarmUp
<1>4. task[t].room \in 1 .. rooms[m] /\ rooms[m] \in Nat
  BY DEF Saves, Inv, TypeOK
<1>5. db' \in [Mxids -> Nat] /\ \A k \in Mxids : db'[k] <= rooms[k]
  BY <1>0, <1>4 DEF Saves
<1> QED BY <1>1, <1>2, <1>3, <1>5, TaskTypes, InvTask DEF Saves

\* A creation begins: the first one where no room is known, or an overlap.
LEMMA InvNotFound ==
  ASSUME Inv, NEW t \in Tasks, NEW m \in Mxids, NotFound(t, m)
  PROVE  Inv'
<1> USE DEF NotFound, ImportMain
<1>1. /\ task' \in [Makers -> TaskType] /\ phase # "prewarm"
      /\ At("creating", m).at # "saving" /\ t \in Makers /\ t # WarmUp
      /\ task'[WarmUp] = task[WarmUp]
  BY TaskTypes, DmAssumption DEF Inv, TypeOK, WarmUpFirst, Idle, At, Makers
<1>2. TypeOK'
  <2>1. \A u \in Makers : (task[u].at = "saving" => task[u].room \in 1 .. rooms[task[u].who])'
    BY <1>1 DEF Inv, TypeOK
  <2>2. overlaps' \in [Mxids -> Nat] BY DEF Inv, TypeOK
  <2> QED BY <1>1, <2>1, <2>2 DEF Inv, TypeOK
<1>3. WarmUpFirst' BY <1>1 DEF Inv, WarmUpFirst
<1>4. ASSUME NEW k \in Mxids PROVE Counted(k)'
  <2>1. overlaps[k] \in Nat /\ overlaps'[k] >= overlaps[k] /\ cache[k] \in Nat /\ rooms[k] \in Nat
        /\ restarts \in Nat /\ unseen[k] \in Nat
    BY DmAssumption DEF Inv, TypeOK
  <2>2. task[t] # At("creating", k) BY StepsDiffer
  <2>3. CASE k # m
    <3>1. Creating(k)' = Creating(k)
      BY <1>1, <2>2, <2>3, StepsDiffer, CreatingSame DEF Inv, TypeOK
    <3>2. overlaps'[k] = overlaps[k] BY <2>3 DEF Inv, TypeOK
    <3> QED BY <3>1, <3>2, CountedSame DEF Inv
  <2>4. CASE k = m
    <3>1. Creating(m)' # {} /\ Cardinality(Creating(m)') = Cardinality(Creating(m)) + 1
      BY <1>1, <2>2, <2>4, CreatingMore DEF Inv, TypeOK
    <3>2. CASE Creating(m) = {}
      <4>1. rooms[m] < Allowance(m) /\ Cardinality(Creating(m)) = 0
        BY <3>2, NothingUnderWay DEF Inv, Counted
      <4>2. overlaps' = overlaps BY <3>2 DEF Creating, Makers
      <4> QED BY <2>1, <2>4, <3>1, <4>1, <4>2 DEF Counted, Allowance
    <3>3. CASE Creating(m) # {}
      <4>1. overlaps'[m] = overlaps[m] + 1
        <5>1. task[WarmUp] # At("creating", m) BY <1>1, StepsDiffer DEF Inv, WarmUpFirst
        <5>2. \E u \in Tasks : task[u] = At("creating", m) BY <3>3, <5>1 DEF Creating, Makers
        <5> QED BY <5>2 DEF Inv, TypeOK
      <4>2. Cardinality(Creating(m)) \in Nat BY CreatingFinite
      <4> QED BY <2>1, <2>4, <3>1, <4>1, <4>2 DEF Inv, Counted, Allowance
    <3> QED BY <3>2, <3>3
  <2> QED BY <2>3, <2>4
<1> QED BY <1>2, <1>3, <1>4 DEF Inv

\* The count of m when a creation for it ends.
LEMMA OneLess ==
  ASSUME Inv, NEW t \in Makers, NEW m \in Mxids, NEW x, task[t] = At("creating", m),
         task' = [task EXCEPT ![t] = x], \A k \in Mxids : x # At("creating", k)
  PROVE  /\ IF t = WarmUp THEN phase = "prewarm" /\ m \notin todo ELSE t \in Tasks /\ phase # "prewarm"
         /\ Cardinality(Creating(m)) \in Nat \ {0}
         /\ Cardinality(Creating(m)') = Cardinality(Creating(m)) - 1
         /\ \A k \in Mxids \ {m} : Creating(k)' = Creating(k)
<1>1. IF t = WarmUp THEN phase = "prewarm" /\ m \notin todo ELSE t \in Tasks /\ phase # "prewarm"
  BY StepsDiffer, TaskOrWarmUp DEF Inv, WarmUpFirst
<1>2. Cardinality(Creating(m)') = Cardinality(Creating(m)) - 1
  BY CreatingLess DEF Inv, TypeOK
<1>3. Creating(m) # {} BY DEF Creating
<1>4. Cardinality(Creating(m)) \in Nat \ {0}
  BY <1>3, CreatingFinite, FS_EmptySet
<1>5. ASSUME NEW k \in Mxids \ {m} PROVE Creating(k)' = Creating(k)
  <2>1. task[t] # At("creating", k) BY StepsDiffer
  <2> QED BY <2>1, CreatingSame DEF Inv, TypeOK
<1> QED BY <1>1, <1>2, <1>4, <1>5

\* A creation ends with a room.
LEMMA InvCreates ==
  ASSUME Inv, NEW t \in Makers, NEW m \in Mxids, Creates(t, m)
  PROVE  Inv'
<1> USE DEF Creates
<1> DEFINE x == Saving(m, rooms[m] + 1)
<1>0. /\ rooms \in [Mxids -> Nat] /\ x \in TaskType /\ \A k \in Mxids : x # At("creating", k)
      /\ x.who = m /\ x.room = rooms[m] + 1
  BY TaskTypes, StepsDiffer DEF Inv, TypeOK, Saving
<1>a. /\ IF t = WarmUp THEN phase = "prewarm" /\ m \notin todo ELSE t \in Tasks /\ phase # "prewarm"
      /\ Cardinality(Creating(m)) \in Nat \ {0}
      /\ Cardinality(Creating(m)') = Cardinality(Creating(m)) - 1
      /\ \A k \in Mxids \ {m} : Creating(k)' = Creating(k)
  BY <1>0, OneLess
<1>1. TypeOK'
  <2>1. task' \in [Makers -> TaskType] BY <1>0 DEF Inv, TypeOK
  <2>2. {rooms, cache, db, unseen, overlaps}' \subseteq [Mxids -> Nat] BY DEF Inv, TypeOK
  <2>3. \A k \in Mxids : rooms[k] \in Nat /\ rooms'[k] \in Nat /\ rooms[k] <= rooms'[k]
    BY DEF Inv, TypeOK
  <2>4. \A k \in Mxids : (cache[k] <= rooms[k] /\ db[k] <= rooms[k])'
    BY <2>3 DEF Inv, TypeOK
  <2>5. \A u \in Makers : (task[u].at = "saving" => task[u].room \in 1 .. rooms[task[u].who])'
    <3>1. ASSUME NEW u \in Makers \ {t}, task[u].at = "saving"
          PROVE  task[u].who \in Mxids /\ task[u].room \in 1 .. rooms[task[u].who]
      BY <3>1 DEF Inv, TypeOK, TaskType
    <3>2. x.room \in 1 .. rooms'[x.who] BY <1>0
    <3>3. task'[t] = x /\ \A u \in Makers \ {t} : task'[u] = task[u] BY DEF Inv, TypeOK
    <3> QED BY <2>3, <3>1, <3>2, <3>3
  <2>6. attempt' \in [Makers -> 0 .. Attempts] BY DmAssumption DEF Inv, TypeOK
  <2> QED BY <2>1, <2>2, <2>4, <2>5, <2>6 DEF Inv, TypeOK
<1>2. WarmUpFirst'
  <2>1. \A u \in Makers \ {t} : task'[u] = task[u] BY DEF Inv, TypeOK
  <2>2. task'[t] = x BY DEF Inv, TypeOK
  <2>3. CASE t = WarmUp
    <3>1. \A k \in todo : cache'[k] = None BY <1>a, <2>3 DEF Inv, TypeOK, WarmUpFirst
    <3> QED BY <1>0, <1>a, <2>1, <2>2, <2>3, <3>1, DmAssumption DEF Inv, TypeOK, WarmUpFirst, Makers
  <2>4. CASE t # WarmUp BY <1>a, <2>1, <2>4, DmAssumption DEF Inv, WarmUpFirst, Makers
  <2> QED BY <2>3, <2>4
<1>3. ASSUME NEW k \in Mxids PROVE Counted(k)'
  <2>1. CASE k # m
    <3>1. UNCHANGED <<rooms[k], cache[k], restarts, unseen[k], overlaps[k]>>
      BY <2>1 DEF Inv, TypeOK
    <3> QED BY <1>a, <2>1, <3>1, CountedSame DEF Inv
  <2>2. CASE k = m
    <3>1. rooms'[m] = rooms[m] + 1 /\ cache'[m] = rooms[m] + 1 /\ rooms[m] \in Nat
      BY DEF Inv, TypeOK
    <3>2. Allowance(m) \in Nat BY DmAssumption DEF Allowance, Inv, TypeOK
    <3> QED BY <1>a, <2>2, <3>1, <3>2 DEF Inv, Counted, Allowance, None
  <2> QED BY <2>1, <2>2
<1> QED BY <1>1, <1>2, <1>3 DEF Inv

\* A creation ends without a room the bot knows of.
LEMMA InvGivesUp ==
  ASSUME Inv, NEW t \in Makers, NEW m \in Mxids, GivesUp(t, m)
  PROVE  Inv'
<1> USE DEF GivesUp
<1>0. Idle \in TaskType /\ (\A k \in Mxids : Idle # At("creating", k)) /\ Idle.at # "saving"
  BY TaskTypes, StepsDiffer DEF Idle
<1>a. /\ IF t = WarmUp THEN phase = "prewarm" /\ m \notin todo ELSE t \in Tasks /\ phase # "prewarm"
      /\ Cardinality(Creating(m)) \in Nat \ {0}
      /\ Cardinality(Creating(m)') = Cardinality(Creating(m)) - 1
      /\ \A k \in Mxids \ {m} : Creating(k)' = Creating(k)
  BY <1>0, OneLess
<1>1. TypeOK'
  <2>1. task' \in [Makers -> TaskType] BY <1>0 DEF Inv, TypeOK
  <2>2. attempt' \in [Makers -> 0 .. Attempts] /\ failed' \subseteq Mxids
    BY DmAssumption DEF Inv, TypeOK
  <2>3. \A u \in Makers : (task[u].at = "saving" => task[u].room \in 1 .. rooms[task[u].who])'
    <3>1. task'[t] = Idle /\ \A u \in Makers \ {t} : task'[u] = task[u] BY DEF Inv, TypeOK
    <3> QED BY <1>0, <3>1 DEF Inv, TypeOK
  <2> QED BY <2>1, <2>2, <2>3 DEF Inv, TypeOK
<1>2. WarmUpFirst'
  <2>1. \A u \in Makers \ {t} : task'[u] = task[u] BY DEF Inv, TypeOK
  <2>2. task'[t] = Idle BY DEF Inv, TypeOK
  <2>3. CASE t = WarmUp
    <3>1. \A k \in todo : cache'[k] = None BY <1>a, <2>3 DEF Inv, TypeOK, WarmUpFirst
    <3> QED BY <1>0, <1>a, <2>1, <2>2, <2>3, <3>1, DmAssumption DEF Inv, TypeOK, WarmUpFirst, Makers
  <2>4. CASE t # WarmUp BY <1>a, <2>1, <2>4, DmAssumption DEF Inv, WarmUpFirst, Makers
  <2> QED BY <2>3, <2>4
<1>3. ASSUME NEW k \in Mxids PROVE Counted(k)'
  <2>1. CASE k # m BY <1>a, <2>1, CountedSame DEF Inv
  <2>2. CASE k = m
    <3>1. {rooms[m], unseen[m], overlaps[m], restarts} \subseteq Nat
      BY DmAssumption DEF Inv, TypeOK
    <3> QED BY <1>a, <2>2, <3>1 DEF Inv, Counted, Allowance
  <2> QED BY <2>1, <2>2
<1> QED BY <1>1, <1>2, <1>3 DEF Inv

\* A restart allows for one more room for everybody.
LEMMA InvRestart == ASSUME Inv, Restart PROVE Inv'
<1> USE DEF Restart, Booted
<1>1. TypeOK'
  <2>1. task' \in [Makers -> TaskType] BY TaskTypes
  <2>2. \A t \in Makers : task'[t].at # "saving" BY DEF Idle
  <2>3. cache' \in [Mxids -> Nat] /\ \A m \in Mxids : cache'[m] <= rooms[m]
    BY DEF Inv, TypeOK, None
  <2>4. restarts' \in 0 .. MaxRestarts BY DmAssumption DEF Inv, TypeOK
  <2>5. attempt' \in [Makers -> 0 .. Attempts] BY DmAssumption
  <2> QED BY <2>1, <2>2, <2>3, <2>4, <2>5 DEF Inv, TypeOK
<1>2. WarmUpFirst' BY StepsDiffer, TaskTypes DEF Inv, TypeOK, WarmUpFirst, Makers
<1>3. ASSUME NEW k \in Mxids PROVE Counted(k)'
  <2>1. Creating(k)' = {} BY StepsDiffer DEF Creating
  <2>2. Cardinality(Creating(k)') = 0 BY <2>1, FS_EmptySet
  <2>3. Cardinality(Creating(k)) \in Nat BY CreatingFinite
  <2>4. {rooms[k], unseen[k], overlaps[k], restarts} \subseteq Nat
    BY DmAssumption DEF Inv, TypeOK
  <2> QED BY <2>2, <2>3, <2>4 DEF Inv, Counted, Allowance
<1> QED BY <1>1, <1>2, <1>3 DEF Inv

\* Every step preserves the invariant.
LEMMA InvNext == ASSUME Inv, [Next]_vars PROVE Inv'
<1>1. CASE \E m \in Mxids : PrewarmCreates(m) BY <1>1, InvPrewarmCreates
<1>2. CASE PrewarmEnds \/ StartCycle \/ SendOverdue BY <1>2, InvAround
<1>3. CASE \E t \in Tasks, m \in Mxids : Resolve(t, m) \/ SyncFails(t, m) \/ FoundInCache(t, m)
  BY <1>3, InvLooks
<1>4. CASE \E t \in Tasks, m \in Mxids : NotFound(t, m) BY <1>4, InvNotFound
<1>5. CASE \E m \in Mxids : OtherBot(m) \/ \E t \in Makers : AttemptFails(t, m)
  BY <1>5, InvTroubles
<1>6. CASE \E t \in Makers, m \in Mxids : Creates(t, m) \/ GivesUp(t, m) \/ Saves(t, m)
  BY <1>6, InvCreates, InvGivesUp, InvSaves
<1>7. CASE Restart BY <1>7, InvRestart
<1>8. CASE UNCHANGED vars
  BY <1>8 DEF vars, process, Inv, TypeOK, WarmUpFirst, Counted, Allowance, Creating
<1> QED BY <1>1, <1>2, <1>3, <1>4, <1>5, <1>6, <1>7, <1>8 DEF Next

\* The invariant holds throughout.
LEMMA Inductive == Spec => []Inv
BY InvInit, InvNext, PTL DEF Spec

-----------------------------------------------------------------------------
\* Nobody is ever taken to have a room that the homeserver has not made, in the
\* dictionary, in bot_dm_cache or by a task that saves one (sender.py 388-430).
THEOREM TypeCorrect == Spec => []TypeOK
BY Inductive, PTL DEF Inv

\* A second room for a person has a cause: a restart, an answer that was lost after the
\* homeserver had made the room, another bot process, or two creations at the same time;
\* however many tasks, attempts, restarts and failures there are (_resolve_room_id,
\* _create_dm and the warm-up in sender.py).
THEOREM Accounted == Spec => []RoomsAccountedFor
<1>1. ASSUME Inv PROVE RoomsAccountedFor
  <2>1. ASSUME NEW m \in Mxids PROVE rooms[m] <= Allowance(m)
    BY <1>1, <2>1, CreatingFinite, DmAssumption DEF Inv, TypeOK, Counted, Allowance
  <2> QED BY <2>1 DEF RoomsAccountedFor, Allowance
<1> QED BY <1>1, Inductive, PTL

-----------------------------------------------------------------------------
(* The dead-letter queue. *)

\* Counters of some of the notices, and what a run may remember.
Counters == UNION {[S -> Nat] : S \in SUBSET Notices}
JobType == [active : BOOLEAN, due : Counters, gone : SUBSET Notices, bad : Counters]

\* The runs that have sent a notice and not committed, and those that still may send it.
Sent(n) == {i \in Instances : n \in job[i].gone}
Coming(n) == {i \in Instances : n \in DOMAIN job[i].due}

\* The types that the argument needs.
Typed ==
  /\ job \in [Instances -> JobType]
  /\ delivered \in [Notices -> Nat] /\ unheard \in [Notices -> Nat]
  /\ queued \subseteq missed /\ missed \subseteq Notices /\ losses \in Nat /\ rolledBack \in Nat
  /\ DOMAIN rows \subseteq missed /\ \A n \in DOMAIN rows : "tries" \in DOMAIN rows[n] /\ rows[n].tries \in Nat

\* A run handles a row once, and remembers only what has failed and what it has sent.
RunHonest(i) ==
  /\ ~job[i].active => DOMAIN job[i].due = {} /\ job[i].gone = {}
  /\ DOMAIN job[i].due \subseteq missed
  /\ DOMAIN job[i].due \cap job[i].gone = {}
  /\ \A n \in job[i].gone : delivered[n] > 0

\* While its row is there, a notice has arrived by runs that have not committed or were
\* lost, or unheard; without the row every instance sends it at most once more.
CopiesCounted(n) ==
  /\ n \in DOMAIN rows => delivered[n] <= Cardinality(Sent(n)) + losses + rolledBack + unheard[n]
  /\ n \notin DOMAIN rows =>
       delivered[n] + Cardinality(Coming(n))
         <= Cardinality(Instances) + losses + rolledBack + unheard[n]
  /\ n \notin missed => delivered[n] = 0

QueueInv == Typed /\ (\A i \in Instances : RunHonest(i)) /\ (\A n \in Notices : CopiesCounted(n))

-----------------------------------------------------------------------------
\* Nothing and one entry less are counters, too.
LEMMA CountersFacts ==
  /\ Empty \in Counters /\ DOMAIN Empty = {}
  /\ \A f \in Counters : \A n :
       Without(f, n) \in Counters /\ DOMAIN Without(f, n) = DOMAIN f \ {n}
<1>1. Empty \in [{} -> Nat] /\ DOMAIN Empty = {} BY DEF Empty
<1>2. ASSUME NEW f \in Counters, NEW n
      PROVE  Without(f, n) \in Counters /\ DOMAIN Without(f, n) = DOMAIN f \ {n}
  <2>1. PICK S \in SUBSET Notices : f \in [S -> Nat] BY DEF Counters
  <2>2. Without(f, n) \in [S \ {n} -> Nat] BY <2>1 DEF Without
  <2> QED BY <2>1, <2>2 DEF Counters
<1> QED BY <1>1, <1>2 DEF Counters

\* There are finitely many runs of each kind, and not more than instances.
LEMMA RunsFinite ==
  ASSUME NEW n
  PROVE  /\ IsFiniteSet(Sent(n)) /\ Cardinality(Sent(n)) \in Nat
         /\ IsFiniteSet(Coming(n)) /\ Cardinality(Coming(n)) \in Nat
         /\ Cardinality(Instances) \in Nat /\ Cardinality(Sent(n)) <= Cardinality(Instances)
<1>1. Sent(n) \subseteq Instances /\ Coming(n) \subseteq Instances BY DEF Sent, Coming
<1>2. IsFiniteSet(Instances) BY DeadLettersAssumption
<1> QED BY <1>1, <1>2, FS_Subset, FS_CardinalityType

\* Who has sent a notice is not to send it again in the same run.
LEMMA RunsApart ==
  ASSUME NEW n, \A i \in Instances : RunHonest(i)
  PROVE  Cardinality(Sent(n)) + Cardinality(Coming(n)) <= Cardinality(Instances)
<1>1. Sent(n) \cap Coming(n) = {} BY DEF Sent, Coming, RunHonest
<1>2. Sent(n) \cup Coming(n) \subseteq Instances BY DEF Sent, Coming
<1>3. IsFiniteSet(Instances) BY DeadLettersAssumption
<1>4. Cardinality(Sent(n) \cup Coming(n)) <= Cardinality(Instances) BY <1>2, <1>3, FS_Subset
<1>5. Cardinality(Sent(n) \cup Coming(n))
        = Cardinality(Sent(n)) + Cardinality(Coming(n)) - Cardinality(Sent(n) \cap Coming(n))
  BY RunsFinite, FS_Union
<1>6. Cardinality(Sent(n) \cap Coming(n)) = 0 BY <1>1, FS_EmptySet
<1> QED BY <1>4, <1>5, <1>6, RunsFinite

\* What one sending adds: the answered request, and every one without an answer on both sides.
LEMMA ArriveFacts ==
  ASSUME Typed, NEW n \in Notices, NEW heard \in Nat, NEW lost \in Nat, Arrive(n, heard, lost)
  PROVE  /\ delivered' \in [Notices -> Nat] /\ unheard' \in [Notices -> Nat]
         /\ delivered'[n] = delivered[n] + heard + lost /\ unheard'[n] = unheard[n] + lost
         /\ \A m \in Notices : m # n => delivered'[m] = delivered[m] /\ unheard'[m] = unheard[m]
<1>1. /\ delivered' = [delivered EXCEPT ![n] = @ + heard + lost]
      /\ unheard' = [unheard EXCEPT ![n] = @ + lost]
  BY DEF Arrive
<1>2. /\ delivered \in [Notices -> Nat] /\ unheard \in [Notices -> Nat] BY DEF Typed
<1>3. delivered[n] \in Nat /\ unheard[n] \in Nat BY <1>2
<1> QED BY <1>1, <1>2, <1>3

-----------------------------------------------------------------------------
\* At the start nothing is queued, sent or to come.
LEMMA QueueInvInit == QueueInit => QueueInv
<1> SUFFICES ASSUME QueueInit PROVE QueueInv
  OBVIOUS
<1>1. NoJob \in JobType /\ NoJob.active = FALSE /\ DOMAIN NoJob.due = {} /\ NoJob.gone = {}
  BY CountersFacts DEF NoJob, JobType
<1>2. Typed BY <1>1, CountersFacts DEF QueueInit, Typed
<1>3. \A i \in Instances : RunHonest(i) BY <1>1 DEF QueueInit, RunHonest
<1>4. ASSUME NEW n \in Notices PROVE CopiesCounted(n)
  <2>1. Coming(n) = {} BY <1>1 DEF QueueInit, Coming
  <2>2. Cardinality(Coming(n)) = 0 BY <2>1, FS_EmptySet
  <2>3. /\ delivered[n] = 0 /\ unheard[n] = 0 /\ losses = 0 /\ rolledBack = 0
        /\ DOMAIN rows = {}
    BY CountersFacts DEF QueueInit
  <2> QED BY <2>2, <2>3, RunsFinite DEF CopiesCounted
<1> QED BY <1>2, <1>3, <1>4 DEF QueueInv

\* A notice that fails is new to the queue: nobody has sent it, and if it arrived, nobody heard.
LEMMA FailsInv ==
  ASSUME QueueInv, NEW n \in Notices, SendSafeFails(n)
  PROVE  QueueInv'
<1>1. /\ job' = job /\ losses' = losses /\ rolledBack' = rolledBack
      /\ missed' = missed \cup {n} /\ queued' \subseteq queued \cup {n} /\ n \notin missed
      /\ DOMAIN rows \subseteq DOMAIN rows' /\ DOMAIN rows' \subseteq DOMAIN rows \cup {n}
  BY DEF SendSafeFails
<1>2. PICK lost \in Nat :
        /\ delivered' \in [Notices -> Nat] /\ unheard' \in [Notices -> Nat]
        /\ delivered'[n] = delivered[n] + lost /\ unheard'[n] = unheard[n] + lost
        /\ \A m \in Notices : m # n => delivered'[m] = delivered[m] /\ unheard'[m] = unheard[m]
  <2>1. CASE UNCHANGED arrivals
    <3>1. /\ delivered' = delivered /\ unheard' = unheard
          /\ delivered \in [Notices -> Nat] /\ unheard \in [Notices -> Nat]
      BY <2>1 DEF arrivals, QueueInv, Typed
    <3>2. /\ delivered' \in [Notices -> Nat] /\ unheard' \in [Notices -> Nat]
          /\ delivered'[n] = delivered[n] + 0 /\ unheard'[n] = unheard[n] + 0
          /\ \A m \in Notices : m # n => delivered'[m] = delivered[m] /\ unheard'[m] = unheard[m]
      BY <3>1
    <3> QED BY <3>2
  <2>2. ASSUME NEW lost \in 1 .. Requests, Arrive(n, 0, lost)
        PROVE  /\ delivered' \in [Notices -> Nat] /\ unheard' \in [Notices -> Nat]
               /\ delivered'[n] = delivered[n] + lost /\ unheard'[n] = unheard[n] + lost
               /\ \A m \in Notices : m # n => delivered'[m] = delivered[m] /\ unheard'[m] = unheard[m]
    <3>1. lost \in Nat /\ delivered[n] \in Nat BY <2>2, DeadLettersAssumption DEF QueueInv, Typed
    <3>2. delivered'[n] = delivered[n] + 0 + lost BY <2>2, <3>1, ArriveFacts DEF QueueInv
    <3> QED BY <2>2, <3>1, <3>2, ArriveFacts DEF QueueInv
  <2>3. \A lost \in 1 .. Requests : lost \in Nat BY DeadLettersAssumption
  <2> QED BY <2>1, <2>2, <2>3 DEF SendSafeFails
<1>3. /\ delivered \in [Notices -> Nat] /\ unheard \in [Notices -> Nat] BY DEF QueueInv, Typed
<1>4. Typed'
  <2>1. \A m \in DOMAIN rows' : "tries" \in DOMAIN rows'[m] /\ rows'[m].tries \in Nat
    BY DEF QueueInv, Typed, SendSafeFails
  <2> QED BY <1>1, <1>2, <2>1 DEF QueueInv, Typed
<1>5. ASSUME NEW i \in Instances PROVE RunHonest(i)'
  <2>1. RunHonest(i) /\ job[i].gone \subseteq Notices BY DEF QueueInv, Typed, JobType
  <2>2. \A m \in job[i].gone : delivered'[m] > 0 BY <1>2, <1>3, <2>1 DEF RunHonest
  <2> QED BY <1>1, <2>1, <2>2 DEF RunHonest
<1>6. ASSUME NEW m \in Notices PROVE CopiesCounted(m)'
  <2>1. Sent(m)' = Sent(m) /\ Coming(m)' = Coming(m) BY <1>1 DEF Sent, Coming
  <2>2. CopiesCounted(m) /\ losses \in Nat /\ rolledBack \in Nat BY DEF QueueInv, Typed
  <2>3. CASE m = n
    <3>1. delivered[m] = 0 /\ m \notin DOMAIN rows BY <1>1, <2>2, <2>3 DEF CopiesCounted, QueueInv, Typed
    <3> QED BY <1>1, <1>2, <1>3, <2>1, <2>2, <2>3, <3>1, RunsFinite DEF CopiesCounted
  <2>4. CASE m # n BY <1>1, <1>2, <2>1, <2>2, <2>4 DEF CopiesCounted
  <2> QED BY <2>3, <2>4
<1> QED BY <1>4, <1>5, <1>6 DEF QueueInv

\* A run that starts has rows of the table before it and has sent none of them.
LEMMA StartInv ==
  ASSUME QueueInv, NEW i \in Instances, StartJob(i)
  PROVE  QueueInv'
<1> DEFINE due == [n \in {m \in DOMAIN rows : Due(m)} |-> rows[n].tries]
           new == [active |-> TRUE, gone |-> {}, bad |-> Empty, due |-> due]
<1>1. /\ rows' = rows /\ delivered' = delivered /\ unheard' = unheard
      /\ missed' = missed /\ queued' = queued /\ losses' = losses /\ rolledBack' = rolledBack
      /\ job' = [job EXCEPT ![i] = new]
  BY DEF StartJob, counts, arrivals
<1>2. job[i].gone = {} /\ DOMAIN job[i].due = {} BY DEF StartJob, QueueInv, RunHonest
<1>3. due \in Counters /\ DOMAIN due \subseteq DOMAIN rows
  <2>1. {m \in DOMAIN rows : Due(m)} \in SUBSET Notices BY DEF QueueInv, Typed
  <2>2. due \in [{m \in DOMAIN rows : Due(m)} -> Nat] BY DEF QueueInv, Typed
  <2> QED BY <2>1, <2>2 DEF Counters
<1> HIDE DEF due
<1>4. new \in JobType /\ new.gone = {} /\ new.due = due /\ new.active BY <1>3, CountersFacts DEF JobType
<1> HIDE DEF new
<1>5. \A j \in Instances : job'[j] = IF j = i THEN new ELSE job[j] BY <1>1 DEF QueueInv, Typed
<1>6. Typed' BY <1>1, <1>4 DEF QueueInv, Typed
<1>7. \A j \in Instances : RunHonest(j)' BY <1>1, <1>3, <1>4, <1>5 DEF QueueInv, RunHonest, Typed
<1>8. ASSUME NEW m \in Notices PROVE CopiesCounted(m)'
  <2>1. Sent(m)' = Sent(m) BY <1>2, <1>4, <1>5 DEF Sent
  <2>2. m \notin DOMAIN rows => Coming(m)' = Coming(m) BY <1>2, <1>3, <1>4, <1>5 DEF Coming
  <2> QED BY <1>1, <2>1, <2>2 DEF QueueInv, CopiesCounted
<1> QED BY <1>6, <1>7, <1>8 DEF QueueInv

\* A notice that is sent moves from those to come to those sent.
LEMMA SucceedsInv ==
  ASSUME QueueInv, NEW i \in Instances, NEW n \in Notices, RetrySucceeds(i, n)
  PROVE  QueueInv'
<1> DEFINE new == [job[i] EXCEPT !.due = Without(@, n), !.gone = @ \cup {n}]
<1>1. /\ rows' = rows /\ missed' = missed /\ queued' = queued
      /\ losses' = losses /\ rolledBack' = rolledBack
      /\ n \in DOMAIN job[i].due
      /\ job' = [job EXCEPT ![i] = new]
  BY DEF RetrySucceeds, QueueInv, Typed, JobType
<1>2. job[i] \in JobType BY DEF QueueInv, Typed
<1>3. /\ new \in JobType /\ new.gone = job[i].gone \cup {n} /\ new.active = job[i].active
      /\ DOMAIN new.due = DOMAIN job[i].due \ {n}
  BY <1>2, CountersFacts DEF JobType
<1> HIDE DEF new
<1>4. \A j \in Instances : job'[j] = IF j = i THEN new ELSE job[j] BY <1>1 DEF QueueInv, Typed
<1>5. PICK lost \in Nat :
        /\ delivered' \in [Notices -> Nat] /\ unheard' \in [Notices -> Nat]
        /\ delivered'[n] = delivered[n] + 1 + lost /\ unheard'[n] = unheard[n] + lost
        /\ \A m \in Notices : m # n => delivered'[m] = delivered[m] /\ unheard'[m] = unheard[m]
  <2>1. PICK lost \in 0 .. Requests - 1 : Arrive(n, 1, lost) BY DEF RetrySucceeds
  <2>2. lost \in Nat BY <2>1, DeadLettersAssumption
  <2> QED BY <2>1, <2>2, ArriveFacts DEF QueueInv
<1> DEFINE type == /\ delivered \in [Notices -> Nat] /\ unheard \in [Notices -> Nat]
                   /\ \A m \in Notices : delivered[m] \in Nat /\ unheard[m] \in Nat
<1>9. type BY DEF QueueInv, Typed
<1>6. Typed' BY <1>1, <1>3, <1>5 DEF QueueInv, Typed
<1>7. ASSUME NEW j \in Instances PROVE RunHonest(j)'
  <2>1. RunHonest(j) /\ job[j].gone \subseteq Notices BY DEF QueueInv, Typed, JobType
  <2>2. \A m \in job[j].gone : delivered'[m] > 0 BY <1>5, <1>9, <2>1 DEF RunHonest
  <2>3. delivered'[n] > 0 BY <1>5, <1>9
  <2> QED BY <1>1, <1>3, <1>4, <2>1, <2>2, <2>3 DEF RunHonest
<1>8. ASSUME NEW m \in Notices PROVE CopiesCounted(m)'
  <2>1. CopiesCounted(m) /\ losses \in Nat /\ rolledBack \in Nat BY DEF QueueInv, Typed
  <2>2. CASE m = n
    <3>1. i \notin Sent(n) /\ i \in Coming(n) BY <1>1 DEF QueueInv, RunHonest, Sent, Coming
    <3>2. Sent(n)' = Sent(n) \cup {i} BY <1>3, <1>4 DEF Sent
    <3>3. Coming(n)' = Coming(n) \ {i} BY <1>3, <1>4 DEF Coming
    <3>4. Cardinality(Sent(n)') = Cardinality(Sent(n)) + 1
      BY <3>1, <3>2, RunsFinite, FS_AddElement
    <3>5. Cardinality(Coming(n)') = Cardinality(Coming(n)) - 1
      BY <3>1, <3>3, RunsFinite, FS_RemoveElement
    <3>6. n \in missed BY <1>1 DEF QueueInv, RunHonest
    <3> QED BY <1>1, <1>5, <1>9, <2>1, <2>2, <3>4, <3>5, <3>6, RunsFinite DEF CopiesCounted
  <2>3. CASE m # n
    <3>1. Sent(m)' = Sent(m) /\ Coming(m)' = Coming(m) BY <1>3, <1>4, <2>3 DEF Sent, Coming
    <3> QED BY <1>1, <1>5, <1>9, <2>1, <2>3, <3>1 DEF CopiesCounted
  <2> QED BY <2>2, <2>3
<1> QED BY <1>6, <1>7, <1>8 DEF QueueInv

\* A notice that fails again is no longer to come in this run, and arrived unheard at most.
LEMMA FailsAgainInv ==
  ASSUME QueueInv, NEW i \in Instances, NEW n \in Notices, RetryFails(i, n)
  PROVE  QueueInv'
<1> DEFINE bad == IF n \in DOMAIN rows
                    THEN [m \in DOMAIN job[i].bad \cup {n} |->
                            IF m = n THEN job[i].due[n] + 1 ELSE job[i].bad[m]]
                    ELSE job[i].bad
           new == [job[i] EXCEPT !.due = Without(@, n), !.bad = bad]
<1>1. /\ rows' = rows /\ missed' = missed /\ queued' = queued
      /\ losses' = losses /\ rolledBack' = rolledBack
      /\ n \in DOMAIN job[i].due
      /\ job' = [job EXCEPT ![i] = new]
  BY DEF RetryFails, QueueInv, Typed, JobType
<1>2. job[i] \in JobType BY DEF QueueInv, Typed
<1>3. bad \in Counters
  <2>1. job[i].bad \in Counters /\ job[i].due \in Counters BY <1>2 DEF JobType
  <2>2. PICK S \in SUBSET Notices : job[i].bad \in [S -> Nat] BY <2>1 DEF Counters
  <2>3. PICK T \in SUBSET Notices : job[i].due \in [T -> Nat] BY <2>1 DEF Counters
  <2>4. job[i].due[n] + 1 \in Nat BY <1>1, <2>3
  <2>5. [m \in DOMAIN job[i].bad \cup {n} |-> IF m = n THEN job[i].due[n] + 1 ELSE job[i].bad[m]]
          \in [S \cup {n} -> Nat]
    BY <2>2, <2>4
  <2>6. S \cup {n} \in SUBSET Notices OBVIOUS
  <2> QED BY <2>1, <2>5, <2>6 DEF Counters
<1> HIDE DEF bad
<1>4. /\ new \in JobType /\ new.gone = job[i].gone /\ new.active = job[i].active
      /\ DOMAIN new.due = DOMAIN job[i].due \ {n}
  BY <1>2, <1>3, CountersFacts DEF JobType
<1> HIDE DEF new
<1>5. \A j \in Instances : job'[j] = IF j = i THEN new ELSE job[j] BY <1>1 DEF QueueInv, Typed
<1>9. /\ delivered' \in [Notices -> Nat] /\ unheard' \in [Notices -> Nat]
      /\ \A m \in Notices : \E lost \in Nat :
           delivered'[m] = delivered[m] + lost /\ unheard'[m] = unheard[m] + lost
  <2>1. delivered \in [Notices -> Nat] /\ unheard \in [Notices -> Nat] BY DEF QueueInv, Typed
  <2>2. \A m \in Notices : delivered[m] = delivered[m] + 0 /\ unheard[m] = unheard[m] + 0 BY <2>1
  <2>3. CASE UNCHANGED arrivals BY <2>1, <2>2, <2>3 DEF arrivals
  <2>4. ASSUME NEW lost \in 0 .. Requests, Arrive(n, 0, lost)
        PROVE  /\ delivered' \in [Notices -> Nat] /\ unheard' \in [Notices -> Nat]
               /\ delivered'[n] = delivered[n] + lost /\ unheard'[n] = unheard[n] + lost
               /\ \A m \in Notices : m # n => delivered'[m] = delivered[m] /\ unheard'[m] = unheard[m]
    <3>1. lost \in Nat /\ delivered[n] \in Nat BY <2>1, <2>4, DeadLettersAssumption
    <3>2. delivered'[n] = delivered[n] + 0 + lost BY <2>4, <3>1, ArriveFacts DEF QueueInv
    <3> QED BY <2>4, <3>1, <3>2, ArriveFacts DEF QueueInv
  <2>5. \A lost \in 0 .. Requests : lost \in Nat BY DeadLettersAssumption
  <2>6. CASE \E lost \in 0 .. Requests : Arrive(n, 0, lost)
    <3>1. PICK lost \in 0 .. Requests : Arrive(n, 0, lost) BY <2>6
    <3> QED BY <2>2, <2>4, <2>5, <3>1
  <2> QED BY <2>3, <2>6 DEF RetryFails
<1>8. \A m \in Notices : m # n => delivered'[m] = delivered[m]
  <2>1. CASE UNCHANGED arrivals BY <2>1 DEF arrivals
  <2>2. ASSUME NEW lost \in 0 .. Requests, Arrive(n, 0, lost)
        PROVE  \A m \in Notices : m # n => delivered'[m] = delivered[m]
    BY <2>2, DeadLettersAssumption DEF Arrive, QueueInv, Typed
  <2> QED BY <2>1, <2>2 DEF RetryFails
<1>6. Typed' BY <1>1, <1>4, <1>9 DEF QueueInv, Typed
<1>7. ASSUME NEW j \in Instances PROVE RunHonest(j)'
  <2>1. RunHonest(j) /\ job[j].gone \subseteq Notices /\ delivered \in [Notices -> Nat]
    BY DEF QueueInv, Typed, JobType
  <2>2. \A m \in job[j].gone : delivered'[m] > 0 BY <1>9, <2>1 DEF RunHonest
  <2> QED BY <1>1, <1>4, <1>5, <2>1, <2>2 DEF RunHonest
<1>10. ASSUME NEW m \in Notices PROVE CopiesCounted(m)'
  <2>1. Sent(m)' = Sent(m) BY <1>4, <1>5 DEF Sent
  <2>2. Coming(m)' \in SUBSET Coming(m) BY <1>4, <1>5 DEF Coming
  <2>3. Cardinality(Coming(m)') <= Cardinality(Coming(m)) BY <2>2, RunsFinite, FS_Subset
  <2>4. Cardinality(Coming(m)') \in Nat BY <2>2, RunsFinite, FS_Subset, FS_CardinalityType
  <2>5. CopiesCounted(m) /\ delivered[m] \in Nat /\ unheard[m] \in Nat /\ losses \in Nat /\ rolledBack \in Nat BY DEF QueueInv, Typed
  <2>6. PICK lost \in Nat :
          delivered'[m] = delivered[m] + lost /\ unheard'[m] = unheard[m] + lost
    BY <1>9
  <2>7. n \in missed BY <1>1 DEF QueueInv, RunHonest
  <2>8. m \notin missed => delivered'[m] = 0
    <3>1. m \notin missed => m # n BY <2>7
    <3>2. m # n => delivered'[m] = delivered[m] BY <1>8
    <3> QED BY <2>5, <3>1, <3>2 DEF CopiesCounted
  <2> QED BY <1>1, <2>1, <2>3, <2>4, <2>5, <2>6, <2>8, RunsFinite DEF CopiesCounted
<1> QED BY <1>6, <1>7, <1>10 DEF QueueInv

\* A run that has ended remembers nothing.
LEMMA NoJobFacts == /\ NoJob \in JobType /\ ~NoJob.active
                    /\ DOMAIN NoJob.due = {} /\ NoJob.gone = {}
BY CountersFacts DEF NoJob, JobType

\* What a run has sent leaves the table; whoever else has sent it has nothing of it to come.
LEMMA CommitInv ==
  ASSUME QueueInv, NEW i \in Instances, CommitJob(i)
  PROVE  QueueInv'
<1>1. /\ delivered' = delivered /\ unheard' = unheard /\ missed' = missed /\ queued' = queued
      /\ losses' = losses /\ rolledBack' = rolledBack
      /\ job' = [job EXCEPT ![i] = NoJob]
      /\ rows' = Committed(i) /\ DOMAIN rows' = DOMAIN rows \ job[i].gone
      /\ DOMAIN job[i].due = {}
  BY CountersFacts DEF CommitJob, counts, arrivals, Committed
<1>2. \A j \in Instances : job'[j] = IF j = i THEN NoJob ELSE job[j] BY <1>1 DEF QueueInv, Typed
<1>3. Typed'
  <2>1. job[i].bad \in Counters BY DEF QueueInv, Typed, JobType
  <2>2. PICK S \in SUBSET Notices : job[i].bad \in [S -> Nat] BY <2>1 DEF Counters
  <2>3. \A n \in DOMAIN rows' : "tries" \in DOMAIN rows'[n] /\ rows'[n].tries \in Nat BY <1>1, <2>2 DEF Committed, QueueInv, Typed
  <2> QED BY <1>1, <2>3, NoJobFacts DEF QueueInv, Typed
<1>4. \A j \in Instances : RunHonest(j)' BY <1>1, <1>2, NoJobFacts DEF QueueInv, RunHonest
<1>5. ASSUME NEW m \in Notices PROVE CopiesCounted(m)'
  <2>1. Coming(m)' = Coming(m) BY <1>1, <1>2, NoJobFacts DEF Coming
  <2>2. CopiesCounted(m) /\ delivered[m] \in Nat /\ unheard[m] \in Nat /\ losses \in Nat /\ rolledBack \in Nat BY DEF QueueInv, Typed
  <2>3. CASE m \in DOMAIN rows /\ m \in job[i].gone
    <3>1. m \notin DOMAIN rows' BY <1>1, <2>3
    <3>2. Cardinality(Sent(m)) + Cardinality(Coming(m)) <= Cardinality(Instances)
      BY RunsApart DEF QueueInv
    <3> QED BY <1>1, <2>1, <2>2, <2>3, <3>1, <3>2, RunsFinite DEF CopiesCounted
  <2>4. CASE m \in DOMAIN rows /\ m \notin job[i].gone
    <3>1. Sent(m)' = Sent(m) BY <1>2, <2>4, NoJobFacts DEF Sent
    <3> QED BY <1>1, <2>2, <2>4, <3>1 DEF CopiesCounted
  <2>5. CASE m \notin DOMAIN rows BY <1>1, <2>1, <2>2, <2>5 DEF CopiesCounted
  <2> QED BY <2>3, <2>4, <2>5
<1> QED BY <1>3, <1>4, <1>5 DEF QueueInv

\* A run that is lost or rolled back pays for what it has sent.
LEMMA EndsInv ==
  ASSUME QueueInv, NEW i \in Instances, RollbackJob(i) \/ LoseJob(i)
  PROVE  QueueInv'
<1>1. /\ rows' = rows /\ delivered' = delivered /\ unheard' = unheard
      /\ missed' = missed /\ queued' = queued
      /\ job' = [job EXCEPT ![i] = NoJob]
      /\ losses' \in Nat /\ rolledBack' \in Nat
      /\ losses' + rolledBack' = losses + rolledBack + 1
  BY DEF RollbackJob, LoseJob, arrivals, QueueInv, Typed
<1>2. \A j \in Instances : job'[j] = IF j = i THEN NoJob ELSE job[j] BY <1>1 DEF QueueInv, Typed
<1>3. Typed' BY <1>1, NoJobFacts DEF QueueInv, Typed
<1>4. \A j \in Instances : RunHonest(j)' BY <1>1, <1>2, NoJobFacts DEF QueueInv, RunHonest
<1>5. ASSUME NEW m \in Notices PROVE CopiesCounted(m)'
  <2>1. Sent(m)' = Sent(m) \ {i} BY <1>2, NoJobFacts DEF Sent
  <2>2. /\ Cardinality(Sent(m)') \in Nat
        /\ Cardinality(Sent(m)) <= Cardinality(Sent(m)') + 1
    <3>1. Cardinality(Sent(m)') = IF i \in Sent(m) THEN Cardinality(Sent(m)) - 1
                                                   ELSE Cardinality(Sent(m))
      BY <2>1, RunsFinite, FS_RemoveElement
    <3>2. IsFiniteSet(Sent(m)') BY <2>1, RunsFinite, FS_RemoveElement
    <3>3. Cardinality(Sent(m)') \in Nat BY <3>2, FS_CardinalityType
    <3> QED BY <3>1, <3>3, RunsFinite
  <2>3. Coming(m)' \in SUBSET Coming(m) BY <1>2, NoJobFacts DEF Coming
  <2>4. /\ Cardinality(Coming(m)') <= Cardinality(Coming(m))
        /\ Cardinality(Coming(m)') \in Nat
    BY <2>3, RunsFinite, FS_Subset, FS_CardinalityType
  <2>5. CopiesCounted(m) /\ delivered[m] \in Nat /\ unheard[m] \in Nat /\ losses \in Nat /\ rolledBack \in Nat BY DEF QueueInv, Typed
  <2> QED BY <1>1, <2>2, <2>4, <2>5, RunsFinite DEF CopiesCounted
<1> QED BY <1>3, <1>4, <1>5 DEF QueueInv

\* The invariant is inductive.
LEMMA QueueInvStep == QueueInv /\ [QueueNext]_queueVars => QueueInv'
<1> SUFFICES ASSUME QueueInv, [QueueNext]_queueVars PROVE QueueInv'
  OBVIOUS
<1>1. ASSUME /\ job' = job /\ delivered' = delivered /\ unheard' = unheard
             /\ missed' = missed /\ queued' = queued /\ losses' = losses /\ rolledBack' = rolledBack /\ DOMAIN rows' = DOMAIN rows
             /\ \A n \in DOMAIN rows : "tries" \in DOMAIN rows'[n] /\ rows'[n].tries = rows[n].tries
      PROVE  QueueInv'
  BY <1>1 DEF QueueInv, Typed, RunHonest, CopiesCounted, Sent, Coming
<1>2. CASE Tick
  <2>1. DOMAIN rows' = DOMAIN rows BY <1>2 DEF Tick
  <2>2. ASSUME NEW n \in DOMAIN rows 
        PROVE  "tries" \in DOMAIN rows'[n] /\ rows'[n].tries = rows[n].tries
    BY <1>2 DEF Tick, QueueInv, Typed
  <2> QED BY <1>1, <1>2, <2>1, <2>2 DEF Tick, counts, arrivals
<1>3. CASE UNCHANGED queueVars BY <1>1, <1>3 DEF queueVars, QueueInv, Typed
<1> QED BY <1>2, <1>3, FailsInv, StartInv, SucceedsInv, FailsAgainInv, CommitInv, EndsInv DEF QueueNext

-----------------------------------------------------------------------------
\* A notice arrives once per instance at most, and once more for every job that was lost
\* or rolled back after sending it and for every request of a sending that was not answered.
THEOREM Deliveries == QueueSpec => []DeliveredOnce
<1>1. QueueInv => DeliveredOnce
  <2> SUFFICES ASSUME QueueInv, NEW n \in Notices
               PROVE  delivered[n] <= Cardinality(Instances) + losses + rolledBack + unheard[n]
    BY DEF DeliveredOnce
  <2>1. CopiesCounted(n) /\ delivered[n] \in Nat /\ unheard[n] \in Nat /\ losses \in Nat /\ rolledBack \in Nat BY DEF QueueInv, Typed
  <2> QED BY <2>1, RunsFinite DEF CopiesCounted
<1> QED BY <1>1, QueueInvInit, QueueInvStep, PTL DEF QueueSpec

\* What is put into the queue does not vanish: it is in the table or has arrived, for a run
\* deletes only what it has sent.
THEOREM Vanishing == QueueSpec => []QueuedIsKept
<1>1. QueueInit => QueuedIsKept BY DEF QueueInit, QueuedIsKept
<1>2. QueueInv /\ QueuedIsKept /\ [QueueNext]_queueVars => QueuedIsKept'
  <2> SUFFICES ASSUME QueueInv, QueuedIsKept, [QueueNext]_queueVars, NEW n \in queued'
               PROVE  n \in DOMAIN rows' \/ delivered'[n] > 0
    BY DEF QueuedIsKept
  <2>1. ASSUME queued' = queued, DOMAIN rows' = DOMAIN rows,
               \A k \in Notices : delivered'[k] >= delivered[k]
        PROVE  n \in DOMAIN rows' \/ delivered'[n] > 0
    <3>1. n \in Notices /\ delivered[n] \in Nat BY <2>1 DEF QueueInv, Typed
    <3>2. delivered'[n] \in Nat BY QueueInvStep DEF QueueInv, Typed
    <3> QED BY <2>1, <3>1, <3>2 DEF QueuedIsKept
  <2>2. ASSUME delivered' = delivered PROVE \A k \in Notices : delivered'[k] >= delivered[k]
    BY <2>2 DEF QueueInv, Typed
  <2>3. ASSUME NEW m \in Notices, NEW heard \in {0, 1}, NEW lost \in Nat, Arrive(m, heard, lost)
        PROVE  \A k \in Notices : delivered'[k] >= delivered[k]
    <3>1. \A k \in Notices : delivered[k] \in Nat BY DEF QueueInv, Typed
    <3>2. heard \in Nat BY <2>3
    <3>3. /\ delivered'[m] = delivered[m] + heard + lost
          /\ \A k \in Notices : k # m => delivered'[k] = delivered[k]
      BY <2>3, <3>2, ArriveFacts DEF QueueInv
    <3> QED BY <3>1, <3>2, <3>3
  <2>4. \A k \in 0 .. Requests : k \in Nat BY DeadLettersAssumption
  <2>5. ASSUME NEW m \in Notices, SendSafeFails(m) PROVE n \in DOMAIN rows' \/ delivered'[n] > 0
    <3>1. \A k \in Notices : delivered'[k] >= delivered[k]
      <4>1. UNCHANGED arrivals \/ \E lost \in 0 .. Requests : Arrive(m, 0, lost)
        <5>1. \A lost \in 1 .. Requests : lost \in 0 .. Requests BY DeadLettersAssumption
        <5> QED BY <2>5, <5>1 DEF SendSafeFails
      <4> QED BY <2>2, <2>3, <2>4, <4>1 DEF arrivals
    <3>2. n \in queued \/ n \in DOMAIN rows' BY <2>5 DEF SendSafeFails
    <3>3. DOMAIN rows \subseteq DOMAIN rows' BY <2>5 DEF SendSafeFails
    <3>4. n \in Notices /\ delivered[n] \in Nat /\ delivered'[n] \in Nat
      BY QueueInvStep DEF QueueInv, Typed
    <3> QED BY <3>1, <3>2, <3>3, <3>4 DEF QueuedIsKept
  <2>6. ASSUME NEW i \in Instances, StartJob(i) \/ RollbackJob(i) \/ LoseJob(i)
        PROVE  n \in DOMAIN rows' \/ delivered'[n] > 0
    BY <2>1, <2>2, <2>6 DEF StartJob, RollbackJob, LoseJob, arrivals
  <2>7. ASSUME NEW i \in Instances, CommitJob(i) PROVE n \in DOMAIN rows' \/ delivered'[n] > 0
    <3>1. DOMAIN rows' = DOMAIN rows \ job[i].gone /\ delivered' = delivered /\ queued' = queued
      BY <2>7 DEF CommitJob, Committed, arrivals
    <3> QED BY <3>1 DEF QueueInv, RunHonest, QueuedIsKept
  <2>8. ASSUME NEW i \in Instances, NEW m \in Notices, RetrySucceeds(i, m)
        PROVE  n \in DOMAIN rows' \/ delivered'[n] > 0
    <3>1. PICK lost \in 0 .. Requests - 1 : Arrive(m, 1, lost) BY <2>8 DEF RetrySucceeds
    <3>2. lost \in Nat BY <3>1, DeadLettersAssumption
    <3>3. \A k \in Notices : delivered'[k] >= delivered[k] BY <2>3, <3>1, <3>2
    <3> QED BY <2>1, <2>8, <3>3 DEF RetrySucceeds
  <2>9. ASSUME NEW i \in Instances, NEW m \in Notices, RetryFails(i, m)
        PROVE  n \in DOMAIN rows' \/ delivered'[n] > 0
    <3>1. UNCHANGED arrivals \/ \E lost \in 0 .. Requests : Arrive(m, 0, lost)
      BY <2>9 DEF RetryFails
    <3>2. \A k \in Notices : delivered'[k] >= delivered[k] BY <2>2, <2>3, <2>4, <3>1 DEF arrivals
    <3> QED BY <2>1, <2>9, <3>2 DEF RetryFails
  <2>10. CASE Tick BY <2>1, <2>2, <2>10 DEF Tick, arrivals
  <2>11. CASE UNCHANGED queueVars BY <2>1, <2>2, <2>11 DEF queueVars
  <2> QED BY <2>5, <2>6, <2>7, <2>8, <2>9, <2>10, <2>11 DEF QueueNext
<1> QED BY <1>1, <1>2, QueueInvInit, QueueInvStep, PTL DEF QueueSpec

-----------------------------------------------------------------------------
(* Recursion: the library's theorems about it take an operator as a        *)
(* parameter, so what is needed here is stated about sets and functions.   *)

\* Induction up to N: the least number outside S would have its predecessor in S.
LEMMA SetInduction ==
  ASSUME NEW S, NEW N \in Nat, 0 \in S, \A n \in 0 .. N - 1 : n \in S => n + 1 \in S
  PROVE  0 .. N \subseteq S
<1> DEFINE T == (0 .. N) \ S
<1> SUFFICES ASSUME T # {} PROVE FALSE OBVIOUS
<1>1. T \subseteq Nat OBVIOUS
<1> HIDE DEF T
<1>2. PICK m \in T : \A k \in T : <<k, m>> \notin OpToRel(<, Nat)
  BY <1>1, WFMin, NatLessThanWellFounded
<1>3. \A k \in T : ~(k < m) BY <1>1, <1>2 DEF OpToRel
<1>4. m \in 0 .. N /\ m \notin S BY DEF T
<1>5. m # 0 BY <1>4
<1>6. m - 1 \in 0 .. N - 1 /\ m - 1 \in 0 .. N /\ m - 1 < m BY <1>4, <1>5
<1>7. m - 1 \in S BY <1>3, <1>6 DEF T
<1> QED BY <1>4, <1>6, <1>7

\* The powers of two that the pauses are multiples of exist and are numbers.
LEMMA DoubledType == \A n \in 0 .. MaxRetries : Doubled[n] \in Nat
<1> DEFINE N == MaxRetries
           Upto(g, n) == g \in [0 .. n -> Nat] /\ g[0] = 1 /\ \A k \in 1 .. n : g[k] = 2 * g[k - 1]
           S == {n \in 0 .. N : \E g : Upto(g, n)}
           W == {n \in 0 .. N : Doubled[n] \in Nat}
<1>1. N \in Nat BY DeadLettersAssumption
<1>2. 0 \in S
  <2>1. Upto([k \in 0 .. 0 |-> 1], 0) OBVIOUS
  <2> HIDE DEF Upto
  <2> QED BY <1>1, <2>1
<1>3. ASSUME NEW n \in 0 .. N - 1, n \in S PROVE n + 1 \in S
  <2>1. PICK g : Upto(g, n) BY <1>3
  <2> DEFINE h == [k \in 0 .. n + 1 |-> IF k = n + 1 THEN 2 * g[n] ELSE g[k]]
  <2>2. n + 1 \in 0 .. N /\ n \in 0 .. n /\ n \in Nat BY <1>1
  <2>3. h \in [0 .. n + 1 -> Nat] /\ h[0] = 1 BY <2>1, <2>2
  <2>4. ASSUME NEW k \in 1 .. n + 1 PROVE h[k] = 2 * h[k - 1]
    <3>1. k - 1 \in 0 .. n /\ k \in 0 .. n + 1 BY <2>2
    <3>2. h[k - 1] = g[k - 1] BY <2>2, <3>1
    <3>3. CASE k = n + 1 BY <2>2, <3>1, <3>2, <3>3
    <3>4. CASE k # n + 1 BY <2>1, <2>2, <3>1, <3>2, <3>4
    <3> QED BY <3>3, <3>4
  <2>5. Upto(h, n + 1) BY <2>3, <2>4
  <2> HIDE DEF h, Upto
  <2> QED BY <2>2, <2>5
<1>4. PICK g : Upto(g, N)
  <2> HIDE DEF S, N
  <2>1. N \in S BY <1>1, <1>2, <1>3, SetInduction
  <2> QED BY <2>1 DEF S
<1>5. Doubled = [n \in 0 .. N |-> IF n = 0 THEN 1 ELSE 2 * Doubled[n - 1]]
  <2>1. g = [n \in 0 .. N |-> IF n = 0 THEN 1 ELSE 2 * g[n - 1]]
    <3>1. \A n \in 0 .. N : n # 0 => n \in 1 .. N BY <1>1
    <3> HIDE DEF N
    <3> QED BY <1>4, <3>1
  <2> QED BY <2>1 DEF Doubled
<1>6. 0 \in W BY <1>1, <1>5
<1>7. ASSUME NEW n \in 0 .. N - 1, n \in W PROVE n + 1 \in W
  <2>1. n + 1 \in 0 .. N /\ n + 1 # 0 /\ n + 1 - 1 = n BY <1>1
  <2>2. Doubled[n + 1] = 2 * Doubled[n]
    <3>1. \A k \in 0 .. N : k # 0 => Doubled[k] = 2 * Doubled[k - 1] BY <1>5
    <3> QED BY <2>1, <3>1
  <2> QED BY <1>7, <2>1, <2>2
<1> HIDE DEF W, N
<1>8. 0 .. N \subseteq W BY <1>1, <1>6, <1>7, SetInduction
<1> QED BY <1>8 DEF W, N

-----------------------------------------------------------------------------
(* The types of rows and counters. *)

\* Rows and what runs remember of them keep to the retries there are: a run reads rows that
\* have one left, and counts one more.
Bounded ==
  /\ \A n \in DOMAIN rows : rows[n] \in [tries : 0 .. MaxRetries, wait : Nat]
  /\ \A i \in Instances : /\ \A n \in DOMAIN job[i].due : job[i].due[n] \in 0 .. MaxRetries - 1
                          /\ \A n \in DOMAIN job[i].bad : job[i].bad[n] \in 1 .. MaxRetries
  /\ losses \in 0 .. MaxLosses /\ outage \in 0 .. MaxOutage

\* A pause of the right length for every failure that is counted.
LEMMA BackoffType == \A tries \in 1 .. MaxRetries : Backoff(tries) \in Nat
<1> SUFFICES ASSUME NEW tries \in 1 .. MaxRetries PROVE Backoff(tries) \in Nat OBVIOUS
<1>1. MaxRetries \in Nat /\ Delay \in Nat BY DeadLettersAssumption
<1>2. tries - 1 \in 0 .. MaxRetries BY <1>1
<1>3. Doubled[tries - 1] \in Nat BY <1>2, DoubledType
<1>4. \A a, b \in Nat : a * b \in Nat OBVIOUS
<1> QED BY <1>1, <1>3, <1>4 DEF Backoff

\* A sending counts as one failure of the homeserver at most.
LEMMA ArriveBounded ==
  ASSUME outage \in 0 .. MaxOutage, NEW n, NEW heard, NEW lost, Arrive(n, heard, lost)
  PROVE  outage' \in 0 .. MaxOutage
BY DeadLettersAssumption DEF Arrive

LEMMA BoundedStep == ASSUME QueueInv, Bounded, [QueueNext]_queueVars PROVE Bounded'
<1>1. /\ MaxRetries \in Nat \ {0} /\ Delay \in Nat /\ MaxLosses \in Nat /\ MaxOutage \in Nat
      /\ job \in [Instances -> JobType]
  BY DeadLettersAssumption DEF QueueInv, Typed
<1>2. ASSUME NEW n \in Notices, SendSafeFails(n) PROVE Bounded'
  <2>1. UNCHANGED <<job, losses>> BY <1>2 DEF SendSafeFails
  <2>3. outage' \in 0 .. MaxOutage BY <1>2, ArriveBounded DEF SendSafeFails, Bounded
  <2>2. \A m \in DOMAIN rows' :
          \/ rows'[m] = rows[m] /\ m \in DOMAIN rows
          \/ rows'[m] = [tries |-> 0, wait |-> Delay]
    BY <1>2 DEF SendSafeFails
  <2> QED BY <1>1, <2>1, <2>2, <2>3 DEF Bounded
<1>3. ASSUME NEW i \in Instances, StartJob(i) PROVE Bounded'
  <2> DEFINE due == [n \in {m \in DOMAIN rows : Due(m)} |-> rows[n].tries]
  <2>1. /\ UNCHANGED <<rows, losses, outage>>
        /\ job' = [job EXCEPT ![i] = [active |-> TRUE, gone |-> {}, bad |-> Empty, due |-> due]]
    BY <1>3 DEF StartJob, counts
  <2>2. \A n \in DOMAIN due : due[n] \in 0 .. MaxRetries - 1 BY <1>1 DEF Due, Bounded
  <2> HIDE DEF due
  <2>3. ASSUME NEW j \in Instances
        PROVE  /\ \A n \in DOMAIN job'[j].due : job'[j].due[n] \in 0 .. MaxRetries - 1
               /\ \A n \in DOMAIN job'[j].bad : job'[j].bad[n] \in 1 .. MaxRetries
    <3>1. CASE j = i
      <4>1. job'[i].due = due /\ job'[i].bad = Empty BY <1>1, <2>1
      <4> QED BY <2>2, <3>1, <4>1, CountersFacts
    <3>2. CASE j # i BY <1>1, <2>1, <3>2 DEF Bounded
    <3> QED BY <3>1, <3>2
  <2> QED BY <2>1, <2>3 DEF Bounded
<1>4. ASSUME NEW i \in Instances, NEW n \in Notices, RetrySucceeds(i, n) PROVE Bounded'
  <2>1. /\ UNCHANGED <<rows, losses>> /\ n \in DOMAIN job[i].due
        /\ job' = [job EXCEPT ![i] = [job[i] EXCEPT !.due = Without(@, n), !.gone = @ \cup {n}]]
    BY <1>1, <1>4 DEF RetrySucceeds, JobType
  <2>5. outage' \in 0 .. MaxOutage BY <1>4, ArriveBounded DEF RetrySucceeds, Bounded
  <2>2. job'[i].due = Without(job[i].due, n) /\ job'[i].bad = job[i].bad
    BY <1>1, <2>1 DEF JobType
  <2>3. \A m \in DOMAIN Without(job[i].due, n) :
          m \in DOMAIN job[i].due /\ Without(job[i].due, n)[m] = job[i].due[m]
    BY DEF Without
  <2>4. \A j \in Instances : j # i => job'[j] = job[j] BY <1>1, <2>1
  <2> QED BY <2>1, <2>2, <2>3, <2>4, <2>5 DEF Bounded
<1>5. ASSUME NEW i \in Instances, NEW n \in Notices, RetryFails(i, n) PROVE Bounded'
  <2> DEFINE bad == IF n \in DOMAIN rows
                      THEN [m \in DOMAIN job[i].bad \cup {n} |->
                              IF m = n THEN job[i].due[n] + 1 ELSE job[i].bad[m]]
                      ELSE job[i].bad
  <2>1. /\ UNCHANGED <<rows, losses>> /\ n \in DOMAIN job[i].due
        /\ job' = [job EXCEPT ![i] = [job[i] EXCEPT !.due = Without(@, n), !.bad = bad]]
    BY <1>1, <1>5 DEF RetryFails, JobType
  <2>2. job[i].due[n] \in 0 .. MaxRetries - 1 /\ \A m \in DOMAIN job[i].bad : job[i].bad[m] \in 1 .. MaxRetries
    BY <2>1 DEF Bounded
  <2>3. job[i].due[n] + 1 \in 1 .. MaxRetries BY <1>1, <2>2
  <2>4. \A m \in DOMAIN bad : bad[m] \in 1 .. MaxRetries BY <2>2, <2>3
  <2> HIDE DEF bad
  <2>5. job'[i].due = Without(job[i].due, n) /\ job'[i].bad = bad
    BY <1>1, <2>1 DEF JobType
  <2>6. \A m \in DOMAIN Without(job[i].due, n) :
          m \in DOMAIN job[i].due /\ Without(job[i].due, n)[m] = job[i].due[m]
    BY DEF Without
  <2>7. \A j \in Instances : j # i => job'[j] = job[j] BY <1>1, <2>1
  <2>8. outage' \in 0 .. MaxOutage BY <1>5, ArriveBounded DEF RetryFails, Bounded
  <2> QED BY <2>1, <2>4, <2>5, <2>6, <2>7, <2>8 DEF Bounded
<1>6. ASSUME NEW i \in Instances, job' = [job EXCEPT ![i] = NoJob]
      PROVE  \A j \in Instances :
               /\ \A n \in DOMAIN job'[j].due : job'[j].due[n] \in 0 .. MaxRetries - 1
               /\ \A n \in DOMAIN job'[j].bad : job'[j].bad[n] \in 1 .. MaxRetries
  <2>1. NoJob.due = Empty /\ NoJob.bad = Empty BY DEF NoJob
  <2>2. \A j \in Instances : job'[j] = IF j = i THEN NoJob ELSE job[j] BY <1>1, <1>6
  <2> QED BY <2>1, <2>2, CountersFacts DEF Bounded
<1>7. ASSUME NEW i \in Instances, CommitJob(i) PROVE Bounded'
  <2>1. rows' = Committed(i) /\ job' = [job EXCEPT ![i] = NoJob] /\ UNCHANGED <<losses, outage>>
    BY <1>7 DEF CommitJob, counts
  <2>2. ASSUME NEW n \in DOMAIN rows' PROVE rows'[n] \in [tries : 0 .. MaxRetries, wait : Nat]
    <3>1. n \in DOMAIN rows
          /\ rows'[n] = IF n \in DOMAIN job[i].bad
                          THEN [tries |-> job[i].bad[n], wait |-> Backoff(job[i].bad[n])] ELSE rows[n]
      BY <2>1, <2>2 DEF Committed
    <3>2. n \in DOMAIN job[i].bad => job[i].bad[n] \in 1 .. MaxRetries /\ job[i].bad[n] \in 0 .. MaxRetries
      BY <1>1 DEF Bounded
    <3> QED BY <3>1, <3>2, BackoffType DEF Bounded
  <2> QED BY <1>6, <2>1, <2>2 DEF Bounded
<1>8. ASSUME NEW i \in Instances, RollbackJob(i) \/ LoseJob(i) PROVE Bounded'
  <2>1. rows' = rows /\ outage' = outage /\ job' = [job EXCEPT ![i] = NoJob]
    BY <1>8 DEF RollbackJob, LoseJob
  <2>2. losses' \in 0 .. MaxLosses
    <3>1. losses \in 0 .. MaxLosses BY DEF Bounded
    <3> QED BY <1>1, <1>8, <3>1 DEF RollbackJob, LoseJob
  <2> QED BY <1>6, <2>1, <2>2 DEF Bounded
<1>9. CASE Tick
  <2>1. UNCHANGED <<job, losses, outage>> BY <1>9 DEF Tick, counts
  <2>2. rows' = [n \in DOMAIN rows |-> [rows[n] EXCEPT !.wait = IF @ > 0 THEN @ - 1 ELSE 0]]
    BY <1>9 DEF Tick
  <2>3. ASSUME NEW n \in DOMAIN rows' PROVE rows'[n] \in [tries : 0 .. MaxRetries, wait : Nat]
    <3>1. rows[n] \in [tries : 0 .. MaxRetries, wait : Nat] BY <2>2, <2>3 DEF Bounded
    <3>2. rows'[n] = [rows[n] EXCEPT !.wait = IF @ > 0 THEN @ - 1 ELSE 0] BY <2>2, <2>3
    <3> QED BY <3>1, <3>2
  <2> QED BY <2>1, <2>3 DEF Bounded
<1>10. CASE UNCHANGED queueVars BY <1>10 DEF queueVars, Bounded
<1> QED BY <1>2, <1>3, <1>4, <1>5, <1>7, <1>8, <1>9, <1>10 DEF QueueNext

-----------------------------------------------------------------------------
\* Types: a retry counts to the limit at most, and its pause is a number of ticks.
THEOREM QueueTypeCorrect == QueueSpec => []QueueTypeOK
<1>1. QueueInit => Bounded
  <2> SUFFICES ASSUME QueueInit PROVE Bounded OBVIOUS
  <2>1. DOMAIN rows = {} /\ losses = 0 /\ outage = 0 BY CountersFacts DEF QueueInit
  <2>2. \A i \in Instances : job[i].due = Empty /\ job[i].bad = Empty BY DEF QueueInit, NoJob
  <2> QED BY <2>1, <2>2, CountersFacts, DeadLettersAssumption DEF Bounded
<1>2. QueueInv /\ Bounded => QueueTypeOK
  <2> SUFFICES ASSUME QueueInv, Bounded PROVE QueueTypeOK OBVIOUS
  <2>1. ASSUME NEW i \in Instances
        PROVE  /\ DOMAIN job[i].due \cup job[i].gone \cup DOMAIN job[i].bad \subseteq Notices
               /\ job[i].active \in BOOLEAN
    <3>1. job[i] \in JobType BY DEF QueueInv, Typed
    <3>2. \A f \in Counters : DOMAIN f \subseteq Notices BY DEF Counters
    <3> QED BY <3>1, <3>2 DEF JobType
  <2>2. \A n \in DOMAIN rows : rows[n].tries \in 0 .. MaxRetries /\ rows[n].wait \in Nat
    BY DEF Bounded
  <2> QED BY <2>1, <2>2 DEF QueueTypeOK, QueueInv, Typed, Bounded
<1> QED BY <1>1, <1>2, QueueInvInit, QueueInvStep, BoundedStep, PTL DEF QueueSpec
===============================================================================
