----------------------------- MODULE Races_proofs -----------------------------
(***************************************************************************)
(* Proofs about the two components whose processes race to create what     *)
(* they share: VectorStorer (the collection), for any number of workers    *)
(* and tasks, any vector sizes and any bounds on retries and faults, and   *)
(* Startup (the tables and the work queue), for any number of servers,     *)
(* workers and messages and any bounds on starts, attempts and faults.     *)
(*                                                                         *)
(* VectorStorer is extended, Startup is the instance Launch, whose         *)
(* assumptions are therefore hypotheses of its lemmas and theorems.  The   *)
(* variables of the two are not related: where both have one of the same   *)
(* name (at, faults), each theorem is about one specification's use of it. *)
(***************************************************************************)
EXTENDS VectorStorer, TLAPS

-----------------------------------------------------------------------------
(* Types                                                                   *)

\* What Release changes keeps its type.
LEMMA ReleaseType ==
  ASSUME TypeOK, NEW t \in Tasks, Release(t)
  PROVE  lock' \in [Workers -> Tasks \cup {NoTask}]
  BY DEF TypeOK, Release

\* So does what Raises changes.
LEMMA RaisesType ==
  ASSUME TypeOK, NEW t \in Tasks, Raises(t)
  PROVE  /\ lock' \in [Workers -> Tasks \cup {NoTask}]
         /\ again' \in [Tasks -> BOOLEAN]
         /\ pc' \in [Tasks -> Stages]
         /\ retry' \in [Tasks -> 0..MaxRetries]
<1>1. lock' \in [Workers -> Tasks \cup {NoTask}]
  BY ReleaseType DEF Raises
<1>2. again' \in [Tasks -> BOOLEAN]
  BY DEF TypeOK, Raises
<1>3. pc' \in [Tasks -> Stages]
  BY DEF TypeOK, Raises, Stages
<1>4. retry' \in [Tasks -> 0..MaxRetries]
  BY BoundsAssumption DEF TypeOK, Raises
<1>5. QED
  BY <1>1, <1>2, <1>3, <1>4

\* The initial states have the types.
LEMMA InitTypes == Init => TypeOK
<1> SUFFICES ASSUME Init PROVE TypeOK
  OBVIOUS
<1>1. isDefault \in BOOLEAN
  BY Zenon DEF Init
<1>2. pc \in [Tasks -> Stages] /\ retry \in [Tasks -> 0..MaxRetries] /\ faults \in 0..MaxFaults
  BY BoundsAssumption DEF Init, Stages
<1>3. /\ up \in [Workers -> {"starting", "creating", "consuming"}]
      /\ cache \in [Workers -> BOOLEAN]
      /\ lock \in [Workers -> Tasks \cup {NoTask}]
      /\ again \in [Tasks -> BOOLEAN]
  BY DEF Init
<1>4. coll \in Sizes \cup {0, DefaultSize} /\ points \subseteq Tasks /\ dropped \in BOOLEAN
  BY DEF Init
<1>5. size \in [Tasks -> Sizes] /\ at \in [Tasks -> Workers]
  BY DEF Init
<1>6. QED
  BY <1>1, <1>2, <1>3, <1>4, <1>5 DEF TypeOK

\* Every step keeps the types.
LEMMA TypeStep ==
  ASSUME TypeOK, [Next]_vars
  PROVE  TypeOK'
<1> USE BoundsAssumption, SizesAssumption DEF TypeOK, Stages, InLock
<1>1. ASSUME NEW w \in Workers, Initialize(w) PROVE TypeOK'
  BY <1>1 DEF Initialize
<1>2. ASSUME NEW w \in Workers, InitializeCreates(w) PROVE TypeOK'
  BY <1>2 DEF InitializeCreates
<1>3. ASSUME NEW w \in Workers, WorkerDies(w) PROVE TypeOK'
  BY <1>3 DEF WorkerDies, Fault
<1>4. ASSUME NEW t \in Tasks, NEW w \in Workers, Deliver(t, w) PROVE TypeOK'
  BY <1>4 DEF Deliver, Goes
<1>5. ASSUME NEW t \in Tasks, Ensure(t) PROVE TypeOK'
  BY <1>5 DEF Ensure, Goes, Cached, Ensured
<1>6. ASSUME NEW t \in Tasks, EnsureLocked(t) PROVE TypeOK'
  BY <1>6 DEF EnsureLocked, Goes, Cached, Ensured, Acquire
<1>7. ASSUME NEW t \in Tasks, CheckExists(t) PROVE TypeOK'
  <2>1. CASE coll # 0
    BY <1>7, <2>1, ReleaseType DEF CheckExists, Goes, CacheSet, Ensured
  <2>2. CASE coll = 0
    BY <1>7, <2>2 DEF CheckExists, Goes
  <2>3. QED
    BY <2>1, <2>2
<1>8. ASSUME NEW t \in Tasks, Create(t) PROVE TypeOK'
  BY <1>8 DEF Create, Goes, CacheSet, Release, Ensured
<1>9. ASSUME NEW t \in Tasks, Upsert(t) PROVE TypeOK'
  BY <1>9 DEF Upsert, Goes, CacheSet
<1>10. ASSUME NEW t \in Tasks, UpsertAgain(t) PROVE TypeOK'
  <2>1. CASE coll = size[t]
    BY <1>10, <2>1 DEF UpsertAgain
  <2>2. CASE coll # size[t]
    BY <1>10, <2>2, RaisesType DEF UpsertAgain
  <2>3. QED
    BY <2>1, <2>2
<1>11. ASSUME NEW t \in Tasks, Relock(t) PROVE TypeOK'
  BY <1>11 DEF Relock, Goes, Acquire
<1>12. ASSUME NEW t \in Tasks, Delete(t) PROVE TypeOK'
  BY <1>12 DEF Delete, Goes, Fault
<1>13. ASSUME NEW t \in Tasks, Recreate(t) PROVE TypeOK'
  <2>1. CASE coll = 0
    <3>1. coll' = size[t] /\ CacheSet(t, TRUE) /\ Release(t)
      BY <1>13, <2>1 DEF Recreate
    <3>2. pc' = [pc EXCEPT ![t] = "upserting_again"] /\ UNCHANGED <<again, retry>>
      BY <1>13, <2>1 DEF Recreate
    <3>3. QED
      BY <1>13, <3>1, <3>2, ReleaseType DEF Recreate, CacheSet
  <2>2. CASE coll # 0
    BY <1>13, <2>2, RaisesType DEF Recreate
  <2>3. QED
    BY <2>1, <2>2
<1>14. ASSUME NEW t \in Tasks, CallFails(t) PROVE TypeOK'
  BY <1>14 DEF CallFails, Fault, Calling, Raises, Release
<1>15. CASE Dropped
  BY <1>15 DEF Dropped, Fault
<1>16. CASE UNCHANGED vars
  BY <1>16 DEF vars
<1>17. QED
  BY <1>1, <1>2, <1>3, <1>4, <1>5, <1>6, <1>7, <1>8, <1>9, <1>10, <1>11, <1>12, <1>13, <1>14, <1>15, <1>16 DEF Next, Start, Run

\* The types hold throughout.
THEOREM TypeCorrect == Spec => []TypeOK
  BY InitTypes, TypeStep, PTL DEF Spec

-----------------------------------------------------------------------------
(* The lock                                                                *)

\* A worker's lock is held by a task that was delivered to it and is between
\* acquiring and releasing it, and by no other.
LockHeld ==
  \A w \in Workers, t \in Tasks :
    lock[w] = t <=> at[t] = w /\ pc[t] \in InLock

\* Every step preserves it; steps that raise release the lock.
LEMMA LockStep ==
  ASSUME TypeOK, LockHeld, [Next]_vars
  PROVE  LockHeld'
<1> USE NoTaskAssumption DEF TypeOK, LockHeld, InLock, Stages
<1>1. ASSUME NEW w \in Workers, Initialize(w) PROVE LockHeld'
  BY <1>1 DEF Initialize
<1>2. ASSUME NEW w \in Workers, InitializeCreates(w) PROVE LockHeld'
  BY <1>2 DEF InitializeCreates
<1>3. ASSUME NEW w \in Workers, WorkerDies(w) PROVE LockHeld'
  <2> SUFFICES ASSUME NEW v \in Workers, NEW t \in Tasks
              PROVE  lock'[v] = t <=> at'[t] = v /\ pc'[t] \in InLock
    BY DEF LockHeld
  <2>1. CASE at[t] = w
    BY <1>3, <2>1 DEF WorkerDies
  <2>2. CASE at[t] # w
    BY <1>3, <2>2 DEF WorkerDies
  <2>3. QED
    BY <2>1, <2>2
<1>4. ASSUME NEW t \in Tasks, NEW w \in Workers, Deliver(t, w) PROVE LockHeld'
  BY <1>4 DEF Deliver, Goes
<1>5. ASSUME NEW t \in Tasks, Ensure(t) PROVE LockHeld'
  BY <1>5 DEF Ensure, Goes, Cached, Ensured
<1>6. ASSUME NEW t \in Tasks, EnsureLocked(t) PROVE LockHeld'
  BY <1>6 DEF EnsureLocked, Goes, Cached, Ensured, Acquire
<1>7. ASSUME NEW t \in Tasks, CheckExists(t) PROVE LockHeld'
  BY <1>7 DEF CheckExists, Goes, CacheSet, Release, Ensured
<1>8. ASSUME NEW t \in Tasks, Create(t) PROVE LockHeld'
  BY <1>8 DEF Create, Goes, CacheSet, Release, Ensured
<1>9. ASSUME NEW t \in Tasks, Upsert(t) PROVE LockHeld'
  BY <1>9 DEF Upsert, Goes, CacheSet
<1>10. ASSUME NEW t \in Tasks, UpsertAgain(t) PROVE LockHeld'
  BY <1>10 DEF UpsertAgain, Raises, Release
<1>11. ASSUME NEW t \in Tasks, Relock(t) PROVE LockHeld'
  BY <1>11 DEF Relock, Goes, Acquire
<1>12. ASSUME NEW t \in Tasks, Delete(t) PROVE LockHeld'
  BY <1>12 DEF Delete, Goes, Fault
<1>13. ASSUME NEW t \in Tasks, Recreate(t) PROVE LockHeld'
  BY <1>13 DEF Recreate, CacheSet, Release, Raises
<1>14. ASSUME NEW t \in Tasks, CallFails(t) PROVE LockHeld'
  BY <1>14 DEF CallFails, Fault, Calling, Raises, Release
<1>15. CASE Dropped
  BY <1>15 DEF Dropped, Fault
<1>16. CASE UNCHANGED vars
  BY <1>16 DEF vars
<1>17. QED
  BY <1>1, <1>2, <1>3, <1>4, <1>5, <1>6, <1>7, <1>8, <1>9, <1>10, <1>11, <1>12, <1>13, <1>14, <1>15, <1>16 DEF Next, Start, Run

\* Only the holder of a worker's lock is in its critical section.
THEOREM LockAlwaysExcludes == Spec => []LockExcludes
<1>1. Init => TypeOK /\ LockHeld
  BY InitTypes, NoTaskAssumption DEF Init, LockHeld, InLock
<1>2. TypeOK /\ LockHeld /\ [Next]_vars => TypeOK' /\ LockHeld'
  BY TypeStep, LockStep
<1>3. TypeOK /\ LockHeld => LockExcludes
  BY DEF TypeOK, LockHeld, LockExcludes
<1>4. QED
  BY <1>1, <1>2, <1>3, PTL DEF Spec

-----------------------------------------------------------------------------
(* Where the sizes agree                                                   *)

\* The collection, if there is one, has the size of the embeddings, so nobody
\* recreates it, and it disappears only if somebody drops it.
Undisturbed ==
  SizesAgree =>
    /\ \A w \in Workers : up[w] = "creating" => isDefault
    /\ coll # 0 => \A t \in Tasks : size[t] = coll
    /\ \A t \in Tasks : pc[t] \notin {"relocking", "deleting", "recreating"}
    /\ ~dropped => \A t \in Tasks : pc[t] = "done" => coll # 0 /\ t \in points

\* What the constants of a run say of the sizes never changes.
LEMMA SizesFixed ==
  ASSUME [Next]_vars
  PROVE  size' = size /\ isDefault' = isDefault /\ SizesAgree' = SizesAgree
<1>1. size' = size /\ isDefault' = isDefault
  BY DEF Next, Start, Run, Initialize, InitializeCreates, WorkerDies, Deliver, Ensure,
         EnsureLocked, CheckExists, Create, Upsert, UpsertAgain, Relock, Delete,
         Recreate, CallFails, Dropped, vars
<1>2. QED
  BY <1>1 DEF SizesAgree, OneSize

\* Every step preserves it.
LEMMA UndisturbedStep ==
  ASSUME TypeOK, Undisturbed, [Next]_vars
  PROVE  Undisturbed'
<1>0. CASE ~SizesAgree
  BY <1>0, SizesFixed DEF Undisturbed
<1> SUFFICES ASSUME SizesAgree PROVE Undisturbed'
  BY <1>0
<1> USE SizesFixed, SizesAssumption DEF TypeOK, Undisturbed, SizesAgree, OneSize
<1>1. ASSUME NEW w \in Workers, Initialize(w) PROVE Undisturbed'
  BY <1>1 DEF Initialize
<1>2. ASSUME NEW w \in Workers, InitializeCreates(w) PROVE Undisturbed'
  BY <1>2 DEF InitializeCreates
<1>3. ASSUME NEW w \in Workers, WorkerDies(w) PROVE Undisturbed'
  BY <1>3 DEF WorkerDies, Fault
<1>4. ASSUME NEW t \in Tasks, NEW w \in Workers, Deliver(t, w) PROVE Undisturbed'
  BY <1>4 DEF Deliver, Goes
<1>5. ASSUME NEW t \in Tasks, Ensure(t) PROVE Undisturbed'
  BY <1>5 DEF Ensure, Goes, Cached, Ensured
<1>6. ASSUME NEW t \in Tasks, EnsureLocked(t) PROVE Undisturbed'
  BY <1>6 DEF EnsureLocked, Goes, Cached, Ensured, Acquire
<1>7. ASSUME NEW t \in Tasks, CheckExists(t) PROVE Undisturbed'
  BY <1>7 DEF CheckExists, Goes, CacheSet, Release, Ensured
<1>8. ASSUME NEW t \in Tasks, Create(t) PROVE Undisturbed'
  BY <1>8 DEF Create, Goes, CacheSet, Release, Ensured
<1>9. ASSUME NEW t \in Tasks, Upsert(t) PROVE Undisturbed'
  BY <1>9 DEF Upsert, Goes, CacheSet
<1>10. ASSUME NEW t \in Tasks, UpsertAgain(t) PROVE Undisturbed'
  BY <1>10 DEF UpsertAgain, Raises, Release
<1>11. ASSUME NEW t \in Tasks, Relock(t) PROVE Undisturbed'
  BY <1>11 DEF Relock, Goes, Acquire
<1>12. ASSUME NEW t \in Tasks, Delete(t) PROVE Undisturbed'
  BY <1>12 DEF Delete, Goes, Fault
<1>13. ASSUME NEW t \in Tasks, Recreate(t) PROVE Undisturbed'
  BY <1>13 DEF Recreate, CacheSet, Release, Raises
<1>14. ASSUME NEW t \in Tasks, CallFails(t) PROVE Undisturbed'
  BY <1>14 DEF CallFails, Fault, Calling, Raises, Release
<1>15. CASE Dropped
  BY <1>15 DEF Dropped, Fault
<1>16. CASE UNCHANGED vars
  BY <1>16 DEF vars
<1>17. QED
  BY <1>1, <1>2, <1>3, <1>4, <1>5, <1>6, <1>7, <1>8, <1>9, <1>10, <1>11, <1>12, <1>13, <1>14, <1>15, <1>16 DEF Next, Start, Run

\* What was reported stored stays stored.
THEOREM PointsStay == Spec => []StoredPointsStay
<1>1. Init => TypeOK /\ Undisturbed
  BY InitTypes DEF Init, Undisturbed
<1>2. TypeOK /\ Undisturbed /\ [Next]_vars => TypeOK' /\ Undisturbed'
  BY TypeStep, UndisturbedStep
<1>3. Undisturbed => StoredPointsStay
  BY DEF Undisturbed, StoredPointsStay
<1>4. QED
  BY <1>1, <1>2, <1>3, PTL DEF Spec

-----------------------------------------------------------------------------
(* Races                                                                   *)

\* Without faults a collection that is cached, or that a task has been through
\* ensure_collection for, is there; so no upsert ever finds it missing.
Smooth ==
  SizesAgree /\ faults = 0 =>
    /\ \A w \in Workers : cache[w] => coll # 0
    /\ \A t \in Tasks :
         /\ pc[t] \in {"upserting", "done"} => coll # 0
         /\ pc[t] \notin {"upserting_again", "dead"}
         /\ again[t] = FALSE
         /\ retry[t] = 0

\* Faults are never taken back.
LEMMA FaultsAddUp ==
  ASSUME TypeOK, [Next]_vars
  PROVE  faults' \in Nat /\ faults' >= faults
<1>1. faults' = faults \/ faults' = faults + 1
  BY DEF Next, Start, Run, Initialize, InitializeCreates, WorkerDies, Deliver, Ensure,
         EnsureLocked, CheckExists, Create, Upsert, UpsertAgain, Relock, Delete,
         Recreate, CallFails, Dropped, Fault, vars
<1>2. QED
  BY <1>1, BoundsAssumption DEF TypeOK

\* Every step preserves it; of a fault nothing is claimed afterwards.
LEMMA SmoothStep ==
  ASSUME TypeOK, Undisturbed, Smooth, [Next]_vars
  PROVE  Smooth'
<1>0. CASE ~(SizesAgree /\ faults = 0)
  <2>1. faults' # 0 \/ ~SizesAgree
    BY <1>0, FaultsAddUp DEF TypeOK
  <2>2. QED
    BY <2>1, SizesFixed DEF Smooth
<1> SUFFICES ASSUME SizesAgree, faults = 0 PROVE Smooth'
  BY <1>0
<1> USE SizesFixed, SizesAssumption, BoundsAssumption DEF TypeOK, Undisturbed, Smooth
<1>1. ASSUME NEW w \in Workers, Initialize(w) PROVE Smooth'
  BY <1>1 DEF Initialize
<1>2. ASSUME NEW w \in Workers, InitializeCreates(w) PROVE Smooth'
  BY <1>2 DEF InitializeCreates
<1>3. ASSUME NEW w \in Workers, WorkerDies(w) PROVE Smooth'
  BY <1>3 DEF WorkerDies, Fault
<1>4. ASSUME NEW t \in Tasks, NEW w \in Workers, Deliver(t, w) PROVE Smooth'
  BY <1>4 DEF Deliver, Goes
<1>5. ASSUME NEW t \in Tasks, Ensure(t) PROVE Smooth'
  BY <1>5 DEF Ensure, Goes, Cached, Ensured
<1>6. ASSUME NEW t \in Tasks, EnsureLocked(t) PROVE Smooth'
  BY <1>6 DEF EnsureLocked, Goes, Cached, Ensured, Acquire
<1>7. ASSUME NEW t \in Tasks, CheckExists(t) PROVE Smooth'
  BY <1>7 DEF CheckExists, Goes, CacheSet, Release, Ensured
<1>8. ASSUME NEW t \in Tasks, Create(t) PROVE Smooth'
  BY <1>8 DEF Create, Goes, CacheSet, Release, Ensured
<1>9. ASSUME NEW t \in Tasks, Upsert(t) PROVE Smooth'
  BY <1>9 DEF Upsert, Goes, CacheSet
<1>10. ASSUME NEW t \in Tasks, UpsertAgain(t) PROVE Smooth'
  BY <1>10 DEF UpsertAgain, Raises, Release
<1>11. ASSUME NEW t \in Tasks, Relock(t) PROVE Smooth'
  BY <1>11 DEF Relock, Goes, Acquire
<1>12. ASSUME NEW t \in Tasks, Delete(t) PROVE Smooth'
  BY <1>12 DEF Delete, Goes, Fault
<1>13. ASSUME NEW t \in Tasks, Recreate(t) PROVE Smooth'
  BY <1>13 DEF Recreate, CacheSet, Release, Raises
<1>14. ASSUME NEW t \in Tasks, CallFails(t) PROVE Smooth'
  BY <1>14 DEF CallFails, Fault, Calling, Raises, Release
<1>15. CASE Dropped
  BY <1>15 DEF Dropped, Fault
<1>16. CASE UNCHANGED vars
  BY <1>16 DEF vars
<1>17. QED
  BY <1>1, <1>2, <1>3, <1>4, <1>5, <1>6, <1>7, <1>8, <1>9, <1>10, <1>11, <1>12, <1>13, <1>14, <1>15, <1>16 DEF Next, Start, Run

\* No batch fails for having lost a race.
THEOREM RacesAreFree == Spec => []RacesCostNothing
<1>1. Init => TypeOK /\ Undisturbed /\ Smooth
  BY InitTypes DEF Init, Undisturbed, Smooth
<1>2. TypeOK /\ Undisturbed /\ Smooth /\ [Next]_vars
        => TypeOK' /\ Undisturbed' /\ Smooth'
  BY TypeStep, UndisturbedStep, SmoothStep
<1>3. Smooth => RacesCostNothing
  BY DEF Smooth, RacesCostNothing
<1>4. QED
  BY <1>1, <1>2, <1>3, PTL DEF Spec

-----------------------------------------------------------------------------
(* Startup.  Each property is the consequence of invariants that do not    *)
(* rest on each other.                                                     *)

CONSTANTS Servers, Messages, Attempts, MaxStarts

VARIABLES
  round, attempt, saw, starts, db, tables, queue, dlq, place, consumers, born,
  first, exposed, cut, beaten

Launch == INSTANCE Startup

-----------------------------------------------------------------------------
(* Types                                                                   *)

\* What End changes keeps its type.
LEMMA EndType ==
  ASSUME Launch!NumbersAssumption, Launch!TypeOK, NEW p \in Launch!Processes, Launch!End(p)
  PROVE  /\ at' \in [Launch!Processes -> Launch!Starting \cup {"down", "up"}]
         /\ round' \in [Launch!Processes -> 1..2]
         /\ \A q \in Servers : round'[q] = 1 /\ at'[q] # "subscribe"
         /\ attempt' \in [Launch!Processes -> 0..Attempts]
         /\ saw' \in [Launch!Processes -> BOOLEAN]
         /\ starts' \in 0..MaxStarts
         /\ consumers' \subseteq Workers
<1> USE Launch!NumbersAssumption DEF Launch!TypeOK, Launch!Starting, Launch!Processes
<1>1. at' = [at EXCEPT ![p] = "down"] /\ round' = [round EXCEPT ![p] = 1]
  BY DEF Launch!End, Launch!Go
<1>2. at' \in [Launch!Processes -> Launch!Starting \cup {"down", "up"}] /\ round' \in [Launch!Processes -> 1..2]
  BY <1>1
<1>3. \A q \in Servers : round'[q] = 1 /\ at'[q] # "subscribe"
  BY <1>1
<1>4. attempt' \in [Launch!Processes -> 0..Attempts]
  BY DEF Launch!End
<1>5. saw' \in [Launch!Processes -> BOOLEAN]
  BY DEF Launch!End
<1>6. starts' \in 0..MaxStarts /\ consumers' \subseteq Workers
  BY DEF Launch!End
<1>7. QED
  BY <1>2, <1>3, <1>4, <1>5, <1>6

\* Every step keeps the types.
LEMMA StartTypeStep ==
  ASSUME Launch!NumbersAssumption, Launch!TypeOK, [Launch!Next]_(Launch!vars)
  PROVE  Launch!TypeOK'
<1> USE Launch!NumbersAssumption DEF Launch!TypeOK, Launch!Starting, Launch!Processes
<1>1. ASSUME NEW p \in Launch!Processes, Launch!Start(p) PROVE Launch!TypeOK'
  BY <1>1 DEF Launch!Start, Launch!Go, Launch!process, Launch!broker, Launch!history
<1>2. ASSUME NEW p \in Launch!Processes, Launch!Connect(p) PROVE Launch!TypeOK'
  <2>1. CASE db
    BY <1>2, <2>1 DEF Launch!Connect, Launch!Go, Launch!End, Launch!process, Launch!broker, Launch!history
  <2>2. CASE ~db /\ attempt[p] + 1 < Attempts
    BY <1>2, <2>2 DEF Launch!Connect, Launch!history
  <2>3. CASE ~db /\ attempt[p] + 1 = Attempts
    BY <1>2, <2>3, EndType DEF Launch!Connect, Launch!history
  <2>4. QED
    BY <1>2, <2>1, <2>2, <2>3 DEF Launch!Connect
<1>3. ASSUME NEW p \in Launch!Processes, Launch!Inspect(p) PROVE Launch!TypeOK'
  BY <1>3 DEF Launch!Inspect, Launch!Go, Launch!process, Launch!broker, Launch!history
<1>4. ASSUME NEW p \in Launch!Processes, Launch!Create(p) PROVE Launch!TypeOK'
  <2>1. CASE tables /\ ~saw[p]
    BY <1>4, <2>1, EndType DEF Launch!Create
  <2>2. CASE ~(tables /\ ~saw[p])
    BY <1>4, <2>2 DEF Launch!Create, Launch!Go
  <2>3. QED
    BY <2>1, <2>2
<1>5. ASSUME NEW p \in Launch!Processes, Launch!DeclareDlq(p) PROVE Launch!TypeOK'
  BY <1>5 DEF Launch!DeclareDlq, Launch!Go, Launch!process, Launch!broker, Launch!history
<1>6. ASSUME NEW p \in Launch!Processes, Launch!DeclareMain(p) PROVE Launch!TypeOK'
  BY <1>6 DEF Launch!DeclareMain, Launch!Go, Launch!SetUp, Launch!process, Launch!broker, Launch!history
<1>7. ASSUME NEW p \in Launch!Processes, Launch!Delete(p) PROVE Launch!TypeOK'
  BY <1>7 DEF Launch!Delete, Launch!Go, Launch!process, Launch!broker, Launch!history
<1>8. ASSUME NEW p \in Launch!Processes, Launch!Redeclare(p) PROVE Launch!TypeOK'
  BY <1>8 DEF Launch!Redeclare, Launch!Go, Launch!SetUp, Launch!process, Launch!broker, Launch!history
<1>9. ASSUME NEW p \in Launch!Processes, Launch!Prepare(p) PROVE Launch!TypeOK'
  BY <1>9 DEF Launch!Prepare, Launch!Go, Launch!process, Launch!broker, Launch!history
<1>10. ASSUME NEW p \in Launch!Processes, Launch!Subscribe(p) PROVE Launch!TypeOK'
  <2>1. CASE Launch!End(p)
    BY <1>10, <2>1, EndType DEF Launch!Subscribe, Launch!history
  <2>2. CASE ~Launch!End(p)
    BY <1>10, <2>2 DEF Launch!Subscribe, Launch!Go, Launch!history
  <2>3. QED
    BY <2>1, <2>2
<1>11. ASSUME NEW p \in Launch!Processes, Launch!Stop(p) PROVE Launch!TypeOK'
  BY <1>11 DEF Launch!Stop, Launch!Go, Launch!End, Launch!process, Launch!broker, Launch!history
<1>12. ASSUME NEW p \in Launch!Processes, Launch!Die(p) PROVE Launch!TypeOK'
  BY <1>12 DEF Launch!Die, Launch!Go, Launch!End, Launch!Fault, Launch!process, Launch!broker, Launch!history
<1>13. ASSUME NEW m \in Messages, Launch!Publish(m) PROVE Launch!TypeOK'
  BY <1>13 DEF Launch!Publish, Launch!Exists, Launch!process, Launch!broker, Launch!history
<1>14. ASSUME NEW m \in Messages, Launch!Handle(m) PROVE Launch!TypeOK'
  BY <1>14 DEF Launch!Handle, Launch!process, Launch!broker, Launch!history
<1>15. CASE Launch!Outage
  BY <1>15 DEF Launch!Outage, Launch!Fault, Launch!process, Launch!broker, Launch!history
<1>16. CASE UNCHANGED Launch!vars
  BY <1>16 DEF Launch!vars, Launch!process, Launch!broker, Launch!history
<1>17. QED
  BY <1>1, <1>2, <1>3, <1>4, <1>5, <1>6, <1>7, <1>8, <1>9, <1>10, <1>11, <1>12, <1>13, <1>14, <1>15, <1>16 DEF Launch!Next, Launch!Boot

\* The types hold throughout.
THEOREM StartTypeCorrect ==
  ASSUME Launch!NumbersAssumption
  PROVE  Launch!Spec => []Launch!TypeOK
<1>1. Launch!Init => Launch!TypeOK
  <2> SUFFICES ASSUME Launch!Init PROVE Launch!TypeOK
    OBVIOUS
  <2>1. dlq \in BOOLEAN /\ tables \in BOOLEAN /\ cut \in BOOLEAN
    BY Zenon DEF Launch!Init
  <2>2. QED
    BY <2>1, Launch!NumbersAssumption DEF Launch!Init, Launch!TypeOK, Launch!Processes
<1>2. QED
  BY <1>1, StartTypeStep, PTL DEF Launch!Spec

-----------------------------------------------------------------------------
(* A queue with the program's arguments                                    *)

\* Nobody is ever refused if the queue was not another version's, so whoever is
\* past its declaration finds it.
NoConflict ==
  born # "old" =>
    /\ queue # "old"
    /\ queue = "current" \/ \A p \in Launch!Processes : at[p] \notin {"prepare", "subscribe", "up"}
    /\ \A p \in Launch!Processes : at[p] \notin {"refused", "deleted"}
    /\ \A m \in Messages : place[m] # "lost"
    /\ \A p \in Workers : at[p] = "up" => p \in consumers

\* Every step preserves it.
LEMMA NoConflictStep ==
  ASSUME Launch!ProcessesAssumption, Launch!TypeOK, NoConflict, [Launch!Next]_(Launch!vars)
  PROVE  NoConflict'
<1> USE Launch!ProcessesAssumption DEF Launch!TypeOK, NoConflict, Launch!Processes
<1>1. ASSUME NEW p \in Launch!Processes, Launch!Start(p) PROVE NoConflict'
  BY <1>1 DEF Launch!Start, Launch!Go, Launch!process, Launch!broker, Launch!history
<1>2. ASSUME NEW p \in Launch!Processes, Launch!Connect(p) PROVE NoConflict'
  BY <1>2 DEF Launch!Connect, Launch!Go, Launch!End, Launch!process, Launch!broker, Launch!history
<1>3. ASSUME NEW p \in Launch!Processes, Launch!Inspect(p) PROVE NoConflict'
  BY <1>3 DEF Launch!Inspect, Launch!Go, Launch!process, Launch!broker, Launch!history
<1>4. ASSUME NEW p \in Launch!Processes, Launch!Create(p) PROVE NoConflict'
  BY <1>4 DEF Launch!Create, Launch!Go, Launch!End, Launch!process, Launch!broker, Launch!history
<1>5. ASSUME NEW p \in Launch!Processes, Launch!DeclareDlq(p) PROVE NoConflict'
  BY <1>5 DEF Launch!DeclareDlq, Launch!Go, Launch!process, Launch!broker, Launch!history
<1>6. ASSUME NEW p \in Launch!Processes, Launch!DeclareMain(p) PROVE NoConflict'
  BY <1>6 DEF Launch!DeclareMain, Launch!Go, Launch!SetUp, Launch!process, Launch!broker, Launch!history
<1>7. ASSUME NEW p \in Launch!Processes, Launch!Delete(p) PROVE NoConflict'
  BY <1>7 DEF Launch!Delete, Launch!Go, Launch!process, Launch!broker, Launch!history
<1>8. ASSUME NEW p \in Launch!Processes, Launch!Redeclare(p) PROVE NoConflict'
  BY <1>8 DEF Launch!Redeclare, Launch!Go, Launch!SetUp, Launch!process, Launch!broker, Launch!history
<1>9. ASSUME NEW p \in Launch!Processes, Launch!Prepare(p) PROVE NoConflict'
  BY <1>9 DEF Launch!Prepare, Launch!Go, Launch!process, Launch!broker, Launch!history
<1>10. ASSUME NEW p \in Launch!Processes, Launch!Subscribe(p) PROVE NoConflict'
  BY <1>10 DEF Launch!Subscribe, Launch!Go, Launch!End, Launch!process, Launch!broker, Launch!history
<1>11. ASSUME NEW p \in Launch!Processes, Launch!Stop(p) PROVE NoConflict'
  BY <1>11 DEF Launch!Stop, Launch!Go, Launch!End, Launch!process, Launch!broker, Launch!history
<1>12. ASSUME NEW p \in Launch!Processes, Launch!Die(p) PROVE NoConflict'
  BY <1>12 DEF Launch!Die, Launch!Go, Launch!End, Launch!Fault, Launch!process, Launch!broker, Launch!history
<1>13. ASSUME NEW m \in Messages, Launch!Publish(m) PROVE NoConflict'
  BY <1>13 DEF Launch!Publish, Launch!Exists, Launch!process, Launch!broker, Launch!history
<1>14. ASSUME NEW m \in Messages, Launch!Handle(m) PROVE NoConflict'
  BY <1>14 DEF Launch!Handle, Launch!process, Launch!broker, Launch!history
<1>15. CASE Launch!Outage
  BY <1>15 DEF Launch!Outage, Launch!Fault, Launch!process, Launch!broker, Launch!history
<1>16. CASE UNCHANGED Launch!vars
  BY <1>16 DEF Launch!vars, Launch!process, Launch!broker, Launch!history
<1>17. QED
  BY <1>1, <1>2, <1>3, <1>4, <1>5, <1>6, <1>7, <1>8, <1>9, <1>10, <1>11, <1>12, <1>13, <1>14, <1>15, <1>16 DEF Launch!Next, Launch!Boot

-----------------------------------------------------------------------------
(* A queue with other arguments                                            *)

\* Until the old queue is deleted nobody publishes; while a refused process is
\* about, what is published is exposed to it.
ConflictInv ==
  /\ queue = "old" =>
       \A p \in Launch!Processes : at[p] \notin {"deleted", "prepare", "subscribe", "up"}
  /\ queue = "old" \/ Launch!Exists("refused") =>
       \A m \in Messages : place[m] = "queued" => m \in first \cup exposed
  /\ \A m \in Messages : place[m] = "lost" => m \in first \cup exposed

\* Every step preserves it.
LEMMA ConflictStep ==
  ASSUME Launch!TypeOK, ConflictInv, [Launch!Next]_(Launch!vars)
  PROVE  ConflictInv'
<1> USE DEF Launch!TypeOK, ConflictInv, Launch!Processes, Launch!Exists
<1>1. ASSUME NEW p \in Launch!Processes, Launch!Start(p) PROVE ConflictInv'
  BY <1>1 DEF Launch!Start, Launch!Go, Launch!process, Launch!broker, Launch!history
<1>2. ASSUME NEW p \in Launch!Processes, Launch!Connect(p) PROVE ConflictInv'
  BY <1>2 DEF Launch!Connect, Launch!Go, Launch!End, Launch!process, Launch!broker, Launch!history
<1>3. ASSUME NEW p \in Launch!Processes, Launch!Inspect(p) PROVE ConflictInv'
  BY <1>3 DEF Launch!Inspect, Launch!Go, Launch!process, Launch!broker, Launch!history
<1>4. ASSUME NEW p \in Launch!Processes, Launch!Create(p) PROVE ConflictInv'
  BY <1>4 DEF Launch!Create, Launch!Go, Launch!End, Launch!process, Launch!broker, Launch!history
<1>5. ASSUME NEW p \in Launch!Processes, Launch!DeclareDlq(p) PROVE ConflictInv'
  BY <1>5 DEF Launch!DeclareDlq, Launch!Go, Launch!process, Launch!broker, Launch!history
<1>6. ASSUME NEW p \in Launch!Processes, Launch!DeclareMain(p) PROVE ConflictInv'
  BY <1>6 DEF Launch!DeclareMain, Launch!Go, Launch!SetUp, Launch!process, Launch!broker, Launch!history
<1>7. ASSUME NEW p \in Launch!Processes, Launch!Delete(p) PROVE ConflictInv'
  BY <1>7 DEF Launch!Delete, Launch!Go, Launch!process, Launch!broker, Launch!history
<1>8. ASSUME NEW p \in Launch!Processes, Launch!Redeclare(p) PROVE ConflictInv'
  BY <1>8 DEF Launch!Redeclare, Launch!Go, Launch!SetUp, Launch!process, Launch!broker, Launch!history
<1>9. ASSUME NEW p \in Launch!Processes, Launch!Prepare(p) PROVE ConflictInv'
  BY <1>9 DEF Launch!Prepare, Launch!Go, Launch!process, Launch!broker, Launch!history
<1>10. ASSUME NEW p \in Launch!Processes, Launch!Subscribe(p) PROVE ConflictInv'
  BY <1>10 DEF Launch!Subscribe, Launch!Go, Launch!End, Launch!process, Launch!broker, Launch!history
<1>11. ASSUME NEW p \in Launch!Processes, Launch!Stop(p) PROVE ConflictInv'
  BY <1>11 DEF Launch!Stop, Launch!Go, Launch!End, Launch!process, Launch!broker, Launch!history
<1>12. ASSUME NEW p \in Launch!Processes, Launch!Die(p) PROVE ConflictInv'
  BY <1>12 DEF Launch!Die, Launch!Go, Launch!End, Launch!Fault, Launch!process, Launch!broker, Launch!history
<1>13. ASSUME NEW m \in Messages, Launch!Publish(m) PROVE ConflictInv'
  BY <1>13 DEF Launch!Publish, Launch!Exists, Launch!process, Launch!broker, Launch!history
<1>14. ASSUME NEW m \in Messages, Launch!Handle(m) PROVE ConflictInv'
  BY <1>14 DEF Launch!Handle, Launch!process, Launch!broker, Launch!history
<1>15. CASE Launch!Outage
  BY <1>15 DEF Launch!Outage, Launch!Fault, Launch!process, Launch!broker, Launch!history
<1>16. CASE UNCHANGED Launch!vars
  BY <1>16 DEF Launch!vars, Launch!process, Launch!broker, Launch!history
<1>17. QED
  BY <1>1, <1>2, <1>3, <1>4, <1>5, <1>6, <1>7, <1>8, <1>9, <1>10, <1>11, <1>12, <1>13, <1>14, <1>15, <1>16 DEF Launch!Next, Launch!Boot

\* Only messages of an old queue, and those published beside a refused process
\* or while the queue is missing, are ever lost, however many processes start side by side.
THEOREM OnlyConflictsLose ==
  ASSUME Launch!ProcessesAssumption, Launch!NumbersAssumption
  PROVE  Launch!Spec => []Launch!OnlyConflictsLoseMessages
<1>1. Launch!Init => NoConflict /\ ConflictInv
  BY DEF Launch!Init, NoConflict, ConflictInv, Launch!Exists, Launch!Processes
<1>2. NoConflict /\ ConflictInv => Launch!OnlyConflictsLoseMessages
  BY DEF NoConflict, ConflictInv, Launch!OnlyConflictsLoseMessages, Launch!Lost
<1>3. QED
  BY <1>1, <1>2, NoConflictStep, ConflictStep, StartTypeCorrect, PTL DEF Launch!Spec

-----------------------------------------------------------------------------
(* Dead letters                                                            *)

\* Whoever is past its declaration has declared the dead letter queue.
DlqInv ==
  /\ queue = "current" => dlq
  /\ \A p \in Launch!Processes :
       at[p] \in {"main", "refused", "deleted", "prepare", "subscribe", "up"} => dlq

\* Every step preserves it.
LEMMA DlqStep ==
  ASSUME Launch!TypeOK, DlqInv, [Launch!Next]_(Launch!vars)
  PROVE  DlqInv'
<1> USE DEF Launch!TypeOK, DlqInv
<1>1. ASSUME NEW p \in Launch!Processes, Launch!Start(p) PROVE DlqInv'
  BY <1>1 DEF Launch!Start, Launch!Go, Launch!process, Launch!broker, Launch!history
<1>2. ASSUME NEW p \in Launch!Processes, Launch!Connect(p) PROVE DlqInv'
  BY <1>2 DEF Launch!Connect, Launch!Go, Launch!End, Launch!process, Launch!broker, Launch!history
<1>3. ASSUME NEW p \in Launch!Processes, Launch!Inspect(p) PROVE DlqInv'
  BY <1>3 DEF Launch!Inspect, Launch!Go, Launch!process, Launch!broker, Launch!history
<1>4. ASSUME NEW p \in Launch!Processes, Launch!Create(p) PROVE DlqInv'
  BY <1>4 DEF Launch!Create, Launch!Go, Launch!End, Launch!process, Launch!broker, Launch!history
<1>5. ASSUME NEW p \in Launch!Processes, Launch!DeclareDlq(p) PROVE DlqInv'
  BY <1>5 DEF Launch!DeclareDlq, Launch!Go, Launch!process, Launch!broker, Launch!history
<1>6. ASSUME NEW p \in Launch!Processes, Launch!DeclareMain(p) PROVE DlqInv'
  BY <1>6 DEF Launch!DeclareMain, Launch!Go, Launch!SetUp, Launch!process, Launch!broker, Launch!history
<1>7. ASSUME NEW p \in Launch!Processes, Launch!Delete(p) PROVE DlqInv'
  BY <1>7 DEF Launch!Delete, Launch!Go, Launch!process, Launch!broker, Launch!history
<1>8. ASSUME NEW p \in Launch!Processes, Launch!Redeclare(p) PROVE DlqInv'
  BY <1>8 DEF Launch!Redeclare, Launch!Go, Launch!SetUp, Launch!process, Launch!broker, Launch!history
<1>9. ASSUME NEW p \in Launch!Processes, Launch!Prepare(p) PROVE DlqInv'
  BY <1>9 DEF Launch!Prepare, Launch!Go, Launch!process, Launch!broker, Launch!history
<1>10. ASSUME NEW p \in Launch!Processes, Launch!Subscribe(p) PROVE DlqInv'
  BY <1>10 DEF Launch!Subscribe, Launch!Go, Launch!End, Launch!process, Launch!broker, Launch!history
<1>11. ASSUME NEW p \in Launch!Processes, Launch!Stop(p) PROVE DlqInv'
  BY <1>11 DEF Launch!Stop, Launch!Go, Launch!End, Launch!process, Launch!broker, Launch!history
<1>12. ASSUME NEW p \in Launch!Processes, Launch!Die(p) PROVE DlqInv'
  BY <1>12 DEF Launch!Die, Launch!Go, Launch!End, Launch!Fault, Launch!process, Launch!broker, Launch!history
<1>13. ASSUME NEW m \in Messages, Launch!Publish(m) PROVE DlqInv'
  BY <1>13 DEF Launch!Publish, Launch!Exists, Launch!process, Launch!broker, Launch!history
<1>14. ASSUME NEW m \in Messages, Launch!Handle(m) PROVE DlqInv'
  BY <1>14 DEF Launch!Handle, Launch!process, Launch!broker, Launch!history
<1>15. CASE Launch!Outage
  BY <1>15 DEF Launch!Outage, Launch!Fault, Launch!process, Launch!broker, Launch!history
<1>16. CASE UNCHANGED Launch!vars
  BY <1>16 DEF Launch!vars, Launch!process, Launch!broker, Launch!history
<1>17. QED
  BY <1>1, <1>2, <1>3, <1>4, <1>5, <1>6, <1>7, <1>8, <1>9, <1>10, <1>11, <1>12, <1>13, <1>14, <1>15, <1>16 DEF Launch!Next, Launch!Boot

-----------------------------------------------------------------------------
(* The queue is there for who is up                                        *)

\* Without a current queue nobody has got past its declaration, unless another
\* process is about to declare it or has died before it could.
ReadyInv ==
  queue = "current" \/ Launch!Exists("deleted") \/ cut
    \/ \A p \in Launch!Processes : at[p] \notin {"prepare", "subscribe", "up"}

\* Every step preserves it.
LEMMA ReadyStep ==
  ASSUME Launch!TypeOK, ReadyInv, [Launch!Next]_(Launch!vars)
  PROVE  ReadyInv'
<1> USE DEF Launch!TypeOK, ReadyInv, Launch!Exists
<1>1. ASSUME NEW p \in Launch!Processes, Launch!Start(p) PROVE ReadyInv'
  BY <1>1 DEF Launch!Start, Launch!Go, Launch!process, Launch!broker, Launch!history
<1>2. ASSUME NEW p \in Launch!Processes, Launch!Connect(p) PROVE ReadyInv'
  BY <1>2 DEF Launch!Connect, Launch!Go, Launch!End, Launch!process, Launch!broker, Launch!history
<1>3. ASSUME NEW p \in Launch!Processes, Launch!Inspect(p) PROVE ReadyInv'
  BY <1>3 DEF Launch!Inspect, Launch!Go, Launch!process, Launch!broker, Launch!history
<1>4. ASSUME NEW p \in Launch!Processes, Launch!Create(p) PROVE ReadyInv'
  BY <1>4 DEF Launch!Create, Launch!Go, Launch!End, Launch!process, Launch!broker, Launch!history
<1>5. ASSUME NEW p \in Launch!Processes, Launch!DeclareDlq(p) PROVE ReadyInv'
  BY <1>5 DEF Launch!DeclareDlq, Launch!Go, Launch!process, Launch!broker, Launch!history
<1>6. ASSUME NEW p \in Launch!Processes, Launch!DeclareMain(p) PROVE ReadyInv'
  BY <1>6 DEF Launch!DeclareMain, Launch!Go, Launch!SetUp, Launch!process, Launch!broker, Launch!history
<1>7. ASSUME NEW p \in Launch!Processes, Launch!Delete(p) PROVE ReadyInv'
  BY <1>7 DEF Launch!Delete, Launch!Go, Launch!process, Launch!broker, Launch!history
<1>8. ASSUME NEW p \in Launch!Processes, Launch!Redeclare(p) PROVE ReadyInv'
  BY <1>8 DEF Launch!Redeclare, Launch!Go, Launch!SetUp, Launch!process, Launch!broker, Launch!history
<1>9. ASSUME NEW p \in Launch!Processes, Launch!Prepare(p) PROVE ReadyInv'
  BY <1>9 DEF Launch!Prepare, Launch!Go, Launch!process, Launch!broker, Launch!history
<1>10. ASSUME NEW p \in Launch!Processes, Launch!Subscribe(p) PROVE ReadyInv'
  BY <1>10 DEF Launch!Subscribe, Launch!Go, Launch!End, Launch!process, Launch!broker, Launch!history
<1>11. ASSUME NEW p \in Launch!Processes, Launch!Stop(p) PROVE ReadyInv'
  BY <1>11 DEF Launch!Stop, Launch!Go, Launch!End, Launch!process, Launch!broker, Launch!history
<1>12. ASSUME NEW p \in Launch!Processes, Launch!Die(p) PROVE ReadyInv'
  BY <1>12 DEF Launch!Die, Launch!Go, Launch!End, Launch!Fault, Launch!process, Launch!broker, Launch!history
<1>13. ASSUME NEW m \in Messages, Launch!Publish(m) PROVE ReadyInv'
  BY <1>13 DEF Launch!Publish, Launch!Exists, Launch!process, Launch!broker, Launch!history
<1>14. ASSUME NEW m \in Messages, Launch!Handle(m) PROVE ReadyInv'
  BY <1>14 DEF Launch!Handle, Launch!process, Launch!broker, Launch!history
<1>15. CASE Launch!Outage
  BY <1>15 DEF Launch!Outage, Launch!Fault, Launch!process, Launch!broker, Launch!history
<1>16. CASE UNCHANGED Launch!vars
  BY <1>16 DEF Launch!vars, Launch!process, Launch!broker, Launch!history
<1>17. QED
  BY <1>1, <1>2, <1>3, <1>4, <1>5, <1>6, <1>7, <1>8, <1>9, <1>10, <1>11, <1>12, <1>13, <1>14, <1>15, <1>16 DEF Launch!Next, Launch!Boot

\* A process that is up finds its queue, unless it has been deleted just now;
\* dead letters are kept, and without a conflict every worker consumes.
THEOREM UpIsReady ==
  ASSUME Launch!ProcessesAssumption, Launch!NumbersAssumption
  PROVE  Launch!Spec => []Launch!UpMeansReady
<1>1. Launch!Init => NoConflict /\ DlqInv /\ ReadyInv
  BY DEF Launch!Init, NoConflict, DlqInv, ReadyInv, Launch!Processes
<1>2. NoConflict /\ DlqInv /\ ReadyInv => Launch!UpMeansReady
  BY DEF NoConflict, DlqInv, ReadyInv, Launch!UpMeansReady, Launch!Exists
<1>3. QED
  BY <1>1, <1>2, NoConflictStep, DlqStep, ReadyStep, StartTypeCorrect, PTL DEF Launch!Spec

-----------------------------------------------------------------------------
(* The race for the tables                                                 *)

\* Who has lost the race has seen its end: the tables are there, and they stay.
TablesInv ==
  \A p \in Launch!Processes :
    /\ beaten[p] <= 1
    /\ beaten[p] = 1 => tables
    /\ at[p] = "create" /\ ~saw[p] => beaten[p] = 0

\* Every step preserves it.
LEMMA TablesStep ==
  ASSUME Launch!TypeOK, TablesInv, [Launch!Next]_(Launch!vars)
  PROVE  TablesInv'
<1> USE DEF Launch!TypeOK, TablesInv
<1>1. ASSUME NEW p \in Launch!Processes, Launch!Start(p) PROVE TablesInv'
  BY <1>1 DEF Launch!Start, Launch!Go, Launch!process, Launch!broker, Launch!history
<1>2. ASSUME NEW p \in Launch!Processes, Launch!Connect(p) PROVE TablesInv'
  BY <1>2 DEF Launch!Connect, Launch!Go, Launch!End, Launch!process, Launch!broker, Launch!history
<1>3. ASSUME NEW p \in Launch!Processes, Launch!Inspect(p) PROVE TablesInv'
  BY <1>3 DEF Launch!Inspect, Launch!Go, Launch!process, Launch!broker, Launch!history
<1>4. ASSUME NEW p \in Launch!Processes, Launch!Create(p) PROVE TablesInv'
  BY <1>4 DEF Launch!Create, Launch!Go, Launch!End, Launch!process, Launch!broker, Launch!history
<1>5. ASSUME NEW p \in Launch!Processes, Launch!DeclareDlq(p) PROVE TablesInv'
  BY <1>5 DEF Launch!DeclareDlq, Launch!Go, Launch!process, Launch!broker, Launch!history
<1>6. ASSUME NEW p \in Launch!Processes, Launch!DeclareMain(p) PROVE TablesInv'
  BY <1>6 DEF Launch!DeclareMain, Launch!Go, Launch!SetUp, Launch!process, Launch!broker, Launch!history
<1>7. ASSUME NEW p \in Launch!Processes, Launch!Delete(p) PROVE TablesInv'
  BY <1>7 DEF Launch!Delete, Launch!Go, Launch!process, Launch!broker, Launch!history
<1>8. ASSUME NEW p \in Launch!Processes, Launch!Redeclare(p) PROVE TablesInv'
  BY <1>8 DEF Launch!Redeclare, Launch!Go, Launch!SetUp, Launch!process, Launch!broker, Launch!history
<1>9. ASSUME NEW p \in Launch!Processes, Launch!Prepare(p) PROVE TablesInv'
  BY <1>9 DEF Launch!Prepare, Launch!Go, Launch!process, Launch!broker, Launch!history
<1>10. ASSUME NEW p \in Launch!Processes, Launch!Subscribe(p) PROVE TablesInv'
  BY <1>10 DEF Launch!Subscribe, Launch!Go, Launch!End, Launch!process, Launch!broker, Launch!history
<1>11. ASSUME NEW p \in Launch!Processes, Launch!Stop(p) PROVE TablesInv'
  BY <1>11 DEF Launch!Stop, Launch!Go, Launch!End, Launch!process, Launch!broker, Launch!history
<1>12. ASSUME NEW p \in Launch!Processes, Launch!Die(p) PROVE TablesInv'
  BY <1>12 DEF Launch!Die, Launch!Go, Launch!End, Launch!Fault, Launch!process, Launch!broker, Launch!history
<1>13. ASSUME NEW m \in Messages, Launch!Publish(m) PROVE TablesInv'
  BY <1>13 DEF Launch!Publish, Launch!Exists, Launch!process, Launch!broker, Launch!history
<1>14. ASSUME NEW m \in Messages, Launch!Handle(m) PROVE TablesInv'
  BY <1>14 DEF Launch!Handle, Launch!process, Launch!broker, Launch!history
<1>15. CASE Launch!Outage
  BY <1>15 DEF Launch!Outage, Launch!Fault, Launch!process, Launch!broker, Launch!history
<1>16. CASE UNCHANGED Launch!vars
  BY <1>16 DEF Launch!vars, Launch!process, Launch!broker, Launch!history
<1>17. QED
  BY <1>1, <1>2, <1>3, <1>4, <1>5, <1>6, <1>7, <1>8, <1>9, <1>10, <1>11, <1>12, <1>13, <1>14, <1>15, <1>16 DEF Launch!Next, Launch!Boot

\* No process loses the race for the tables twice.
THEOREM ContestedOnce ==
  ASSUME Launch!NumbersAssumption
  PROVE  Launch!Spec => []Launch!TablesAreContestedOnce
<1>1. Launch!Init => TablesInv
  BY DEF Launch!Init, TablesInv
<1>2. TablesInv => Launch!TablesAreContestedOnce
  BY DEF TablesInv, Launch!TablesAreContestedOnce
<1>3. QED
  BY <1>1, <1>2, TablesStep, StartTypeCorrect, PTL DEF Launch!Spec

=============================================================================
