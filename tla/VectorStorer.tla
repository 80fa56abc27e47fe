---------------------------- MODULE VectorStorer ----------------------------
(***************************************************************************)
(* Storage workers writing to one Qdrant collection through                *)
(* src/core/storer.py: VectorStorer.initialize, ensure_collection,         *)
(* recreate_collection and store_batch.                                    *)
(*                                                                         *)
(* Every worker process has its own collection cache and its own lock; the *)
(* tasks (one store_batch call per message delivered) of a worker          *)
(* interleave at every await, and those of several workers meet only in    *)
(* Qdrant.  A task stands for its points, which it writes under fixed ids. *)
(***************************************************************************)
EXTENDS Naturals, FiniteSets

CONSTANTS
  Workers,
  Tasks,
  NoTask,       \* nobody: the lock is free
  Sizes,        \* sizes the embeddings of a task may have
  DefaultSize,  \* settings.qdrant_vector_size
  MaxRetries,   \* max_retries of consume
  MaxFaults     \* bound: failing calls, dying workers, dropped collections

ASSUME NoTaskAssumption == NoTask \notin Tasks
ASSUME SizesAssumption == Sizes \cup {DefaultSize} \subseteq Nat \ {0}
ASSUME BoundsAssumption ==
  {MaxRetries, MaxFaults} \subseteq Nat

VARIABLES
  coll,      \* vector size of the collection in Qdrant; 0 if there is none
  points,    \* tasks whose points are in it
  up,        \* stage of each worker: initialize, then consuming
  cache,     \* cache[w]: the collection is in w's _collection_cache
  lock,      \* lock[w]: the task that holds w's _ensure_lock
  pc,        \* where each task is
  size,      \* size of its embeddings
  isDefault, \* the collection is settings.qdrant_collection
  at,        \* the worker it was last delivered to
  again,     \* it goes through ensure_collection for its second upsert
  retry,     \* x-retry-count of its message
  dropped,   \* history: somebody dropped the collection
  faults     \* faults injected so far

vars ==
  <<coll, points, up, cache, lock, pc, size, isDefault, at, again, retry, dropped, faults>>

InLock == {"checking", "creating", "deleting", "recreating"}

Stages == InLock \cup {"queued", "ensuring", "locking", "upserting", "relocking",
                       "upserting_again", "done", "dead"}

TypeOK ==
  /\ coll \in Sizes \cup {0, DefaultSize}
  /\ points \subseteq Tasks
  /\ up \in [Workers -> {"starting", "creating", "consuming"}]
  /\ cache \in [Workers -> BOOLEAN]
  /\ lock \in [Workers -> Tasks \cup {NoTask}]
  /\ pc \in [Tasks -> Stages]
  /\ size \in [Tasks -> Sizes]
  /\ isDefault \in BOOLEAN
  /\ at \in [Tasks -> Workers]
  /\ again \in [Tasks -> BOOLEAN]
  /\ retry \in [Tasks -> 0..MaxRetries]
  /\ dropped \in BOOLEAN
  /\ faults \in 0..MaxFaults

Init ==
  /\ coll = 0
  /\ points = {}
  /\ up = [w \in Workers |-> "starting"]
  /\ cache = [w \in Workers |-> FALSE]
  /\ lock = [w \in Workers |-> NoTask]
  /\ pc = [t \in Tasks |-> "queued"]
  /\ size \in [Tasks -> Sizes]
  /\ isDefault \in BOOLEAN
  /\ at \in [Tasks -> Workers]
  /\ again = [t \in Tasks |-> FALSE]
  /\ retry = [t \in Tasks |-> 0]
  /\ dropped = FALSE
  /\ faults = 0

Fault == faults < MaxFaults /\ faults' = faults + 1

Goes(t, from, to) == pc[t] = from /\ pc' = [pc EXCEPT ![t] = to]

Cached(t) == cache[at[t]]
CacheSet(t, value) == cache' = [cache EXCEPT ![at[t]] = value]

Acquire(t) == lock[at[t]] = NoTask /\ lock' = [lock EXCEPT ![at[t]] = t]
Release(t) ==
  lock' = [lock EXCEPT ![at[t]] = IF @ = t THEN NoTask ELSE @]

\* Where ensure_collection returns to.
Ensured(t) == IF again[t] THEN "upserting_again" ELSE "upserting"

\* store_batch raises: the queue retries the message, then dead-letters it.
Raises(t) ==
  /\ Release(t)
  /\ again' = [again EXCEPT ![t] = FALSE]
  /\ IF retry[t] < MaxRetries
     THEN /\ pc' = [pc EXCEPT ![t] = "queued"]
          /\ retry' = [retry EXCEPT ![t] = @ + 1]
     ELSE /\ pc' = [pc EXCEPT ![t] = "dead"]
          /\ UNCHANGED retry

-----------------------------------------------------------------------------
(* initialize                                                              *)

\* collection_exists of the default collection; then the worker consumes.
Initialize(w) ==
  /\ up[w] = "starting"
  /\ up' = [up EXCEPT ![w] = IF isDefault /\ coll = 0 THEN "creating" ELSE "consuming"]
  /\ cache' = [cache EXCEPT ![w] = isDefault /\ coll # 0]
  /\ UNCHANGED <<coll, points, lock, pc, size, isDefault, at, again, retry, dropped, faults>>

\* Mutant: the default collection is created anew whatever is there, as
\* qdrant's own recreate_collection would.
InitializeRecreates(w) ==
  /\ up[w] = "creating"
  /\ coll' = DefaultSize
  /\ points' = {}
  /\ up' = [up EXCEPT ![w] = "consuming"]
  /\ cache' = [cache EXCEPT ![w] = TRUE]
  /\ UNCHANGED <<lock, pc, size, isDefault, at, again, retry, dropped, faults>>

\* create_collection; "already exists" is taken for success.
InitializeCreates(w) ==
  /\ up[w] = "creating"
  /\ coll' = IF coll = 0 THEN DefaultSize ELSE coll
  /\ up' = [up EXCEPT ![w] = "consuming"]
  /\ cache' = [cache EXCEPT ![w] = TRUE]
  /\ UNCHANGED <<points, lock, pc, size, isDefault, at, again, retry, dropped, faults>>

\* The queue delivers the message to a worker, which calls store_batch.
Deliver(t, w) ==
  /\ up[w] = "consuming"
  /\ Goes(t, "queued", "ensuring")
  /\ at' = [at EXCEPT ![t] = w]
  /\ UNCHANGED <<coll, points, up, cache, lock, size, isDefault, again, retry, dropped, faults>>

-----------------------------------------------------------------------------
(* ensure_collection                                                       *)

\* The check before the lock.
Ensure(t) ==
  /\ Goes(t, "ensuring", IF Cached(t) THEN Ensured(t) ELSE "locking")
  /\ UNCHANGED <<coll, points, up, cache, lock, size, isDefault, at, again, retry, dropped, faults>>

\* The lock is acquired and the cache checked again.
EnsureLocked(t) ==
  /\ lock[at[t]] = NoTask
  /\ \/ /\ Cached(t)
        /\ Goes(t, "locking", Ensured(t))
        /\ UNCHANGED lock
     \/ /\ ~Cached(t)
        /\ Goes(t, "locking", "checking")
        /\ Acquire(t)
  /\ UNCHANGED <<coll, points, up, cache, size, isDefault, at, again, retry, dropped, faults>>

\* collection_exists
CheckExists(t) ==
  /\ \/ /\ coll # 0
        /\ Goes(t, "checking", Ensured(t))
        /\ CacheSet(t, TRUE)
        /\ Release(t)
     \/ /\ coll = 0
        /\ Goes(t, "checking", "creating")
        /\ UNCHANGED <<cache, lock>>
  /\ UNCHANGED <<coll, points, up, size, isDefault, at, again, retry, dropped, faults>>

\* Mutant: the lock is not released when the creation lost a race.
CreateKeepsLock(t) ==
  /\ Goes(t, "creating", Ensured(t))
  /\ coll' = IF coll = 0 THEN size[t] ELSE coll
  /\ IF coll = 0 THEN Release(t) ELSE UNCHANGED lock
  /\ CacheSet(t, TRUE)
  /\ UNCHANGED <<points, up, size, isDefault, at, again, retry, dropped, faults>>

\* Mutant: "already exists" is an error like any other.
CreateRaises(t) ==
  /\ pc[t] = "creating"
  /\ \/ /\ coll = 0
        /\ coll' = size[t]
        /\ pc' = [pc EXCEPT ![t] = Ensured(t)]
        /\ CacheSet(t, TRUE)
        /\ Release(t)
        /\ UNCHANGED <<again, retry>>
     \/ /\ coll # 0
        /\ Raises(t)
        /\ UNCHANGED <<coll, cache>>
  /\ UNCHANGED <<points, up, size, isDefault, at, dropped, faults>>

\* create_collection; "already exists" means another worker was faster.
Create(t) ==
  /\ Goes(t, "creating", Ensured(t))
  /\ coll' = IF coll = 0 THEN size[t] ELSE coll
  /\ CacheSet(t, TRUE)
  /\ Release(t)
  /\ UNCHANGED <<points, up, size, isDefault, at, again, retry, dropped, faults>>

-----------------------------------------------------------------------------
(* store_batch                                                             *)

\* The first upsert.  A missing collection sends the task through
\* ensure_collection again, a collection of another size makes it recreate the
\* collection; both take it out of the cache.
Upsert(t) ==
  /\ \/ /\ coll = size[t]
        /\ Goes(t, "upserting", "done")
        /\ points' = points \cup {t}
        /\ UNCHANGED <<cache, again>>
     \/ /\ coll = 0
        /\ Goes(t, "upserting", "ensuring")
        /\ again' = [again EXCEPT ![t] = TRUE]
        /\ CacheSet(t, FALSE)
        /\ UNCHANGED points
     \/ /\ coll \notin {0, size[t]}
        /\ Goes(t, "upserting", "relocking")
        /\ CacheSet(t, FALSE)
        /\ UNCHANGED <<points, again>>
  /\ UNCHANGED <<coll, up, lock, size, isDefault, at, retry, dropped, faults>>

\* The second upsert: nothing catches its errors.
UpsertAgain(t) ==
  /\ pc[t] = "upserting_again"
  /\ \/ /\ coll = size[t]
        /\ pc' = [pc EXCEPT ![t] = "done"]
        /\ points' = points \cup {t}
        /\ again' = [again EXCEPT ![t] = FALSE]
        /\ UNCHANGED <<lock, retry>>
     \/ /\ coll # size[t]
        /\ Raises(t)
        /\ UNCHANGED points
  /\ UNCHANGED <<coll, up, cache, size, isDefault, at, dropped, faults>>

-----------------------------------------------------------------------------
(* recreate_collection                                                     *)

\* The lock is acquired; whether the size still differs is not checked again.
Relock(t) ==
  /\ Goes(t, "relocking", "deleting")
  /\ Acquire(t)
  /\ UNCHANGED <<coll, points, up, cache, size, isDefault, at, again, retry, dropped, faults>>

\* delete_collection, whose failure is ignored.
Delete(t) ==
  /\ Goes(t, "deleting", "recreating")
  /\ \/ coll' = 0 /\ points' = {} /\ UNCHANGED faults
     \/ Fault /\ UNCHANGED <<coll, points>>
  /\ UNCHANGED <<up, cache, lock, size, isDefault, at, again, retry, dropped>>

\* create_collection, which raises if there is a collection.
Recreate(t) ==
  /\ pc[t] = "recreating"
  /\ \/ /\ coll = 0
        /\ coll' = size[t]
        /\ pc' = [pc EXCEPT ![t] = "upserting_again"]
        /\ CacheSet(t, TRUE)
        /\ Release(t)
        /\ UNCHANGED <<again, retry>>
     \/ /\ coll # 0
        /\ Raises(t)
        /\ UNCHANGED <<coll, cache>>
  /\ UNCHANGED <<points, up, size, isDefault, at, dropped, faults>>

-----------------------------------------------------------------------------
(* Faults                                                                  *)

Calling == {"checking", "creating", "recreating", "upserting", "upserting_again"}

\* Mutant: a failing call leaves the lock locked.
CallFailsInLock(t) ==
  /\ Fault
  /\ pc[t] \in Calling
  /\ again' = [again EXCEPT ![t] = FALSE]
  /\ retry[t] < MaxRetries
  /\ pc' = [pc EXCEPT ![t] = "queued"]
  /\ retry' = [retry EXCEPT ![t] = @ + 1]
  /\ UNCHANGED <<coll, points, up, cache, lock, size, isDefault, at, dropped>>

\* A call to Qdrant fails otherwise than the code expects, before or after it
\* took effect.
CallFails(t) ==
  /\ Fault
  /\ pc[t] \in Calling
  /\ Raises(t)
  /\ \/ UNCHANGED <<coll, points>>
     \/ /\ pc[t] \in {"creating", "recreating"} /\ coll = 0
        /\ coll' = size[t]
        /\ UNCHANGED points
     \/ /\ pc[t] \in {"upserting", "upserting_again"} /\ coll = size[t]
        /\ points' = points \cup {t}
        /\ UNCHANGED coll
  /\ UNCHANGED <<up, cache, size, isDefault, at, dropped>>

\* A worker dies; its messages are queued again, as they were.
WorkerDies(w) ==
  /\ Fault
  /\ up' = [up EXCEPT ![w] = "starting"]
  /\ cache' = [cache EXCEPT ![w] = FALSE]
  /\ lock' = [lock EXCEPT ![w] = NoTask]
  /\ pc' = [t \in Tasks |-> IF at[t] = w /\ pc[t] \notin {"done", "dead"}
                            THEN "queued" ELSE pc[t]]
  /\ again' = [t \in Tasks |-> again[t] /\ at[t] # w]
  /\ UNCHANGED <<coll, points, size, isDefault, at, retry, dropped>>

\* Somebody drops the collection behind the workers' caches.
Dropped ==
  /\ Fault
  /\ coll' = 0
  /\ points' = {}
  /\ dropped' = TRUE
  /\ UNCHANGED <<up, cache, lock, pc, size, isDefault, at, again, retry>>

-----------------------------------------------------------------------------
Start(w) == Initialize(w) \/ InitializeCreates(w)

Run(t) ==
  \/ \E w \in Workers : Deliver(t, w)
  \/ Ensure(t) \/ EnsureLocked(t) \/ CheckExists(t) \/ Create(t)
  \/ Upsert(t) \/ UpsertAgain(t)
  \/ Relock(t) \/ Delete(t) \/ Recreate(t)

Next ==
  \/ \E w \in Workers : Start(w) \/ WorkerDies(w)
  \/ \E t \in Tasks : Run(t) \/ CallFails(t)
  \/ Dropped

Spec == Init /\ [][Next]_vars

\* Workers start, messages are delivered, calls return, and a lock released is
\* given to the tasks that wait for it in turn.
Fairness ==
  /\ \A w \in Workers : WF_vars(Start(w))
  /\ \A t \in Tasks : WF_vars(Run(t)) /\ SF_vars(EnsureLocked(t)) /\ SF_vars(Relock(t))

FairSpec == Spec /\ Fairness

-----------------------------------------------------------------------------
(* Safety                                                                  *)

\* All embeddings have the size of the collection.
OneSize == \A t, u \in Tasks : size[t] = size[u]
SizesAgree == OneSize /\ (isDefault => \A t \in Tasks : size[t] = DefaultSize)

\* As long as the embeddings have the collection's size, the points of a batch
\* that was reported stored stay in Qdrant, through racing creations, failing
\* calls and dying workers.
StoredPointsStay ==
  SizesAgree /\ ~dropped => \A t \in Tasks : pc[t] = "done" => t \in points

\* The lock of a worker excludes: its collection is checked, created, deleted
\* or recreated by one task at a time, the one that holds the lock.
LockExcludes ==
  \A t \in Tasks : pc[t] \in InLock <=> lock[at[t]] = t

\* Racing creations cost nothing: as long as the embeddings have the
\* collection's size, no batch fails unless some call does.
RacesCostNothing ==
  SizesAgree /\ faults = 0 => \A t \in Tasks : retry[t] = 0 /\ pc[t] # "dead"

(* A claim of initialize that does not hold                                *)

\* Its docstring calls the default size safe, because "the size is updated on
\* the first store_batch": where all embeddings have the same size, a batch
\* reported stored stays, although the default was another.
DefaultSizeIsSafe ==
  OneSize /\ faults = 0 => \A t \in Tasks : pc[t] = "done" => t \in points

(* Liveness                                                                *)

\* Every batch is stored or dead-lettered: no task waits for a lock for ever,
\* nor do tasks recreate the collection for each other without end.
BatchesEnd == <>[](\A t \in Tasks : pc[t] \in {"done", "dead"})

=============================================================================
