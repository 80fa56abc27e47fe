------------------------ MODULE JobLifecycle_proofs -------------------------
(***************************************************************************)
(* Proofs about JobLifecycle, for any files, bounds and faults: its types, *)
(* and the safety properties that tie the stores to each other.  They rest *)
(* on what a step does to the set of tasks there are (Moves); the bag only *)
(* counts equal ones.                                                      *)
(***************************************************************************)
EXTENDS JobLifecycle, TLAPS

TaskSet == [kind : Kinds, run : Nat, chunks : SUBSET Files, sent : SUBSET Files,
            retry : 0..MaxRetries, stage : Stages]

-----------------------------------------------------------------------------
(* The bag                                                                 *)

LEMMA Adding ==
  ASSUME NEW B, IsABag(B), NEW m
  PROVE  /\ IsABag(B (+) SetToBag({m}))
         /\ DOMAIN (B (+) SetToBag({m})) = DOMAIN B \cup {m}
  BY DEF IsABag, (+), SetToBag

LEMMA Dropping ==
  ASSUME NEW B, IsABag(B), NEW t \in DOMAIN B
  PROVE  LET C == B (-) SetToBag({t})
         IN  IsABag(C) /\ DOMAIN B \ {t} \subseteq DOMAIN C /\ DOMAIN C \subseteq DOMAIN B
  BY DEF IsABag, (-), SetToBag

\* Of the tasks t may go and those of new come; the others stay.
Moves(t, new) ==
  /\ IsABag(tasks')
  /\ Live \ {t} \subseteq Live'
  /\ new \subseteq Live'
  /\ Live' \subseteq Live \cup new

LEMMA BecomesMoves ==
  ASSUME TypeOK, NEW t \in Live, NEW u, Becomes(t, u)
  PROVE  Moves(t, {u})
<1> DEFINE C == tasks (-) SetToBag({t})
<1>1. IsABag(C) /\ DOMAIN tasks \ {t} \subseteq DOMAIN C /\ DOMAIN C \subseteq DOMAIN tasks
  BY Dropping DEF TypeOK, Live, BagToSet
<1>2. tasks' = C (+) SetToBag({u})
  BY DEF Becomes
<1> HIDE DEF C
<1>3. IsABag(tasks') /\ DOMAIN tasks' = DOMAIN C \cup {u}
  BY <1>1, <1>2, Adding
<1>4. QED
  BY <1>1, <1>3 DEF Moves, Live, BagToSet

LEMMA BecomesAndMoves ==
  ASSUME TypeOK, NEW t \in Live, NEW u, NEW m, BecomesAnd(t, u, m)
  PROVE  Moves(t, {u, m})
<1> DEFINE C == tasks (-) SetToBag({t})
           D == C (+) SetToBag({u})
<1>1. IsABag(C) /\ DOMAIN tasks \ {t} \subseteq DOMAIN C /\ DOMAIN C \subseteq DOMAIN tasks
  BY Dropping DEF TypeOK, Live, BagToSet
<1>2. tasks' = D (+) SetToBag({m})
  BY DEF BecomesAnd
<1> HIDE DEF C
<1>3. IsABag(D) /\ DOMAIN D = DOMAIN C \cup {u}
  BY <1>1, Adding
<1> HIDE DEF D
<1>4. IsABag(tasks') /\ DOMAIN tasks' = DOMAIN D \cup {m}
  BY <1>2, <1>3, Adding
<1>5. QED
  BY <1>1, <1>3, <1>4 DEF Moves, Live, BagToSet

LEMMA AckMoves ==
  ASSUME TypeOK, NEW t \in Live, tasks' = tasks (-) SetToBag({t})
  PROVE  Moves(t, {})
<1>1. IsABag(tasks') /\ DOMAIN tasks \ {t} \subseteq DOMAIN tasks' /\ DOMAIN tasks' \subseteq DOMAIN tasks
  BY Dropping DEF TypeOK, Live, BagToSet
<1>2. QED
  BY <1>1 DEF Moves, Live, BagToSet

LEMMA AddMoves ==
  ASSUME TypeOK, NEW m, tasks' = tasks (+) SetToBag({m})
  PROVE  IsABag(tasks') /\ Live' = Live \cup {m}
<1>1. IsABag(tasks') /\ DOMAIN tasks' = DOMAIN tasks \cup {m}
  BY Adding DEF TypeOK
<1>2. QED
  BY <1>1 DEF Live, BagToSet

-----------------------------------------------------------------------------
(* What the queue does to a message                                        *)

LEMMA RedeliveryFacts ==
  ASSUME NEW t \in TaskSet
  PROVE  LET u == Redelivery(t)
         IN  /\ u \in TaskSet
             /\ u.kind = t.kind /\ u.sent = {} /\ u.stage = "ready"
             /\ t.kind # "ingest" => u.run = t.run /\ u.chunks = t.chunks
<1>1. CASE t.kind = "ingest"
  BY <1>1 DEF Redelivery, Message, TaskSet, Kinds, Stages
<1>2. CASE t.kind # "ingest"
  BY <1>2 DEF Redelivery, Message, TaskSet, Kinds, Stages
<1>3. QED
  BY <1>1, <1>2

LEMMA FailureFacts ==
  ASSUME NEW t \in TaskSet
  PROVE  LET u == AfterFailure(t)
         IN  /\ u \in TaskSet
             /\ u.kind = t.kind /\ u.sent = {} /\ u.stage \in {"ready", "dead"}
             /\ t.kind # "ingest" => u.run = t.run /\ u.chunks = t.chunks
<1> USE BoundsAssumption
<1> DEFINE u == Redelivery(t)
<1>1. /\ u \in TaskSet
      /\ u.kind = t.kind /\ u.sent = {} /\ u.stage = "ready"
      /\ t.kind # "ingest" => u.run = t.run /\ u.chunks = t.chunks
  BY RedeliveryFacts
<1>2. AfterFailure(t) = IF t.retry < MaxRetries THEN [u EXCEPT !.retry = t.retry + 1]
                                                ELSE [u EXCEPT !.stage = "dead"]
  BY DEF AfterFailure
<1>3. t.retry \in 0..MaxRetries /\ MaxRetries \in Nat
  BY DEF TaskSet
<1> HIDE DEF u
<1>4. CASE t.retry < MaxRetries
  BY <1>1, <1>2, <1>3, <1>4 DEF TaskSet
<1>5. CASE ~(t.retry < MaxRetries)
  BY <1>1, <1>2, <1>3, <1>5 DEF TaskSet, Stages
<1>6. QED
  BY <1>4, <1>5

\* What the queue may make of t when its handler fails or its connection is lost.
Returned(t) == {AfterFailure(t), Abandoned(t), Redelivery(t)}

LEMMA ReturnedFacts ==
  ASSUME NEW t \in TaskSet, NEW u \in Returned(t)
  PROVE  /\ u \in TaskSet
         /\ u.kind = t.kind /\ u.sent = {} /\ u.stage \in {"ready", "abandoned", "dead"}
         /\ t.kind # "ingest" => u.run = t.run /\ u.chunks = t.chunks
<1>1. CASE u = AfterFailure(t)
  BY <1>1, FailureFacts
<1>2. CASE u = Redelivery(t)
  BY <1>2, RedeliveryFacts
<1>3. CASE u = Abandoned(t)
  <2> DEFINE v == Redelivery(t)
  <2>1. /\ v \in TaskSet
        /\ v.kind = t.kind /\ v.sent = {}
        /\ t.kind # "ingest" => v.run = t.run /\ v.chunks = t.chunks
    BY RedeliveryFacts
  <2>2. u = [v EXCEPT !.stage = "abandoned"]
    BY <1>3 DEF Abandoned
  <2> HIDE DEF v
  <2>3. QED
    BY <2>1, <2>2 DEF TaskSet, Stages
<1>4. QED
  BY <1>1, <1>2, <1>3 DEF Returned

-----------------------------------------------------------------------------
(* Types                                                                   *)

\* A task that has something to do with chunks knows which run they are from.
RunKnown == \A t \in Live : t.kind # "ingest" \/ t.stage = "publishing" => t.run \in 1..runs

TypeInv == TypeOK /\ RunKnown

\* A step of the workers keeps the types if what it adds to tasks, vectors,
\* documents and report has them.
LEMMA WorkType ==
  ASSUME TypeInv, NEW t \in Live, NEW new, Moves(t, new), new \subseteq TaskSet,
         \A u \in new : u.kind # "ingest" \/ u.stage = "publishing" => u.run \in 1..runs',
         runs' \in Nat, runs <= runs',
         row' \in Statuses \cup {"none"}, report' \in [run : Nat, chunks : SUBSET Files],
         vectors' \subseteq (1..runs') \X Files, documents' \in SUBSET Files,
         incidents' \in SUBSET Incidents, faults' \in 0..MaxFaults, UNCHANGED upload
  PROVE  TypeInv'
<1>1. /\ IsABag(tasks') /\ Live' \subseteq Live \cup new /\ runs \in Nat
      /\ Live \subseteq TaskSet
  BY DEF Moves, TypeInv, TypeOK, TaskSet
<1>2. Live' \subseteq TaskSet
  BY <1>1
<1>3. \A u \in Live' : u.kind # "ingest" \/ u.stage = "publishing" => u.run \in 1..runs'
  BY <1>1 DEF TypeInv, RunKnown
<1>4. TypeOK'
  BY <1>1, <1>2 DEF TypeInv, TypeOK, TaskSet, upload
<1>5. QED
  BY <1>3, <1>4 DEF TypeInv, RunKnown

LEMMA TypeStep ==
  ASSUME TypeInv, [Next]_vars
  PROVE  TypeInv'
<1> USE BoundsAssumption
<1>0. /\ TypeOK /\ Live \subseteq TaskSet /\ runs \in Nat
      /\ vectors \subseteq (1..runs) \X Files
      /\ \A t \in Live : t.kind # "ingest" \/ t.stage = "publishing" => t.run \in 1..runs
  BY DEF TypeInv, TypeOK, RunKnown, TaskSet
<1>a. ASSUME api' \in ApiStages, pending' \in SUBSET Files, store' \in SUBSET Files,
             parts' \in SUBSET Files, incidents' \in SUBSET Incidents, faults' \in 0..MaxFaults,
             UNCHANGED job
      PROVE  TypeInv'
  BY <1>a DEF TypeInv, TypeOK, RunKnown, Live, job
<1>1. CASE ApiStep
  <2>1. CASE \E f \in Files : OpenUpload(f) \/ CompleteUpload(f) \/ CleanUp(f)
    <3>1. PICK f \in Files : OpenUpload(f) \/ CompleteUpload(f) \/ CleanUp(f)
      BY <2>1
    <3>2. CASE OpenUpload(f)
      BY <1>0, <1>a, <3>2 DEF OpenUpload, TypeOK
    <3>3. CASE CompleteUpload(f)
      BY <1>0, <1>a, <3>3 DEF CompleteUpload, TypeOK
    <3>4. CASE CleanUp(f)
      <4>1. incidents' \in SUBSET Incidents
        BY <1>0, <3>4 DEF CleanUp, TypeOK, Incidents
      <4>2. faults' \in 0..MaxFaults
        BY <1>0, <3>4 DEF CleanUp, TypeOK, Fault
      <4>3. store' \in SUBSET Files /\ parts' \in SUBSET Files /\ pending' \in SUBSET Files
        BY <1>0, <3>4 DEF CleanUp, TypeOK
      <4>4. QED
        BY <1>0, <1>a, <3>4, <4>1, <4>2, <4>3 DEF CleanUp, TypeOK, ApiStages
    <3>5. QED
      BY <3>1, <3>2, <3>3, <3>4
  <2>2. CASE Abort
    <3>1. incidents' \in SUBSET Incidents
      BY <1>0, <2>2 DEF Abort, TypeOK, Incidents
    <3>2. faults' \in 0..MaxFaults
      BY <1>0, <2>2 DEF Abort, TypeOK, Fault
    <3>3. store' \in SUBSET Files /\ parts' \in SUBSET Files /\ pending' \in SUBSET Files
      BY <1>0, <2>2 DEF Abort, TypeOK
    <3>4. QED
      BY <1>0, <1>a, <2>2, <3>1, <3>2, <3>3 DEF Abort, TypeOK, ApiStages
  <2>3. CASE PublishJob
    <3>1. IsABag(tasks') /\ Live' = Live \cup {Message("ingest", 0, {})}
      BY <1>0, <2>3, AddMoves DEF PublishJob
    <3>2. /\ Message("ingest", 0, {}) \in TaskSet
          /\ Message("ingest", 0, {}).kind = "ingest" /\ Message("ingest", 0, {}).stage = "ready"
      BY DEF Message, TaskSet, Kinds, Stages
    <3>3. QED
      BY <1>0, <2>3, <3>1, <3>2 DEF PublishJob, TypeInv, TypeOK, RunKnown, ApiStages, TaskSet
  <2>4. CASE Commit
    BY <2>4 DEF Commit, TypeInv, TypeOK, RunKnown, Live, Statuses, ApiStages
  <2>5. CASE Reject
    BY <2>5 DEF Reject, TypeInv, TypeOK, RunKnown, Live, job, ApiStages
  <2>6. QED
    BY <1>1, <2>1, <2>2, <2>3, <2>4, <2>5 DEF ApiStep
<1>2. CASE UploadFails
  <2>1. incidents' \in SUBSET Incidents
    BY <1>0, <1>2 DEF UploadFails, TypeOK, Incidents
  <2>2. faults' \in 0..MaxFaults
    BY <1>0, <1>2 DEF UploadFails, TypeOK, Fault
  <2>3. store' \in SUBSET Files /\ parts' \in SUBSET Files /\ pending' \in SUBSET Files
    BY <1>0, <1>2 DEF UploadFails, TypeOK
  <2>4. QED
    BY <1>0, <1>a, <1>2, <2>1, <2>2, <2>3 DEF UploadFails, TypeOK, ApiStages
<1>22. CASE AnswerLost
  <2>1. incidents' \in SUBSET Incidents /\ faults' \in 0..MaxFaults /\ api' \in ApiStages
    BY <1>0, <1>22 DEF AnswerLost, TypeOK, Incidents, Fault, ApiStages
  <2>2. store' \in SUBSET Files /\ parts' \in SUBSET Files /\ pending' \in SUBSET Files
    BY <1>0, <1>22 DEF AnswerLost, TypeOK
  <2>3. row' \in Statuses \cup {"none"}
    BY <1>0, <1>22 DEF AnswerLost, TypeOK, Statuses
  <2>4. QED
    BY <1>22, <2>1, <2>2, <2>3 DEF AnswerLost, TypeInv, TypeOK, RunKnown, Live
<1>3. CASE ApiDies
  BY <1>3 DEF ApiDies, TypeInv, TypeOK, RunKnown, Live, job, Fault, ApiStages
<1>4. ASSUME NEW t \in Live, StartIngest(t) PROVE TypeInv'
  <2> DEFINE u == [t EXCEPT !.stage = "started"]
  <2>1. Moves(t, {u})
    BY <1>0, <1>4, BecomesMoves DEF StartIngest, Advance
  <2>2. u \in TaskSet /\ u.kind = "ingest" /\ u.stage = "started"
    BY <1>0, <1>4 DEF StartIngest, At, TaskSet, Stages
  <2> HIDE DEF u
  <2>3. QED
    BY <1>4, <1>0, <2>1, <2>2, WorkType DEF StartIngest, SetStatus, TypeOK, Statuses, Incidents
<1>5. ASSUME NEW t \in Live, RunPipeline(t) PROVE TypeInv'
  <2>1. PICK chunks \in SUBSET (store \cap Readable) :
          /\ IF chunks = store \cap Readable THEN UNCHANGED faults ELSE Fault
          /\ runs' = runs + 1
          /\ Becomes(t, [t EXCEPT !.run = runs + 1, !.chunks = chunks,
                                  !.stage = IF chunks = {} THEN "done" ELSE "publishing"])
          /\ incidents' = IF chunks = {} THEN incidents \cup {"no_chunks"} ELSE incidents
    BY <1>5 DEF RunPipeline
  <2> DEFINE u == [t EXCEPT !.run = runs + 1, !.chunks = chunks,
                            !.stage = IF chunks = {} THEN "done" ELSE "publishing"]
  <2>2. Moves(t, {u})
    BY <1>0, <2>1, BecomesMoves
  <2>3. t \in TaskSet /\ t.kind = "ingest" /\ runs + 1 \in Nat /\ chunks \in SUBSET Files
    BY <1>0, <1>5, FilesAssumption DEF RunPipeline, At, TypeOK
  <2>4. u \in TaskSet /\ u.kind = "ingest" /\ u.run = runs + 1
    BY <2>3 DEF TaskSet, Stages
  <2> HIDE DEF u
  <2>5. runs' \in Nat /\ runs <= runs' /\ u.run \in 1..runs' /\ vectors \subseteq (1..runs') \X Files
    BY <1>0, <2>1, <2>4
  <2>6. incidents' \in SUBSET Incidents /\ faults' \in 0..MaxFaults
    BY <1>0, <2>1 DEF TypeOK, Incidents, Fault
  <2>7. QED
    BY <1>0, <1>5, <2>2, <2>4, <2>5, <2>6, WorkType DEF RunPipeline, TypeOK
<1>6. ASSUME NEW t \in Live, PublishBatch(t) PROVE TypeInv'
  <2>1. PICK f \in t.chunks \ t.sent :
          BecomesAnd(t, [t EXCEPT !.sent = @ \cup {f}], Message("store", t.run, {f}))
    BY <1>6 DEF PublishBatch
  <2> DEFINE u == [t EXCEPT !.sent = @ \cup {f}]
             m == Message("store", t.run, {f})
  <2>2. Moves(t, {u, m})
    BY <1>0, <2>1, BecomesAndMoves
  <2>3. t \in TaskSet /\ t.kind = "ingest" /\ t.stage = "publishing" /\ t.run \in 1..runs /\ f \in Files
    BY <1>0, <1>6 DEF PublishBatch, At, TaskSet
  <2>4. u \in TaskSet /\ u.run = t.run /\ m \in TaskSet /\ m.run = t.run
    BY <2>3 DEF TaskSet, Message, Kinds, Stages
  <2> HIDE DEF u, m
  <2>5. QED
    BY <1>0, <1>6, <2>2, <2>3, <2>4, WorkType DEF PublishBatch, TypeOK
<1>7. ASSUME NEW t \in Live, PublishAnalysis(t) PROVE TypeInv'
  <2> DEFINE u == [t EXCEPT !.stage = "done"]
             m == Message("analyse", t.run, t.chunks)
  <2>1. Moves(t, {u, m})
    BY <1>0, <1>7, BecomesAndMoves DEF PublishAnalysis
  <2>2. t \in TaskSet /\ t.kind = "ingest" /\ t.stage = "publishing" /\ t.run \in 1..runs
    BY <1>0, <1>7 DEF PublishAnalysis, At
  <2>3. u \in TaskSet /\ u.run = t.run /\ m \in TaskSet /\ m.run = t.run
    BY <2>2 DEF TaskSet, Message, Kinds, Stages
  <2> HIDE DEF u, m
  <2>4. QED
    BY <1>0, <1>7, <2>1, <2>2, <2>3, WorkType DEF PublishAnalysis, TypeOK
<1>8. ASSUME NEW t \in Live, StoreVectors(t) PROVE TypeInv'
  <2> DEFINE u == [t EXCEPT !.stage = "stored"]
  <2>1. Moves(t, {u})
    BY <1>0, <1>8, BecomesMoves DEF StoreVectors, Advance
  <2>2. t \in TaskSet /\ t.run \in 1..runs
    BY <1>0, <1>8 DEF StoreVectors, At
  <2>3. u \in TaskSet /\ u.run = t.run
    BY <2>2 DEF TaskSet, Stages
  <2>4. vectors' \subseteq (1..runs) \X Files
    BY <1>0, <1>8, <2>2 DEF StoreVectors, TaskSet
  <2> HIDE DEF u
  <2>5. QED
    BY <1>0, <1>8, <2>1, <2>2, <2>3, <2>4, WorkType DEF StoreVectors, TypeOK
<1>9. ASSUME NEW t \in Live, NEW stage \in Stages \ {"publishing"}, Advance(t, stage),
             row' \in Statuses \cup {"none"}, report' \in [run : Nat, chunks : SUBSET Files],
             documents' \in SUBSET Files, incidents' \in SUBSET Incidents,
             UNCHANGED <<upload, runs, vectors, faults>>
      PROVE  TypeInv'
  <2> DEFINE u == [t EXCEPT !.stage = stage]
  <2>1. Moves(t, {u})
    BY <1>0, <1>9, BecomesMoves DEF Advance
  <2>2. t \in TaskSet /\ u \in TaskSet /\ u.run = t.run /\ u.kind = t.kind /\ u.stage = stage
    BY <1>0 DEF TaskSet
  <2> HIDE DEF u
  <2>3. \A w \in {u} : w.kind # "ingest" \/ w.stage = "publishing" => w.run \in 1..runs'
    BY <1>0, <1>9, <2>2
  <2>4. QED
    BY <1>0, <1>9, <2>1, <2>2, <2>3, WorkType DEF TypeOK
<1>10. ASSUME NEW t \in Live, FindDocument(t) PROVE TypeInv'
  BY <1>0, <1>9, <1>10 DEF FindDocument, TypeOK, Stages
<1>11. ASSUME NEW t \in Live, SaveGraph(t) PROVE TypeInv'
  <2>1. documents' \in SUBSET Files
    BY <1>0, <1>11 DEF SaveGraph, TypeOK, TaskSet
  <2>2. QED
    BY <1>0, <1>9, <1>11, <2>1 DEF SaveGraph, TypeOK, Stages
<1>12. ASSUME NEW t \in Live, Analyse(t) \/ ToolHangs(t) PROVE TypeInv'
  BY <1>0, <1>9, <1>12 DEF Analyse, ToolHangs, TypeOK, Stages
<1>13. ASSUME NEW t \in Live, Persist(t) PROVE TypeInv'
  <2>1. Verdict(t) \in [run : Nat, chunks : SUBSET Files]
    BY <1>0 DEF Verdict, TaskSet
  <2>2. CASE SaveReport(Verdict(t)) /\ Advance(t, "saved") /\ UNCHANGED row
    BY <1>0, <1>9, <1>13, <2>1, <2>2 DEF Persist, SaveReport, TypeOK, Stages, Incidents
  <2>3. CASE SetStatus("completed") /\ Advance(t, "done") /\ UNCHANGED report
    BY <1>0, <1>9, <1>13, <2>3 DEF Persist, SetStatus, TypeOK, Stages, Statuses, Incidents
  <2>4. QED
    BY <1>13, <2>2, <2>3 DEF Persist
<1>14. ASSUME NEW t \in Live, NEW u, Moves(t, {u}), u \in TaskSet, u.kind = t.kind,
              u.stage # "publishing", t.kind # "ingest" => u.run = t.run,
              row' \in Statuses \cup {"none"}, incidents' \in SUBSET Incidents,
              faults' \in 0..MaxFaults, UNCHANGED <<upload, report, runs, vectors, documents>>
       PROVE  TypeInv'
  BY <1>0, <1>14, WorkType DEF TypeOK
<1>15. ASSUME NEW t \in Live, HandlerFails(t) PROVE TypeInv'
  <2>1. PICK u \in Returned(t) : Moves(t, {u})
    BY <1>0, <1>15, BecomesMoves DEF HandlerFails, Returned
  <2>2. row' \in Statuses \cup {"none"} /\ incidents' \in SUBSET Incidents /\ faults' \in 0..MaxFaults
    BY <1>0, <1>15 DEF HandlerFails, SetStatus, Fault, TypeOK, Statuses, Incidents
  <2>3. QED
    BY <1>0, <1>14, <1>15, <2>1, <2>2, ReturnedFacts DEF HandlerFails
<1>16. ASSUME NEW t \in Live, GraphRefused(t) PROVE TypeInv'
  <2>1. PICK u \in Returned(t) : Moves(t, {u})
    BY <1>0, <1>16, BecomesMoves DEF GraphRefused, Returned
  <2>2. row' \in Statuses \cup {"none"} /\ incidents' \in SUBSET Incidents /\ faults' \in 0..MaxFaults
    BY <1>0, <1>16 DEF GraphRefused, TypeOK, Incidents, Fault
  <2>3. QED
    BY <1>0, <1>14, <1>16, <2>1, <2>2, ReturnedFacts DEF GraphRefused
<1>17. ASSUME NEW t \in Live, Ack(t) PROVE TypeInv'
  <2>1. Moves(t, {})
    BY <1>0, <1>17, AckMoves DEF Ack
  <2>2. QED
    BY <1>0, <1>17, <2>1, WorkType DEF Ack, TypeOK
<1>18. ASSUME NEW t \in Live, Redeliver(t) PROVE TypeInv'
  <2>1. IsABag(tasks') /\ Live' = Live \cup {Redelivery(t)}
    BY <1>0, <1>18, AddMoves DEF Redeliver
  <2>2. Moves(t, {Redelivery(t)})
    BY <2>1 DEF Moves
  <2>3. faults' \in 0..MaxFaults
    BY <1>0, <1>18 DEF Redeliver, Fault, TypeOK
  <2>4. QED
    BY <1>0, <1>14, <1>18, <2>2, <2>3, RedeliveryFacts DEF Redeliver, TypeOK
<1>19. ASSUME NEW t \in Live, WorkerDies(t) PROVE TypeInv'
  <2>1. Moves(t, {Redelivery(t)})
    BY <1>0, <1>19, BecomesMoves DEF WorkerDies
  <2>2. faults' \in 0..MaxFaults
    BY <1>0, <1>19 DEF WorkerDies, Fault, TypeOK
  <2>3. QED
    BY <1>0, <1>14, <1>19, <2>1, <2>2, RedeliveryFacts DEF WorkerDies, TypeOK
<1>20. CASE UNCHANGED vars
  BY <1>20 DEF vars, job, upload, TypeInv, TypeOK, RunKnown, Live
<1>21. QED
  BY <1>1, <1>2, <1>3, <1>4, <1>5, <1>6, <1>7, <1>8, <1>10, <1>11, <1>12, <1>13, <1>15, <1>16,
     <1>17, <1>18, <1>19, <1>20, <1>22 DEF Next, Work

LEMMA TypeInvCorrect == Spec => []TypeInv
<1>1. Init => TypeInv
  <2> SUFFICES ASSUME Init PROVE TypeInv
    OBVIOUS
  <2>1. IsABag(tasks) /\ Live = {}
    BY DEF Init, EmptyBag, SetToBag, IsABag, Live, BagToSet
  <2>2. QED
    BY <2>1, BoundsAssumption DEF Init, TypeInv, TypeOK, RunKnown, ApiStages, NoReport
<1>2. QED
  BY <1>1, TypeStep, PTL DEF Spec

\* Types hold throughout.
THEOREM TypeCorrect == Spec => []TypeOK
<1>1. TypeInv => TypeOK
  BY DEF TypeInv
<1>2. QED
  BY <1>1, TypeInvCorrect, PTL

-----------------------------------------------------------------------------
(* What a step of the workers does                                         *)

\* The tasks that may come of t in a step, with what the stores gain.
Outcome(t, new) ==
  \/ /\ t.kind = "ingest" /\ t.stage = "ready"
     /\ new = {[t EXCEPT !.stage = "started"]}
     /\ UNCHANGED <<report, runs, vectors, documents>>
  \/ /\ t.kind = "ingest" /\ t.stage = "started"
     /\ \E chunks \in SUBSET Files :
          /\ new = {[t EXCEPT !.run = runs + 1, !.chunks = chunks,
                              !.stage = IF chunks = {} THEN "done" ELSE "publishing"]}
          /\ chunks = {} => incidents' # {}
     /\ UNCHANGED <<report, vectors, documents>>
  \/ /\ t.kind = "ingest" /\ t.stage = "publishing"
     /\ \E f \in t.chunks : new = {[t EXCEPT !.sent = @ \cup {f}], Message("store", t.run, {f})}
     /\ UNCHANGED <<report, runs, vectors, documents>>
  \/ /\ t.kind = "ingest" /\ t.stage = "publishing" /\ t.sent = t.chunks
     /\ new = {[t EXCEPT !.stage = "done"], Message("analyse", t.run, t.chunks)}
     /\ UNCHANGED <<report, runs, vectors, documents>>
  \/ /\ t.kind = "store" /\ t.stage = "ready"
     /\ new = {[t EXCEPT !.stage = "stored"]}
     /\ vectors' = vectors \cup ({t.run} \X t.chunks)
     /\ UNCHANGED <<report, runs, documents>>
  \/ /\ t.kind = "store" /\ t.stage = "stored"
     /\ \E stage \in {"found", "missing"} :
          /\ new = {[t EXCEPT !.stage = stage]}
          /\ stage = "found" => t.chunks \subseteq documents
     /\ UNCHANGED <<report, runs, vectors, documents>>
  \/ /\ t.kind = "store" /\ t.stage \in {"found", "missing"}
     /\ new = {[t EXCEPT !.stage = "done"]}
     /\ documents' = documents \cup t.chunks
     /\ UNCHANGED <<report, runs, vectors>>
  \/ /\ t.kind = "analyse" /\ t.stage = "ready"
     /\ \E stage \in {"analysed", "hung"} : new = {[t EXCEPT !.stage = stage]}
     /\ UNCHANGED <<report, runs, vectors, documents>>
  \/ /\ t.kind = "analyse" /\ t.stage = "analysed"
     /\ new = {[t EXCEPT !.stage = "saved"]}
     /\ report' = Verdict(t) \/ (UNCHANGED report /\ incidents' # {})
     /\ UNCHANGED <<runs, vectors, documents>>
  \/ /\ t.kind = "analyse" /\ t.stage = "saved"
     /\ new = {[t EXCEPT !.stage = "done"]}
     /\ UNCHANGED <<report, runs, vectors, documents>>
  \/ /\ t.stage = "done"
     /\ new = {}
     /\ UNCHANGED <<report, runs, vectors, documents>>
  \* The queue takes the message back.
  \/ /\ \E u \in Returned(t) : new = {u} \/ new = {u, t}
     /\ UNCHANGED <<report, runs, vectors, documents>>

\* Every step of a worker or its queue is about some task in that way.
LEMMA WorkerStep ==
  ASSUME TypeInv, NEW t \in Live, Work(t) \/ ToolHangs(t) \/ HandlerFails(t) \/ Redeliver(t) \/ WorkerDies(t)
  PROVE  /\ \E new : Moves(t, new) /\ Outcome(t, new)
         /\ incidents \subseteq incidents' /\ UNCHANGED upload
<1>0. TypeOK /\ t \in TaskSet
  BY DEF TypeInv, TypeOK, TaskSet
<1>a. ASSUME NEW u, Becomes(t, u), Outcome(t, {u}) PROVE \E new : Moves(t, new) /\ Outcome(t, new)
  BY <1>0, <1>a, BecomesMoves
<1>1. ASSUME StartIngest(t) PROVE \E new : Moves(t, new) /\ Outcome(t, new)
  BY <1>1, <1>a DEF StartIngest, Advance, At, Outcome
<1>2. ASSUME RunPipeline(t) PROVE \E new : Moves(t, new) /\ Outcome(t, new)
  <2>1. PICK chunks \in SUBSET (store \cap Readable) :
          /\ Becomes(t, [t EXCEPT !.run = runs + 1, !.chunks = chunks,
                                  !.stage = IF chunks = {} THEN "done" ELSE "publishing"])
          /\ incidents' = IF chunks = {} THEN incidents \cup {"no_chunks"} ELSE incidents
    BY <1>2 DEF RunPipeline
  <2>2. chunks \in SUBSET Files /\ (chunks = {} => incidents' # {})
    BY <2>1, FilesAssumption
  <2>3. QED
    BY <1>2, <1>a, <2>1, <2>2 DEF RunPipeline, At, Outcome
<1>3. ASSUME PublishBatch(t) PROVE \E new : Moves(t, new) /\ Outcome(t, new)
  <2>1. PICK f \in t.chunks \ t.sent :
          BecomesAnd(t, [t EXCEPT !.sent = @ \cup {f}], Message("store", t.run, {f}))
    BY <1>3 DEF PublishBatch
  <2>2. Moves(t, {[t EXCEPT !.sent = @ \cup {f}], Message("store", t.run, {f})})
    BY <1>0, <2>1, BecomesAndMoves
  <2>3. Outcome(t, {[t EXCEPT !.sent = @ \cup {f}], Message("store", t.run, {f})})
    BY <1>3 DEF PublishBatch, At, Outcome
  <2>4. QED
    BY <2>2, <2>3
<1>4. ASSUME PublishAnalysis(t) PROVE \E new : Moves(t, new) /\ Outcome(t, new)
  <2>1. Moves(t, {[t EXCEPT !.stage = "done"], Message("analyse", t.run, t.chunks)})
    BY <1>0, <1>4, BecomesAndMoves DEF PublishAnalysis
  <2>2. Outcome(t, {[t EXCEPT !.stage = "done"], Message("analyse", t.run, t.chunks)})
    BY <1>4 DEF PublishAnalysis, At, Outcome
  <2>3. QED
    BY <2>1, <2>2
<1>5. ASSUME StoreVectors(t) PROVE \E new : Moves(t, new) /\ Outcome(t, new)
  BY <1>5, <1>a DEF StoreVectors, Advance, At, Outcome
<1>6. ASSUME FindDocument(t) PROVE \E new : Moves(t, new) /\ Outcome(t, new)
  <2> DEFINE stage == IF t.chunks \subseteq documents THEN "found" ELSE "missing"
  <2>1. Outcome(t, {[t EXCEPT !.stage = stage]})
    BY <1>6 DEF FindDocument, At, Outcome
  <2>2. QED
    BY <1>6, <1>a, <2>1 DEF FindDocument, Advance
<1>7. ASSUME SaveGraph(t) PROVE \E new : Moves(t, new) /\ Outcome(t, new)
  BY <1>7, <1>a DEF SaveGraph, Advance, Outcome
<1>8. ASSUME GraphRefused(t) PROVE \E new : Moves(t, new) /\ Outcome(t, new)
  BY <1>8, <1>a DEF GraphRefused, Outcome, Returned
<1>9. ASSUME Analyse(t) \/ ToolHangs(t) PROVE \E new : Moves(t, new) /\ Outcome(t, new)
  BY <1>9, <1>a DEF Analyse, ToolHangs, Advance, At, Outcome
<1>10. ASSUME Persist(t) PROVE \E new : Moves(t, new) /\ Outcome(t, new)
  <2>1. CASE At(t, "analyse", "analysed") /\ SaveReport(Verdict(t)) /\ Advance(t, "saved")
    <3>1. report' = Verdict(t) \/ (UNCHANGED report /\ incidents' # {})
      <4>1. /\ report' = IF row = "none" THEN report ELSE Verdict(t)
            /\ incidents' = IF row = "none" THEN incidents \cup {"no_row"} ELSE incidents
        BY <2>1 DEF SaveReport
      <4>2. CASE row = "none"
        BY <4>1, <4>2
      <4>3. CASE row # "none"
        BY <4>1, <4>3
      <4>4. QED
        BY <4>2, <4>3
    <3>2. QED
      BY <1>10, <1>a, <2>1, <3>1 DEF Persist, Advance, At, Outcome
  <2>2. CASE At(t, "analyse", "saved") /\ Advance(t, "done") /\ UNCHANGED report
    BY <1>10, <1>a, <2>2 DEF Persist, Advance, At, Outcome
  <2>3. QED
    BY <1>10, <2>1, <2>2 DEF Persist
<1>11. ASSUME Ack(t) PROVE \E new : Moves(t, new) /\ Outcome(t, new)
  <2>1. Moves(t, {}) /\ Outcome(t, {})
    BY <1>0, <1>11, AckMoves DEF Ack, Outcome
  <2>2. QED
    BY <2>1
<1>12. ASSUME HandlerFails(t) PROVE \E new : Moves(t, new) /\ Outcome(t, new)
  BY <1>12, <1>a DEF HandlerFails, Outcome, Returned
<1>13. ASSUME Redeliver(t) PROVE \E new : Moves(t, new) /\ Outcome(t, new)
  <2>1. IsABag(tasks') /\ Live' = Live \cup {Redelivery(t)}
    BY <1>0, <1>13, AddMoves DEF Redeliver
  <2>2. Moves(t, {Redelivery(t), t})
    BY <2>1 DEF Moves
  <2>3. Outcome(t, {Redelivery(t), t})
    BY <1>13 DEF Redeliver, Outcome, Returned
  <2>4. QED
    BY <2>2, <2>3
<1>14. ASSUME WorkerDies(t) PROVE \E new : Moves(t, new) /\ Outcome(t, new)
  BY <1>14, <1>a DEF WorkerDies, Outcome, Returned
<1>15. \E new : Moves(t, new) /\ Outcome(t, new)
  BY <1>1, <1>2, <1>3, <1>4, <1>5, <1>6, <1>7, <1>8, <1>9, <1>10, <1>11, <1>12, <1>13, <1>14 DEF Work
<1>16. UNCHANGED upload
  BY DEF Work, StartIngest, RunPipeline, PublishBatch, PublishAnalysis, StoreVectors,
     FindDocument, SaveGraph, GraphRefused, Analyse, Persist, Ack,
     ToolHangs, HandlerFails, Redeliver, WorkerDies
<1>17. incidents \subseteq incidents'
  BY DEF Work, StartIngest, RunPipeline, PublishBatch, PublishAnalysis, StoreVectors,
     FindDocument, SaveGraph, GraphRefused, Analyse, Persist, Ack,
     ToolHangs, HandlerFails, Redeliver, WorkerDies,
     SetStatus, SaveReport
<1>18. QED
  BY <1>15, <1>16, <1>17

-----------------------------------------------------------------------------
(* Uploads                                                                 *)

\* Until something leaks, the handler knows what it has uploaded: what is not
\* pending while it uploads, what is pending while it cleans up.
UploadInv ==
  /\ api = "uploading" => store = Files \ pending /\ parts \subseteq pending
  /\ api \in {"committing", "accepted"} => store = Files /\ parts = {}
  /\ incidents \cap {"leak", "lost_answer"} = {} =>
       /\ api \in {"aborting", "cleaning"} => pending = store
       /\ api \in {"cleaning", "rejected"} => parts = {}
       /\ api = "rejected" => store = {}

LEMMA UploadStep ==
  ASSUME TypeInv, UploadInv, [Next]_vars
  PROVE  UploadInv'
<1> USE DEF UploadInv
<1>0. pending \subseteq Files /\ store \subseteq Files
  BY DEF TypeInv, TypeOK
<1>1. ASSUME NEW f \in Files, OpenUpload(f) PROVE UploadInv'
  BY <1>1 DEF OpenUpload
<1>2. ASSUME NEW f \in Files, CompleteUpload(f) PROVE UploadInv'
  BY <1>0, <1>2 DEF CompleteUpload
<1>3. ASSUME NEW f \in Files, CleanUp(f) PROVE UploadInv'
  BY <1>3 DEF CleanUp
<1>4. CASE Abort
  BY <1>4 DEF Abort
<1>5. CASE PublishJob
  BY <1>5 DEF PublishJob
<1>6. CASE Commit
  BY <1>6 DEF Commit
<1>7. CASE Reject
  BY <1>7 DEF Reject
<1>8. CASE UploadFails
  BY <1>8 DEF UploadFails
<1>13. CASE AnswerLost
  BY <1>13 DEF AnswerLost
<1>9. CASE ApiDies
  BY <1>9 DEF ApiDies
<1>10. CASE \E t \in Live : Work(t) \/ ToolHangs(t) \/ HandlerFails(t) \/ Redeliver(t) \/ WorkerDies(t)
  BY <1>10, WorkerStep DEF upload
<1>11. CASE UNCHANGED vars
  BY <1>11 DEF vars, upload
<1>12. QED
  BY <1>1, <1>2, <1>3, <1>4, <1>5, <1>6, <1>7, <1>8, <1>9, <1>10, <1>11, <1>13 DEF Next, ApiStep

LEMMA UploadInvCorrect == Spec => []UploadInv
<1>1. Init => UploadInv
  BY DEF Init, UploadInv
<1>2. QED
  BY <1>1, UploadStep, TypeInvCorrect, PTL DEF Spec

\* An upload answered with an error leaves nothing behind, if the clean-up got
\* through.
THEOREM RejectedLeavesNothing == Spec => []RejectedUploadLeavesNoFiles
<1>1. UploadInv => RejectedUploadLeavesNoFiles
  BY DEF UploadInv, RejectedUploadLeavesNoFiles
<1>2. QED
  BY <1>1, UploadInvCorrect, PTL

-----------------------------------------------------------------------------
(* A job accepted is not forgotten                                         *)

\* A step of the upload handler may queue the job, and changes nothing else
\* that workers see.
LEMMA ApiFrame ==
  ASSUME TypeInv, ApiStep \/ UploadFails \/ AnswerLost \/ ApiDies
  PROVE  /\ \/ UNCHANGED tasks
            \/ PublishJob /\ Live' = Live \cup {Message("ingest", 0, {})}
         /\ incidents \subseteq incidents'
         /\ UNCHANGED <<report, runs, vectors, documents>>
<1>1. ASSUME PublishJob PROVE Live' = Live \cup {Message("ingest", 0, {})}
  BY <1>1, AddMoves DEF PublishJob, TypeInv
<1>2. PublishJob \/ UNCHANGED tasks
  BY DEF ApiStep, OpenUpload, CompleteUpload, CleanUp, Abort, Commit, Reject, UploadFails,
     AnswerLost, ApiDies, job
<1>3. incidents \subseteq incidents'
  BY DEF ApiStep, OpenUpload, CompleteUpload, CleanUp, Abort, PublishJob, Commit, Reject, UploadFails,
     AnswerLost, ApiDies
<1>4. UNCHANGED <<report, runs, vectors, documents>>
  BY DEF ApiStep, OpenUpload, CompleteUpload, CleanUp, Abort, PublishJob, Commit, Reject, UploadFails,
     AnswerLost, ApiDies, job
<1>5. QED
  BY <1>1, <1>2, <1>3, <1>4

Owed ==
  \/ report # NoReport \/ incidents # {}
  \/ \E t \in Live : t.kind \in {"ingest", "analyse"} /\ t.stage # "done"

\* Somebody owes the job a report, or it has one; whoever is through with the
\* analysis has saved it.
OwedInv ==
  /\ api \in {"committing", "accepted"} => Owed
  /\ \A t \in Live : t.kind = "analyse" /\ t.stage \in {"saved", "done"} =>
       report # NoReport \/ incidents # {}

LEMMA OwedStep ==
  ASSUME TypeInv, OwedInv, [Next]_vars
  PROVE  OwedInv'
<1>0. Live \subseteq TaskSet
      /\ \A t \in Live : t.kind # "ingest" \/ t.stage = "publishing" => t.run \in 1..runs
  BY DEF TypeInv, TypeOK, RunKnown, TaskSet
<1>1. CASE ApiStep \/ UploadFails \/ AnswerLost \/ ApiDies
  <2>1. /\ \/ UNCHANGED tasks
           \/ PublishJob /\ Live' = Live \cup {Message("ingest", 0, {})}
        /\ incidents \subseteq incidents' /\ UNCHANGED report
    BY <1>1, ApiFrame
  <2>2. CASE UNCHANGED tasks
    <3>1. Live' = Live
      BY <2>2 DEF Live
    <3>2. api' \in {"committing", "accepted"} => api \in {"committing", "accepted"} \/ PublishJob
      BY <1>1 DEF ApiStep, OpenUpload, CompleteUpload, CleanUp, Abort, Commit, Reject, UploadFails,
     AnswerLost, ApiDies
    <3>3. ~PublishJob \/ \E t \in Live' : t.kind = "ingest" /\ t.stage # "done"
      <4>1. ASSUME PublishJob PROVE \E t \in Live' : t.kind = "ingest" /\ t.stage # "done"
        <5>1. Message("ingest", 0, {}) \in Live'
          BY <4>1, AddMoves DEF PublishJob, TypeInv
        <5>2. QED
          BY <5>1 DEF Message
      <4>2. QED
        BY <4>1
    <3>4. QED
      BY <2>1, <3>1, <3>2, <3>3 DEF OwedInv, Owed
  <2>3. CASE Live' = Live \cup {Message("ingest", 0, {})}
    <3>1. /\ Message("ingest", 0, {}).kind = "ingest" /\ Message("ingest", 0, {}).stage = "ready"
      BY DEF Message
    <3>2. QED
      BY <2>1, <2>3, <3>1 DEF OwedInv, Owed
  <2>4. QED
    BY <2>1, <2>2, <2>3
<1>2. ASSUME NEW t \in Live, Work(t) \/ ToolHangs(t) \/ HandlerFails(t) \/ Redeliver(t) \/ WorkerDies(t)
      PROVE  OwedInv'
  <2>1. PICK new : Moves(t, new) /\ Outcome(t, new)
    BY <1>2, WorkerStep
  <2>2. incidents \subseteq incidents' /\ UNCHANGED api
    BY <1>2, WorkerStep DEF upload
  <2>3. /\ t \in TaskSet /\ Live \ {t} \subseteq Live' /\ new \subseteq Live'
        /\ Live' \subseteq Live \cup new
    BY <1>0, <2>1 DEF Moves
  <2>4. report # NoReport => report' # NoReport
    <3>1. ASSUME report' = Verdict(t), t.kind = "analyse" PROVE report' # NoReport
      <4>1. t.run # 0
        BY <1>0, <3>1 DEF TypeInv, TypeOK
      <4>2. QED
        BY <3>1, <4>1 DEF Verdict, NoReport
    <3>2. QED
      BY <2>1, <3>1 DEF Outcome
  \* What comes of t owes what t did, or the report is there.
  <2>5. t.kind \in {"ingest", "analyse"} /\ t.stage # "done" =>
          \/ report' # NoReport \/ incidents' # {}
          \/ \E u \in new : u.kind \in {"ingest", "analyse"} /\ u.stage # "done"
    <3> SUFFICES ASSUME t.kind \in {"ingest", "analyse"}, t.stage # "done", incidents' = {}, report' = NoReport
                 PROVE  \E u \in new : u.kind \in {"ingest", "analyse"} /\ u.stage # "done"
      OBVIOUS
    <3>1. ~(t.kind = "analyse" /\ t.stage \in {"saved", "done"})
      BY <2>2, <2>4 DEF OwedInv
    <3>2. \A u \in Returned(t) : u.kind = t.kind /\ u.stage # "done"
      BY <2>3, ReturnedFacts
    <3>4. CASE \E u \in Returned(t) : new = {u} \/ new = {u, t}
      BY <3>2, <3>4
    <3>5. CASE new = {[t EXCEPT !.stage = "done"], Message("analyse", t.run, t.chunks)}
      BY <3>5 DEF Message
    <3>6. CASE \E f \in t.chunks :
                 new = {[t EXCEPT !.sent = @ \cup {f}], Message("store", t.run, {f})}
      BY <2>3, <3>6 DEF TaskSet
    <3>7. CASE \E stage \in {"started", "analysed", "hung", "saved"} : new = {[t EXCEPT !.stage = stage]}
      BY <2>3, <3>7 DEF TaskSet
    <3>8. CASE \E chunks \in SUBSET Files :
                 /\ new = {[t EXCEPT !.run = runs + 1, !.chunks = chunks,
                                     !.stage = IF chunks = {} THEN "done" ELSE "publishing"]}
                 /\ chunks = {} => incidents' # {}
      <4>1. PICK chunks \in SUBSET Files :
              /\ new = {[t EXCEPT !.run = runs + 1, !.chunks = chunks,
                                  !.stage = IF chunks = {} THEN "done" ELSE "publishing"]}
              /\ chunks = {} => incidents' # {}
        BY <3>8
      <4> DEFINE u == [t EXCEPT !.run = runs + 1, !.chunks = chunks,
                                !.stage = IF chunks = {} THEN "done" ELSE "publishing"]
      <4>2. u.kind = t.kind /\ u.stage = (IF chunks = {} THEN "done" ELSE "publishing")
        BY <2>2 DEF TaskSet
      <4>3. u \in new
        BY <4>1
      <4> HIDE DEF u
      <4>4. QED
        BY <2>3, <4>1, <4>2, <4>3
    <3>9. QED
      BY <2>1, <3>1, <3>4, <3>5, <3>6, <3>7, <3>8 DEF Outcome
  <2>6. \A u \in new : u.kind = "analyse" /\ u.stage \in {"saved", "done"} =>
          report' # NoReport \/ incidents' # {}
    <3>1. \A u \in Returned(t) : u.stage \notin {"saved", "done"}
      BY <2>3, ReturnedFacts
    <3>2. CASE \E u \in Returned(t) : new = {u} \/ new = {u, t}
      BY <2>2, <2>4, <3>1, <3>2 DEF OwedInv
    <3>3. CASE t.kind = "analyse" /\ t.stage = "saved"
      BY <2>2, <2>4, <3>3 DEF OwedInv
    <3>4. CASE t.kind = "analyse" /\ t.stage = "analysed"
               /\ (report' = Verdict(t) \/ (UNCHANGED report /\ incidents' # {}))
      <4>1. t.run # 0
        BY <1>0, <3>4 DEF TypeInv, TypeOK
      <4>2. QED
        BY <3>4, <4>1 DEF Verdict, NoReport
    <3>5. CASE t.kind = "ingest" /\ t.stage # "done" /\ ~\E u \in Returned(t) : new = {u} \/ new = {u, t}
      <4>1. \A u \in new : u.kind = "analyse" => u.stage = "ready"
        <5>1. CASE new = {[t EXCEPT !.stage = "started"]}
          BY <2>3, <3>5, <5>1 DEF TaskSet
        <5>2. CASE \E chunks \in SUBSET Files :
                     new = {[t EXCEPT !.run = runs + 1, !.chunks = chunks,
                                      !.stage = IF chunks = {} THEN "done" ELSE "publishing"]}
          BY <2>3, <3>5, <5>2 DEF TaskSet
        <5>3. CASE \E f \in t.chunks :
                     new = {[t EXCEPT !.sent = @ \cup {f}], Message("store", t.run, {f})}
          BY <2>3, <3>5, <5>3 DEF TaskSet, Message
        <5>4. CASE new = {[t EXCEPT !.stage = "done"], Message("analyse", t.run, t.chunks)}
          BY <2>3, <3>5, <5>4 DEF TaskSet, Message
        <5>5. QED
          BY <2>1, <3>5, <5>1, <5>2, <5>3, <5>4 DEF Outcome
      <4>2. QED
        BY <4>1
    <3>6. CASE t.kind = "store" /\ ~\E u \in Returned(t) : new = {u} \/ new = {u, t}
      <4>1. \A u \in new : u.kind = "store"
        BY <2>1, <2>3, <3>6 DEF Outcome, TaskSet
      <4>2. QED
        BY <4>1
    <3>7. CASE t.kind = "analyse" /\ t.stage = "ready" /\ new = {[t EXCEPT !.stage = "analysed"]}
      BY <2>3, <3>7 DEF TaskSet
    <3>8. CASE new = {}
      BY <3>8
    <3>9. QED
      BY <2>1, <2>3, <3>2, <3>3, <3>4, <3>5, <3>6, <3>7, <3>8 DEF Outcome, TaskSet, Kinds
  <2>7. (\A u \in Live : u.kind = "analyse" /\ u.stage \in {"saved", "done"} =>
          report # NoReport \/ incidents # {})'
    BY <2>2, <2>3, <2>4, <2>6 DEF OwedInv
  <2>8. Owed => Owed'
    BY <2>2, <2>3, <2>4, <2>5 DEF Owed
  <2>9. QED
    BY <2>2, <2>7, <2>8 DEF OwedInv
<1>3. CASE UNCHANGED vars
  BY <1>3 DEF vars, job, upload, OwedInv, Owed, Live
<1>4. QED
  BY <1>1, <1>2, <1>3 DEF Next

\* A job accepted keeps its files and is owed a report until it has one.
THEOREM AcceptedTracked == Spec => []AcceptedJobIsTracked
<1>1. Init => OwedInv
  BY DEF Init, OwedInv, Live, BagToSet, EmptyBag, SetToBag
<1>2. UploadInv /\ OwedInv => AcceptedJobIsTracked
  BY DEF UploadInv, OwedInv, Owed, AcceptedJobIsTracked
<1>3. QED
  BY <1>1, <1>2, OwedStep, UploadInvCorrect, TypeInvCorrect, PTL DEF Spec

-----------------------------------------------------------------------------
(* Chunks reach the stores                                                 *)

Carried(r, f) == <<r, f>> \in vectors \/ StorePending(r, f)

\* A batch that was handled is in the vector store; so what a run has published,
\* what its analysis is about and what the report is about is stored or on its
\* way.
CarryInv ==
  /\ \A t \in Live :
       /\ t.kind = "store" /\ t.stage \in {"stored", "found", "missing", "done"} =>
            {t.run} \X t.chunks \subseteq vectors
       /\ t.kind = "ingest" /\ t.stage \in {"ready", "started"} => t.sent = {}
       /\ t.kind = "ingest" => \A f \in t.sent : Carried(t.run, f)
       /\ t.kind = "analyse" => \A f \in t.chunks : Carried(t.run, f)
  /\ \A f \in report.chunks : Carried(report.run, f)

\* A batch whose graph was saved, or whose row was found, has its row.
IndexInv ==
  /\ \A t \in Live : t.kind = "store" /\ t.stage \in {"found", "done"} => t.chunks \subseteq documents
  /\ StoredChunksAreIndexed

\* Of a storage task comes another for the same chunks, until it is done.
LEMMA StoreStays ==
  ASSUME NEW t \in TaskSet, NEW new, Outcome(t, new), t.kind = "store", t.stage # "done"
  PROVE  \E u \in new : u.kind = "store" /\ u.run = t.run /\ u.chunks = t.chunks
<1>1. CASE \E u \in Returned(t) : new = {u} \/ new = {u, t}
  BY <1>1, ReturnedFacts
<1>2. CASE \E stage \in Stages : new = {[t EXCEPT !.stage = stage]}
  BY <1>2 DEF TaskSet
<1>3. QED
  BY <1>1, <1>2 DEF Outcome, Stages

LEMMA PendingStays ==
  ASSUME TypeInv, NEW t \in Live, NEW new, Moves(t, new), Outcome(t, new),
         NEW r, NEW f, StorePending(r, f),
         ~(t.kind = "store" /\ t.stage = "done" /\ t.run = r /\ f \in t.chunks)
  PROVE  StorePending(r, f)'
<1>1. PICK s \in Live : s.kind = "store" /\ s.run = r /\ f \in s.chunks
  BY DEF StorePending
<1>2. t \in TaskSet /\ Live \ {t} \subseteq Live' /\ new \subseteq Live'
  BY DEF Moves, TypeInv, TypeOK, TaskSet
<1>3. CASE s # t
  BY <1>1, <1>2, <1>3 DEF StorePending
<1>4. CASE s = t
  <2>1. PICK u \in new : u.kind = "store" /\ u.run = t.run /\ u.chunks = t.chunks
    BY <1>1, <1>2, <1>4, StoreStays
  <2>2. QED
    BY <1>1, <1>2, <1>4, <2>1 DEF StorePending
<1>5. QED
  BY <1>3, <1>4

LEMMA CarriedStays ==
  ASSUME TypeInv, CarryInv, NEW t \in Live, NEW new, Moves(t, new), Outcome(t, new),
         NEW r, NEW f, Carried(r, f)
  PROVE  Carried(r, f)'
<1>1. vectors \subseteq vectors'
  BY DEF Outcome
<1>2. CASE <<r, f>> \in vectors
  BY <1>1, <1>2 DEF Carried
<1>3. CASE t.kind = "store" /\ t.stage = "done" /\ t.run = r /\ f \in t.chunks
  <2>1. <<r, f>> \in {t.run} \X t.chunks
    BY <1>3
  <2>2. <<r, f>> \in vectors
    BY <1>3, <2>1 DEF CarryInv
  <2>3. QED
    BY <1>1, <2>2 DEF Carried
<1>4. CASE StorePending(r, f)
           /\ ~(t.kind = "store" /\ t.stage = "done" /\ t.run = r /\ f \in t.chunks)
  BY <1>4, PendingStays DEF Carried
<1>5. QED
  BY <1>2, <1>3, <1>4 DEF Carried

LEMMA CarryStep ==
  ASSUME TypeInv, CarryInv, [Next]_vars
  PROVE  CarryInv'
<1>0. Live \subseteq TaskSet
  BY DEF TypeInv, TypeOK, TaskSet
<1>1. CASE ApiStep \/ UploadFails \/ AnswerLost \/ ApiDies
  <2>1. /\ \/ UNCHANGED tasks
           \/ Live' = Live \cup {Message("ingest", 0, {})}
        /\ UNCHANGED <<report, runs, vectors, documents>>
    BY <1>1, ApiFrame
  <2>2. /\ Message("ingest", 0, {}).kind = "ingest" /\ Message("ingest", 0, {}).sent = {}
    BY DEF Message
  <2>3. Live \subseteq Live' /\ Live' \subseteq Live \cup {Message("ingest", 0, {})}
    BY <2>1 DEF Live
  <2>4. \A r, f : Carried(r, f) => Carried(r, f)'
    BY <2>1, <2>3 DEF Carried, StorePending
  <2>5. QED
    BY <2>1, <2>2, <2>3, <2>4 DEF CarryInv
<1>2. ASSUME NEW t \in Live, Work(t) \/ ToolHangs(t) \/ HandlerFails(t) \/ Redeliver(t) \/ WorkerDies(t)
      PROVE  CarryInv'
  <2>1. PICK new : Moves(t, new) /\ Outcome(t, new)
    BY <1>2, WorkerStep
  <2>2. /\ t \in TaskSet /\ new \subseteq Live' /\ Live' \subseteq Live \cup new
        /\ vectors \subseteq vectors'
    BY <1>0, <2>1 DEF Moves, Outcome
  <2>3. \A r, f : Carried(r, f) => Carried(r, f)'
    BY <2>1, CarriedStays
  <2> DEFINE Good(u) ==
        /\ u.kind = "store" /\ u.stage \in {"stored", "found", "missing", "done"} =>
             {u.run} \X u.chunks \subseteq vectors'
        /\ u.kind = "ingest" /\ u.stage \in {"ready", "started"} => u.sent = {}
        /\ u.kind = "ingest" => \A f \in u.sent : Carried(u.run, f)'
        /\ u.kind = "analyse" => \A f \in u.chunks : Carried(u.run, f)'
  <2>4. \A u \in Live : Good(u)
    BY <2>2, <2>3 DEF CarryInv
  <2>5. \A u \in new : Good(u)
    <3>1. CASE \E u \in Returned(t) : new = {u} \/ new = {u, t}
      <4>1. ASSUME NEW u \in Returned(t) PROVE Good(u)
        <5>1. /\ u.kind = t.kind /\ u.sent = {} /\ u.stage \in {"ready", "abandoned", "dead"}
              /\ t.kind # "ingest" => u.run = t.run /\ u.chunks = t.chunks
          BY <2>2, ReturnedFacts
        <5>2. QED
          BY <2>4, <5>1
      <4>2. QED
        BY <2>4, <3>1, <4>1
    <3>2. CASE t.kind = "ingest" /\ t.stage = "ready" /\ new = {[t EXCEPT !.stage = "started"]}
      <4>1. Good(t) /\ t.sent = {}
        BY <2>4, <3>2
      <4>2. QED
        BY <2>2, <3>2, <4>1 DEF TaskSet
    <3>3. CASE /\ t.kind = "ingest" /\ t.stage = "started"
               /\ \E chunks \in SUBSET Files :
                    new = {[t EXCEPT !.run = runs + 1, !.chunks = chunks,
                                     !.stage = IF chunks = {} THEN "done" ELSE "publishing"]}
      <4>1. t.sent = {}
        BY <2>4, <3>3
      <4>2. \A u \in new : u.kind = "ingest" /\ u.sent = {}
        BY <2>2, <3>3, <4>1 DEF TaskSet
      <4>3. QED
        BY <4>2
    <3>4. ASSUME t.kind = "ingest", t.stage = "publishing", NEW f \in t.chunks,
                 new = {[t EXCEPT !.sent = @ \cup {f}], Message("store", t.run, {f})}
          PROVE  \A u \in new : Good(u)
      <4> DEFINE u == [t EXCEPT !.sent = @ \cup {f}]
                 m == Message("store", t.run, {f})
      <4>1. m.kind = "store" /\ m.run = t.run /\ m.chunks = {f} /\ m.stage = "ready"
        BY DEF Message
      <4>2. u.kind = "ingest" /\ u.stage = "publishing" /\ u.run = t.run /\ u.sent = t.sent \cup {f}
        BY <2>2, <3>4 DEF TaskSet
      <4>3. new = {u, m}
        BY <3>4
      <4> HIDE DEF u, m
      <4>4. Carried(t.run, f)'
        BY <2>2, <4>1, <4>3 DEF Carried, StorePending
      <4>5. \A g \in t.sent : Carried(t.run, g)'
        BY <2>4, <3>4
      <4>6. \A g \in u.sent : Carried(u.run, g)'
        BY <4>2, <4>4, <4>5
      <4>7. QED
        BY <4>1, <4>2, <4>3, <4>6
    <3>5. CASE /\ t.kind = "ingest" /\ t.stage = "publishing" /\ t.sent = t.chunks
               /\ new = {[t EXCEPT !.stage = "done"], Message("analyse", t.run, t.chunks)}
      <4> DEFINE u == [t EXCEPT !.stage = "done"]
                 m == Message("analyse", t.run, t.chunks)
      <4>1. m.kind = "analyse" /\ m.run = t.run /\ m.chunks = t.chunks
        BY DEF Message
      <4>2. u.kind = "ingest" /\ u.stage = "done" /\ u.run = t.run /\ u.sent = t.sent
        BY <2>2, <3>5 DEF TaskSet
      <4>3. new = {u, m}
        BY <3>5
      <4> HIDE DEF u, m
      <4>4. \A g \in t.sent : Carried(t.run, g)'
        BY <2>4, <3>5
      <4>5. QED
        BY <3>5, <4>1, <4>2, <4>3, <4>4
    <3>6. CASE /\ t.kind = "store" /\ t.stage = "ready" /\ new = {[t EXCEPT !.stage = "stored"]}
               /\ vectors' = vectors \cup ({t.run} \X t.chunks)
      <4>1. \A u \in new : u.kind = "store" /\ u.run = t.run /\ u.chunks = t.chunks
        BY <2>2, <3>6 DEF TaskSet
      <4>2. QED
        BY <3>6, <4>1
    <3>7. CASE t.kind = "store" /\ t.stage \in {"stored", "found", "missing"}
               /\ \E stage \in Stages : new = {[t EXCEPT !.stage = stage]}
      <4>1. {t.run} \X t.chunks \subseteq vectors'
        BY <2>4, <3>7
      <4>2. \A u \in new : u.kind = "store" /\ u.run = t.run /\ u.chunks = t.chunks
        BY <2>2, <3>7 DEF TaskSet
      <4>3. QED
        BY <4>1, <4>2
    <3>8. CASE t.kind = "analyse" /\ \E stage \in Stages : new = {[t EXCEPT !.stage = stage]}
      <4>1. \A f \in t.chunks : Carried(t.run, f)'
        BY <2>4, <3>8
      <4>2. \A u \in new : u.kind = "analyse" /\ u.run = t.run /\ u.chunks = t.chunks
        BY <2>2, <3>8 DEF TaskSet
      <4>3. QED
        BY <4>1, <4>2
    <3>9. CASE new = {}
      BY <3>9
    <3> HIDE DEF Good
    <3>10. QED
      BY <2>1, <3>1, <3>2, <3>3, <3>4, <3>5, <3>6, <3>7, <3>8, <3>9 DEF Outcome, Stages
  <2>6. (\A f \in report.chunks : Carried(report.run, f))'
    <3>1. CASE UNCHANGED report
      <4>1. PICK r, C : r = report.run /\ C = report.chunks
        OBVIOUS
      <4>2. \A f \in C : Carried(r, f)
        BY <4>1 DEF CarryInv
      <4>3. \A f \in C : Carried(r, f)'
        BY <2>3, <4>2
      <4>4. report'.run = r /\ report'.chunks = C
        BY <3>1, <4>1
      <4>5. QED
        BY <4>3, <4>4 DEF Carried, StorePending
    <3>2. CASE t.kind = "analyse" /\ report' = Verdict(t)
      <4>1. \A f \in t.chunks : Carried(t.run, f)'
        BY <2>4, <3>2
      <4>2. QED
        BY <3>2, <4>1 DEF Verdict, Carried, StorePending
    <3>3. QED
      BY <2>1, <3>1, <3>2 DEF Outcome
  <2>7. \A u \in Live' : Good(u)
    BY <2>2, <2>4, <2>5
  <2>8. QED
    BY <2>6, <2>7 DEF CarryInv
<1>3. CASE UNCHANGED vars
  BY <1>3 DEF vars, job, CarryInv, Carried, StorePending, Live
<1>4. QED
  BY <1>1, <1>2, <1>3 DEF Next

\* The chunks a saved report is about are stored or on their way.
THEOREM AnalysedReachStorage == Spec => []AnalysedChunksReachStorage
<1>1. Init => CarryInv
  BY DEF Init, CarryInv, NoReport, Live, BagToSet, EmptyBag, SetToBag
<1>2. CarryInv => AnalysedChunksReachStorage
  BY DEF CarryInv, Carried, AnalysedChunksReachStorage
<1>3. QED
  BY <1>1, <1>2, CarryStep, TypeInvCorrect, PTL DEF Spec

LEMMA IndexStep ==
  ASSUME TypeInv, IndexInv, [Next]_vars
  PROVE  IndexInv'
<1>0. Live \subseteq TaskSet /\ vectors \subseteq (1..runs) \X Files
  BY DEF TypeInv, TypeOK, TaskSet
<1>1. CASE ApiStep \/ UploadFails \/ AnswerLost \/ ApiDies
  <2>1. /\ \/ UNCHANGED tasks
           \/ Live' = Live \cup {Message("ingest", 0, {})}
        /\ UNCHANGED <<report, runs, vectors, documents>>
    BY <1>1, ApiFrame
  <2>2. Message("ingest", 0, {}).kind = "ingest"
    BY DEF Message
  <2>3. Live \subseteq Live' /\ Live' \subseteq Live \cup {Message("ingest", 0, {})}
    BY <2>1 DEF Live
  <2>4. \A v \in vectors : StorePending(v[1], v[2]) => StorePending(v[1], v[2])'
    BY <2>1, <2>3 DEF StorePending
  <2>5. QED
    BY <2>1, <2>2, <2>3, <2>4 DEF IndexInv, StoredChunksAreIndexed
<1>2. ASSUME NEW t \in Live, Work(t) \/ ToolHangs(t) \/ HandlerFails(t) \/ Redeliver(t) \/ WorkerDies(t)
      PROVE  IndexInv'
  <2>1. PICK new : Moves(t, new) /\ Outcome(t, new)
    BY <1>2, WorkerStep
  <2>2. /\ t \in TaskSet /\ new \subseteq Live' /\ Live' \subseteq Live \cup new
        /\ documents \subseteq documents'
    BY <1>0, <2>1 DEF Moves, Outcome
  <2>3. \A u \in new : u.kind = "store" /\ u.stage \in {"found", "done"} => u.chunks \subseteq documents'
    <3>1. CASE \E u \in Returned(t) : new = {u} \/ new = {u, t}
      <4>1. \A u \in Returned(t) : u.stage \in {"ready", "abandoned", "dead"}
        BY <2>2, ReturnedFacts
      <4>2. QED
        BY <2>2, <3>1, <4>1 DEF IndexInv
    <3>2. CASE t.kind = "store" /\ \E stage \in Stages :
                 /\ new = {[t EXCEPT !.stage = stage]}
                 /\ stage \in {"found", "done"} => t.chunks \subseteq documents'
      BY <2>2, <3>2 DEF TaskSet
    <3>3. CASE new = {}
      BY <3>3
    <3>4. CASE t.kind = "analyse" /\ \E stage \in Stages : new = {[t EXCEPT !.stage = stage]}
      BY <2>2, <3>4 DEF TaskSet
    <3>5. CASE t.kind = "ingest" /\ ~\E u \in Returned(t) : new = {u} \/ new = {u, t}
      <4>1. CASE new = {[t EXCEPT !.stage = "started"]}
        BY <2>2, <3>5, <4>1 DEF TaskSet
      <4>2. CASE \E chunks \in SUBSET Files :
                   new = {[t EXCEPT !.run = runs + 1, !.chunks = chunks,
                                    !.stage = IF chunks = {} THEN "done" ELSE "publishing"]}
        BY <2>2, <3>5, <4>2 DEF TaskSet
      <4>3. CASE \E f \in t.chunks :
                   new = {[t EXCEPT !.sent = @ \cup {f}], Message("store", t.run, {f})}
        BY <2>2, <3>5, <4>3 DEF TaskSet, Message
      <4>4. CASE new = {[t EXCEPT !.stage = "done"], Message("analyse", t.run, t.chunks)}
        BY <2>2, <3>5, <4>4 DEF TaskSet, Message
      <4>5. QED
        BY <2>1, <3>3, <3>5, <4>1, <4>2, <4>3, <4>4 DEF Outcome
    <3>6. QED
      BY <2>1, <2>2, <3>1, <3>2, <3>3, <3>4, <3>5 DEF Outcome, Stages, TaskSet, Kinds
  <2>4. \A r, f : StorePending(r, f) => StorePending(r, f)' \/ f \in documents'
    <3> SUFFICES ASSUME NEW r, NEW f, StorePending(r, f), f \notin documents'
                 PROVE  StorePending(r, f)'
      OBVIOUS
    <3>1. ~(t.kind = "store" /\ t.stage = "done" /\ f \in t.chunks)
      BY <2>2 DEF IndexInv
    <3>2. QED
      BY <2>1, <3>1, PendingStays
  <2>5. ASSUME NEW v \in vectors' PROVE v[2] \in documents' \/ StorePending(v[1], v[2])'
    <3>1. CASE v \in vectors
      BY <2>2, <2>4, <3>1 DEF IndexInv, StoredChunksAreIndexed
    <3>2. CASE v \notin vectors
      <4>1. /\ t.kind = "store" /\ t.stage = "ready" /\ new = {[t EXCEPT !.stage = "stored"]}
            /\ vectors' = vectors \cup ({t.run} \X t.chunks)
        BY <2>1, <3>2 DEF Outcome
      <4>2. v[1] = t.run /\ v[2] \in t.chunks
        BY <3>2, <4>1
      <4>3. \E u \in new : u.kind = "store" /\ u.run = t.run /\ u.chunks = t.chunks
        BY <2>2, <4>1 DEF TaskSet
      <4>4. QED
        BY <2>2, <4>2, <4>3 DEF StorePending
    <3>3. QED
      BY <3>1, <3>2
  <2>6. QED
    BY <2>2, <2>3, <2>5 DEF IndexInv, StoredChunksAreIndexed
<1>3. CASE UNCHANGED vars
  BY <1>3 DEF vars, job, IndexInv, StoredChunksAreIndexed, StorePending, Live
<1>4. QED
  BY <1>1, <1>2, <1>3 DEF Next

\* A chunk in the vector store has its document row, or the message that writes
\* it is still held.
THEOREM StoredIndexed == Spec => []StoredChunksAreIndexed
<1>1. Init => IndexInv
  BY DEF Init, IndexInv, StoredChunksAreIndexed, Live, BagToSet, EmptyBag, SetToBag
<1>2. IndexInv => StoredChunksAreIndexed
  BY DEF IndexInv
<1>3. QED
  BY <1>1, <1>2, IndexStep, TypeInvCorrect, PTL DEF Spec

=============================================================================
