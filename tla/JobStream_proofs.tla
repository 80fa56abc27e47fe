-------------------------- MODULE JobStream_proofs --------------------------
(***************************************************************************)
(* Proofs about JobStream, for any number of clients, deliveries, events,  *)
(* retries and faults: its types, and what a stream may show while the     *)
(* traces and the status it reads are overwritten.                         *)
(***************************************************************************)
EXTENDS JobStream, SequenceTheorems, TLAPS

Events == Tasks \X (1..MaxEvents)

-----------------------------------------------------------------------------
(* What is flushed and what is sent                                        *)

\* What a collector holds is a sequence of events.
LEMMA RecordedType ==
  ASSUME TypeOK, NEW t \in Tasks
  PROVE  /\ Recorded(t) \in Seq(Events)
         /\ \A i \in DOMAIN Recorded(t) : Recorded(t)[i][2] = i
<1> DEFINE n == tasks[t].events
<1>1. n \in Nat /\ 1..n \subseteq 1..MaxEvents
  BY BoundsAssumption DEF TypeOK
<1>2. \A i \in 1..n : Event(t, i) \in Events
  BY <1>1 DEF Event, Events
<1>3. Recorded(t) \in [1..n -> Events]
  BY <1>2 DEF Recorded
<1>4. [1..n -> Events] \subseteq Seq(Events)
  BY <1>1, SeqDef
<1>5. QED
  BY <1>3, <1>4 DEF Recorded, Event

\* after is before with what now has at the positions beyond it.
Grown(before, now, after) ==
  /\ after \in Seq(Events)
  /\ \A i \in DOMAIN after :
       \/ i \in DOMAIN before /\ after[i] = before[i]
       \/ i \in DOMAIN now /\ after[i] = now[i]
  /\ before = <<>> \/ before = now => after = now

\* A sequence sent grows by the part of another beyond its length.
LEMMA GrownSeq ==
  ASSUME NEW before \in Seq(Events), NEW now \in Seq(Events), NEW news, NEW after,
         news = SubSeq(now, Len(before) + 1, Len(now)), after = before \o news
  PROVE  Grown(before, now, after)
<1>1. Len(before) \in Nat /\ before \in [1..Len(before) -> Events]
  BY LenProperties
<1>2. Len(now) \in Nat /\ now \in [1..Len(now) -> Events]
  BY LenProperties
<1>3. \A i \in (Len(before) + 1)..Len(now) : now[i] \in Events
  BY <1>1, <1>2
<1>4. /\ news \in Seq(Events)
      /\ Len(news) = IF Len(before) + 1 <= Len(now)
                     THEN Len(now) - (Len(before) + 1) + 1 ELSE 0
      /\ \A i \in 1..(Len(now) - (Len(before) + 1) + 1) :
           news[i] = now[Len(before) + 1 + i - 1]
  BY <1>1, <1>2, <1>3, SubSeqProperties
<1>5. Len(news) \in Nat /\ news \in [1..Len(news) -> Events]
  BY <1>4, LenProperties
<1>6. /\ after \in Seq(Events)
      /\ Len(after) = Len(before) + Len(news)
      /\ \A i \in 1..(Len(before) + Len(news)) :
           after[i] = IF i <= Len(before) THEN before[i] ELSE news[i - Len(before)]
  BY <1>4, ConcatProperties
<1>7. Len(after) \in Nat /\ after \in [1..Len(after) -> Events]
  BY <1>6, LenProperties
<1>8. ASSUME NEW i \in 1..Len(after)
      PROVE  \/ i \in DOMAIN before /\ after[i] = before[i]
             \/ i \in DOMAIN now /\ after[i] = now[i]
  <2>1. CASE i <= Len(before)
    BY <1>1, <1>5, <1>6, <1>7, <2>1
  <2>2. CASE ~(i <= Len(before))
    <3>1. i \in Nat /\ i - Len(before) \in 1..Len(news)
      BY <1>1, <1>5, <1>6, <1>7, <2>2
    <3>2. Len(before) + 1 <= Len(now) /\ Len(news) = Len(now) - Len(before)
      <4>1. CASE Len(before) + 1 <= Len(now)
        BY <1>1, <1>2, <1>4, <4>1
      <4>2. CASE ~(Len(before) + 1 <= Len(now))
        <5>1. Len(news) = 0
          BY <1>4, <4>2
        <5>2. QED
          BY <1>1, <3>1, <5>1
      <4>3. QED
        BY <4>1, <4>2
    <3>3. after[i] = news[i - Len(before)]
      BY <1>1, <1>5, <1>6, <1>7, <2>2
    <3>4. news[i - Len(before)] = now[i]
      <4> DEFINE k == i - Len(before)
      <4>1. k \in 1..(Len(now) - (Len(before) + 1) + 1) /\ Len(before) + 1 + k - 1 = i
        BY <1>1, <1>2, <3>1, <3>2
      <4> HIDE DEF k
      <4>2. news[k] = now[Len(before) + 1 + k - 1]
        BY <1>4, <4>1
      <4>3. QED
        BY <4>1, <4>2 DEF k
    <3>5. i \in 1..Len(now)
      BY <1>1, <1>2, <3>1, <3>2
    <3>6. QED
      BY <1>2, <3>3, <3>4, <3>5
  <2>3. QED
    BY <2>1, <2>2
<1>9. ASSUME before = now PROVE after = now
  <2>1. Len(news) = 0
    BY <1>2, <1>4, <1>9
  <2>2. news = <<>>
    BY <1>4, <2>1, EmptySeq
  <2>3. QED
    BY <1>9, <2>2, ConcatEmptySeq
<1>10. ASSUME before = <<>> PROVE after = now
  <2>1. Len(before) = 0
    BY <1>10
  <2>2. Len(after) = Len(now)
    BY <1>1, <1>2, <1>4, <1>6, <2>1
  <2>3. \A i \in 1..Len(now) : after[i] = now[i]
    BY <1>1, <1>8, <2>1, <2>2
  <2>4. after \in [1..Len(now) -> Events]
    BY <1>7, <2>2
  <2>5. QED
    BY <1>2, <2>3, <2>4
<1>11. QED
  BY <1>6, <1>7, <1>8, <1>9, <1>10 DEF Grown

\* So does what a client has been sent.
LEMMA SentGrows ==
  ASSUME TypeOK, NEW c \in Clients
  PROVE  Grown(stream[c].sent, traces, stream[c].sent \o News(c))
<1>1. stream[c].sent \in Seq(Events) /\ traces \in Seq(Events)
  BY DEF TypeOK, Events
<1>2. News(c) = SubSeq(traces, Len(stream[c].sent) + 1, Len(traces))
  BY DEF News
<1>3. QED
  BY <1>1, <1>2, GrownSeq, Zenon

-----------------------------------------------------------------------------
(* Types                                                                   *)

\* A task goes on.
LEMMA AdvanceType ==
  ASSUME TypeOK, NEW t \in Tasks, NEW stage \in Stages \ {"unused"},
         tasks[t].stage # "unused", Advance(t, stage)
  PROVE  /\ tasks' \in [Tasks -> [kind : {"ingest", "analyse"}, retry : 0..MaxRetries,
                                  stage : Stages, events : 0..MaxEvents]]
         /\ \A u \in Tasks : tasks'[u].stage = "unused" <=> u > used
  BY DEF TypeOK, Advance

\* A task goes on, and another one is queued.
LEMMA AdvanceAndType ==
  ASSUME TypeOK, NEW t \in Tasks, NEW stage \in Stages \ {"unused"},
         tasks[t].stage # "unused", NEW kind \in {"ingest", "analyse"},
         NEW retry \in 0..MaxRetries, AdvanceAnd(t, stage, Task(kind, retry))
  PROVE  /\ tasks' \in [Tasks -> [kind : {"ingest", "analyse"}, retry : 0..MaxRetries,
                                  stage : Stages, events : 0..MaxEvents]]
         /\ used' \in Tasks
         /\ \A u \in Tasks : tasks'[u].stage = "unused" <=> u > used'
<1>0. used \in Nat /\ MaxTasks \in Nat /\ used < MaxTasks /\ used' = used + 1
  BY BoundsAssumption DEF TypeOK, AdvanceAnd, Tasks
<1>1. used + 1 \in Tasks /\ t \in Nat /\ t <= used
  BY <1>0 DEF TypeOK, Tasks
<1>2. Task(kind, retry) \in [kind : {"ingest", "analyse"}, retry : 0..MaxRetries,
                             stage : Stages, events : 0..MaxEvents]
  BY BoundsAssumption DEF Task, Stages
<1>3. tasks' = [tasks EXCEPT ![t].stage = stage, ![used + 1] = Task(kind, retry)]
  BY DEF AdvanceAnd
<1>4. tasks' \in [Tasks -> [kind : {"ingest", "analyse"}, retry : 0..MaxRetries,
                            stage : Stages, events : 0..MaxEvents]]
  BY <1>1, <1>2, <1>3 DEF TypeOK
<1>5. \A u \in Tasks : tasks'[u].stage = "unused" <=> u > used'
  <2> SUFFICES ASSUME NEW u \in Tasks PROVE tasks'[u].stage = "unused" <=> u > used + 1
    BY <1>0
  <2>1. u \in Nat /\ (tasks[u].stage = "unused" <=> u > used)
    BY DEF TypeOK, Tasks
  <2>2. CASE u = used + 1
    BY <1>0, <1>1, <1>3, <2>2 DEF TypeOK, Task
  <2>3. CASE u = t
    BY <1>0, <1>1, <1>3, <2>3 DEF TypeOK
  <2>4. CASE u # used + 1 /\ u # t
    BY <1>0, <1>1, <1>3, <2>1, <2>4 DEF TypeOK
  <2>5. QED
    BY <2>2, <2>3, <2>4
<1>6. QED
  BY <1>0, <1>1, <1>4, <1>5

\* Every step keeps the types.
LEMMA TypeStep ==
  ASSUME TypeOK, [Next]_vars
  PROVE  TypeOK'
<1> USE BoundsAssumption
<1> DEFINE Task_ == [kind : {"ingest", "analyse"}, retry : 0..MaxRetries,
                     stage : Stages, events : 0..MaxEvents]
<1>1. ASSUME NEW t \in Tasks, Begin(t) PROVE TypeOK'
  <2>1. CASE tasks[t].kind = "ingest"
    BY <1>1, <2>1, AdvanceType DEF Begin, TypeOK, Stages, Verdicts
  <2>2. CASE tasks[t].kind # "ingest"
    BY <1>1, <2>2, AdvanceType DEF Begin, TypeOK, Stages
  <2>3. QED
    BY <2>1, <2>2
<1>2. ASSUME NEW t \in Tasks, Ingested(t) PROVE TypeOK'
  <2>1. CASE AdvanceAnd(t, "returned", Task("analyse", 0)) /\ UNCHANGED incidents
    <3>1. /\ tasks' \in [Tasks -> Task_]
          /\ used' \in Tasks
          /\ \A u \in Tasks : tasks'[u].stage = "unused" <=> u > used'
      BY <1>2, <2>1, AdvanceAndType DEF Ingested, At, Stages
    <3>2. QED
      BY <1>2, <2>1, <3>1 DEF Ingested, TypeOK
  <2>2. CASE Advance(t, "returned") /\ incidents' = incidents \cup {"no_chunks"} /\ UNCHANGED used
    BY <1>2, <2>2, AdvanceType DEF Ingested, At, TypeOK, Stages, Incidents
  <2>3. QED
    BY <1>2, <2>1, <2>2 DEF Ingested
<1>3. ASSUME NEW t \in Tasks, Invoke(t) PROVE TypeOK'
  <2>1. PICK n \in 0..MaxEvents :
          tasks' = [tasks EXCEPT ![t].stage = "flushing", ![t].events = n]
    BY <1>3 DEF Invoke
  <2>2. tasks[t] \in Task_ /\ tasks[t].stage # "unused"
    BY <1>3 DEF TypeOK, Invoke, At
  <2>3. tasks' = [tasks EXCEPT ![t] = [[tasks[t] EXCEPT !.stage = "flushing"] EXCEPT !.events = n]]
    BY <2>1
  <2>4. tasks' \in [Tasks -> Task_]
    BY <2>2, <2>3 DEF TypeOK, Stages
  <2>5. \A u \in Tasks : tasks'[u].stage = "unused" <=> u > used
    BY <2>2, <2>3 DEF TypeOK
  <2>6. QED
    BY <1>3, <2>4, <2>5 DEF Invoke, TypeOK
<1>15. ASSUME NEW t \in Tasks, ToolHangs(t) PROVE TypeOK'
  BY <1>15, AdvanceType DEF ToolHangs, At, TypeOK, Stages
<1>16. CASE Commit
  BY <1>16 DEF Commit, TypeOK
<1>4. ASSUME NEW t \in Tasks, Flush(t) PROVE TypeOK'
  <2>1. Advance(t, "reporting") /\ tasks[t].stage # "unused"
    BY <1>4 DEF Flush, At
  <2>2. traces' \in Seq(Tasks \X (1..MaxEvents))
    BY <1>4, RecordedType DEF Flush, TypeOK, Events
  <2>3. flushes' \in Nat /\ incidents' \subseteq Incidents /\ faults' \in 0..MaxFaults
    <3>1. CASE traces' = Recorded(t) /\ flushes' = flushes + 1 /\ UNCHANGED <<incidents, faults>>
      BY <3>1 DEF TypeOK
    <3>2. CASE /\ Fault \/ UNCHANGED faults
               /\ incidents' = incidents \cup {"unflushed"} /\ UNCHANGED <<traces, flushes>>
      BY <3>2 DEF Fault, TypeOK, Incidents
    <3>3. QED
      BY <1>4, <3>1, <3>2 DEF Flush
  <2>4. QED
    BY <1>4, <2>1, <2>2, <2>3, AdvanceType DEF Flush, TypeOK, Stages
<1>5. ASSUME NEW t \in Tasks, SaveReport(t) PROVE TypeOK'
  BY <1>5, AdvanceType DEF SaveReport, At, TypeOK, Stages, Incidents
<1>6. ASSUME NEW t \in Tasks, Complete(t) PROVE TypeOK'
  BY <1>6, AdvanceType DEF Complete, SetVerdict, At, TypeOK, Stages, Verdicts, Incidents
<1>7. ASSUME NEW t \in Tasks, Acknowledge(t) PROVE TypeOK'
  BY <1>7, AdvanceType DEF Acknowledge, TypeOK, Stages
<1>8. ASSUME NEW t \in Tasks, Fails(t) PROVE TypeOK'
  <2>1. tasks[t].stage # "unused" /\ tasks[t].kind \in {"ingest", "analyse"}
        /\ tasks[t].retry \in 0..MaxRetries
    BY <1>8 DEF Fails, Running, TypeOK
  <2>2. /\ tasks' \in [Tasks -> Task_]
        /\ used' \in Tasks
        /\ \A u \in Tasks : tasks'[u].stage = "unused" <=> u > used'
    <3>1. CASE Retried(t) /\ tasks[t].retry < MaxRetries
      <4>1. tasks[t].retry + 1 \in 0..MaxRetries
        BY <2>1, <3>1
      <4>2. AdvanceAnd(t, "ended", Task(tasks[t].kind, tasks[t].retry + 1))
        BY <3>1 DEF Retried
      <4>3. QED
        BY <2>1, <4>1, <4>2, AdvanceAndType DEF Stages
    <3>2. CASE ~(tasks[t].retry < MaxRetries)
      BY <1>8, <2>1, <3>2, AdvanceType DEF Fails, Retried, Stages, TypeOK
    <3>3. CASE Advance(t, "abandoned") /\ UNCHANGED used
      BY <2>1, <3>3, AdvanceType DEF Stages, TypeOK
    <3>4. QED
      BY <1>8, <3>1, <3>2, <3>3 DEF Fails
  <2>3. faults' \in 0..MaxFaults
    BY <1>8 DEF Fails, Fault, TypeOK
  <2>4. status' \in {"none", "queued", "processing"} \cup Verdicts
    BY <1>8 DEF Fails, SetVerdict, TypeOK, Verdicts
  <2>5. incidents' \subseteq Incidents
    BY <1>8 DEF Fails, SetVerdict, TypeOK, Incidents
  <2>6. QED
    BY <1>8, <2>2, <2>3, <2>4, <2>5 DEF Fails, TypeOK
<1>9. ASSUME NEW t \in Tasks, WorkerDies(t) PROVE TypeOK'
  <2>1. tasks[t].stage # "unused" /\ tasks[t].kind \in {"ingest", "analyse"}
        /\ tasks[t].retry \in 0..MaxRetries
    BY <1>9 DEF WorkerDies, Running, TypeOK
  <2>2. AdvanceAnd(t, "ended", Task(tasks[t].kind, tasks[t].retry))
    BY <1>9 DEF WorkerDies
  <2>3. /\ tasks' \in [Tasks -> Task_]
        /\ used' \in Tasks
        /\ \A u \in Tasks : tasks'[u].stage = "unused" <=> u > used'
    BY <2>1, <2>2, AdvanceAndType DEF Stages
  <2>4. incidents' \subseteq Incidents /\ faults' \in 0..MaxFaults
    BY <1>9 DEF WorkerDies, Fault, TypeOK, Incidents
  <2>5. QED
    BY <1>9, <2>3, <2>4 DEF WorkerDies, TypeOK
<1>10. ASSUME NEW t \in Tasks, Redeliver(t) PROVE TypeOK'
  <2>1. tasks[t].stage \in Stages \ {"unused"} /\ tasks[t].kind \in {"ingest", "analyse"}
        /\ tasks[t].retry \in 0..MaxRetries
    BY <1>10 DEF Redeliver, Running, TypeOK
  <2>2. AdvanceAnd(t, tasks[t].stage, Task(tasks[t].kind, tasks[t].retry))
    BY <1>10 DEF Redeliver
  <2>3. /\ tasks' \in [Tasks -> Task_]
        /\ used' \in Tasks
        /\ \A u \in Tasks : tasks'[u].stage = "unused" <=> u > used'
    BY <2>1, <2>2, AdvanceAndType
  <2>4. incidents' \subseteq Incidents /\ faults' \in 0..MaxFaults
    BY <1>10 DEF Redeliver, Fault, TypeOK, Incidents
  <2>5. QED
    BY <1>10, <2>3, <2>4 DEF Redeliver, TypeOK
<1>11. ASSUME NEW c \in Clients, Open(c) PROVE TypeOK'
  BY <1>11 DEF Open, TypeOK, Verdicts
<1>12. ASSUME NEW c \in Clients, Poll(c) PROVE TypeOK'
  <2>1. stream[c].sent \o News(c) \in Seq(Tasks \X (1..MaxEvents))
    BY SentGrows DEF Grown, Events
  <2>2. QED
    BY <1>12, <2>1 DEF Poll, TypeOK
<1>13. CASE UNCHANGED vars
  BY <1>13 DEF vars, TypeOK
<1>14. QED
  BY <1>1, <1>2, <1>3, <1>4, <1>5, <1>6, <1>7, <1>8, <1>9, <1>10, <1>11, <1>12, <1>13, <1>15,
     <1>16 DEF Next, Work

\* Types hold throughout.
THEOREM TypeCorrect == Spec => []TypeOK
<1>1. Init => TypeOK
  <2> SUFFICES ASSUME Init PROVE TypeOK
    OBVIOUS
  <2> USE BoundsAssumption DEF Init
  <2>1. PICK past \in 0..MaxRetries :
          /\ status = IF past = 0 THEN "none" ELSE "failed"
          /\ tasks = [t \in Tasks |->
                        [Task("ingest", IF t = 1 THEN past ELSE 0)
                           EXCEPT !.stage = IF t = 1 THEN "ready" ELSE "unused"]]
    OBVIOUS
  <2>2. tasks \in [Tasks -> [kind : {"ingest", "analyse"}, retry : 0..MaxRetries,
                             stage : Stages, events : 0..MaxEvents]]
    BY <2>1 DEF Task, Stages
  <2>3. \A t \in Tasks : tasks[t].stage = "unused" <=> t > used
    BY <2>1 DEF Task, Tasks
  <2>4. <<>> \in Seq(Tasks \X (1..MaxEvents))
    OBVIOUS
  <2>5. QED
    BY <2>1, <2>2, <2>3, <2>4 DEF TypeOK, Verdicts, Tasks
<1>2. QED
  BY <1>1, TypeStep, PTL DEF Spec

-----------------------------------------------------------------------------
(* Positions                                                               *)

\* Event i of a run stands at position i, in the row and wherever it was sent.
PositionsInv ==
  /\ \A i \in DOMAIN traces : traces[i][2] = i
  /\ PositionsShownOnce

LEMMA PositionsStep ==
  ASSUME TypeOK, PositionsInv, [Next]_vars
  PROVE  PositionsInv'
<1> USE DEF PositionsInv, PositionsShownOnce
<1>1. ASSUME NEW t \in Tasks, Flush(t) PROVE PositionsInv'
  <2>1. CASE UNCHANGED traces
    BY <1>1, <2>1 DEF Flush
  <2>2. CASE traces' = Recorded(t)
    BY <1>1, <2>2, RecordedType DEF Flush
  <2>3. QED
    BY <1>1, <2>1, <2>2 DEF Flush
<1>2. ASSUME NEW c \in Clients, Poll(c) PROVE PositionsInv'
  <2>1. \A i \in DOMAIN (stream[c].sent \o News(c)) : (stream[c].sent \o News(c))[i][2] = i
    BY SentGrows DEF Grown
  <2>2. /\ stream'[c].sent = stream[c].sent \o News(c)
        /\ \A d \in Clients \ {c} : stream'[d] = stream[d]
        /\ UNCHANGED traces
    BY <1>2 DEF Poll, TypeOK
  <2>3. QED
    BY <2>1, <2>2
<1>3. ASSUME NEW c \in Clients, Open(c) PROVE PositionsInv'
  BY <1>3 DEF Open, TypeOK
<1>4. CASE UNCHANGED <<traces, stream>>
  BY <1>4
<1>5. QED
  BY <1>1, <1>2, <1>3, <1>4 DEF Next, Work, vars, Commit, Begin, Ingested, Invoke, ToolHangs, SaveReport,
     Complete, Acknowledge, Fails, WorkerDies, Redeliver

\* A stream shows each position of the traces once, in order.
THEOREM PositionsOnce == Spec => []PositionsShownOnce
<1>1. Init => PositionsInv
  <2> SUFFICES ASSUME Init PROVE PositionsInv
    OBVIOUS
  <2>1. traces = <<>> /\ \A c \in Clients : stream[c].sent = <<>>
    BY DEF Init
  <2>2. QED
    BY <2>1 DEF PositionsInv, PositionsShownOnce
<1>2. PositionsInv => PositionsShownOnce
  BY DEF PositionsInv
<1>3. QED
  BY <1>1, <1>2, PositionsStep, TypeCorrect, PTL DEF Spec

-----------------------------------------------------------------------------
(* The last word                                                           *)

Settled(t) == tasks[t].stage \in {"returned", "ended"}

\* As long as no message is delivered twice, only the last task is at work, and
\* it is not once the job is completed.
FinalInv ==
  "repeated" \notin incidents =>
    /\ \A t \in Tasks : t < used => Settled(t)
    /\ status = "completed" => Settled(used)
    /\ \A c \in Clients : stream[c].end = "completed" => status = "completed"

LEMMA FinalStep ==
  ASSUME TypeOK, FinalInv, [Next]_vars
  PROVE  FinalInv'
<1>0. used \in Tasks /\ \A t \in Tasks : t \in Nat /\ (tasks[t].stage = "unused" <=> t > used)
  BY DEF TypeOK, Tasks
<1>a. SUFFICES ASSUME "repeated" \notin incidents'
               PROVE  FinalInv'
  BY DEF FinalInv
\* What is at work is the last task, and the job is not completed.
<1>b. ASSUME "repeated" \notin incidents, NEW t \in Tasks, tasks[t].stage # "unused", ~Settled(t)
      PROVE  t = used /\ status # "completed"
             /\ \A c \in Clients : stream[c].end # "completed"
  BY <1>0, <1>b DEF FinalInv
\* It goes on.
<1>c. ASSUME "repeated" \notin incidents, NEW t \in Tasks, tasks[t].stage # "unused",
             NEW stage \in Stages, Advance(t, stage), UNCHANGED <<used, stream>>,
             IF Settled(t) THEN stage = "ended" /\ UNCHANGED status
             ELSE status' = "completed" => stage = "returned"
      PROVE  FinalInv'
  <2>1. tasks'[t].stage = stage /\ \A u \in Tasks \ {t} : tasks'[u] = tasks[u]
    BY <1>c DEF Advance, TypeOK
  <2>2. CASE Settled(t)
    BY <1>0, <1>c, <2>1, <2>2 DEF FinalInv, Settled
  <2>3. CASE ~Settled(t)
    BY <1>0, <1>b, <1>c, <2>1, <2>3 DEF FinalInv, Settled
  <2>4. QED
    BY <2>2, <2>3
\* It ends, and another one is queued.
<1>d. ASSUME "repeated" \notin incidents, NEW t \in Tasks, tasks[t].stage # "unused", ~Settled(t),
             NEW stage \in {"returned", "ended"}, NEW task, AdvanceAnd(t, stage, task),
             UNCHANGED stream, UNCHANGED status \/ status' = "failed"
      PROVE  FinalInv'
  <2>1. t = used /\ status # "completed" /\ \A c \in Clients : stream[c].end # "completed"
    BY <1>b, <1>d
  <2>2. used' = used + 1 /\ used + 1 \in Tasks /\ status' # "completed"
    BY <1>0, <1>d, <2>1, BoundsAssumption DEF AdvanceAnd, Tasks
  <2>3. tasks'[t].stage = stage /\ \A u \in Tasks \ {t, used + 1} : tasks'[u] = tasks[u]
    BY <1>0, <1>d, <2>1, <2>2 DEF AdvanceAnd, TypeOK
  <2>4. \A u \in Tasks : u < used' => u = t \/ u < used
    BY <1>0, <2>1, <2>2
  <2>5. \A u \in Tasks : u < used' => tasks'[u].stage \in {"returned", "ended"}
    BY <1>0, <1>d, <2>1, <2>2, <2>3, <2>4 DEF FinalInv, Settled
  <2>6. QED
    BY <1>d, <2>1, <2>2, <2>5 DEF FinalInv, Settled
<1>1. ASSUME NEW t \in Tasks, Begin(t) PROVE FinalInv'
  <2>1. "repeated" \notin incidents /\ tasks[t].stage = "ready" /\ ~Settled(t)
    BY <1>1, <1>a DEF Begin, Settled
  <2>2. status' # "completed"
    BY <1>1, <1>b, <2>1 DEF Begin
  <2>3. CASE Advance(t, "working")
    BY <1>1, <2>1, <2>2, <2>3, <1>c DEF Begin, Stages
  <2>4. CASE Advance(t, "invoking")
    BY <1>1, <2>1, <2>2, <2>4, <1>c DEF Begin, Stages
  <2>5. QED
    BY <1>1, <2>3, <2>4 DEF Begin
<1>2. ASSUME NEW t \in Tasks, Ingested(t) PROVE FinalInv'
  <2>1. "repeated" \notin incidents /\ tasks[t].stage = "working" /\ ~Settled(t)
    BY <1>2, <1>a DEF Ingested, At, Settled
  <2>2. CASE AdvanceAnd(t, "returned", Task("analyse", 0))
    BY <1>2, <2>1, <2>2, <1>d DEF Ingested
  <2>3. CASE Advance(t, "returned") /\ UNCHANGED used
    BY <1>2, <2>1, <2>3, <1>c DEF Ingested, Stages
  <2>4. QED
    BY <1>2, <2>2, <2>3 DEF Ingested
<1>3. ASSUME NEW t \in Tasks, Invoke(t) PROVE FinalInv'
  <2>1. "repeated" \notin incidents /\ tasks[t].stage = "invoking" /\ ~Settled(t)
    BY <1>3, <1>a DEF Invoke, At, Settled
  <2>2. t = used /\ status # "completed" /\ \A c \in Clients : stream[c].end # "completed"
    BY <1>b, <2>1
  <2>3. \A u \in Tasks \ {t} : tasks'[u] = tasks[u]
    BY <1>3 DEF Invoke, TypeOK
  <2>4. QED
    BY <1>0, <1>3, <2>1, <2>2, <2>3 DEF Invoke, FinalInv, Settled
<1>15. ASSUME NEW t \in Tasks, ToolHangs(t) PROVE FinalInv'
  <2>1. "repeated" \notin incidents /\ tasks[t].stage = "invoking" /\ ~Settled(t)
    BY <1>15, <1>a DEF ToolHangs, At, Settled
  <2>2. status # "completed"
    BY <1>b, <2>1
  <2>3. QED
    BY <1>15, <2>1, <2>2, <1>c DEF ToolHangs, Stages
<1>16. CASE Commit
  BY <1>16 DEF Commit, Row, FinalInv, Settled
<1>4. ASSUME NEW t \in Tasks, Flush(t) PROVE FinalInv'
  <2>1. "repeated" \notin incidents /\ tasks[t].stage = "flushing" /\ ~Settled(t)
    BY <1>4, <1>a DEF Flush, At, Settled
  <2>2. status # "completed"
    BY <1>b, <2>1
  <2>3. QED
    BY <1>4, <2>1, <2>2, <1>c DEF Flush, Stages
<1>5. ASSUME NEW t \in Tasks, SaveReport(t) PROVE FinalInv'
  <2>1. "repeated" \notin incidents /\ tasks[t].stage = "reporting" /\ ~Settled(t)
    BY <1>5, <1>a DEF SaveReport, At, Settled
  <2>2. status # "completed"
    BY <1>b, <2>1
  <2>3. QED
    BY <1>5, <2>1, <2>2, <1>c DEF SaveReport, Stages
<1>6. ASSUME NEW t \in Tasks, Complete(t) PROVE FinalInv'
  <2>1. "repeated" \notin incidents /\ tasks[t].stage = "completing" /\ ~Settled(t)
    BY <1>6, <1>a DEF Complete, SetVerdict, At, Settled
  <2>2. QED
    BY <1>6, <2>1, <1>c DEF Complete, SetVerdict, Row, Stages
<1>7. ASSUME NEW t \in Tasks, Acknowledge(t) PROVE FinalInv'
  BY <1>7, <1>a, <1>c DEF Acknowledge, Stages, Settled
<1>8. ASSUME NEW t \in Tasks, Fails(t) PROVE FinalInv'
  <2>1. "repeated" \notin incidents /\ tasks[t].stage # "unused" /\ ~Settled(t)
    BY <1>8, <1>a DEF Fails, SetVerdict, Running, Settled
  <2>2. status # "completed" /\ status' # "completed"
    BY <1>8, <1>b, <2>1 DEF Fails, SetVerdict
  <2>6. UNCHANGED stream /\ (UNCHANGED status \/ status' = "failed")
    BY <1>8 DEF Fails, SetVerdict
  <2>3. CASE AdvanceAnd(t, "ended", Task(tasks[t].kind, tasks[t].retry + 1))
    BY <2>1, <2>3, <2>6, <1>d
  <2>4. CASE (Advance(t, "ended") \/ Advance(t, "abandoned")) /\ UNCHANGED used
    BY <2>1, <2>2, <2>4, <2>6, <1>c DEF Stages
  <2>5. QED
    BY <1>8, <2>3, <2>4 DEF Fails, Retried
<1>9. ASSUME NEW t \in Tasks, WorkerDies(t) PROVE FinalInv'
  <2>1. "repeated" \notin incidents /\ tasks[t].stage # "unused" /\ ~Settled(t)
    BY <1>9, <1>a DEF WorkerDies, Running, Settled
  <2>2. QED
    BY <1>9, <2>1, <1>d DEF WorkerDies
<1>10. ASSUME NEW t \in Tasks, Redeliver(t) PROVE FinalInv'
  BY <1>10, <1>a DEF Redeliver
<1>11. ASSUME NEW c \in Clients, Open(c) PROVE FinalInv'
  BY <1>11 DEF Open, TypeOK, FinalInv, Settled
<1>12. ASSUME NEW c \in Clients, Poll(c) PROVE FinalInv'
  <2>1. /\ stream'[c].end = IF status \in Verdicts THEN status ELSE "open"
        /\ \A d \in Clients \ {c} : stream'[d] = stream[d]
    BY <1>12 DEF Poll, TypeOK
  <2>2. QED
    BY <1>12, <2>1 DEF Poll, FinalInv, Settled
<1>13. CASE UNCHANGED vars
  BY <1>13 DEF vars, FinalInv, Settled
<1>14. QED
  BY <1>1, <1>2, <1>3, <1>4, <1>5, <1>6, <1>7, <1>8, <1>9, <1>10, <1>11, <1>12, <1>13, <1>15,
     <1>16 DEF Next, Work

\* A stream that ended on completed told the final verdict, unless a message was
\* delivered twice.
THEOREM CompletedFinal == Spec => []CompletedIsFinal
<1>1. Init => FinalInv
  <2> SUFFICES ASSUME Init PROVE FinalInv
    OBVIOUS
  <2>1. used = 1 /\ status # "completed" /\ \A c \in Clients : stream[c].end # "completed"
    BY DEF Init
  <2>2. \A t \in Tasks : ~(t < used)
    BY <2>1 DEF Tasks
  <2>3. QED
    BY <2>1, <2>2 DEF FinalInv
<1>2. FinalInv => CompletedIsFinal
  BY DEF FinalInv, CompletedIsFinal
<1>3. QED
  BY <1>1, <1>2, FinalStep, TypeCorrect, PTL DEF Spec

-----------------------------------------------------------------------------
(* A completed stream                                                      *)

\* The collector of task t records nothing more.
Flushed(t) == tasks[t].stage \in {"reporting", "completing", "returned", "abandoned", "ended"}

\* After one flush and none that failed the traces are those of whoever saved
\* the report or is about to, and a client has been sent all of them or none;
\* what a client fetched when its stream ended stays as it was.  Traces come
\* before the report, so a report that found no row was not the first loss.
CompleteInv ==
  /\ report # 0 => Flushed(report)
  /\ "unreported" \in incidents => "unflushed" \in incidents
  /\ ~Row => \A t \in Tasks : At(t, "analyse", "reporting") => "unflushed" \in incidents
  /\ "unreported" \notin incidents =>
       /\ status = "completed" => report # 0
       /\ \A t \in Tasks : At(t, "analyse", "completing") => report # 0
  /\ "unflushed" \notin incidents =>
       /\ flushes = 0 =>
            /\ traces = <<>> /\ report = 0
            /\ \A c \in Clients : stream[c].sent = <<>>
            /\ \A t \in Tasks : ~At(t, "analyse", "reporting")
       /\ flushes = 1 =>
            /\ report # 0 => traces = Recorded(report)
            /\ \A t \in Tasks : At(t, "analyse", "reporting") => traces = Recorded(t)
            /\ \A c \in Clients : stream[c].sent = <<>> \/ stream[c].sent = traces
  /\ \A c \in Clients : stream[c].end = "completed" =>
       /\ "unreported" \notin incidents => stream[c].report # 0
       /\ stream[c].report # 0 => Flushed(stream[c].report)
       /\ stream[c].runs = 1 /\ "unflushed" \notin incidents =>
            stream[c].sent = Recorded(stream[c].report)

\* The parts of it that tasks and incidents can disturb.
LEMMA CompleteFrame ==
  ASSUME TypeOK, CompleteInv, UNCHANGED <<traces, report, stream, flushes>>,
         incidents \subseteq incidents', Row => Row',
         "unreported" \in incidents' => "unreported" \in incidents,
         status' = "completed" => report # 0 \/ "unreported" \in incidents,
         \A t \in Tasks :
           /\ Flushed(t) => Flushed(t)' /\ tasks'[t].events = tasks[t].events
           /\ At(t, "analyse", "reporting")' => At(t, "analyse", "reporting")
           /\ At(t, "analyse", "completing")' => At(t, "analyse", "completing")
  PROVE  CompleteInv'
<1>1. report \in {0} \cup Tasks /\ \A c \in Clients : stream[c].report \in {0} \cup Tasks
  BY DEF TypeOK
<1>2. \A t \in Tasks : Flushed(t) => Recorded(t)' = Recorded(t)
  BY DEF Recorded, Event
<1>3. \A t \in Tasks : At(t, "analyse", "reporting") => Flushed(t)
  BY DEF At, Flushed
<1>4. QED
  BY <1>1, <1>2, <1>3 DEF CompleteInv

\* A task goes on, and maybe another one is queued.
LEMMA AdvanceFrame ==
  ASSUME TypeOK, NEW t \in Tasks, NEW stage, tasks[t].stage # "unused",
         Flushed(t) => stage \in {"reporting", "completing", "returned", "abandoned", "ended"},
         stage \in {"reporting", "completing"} => tasks[t].stage = stage,
         \/ Advance(t, stage)
         \/ \E kind \in {"ingest", "analyse"}, retry \in Nat :
              AdvanceAnd(t, stage, Task(kind, retry))
  PROVE  \A u \in Tasks :
           /\ Flushed(u) => Flushed(u)' /\ tasks'[u].events = tasks[u].events
           /\ At(u, "analyse", "reporting")' => At(u, "analyse", "reporting")
           /\ At(u, "analyse", "completing")' => At(u, "analyse", "completing")
<1>1. CASE Advance(t, stage)
  BY <1>1 DEF Advance, Flushed, At, TypeOK
<1>2. ASSUME NEW kind \in {"ingest", "analyse"}, NEW retry \in Nat,
             AdvanceAnd(t, stage, Task(kind, retry))
      PROVE  \A u \in Tasks :
               /\ Flushed(u) => Flushed(u)' /\ tasks'[u].events = tasks[u].events
               /\ At(u, "analyse", "reporting")' => At(u, "analyse", "reporting")
               /\ At(u, "analyse", "completing")' => At(u, "analyse", "completing")
  <2>0. used \in Nat /\ used < MaxTasks /\ MaxTasks \in Nat
    BY <1>2, BoundsAssumption DEF AdvanceAnd, TypeOK, Tasks
  <2>1. used \in Nat /\ used < MaxTasks /\ used + 1 \in Tasks
    BY <2>0 DEF Tasks
  <2>2. tasks[used + 1].stage = "unused" /\ t # used + 1
    BY <2>1 DEF TypeOK
  <2>3. /\ tasks'[t] = [tasks[t] EXCEPT !.stage = stage]
        /\ tasks'[used + 1] = Task(kind, retry)
        /\ \A u \in Tasks \ {t, used + 1} : tasks'[u] = tasks[u]
    BY <1>2, <2>1, <2>2 DEF AdvanceAnd, TypeOK
  <2>4. tasks[t] \in [kind : {"ingest", "analyse"}, retry : 0..MaxRetries,
                      stage : Stages, events : 0..MaxEvents]
    BY DEF TypeOK
  <2>5. ASSUME NEW u \in Tasks
        PROVE  /\ Flushed(u) => Flushed(u)' /\ tasks'[u].events = tasks[u].events
               /\ At(u, "analyse", "reporting")' => At(u, "analyse", "reporting")
               /\ At(u, "analyse", "completing")' => At(u, "analyse", "completing")
    <3>1. CASE u = used + 1
      <4>1. tasks'[u].stage = "ready" /\ tasks'[u].events = 0
        BY <2>3, <3>1 DEF Task
      <4>2. QED
        BY <2>2, <3>1, <4>1 DEF Flushed, At
    <3>2. CASE u = t
      <4>1. tasks'[u].stage = stage /\ tasks'[u].kind = tasks[u].kind
            /\ tasks'[u].events = tasks[u].events
        BY <2>3, <2>4, <3>2
      <4>2. QED
        BY <3>2, <4>1 DEF Flushed, At
    <3>3. CASE u # used + 1 /\ u # t
      BY <2>3, <3>3 DEF Flushed, At
    <3>4. QED
      BY <3>1, <3>2, <3>3
  <2>6. QED
    BY <2>5
<1>3. QED
  BY <1>1, <1>2

LEMMA CompleteStep ==
  ASSUME TypeOK, CompleteInv, [Next]_vars
  PROVE  CompleteInv'
<1> USE BoundsAssumption
<1>0. /\ report \in {0} \cup Tasks /\ \A c \in Clients : stream[c].report \in {0} \cup Tasks
      /\ flushes \in Nat /\ 0 \notin Tasks
  BY DEF TypeOK, Tasks
<1>1. ASSUME NEW t \in Tasks, Begin(t) PROVE CompleteInv'
  <2>1. status' = "completed" => report # 0 \/ "unreported" \in incidents
    BY <1>1 DEF Begin, CompleteInv
  <2>2. Advance(t, "working") \/ Advance(t, "invoking")
    BY <1>1 DEF Begin
  <2>3. QED
    BY <1>1, <2>1, <2>2, AdvanceFrame, CompleteFrame DEF Begin, Flushed, Row
<1>2. ASSUME NEW t \in Tasks, Ingested(t) PROVE CompleteInv'
  <2>1. status' = "completed" => report # 0 \/ "unreported" \in incidents
    BY <1>2 DEF Ingested, CompleteInv
  <2>2. Advance(t, "returned") \/ AdvanceAnd(t, "returned", Task("analyse", 0))
    BY <1>2 DEF Ingested
  <2>3. QED
    BY <1>2, <2>1, <2>2, AdvanceFrame, CompleteFrame DEF Ingested, At, Flushed, Row
<1>3. ASSUME NEW t \in Tasks, Invoke(t) PROVE CompleteInv'
  <2>1. PICK n \in 0..MaxEvents :
          tasks' = [tasks EXCEPT ![t].stage = "flushing", ![t].events = n]
    BY <1>3 DEF Invoke
  <2>2. tasks'[t].stage = "flushing" /\ \A u \in Tasks \ {t} : tasks'[u] = tasks[u]
    BY <2>1 DEF TypeOK
  <2>3. ~Flushed(t) /\ tasks[t].stage = "invoking"
    BY <1>3 DEF Invoke, At, Flushed
  <2>4. \A u \in Tasks : Flushed(u) => Flushed(u)' /\ Recorded(u)' = Recorded(u)
    BY <2>2, <2>3 DEF Flushed, Recorded, Event
  <2>5. \A u \in Tasks : /\ At(u, "analyse", "reporting")' => At(u, "analyse", "reporting")
                         /\ At(u, "analyse", "completing")' => At(u, "analyse", "completing")
    BY <2>2, <2>3 DEF At
  <2>6. \A u \in Tasks : At(u, "analyse", "reporting") => Flushed(u)
    BY DEF At, Flushed
  <2>7. QED
    BY <1>0, <1>3, <2>4, <2>5, <2>6 DEF Invoke, CompleteInv, Row
<1>15. ASSUME NEW t \in Tasks, ToolHangs(t) PROVE CompleteInv'
  <2>1. status' = "completed" => report # 0 \/ "unreported" \in incidents
    BY <1>15 DEF ToolHangs, CompleteInv
  <2>2. QED
    BY <1>15, <2>1, AdvanceFrame, CompleteFrame DEF ToolHangs, At, Flushed, Row
<1>16. CASE Commit
  BY <1>16, CompleteFrame DEF Commit, Row, Flushed, At
<1>4. ASSUME NEW t \in Tasks, Flush(t) PROVE CompleteInv'
  <2>1. /\ tasks[t].kind = "analyse" /\ tasks[t].stage = "flushing"
        /\ tasks' = [tasks EXCEPT ![t].stage = "reporting"]
        /\ UNCHANGED <<status, report, used, stream>>
    BY <1>4 DEF Flush, At, Advance
  <2>2. /\ \A u \in Tasks \ {t} : tasks'[u] = tasks[u]
        /\ tasks'[t].stage = "reporting" /\ tasks'[t].events = tasks[t].events
    BY <2>1 DEF TypeOK
  <2>3. \A u \in Tasks : (Flushed(u) => Flushed(u)') /\ Recorded(u)' = Recorded(u)
    BY <2>1, <2>2 DEF Flushed, Recorded, Event
  <2>4. \A u \in Tasks \ {t} : At(u, "analyse", "reporting")' => At(u, "analyse", "reporting")
    BY <2>2 DEF At
  <2>5. \A u \in Tasks : At(u, "analyse", "completing")' => At(u, "analyse", "completing")
    BY <2>2 DEF At
  <2>6. CASE incidents' = incidents \cup {"unflushed"} /\ UNCHANGED <<traces, flushes>>
    BY <1>0, <2>1, <2>3, <2>5, <2>6 DEF CompleteInv, Row
  <2>7. CASE Row /\ traces' = Recorded(t) /\ flushes' = flushes + 1 /\ UNCHANGED <<incidents, faults>>
    <3>1. flushes' # 0 /\ (flushes' = 1 => flushes = 0)
      BY <1>0, <2>7
    <3>2. "unflushed" \notin incidents /\ flushes' = 1 =>
            /\ report = 0 /\ traces' = Recorded(t)'
            /\ \A u \in Tasks : At(u, "analyse", "reporting")' => u = t
            /\ \A c \in Clients : stream[c].sent = <<>>
      BY <2>3, <2>4, <2>7, <3>1 DEF CompleteInv
    <3>3. QED
      BY <1>0, <2>1, <2>3, <2>5, <2>7, <3>1, <3>2 DEF CompleteInv, Row
  <2>8. QED
    BY <1>4, <2>6, <2>7 DEF Flush
<1>5. ASSUME NEW t \in Tasks, SaveReport(t) PROVE CompleteInv'
  <2>1. /\ At(t, "analyse", "reporting")
        /\ tasks' = [tasks EXCEPT ![t].stage = "completing"]
        /\ UNCHANGED <<status, traces, used, stream, flushes, faults>>
    BY <1>5 DEF SaveReport, Advance
  <2>2. /\ \A u \in Tasks \ {t} : tasks'[u] = tasks[u]
        /\ tasks'[t].stage = "completing" /\ tasks'[t].events = tasks[t].events
    BY <2>1 DEF TypeOK
  <2>3. \A u \in Tasks : (Flushed(u) => Flushed(u)') /\ Recorded(u)' = Recorded(u)
    BY <2>2 DEF Flushed, Recorded, Event
  <2>4. \A u \in Tasks : At(u, "analyse", "reporting")' => At(u, "analyse", "reporting")
    BY <2>2 DEF At
  <2>5. Flushed(t)'
    BY <2>2 DEF Flushed
  <2>7. CASE Row /\ report' = t /\ UNCHANGED incidents
    BY <1>0, <2>1, <2>3, <2>4, <2>5, <2>7 DEF CompleteInv, Row
  <2>8. CASE ~Row /\ incidents' = incidents \cup {"unreported"} /\ UNCHANGED report
    <3>1. "unflushed" \in incidents'
      BY <2>1, <2>8 DEF CompleteInv
    <3>2. QED
      BY <1>0, <2>1, <2>3, <2>4, <2>8, <3>1 DEF CompleteInv, Row
  <2>6. QED
    BY <1>5, <2>7, <2>8 DEF SaveReport
<1>6. ASSUME NEW t \in Tasks, Complete(t) PROVE CompleteInv'
  <2>1. report # 0 \/ "unreported" \in incidents
    BY <1>6 DEF Complete, CompleteInv
  <2>3. incidents' \subseteq incidents \cup {"no_status"} /\ incidents \subseteq incidents' /\ (Row => Row')
    BY <1>6 DEF Complete, SetVerdict, Row
  <2>2. QED
    BY <1>6, <2>1, <2>3, AdvanceFrame, CompleteFrame DEF Complete, At, Flushed
<1>7. ASSUME NEW t \in Tasks, Acknowledge(t) PROVE CompleteInv'
  <2>1. status' = "completed" => report # 0 \/ "unreported" \in incidents
    BY <1>7 DEF Acknowledge, CompleteInv
  <2>2. QED
    BY <1>7, <2>1, AdvanceFrame, CompleteFrame DEF Acknowledge, Flushed, Row
<1>8. ASSUME NEW t \in Tasks, Fails(t) PROVE CompleteInv'
  <2>1. status' = "completed" => report # 0 \/ "unreported" \in incidents
    BY <1>8 DEF Fails, SetVerdict, CompleteInv
  <2>5. /\ incidents' \subseteq incidents \cup {"no_status"} /\ incidents \subseteq incidents'
        /\ Row => Row'
    BY <1>8 DEF Fails, SetVerdict, Row
  <2>2. tasks[t].kind \in {"ingest", "analyse"} /\ tasks[t].retry + 1 \in Nat
    BY DEF TypeOK
  <2>3. \/ Advance(t, "ended") \/ Advance(t, "abandoned")
        \/ AdvanceAnd(t, "ended", Task(tasks[t].kind, tasks[t].retry + 1))
    BY <1>8 DEF Fails, Retried
  <2>4. QED
    <3>1. UNCHANGED <<traces, report, stream, flushes>> /\ tasks[t].stage # "unused"
      BY <1>8 DEF Fails, Running
    <3>2. QED
      BY <2>1, <2>2, <2>3, <2>5, <3>1, AdvanceFrame, CompleteFrame
<1>9. ASSUME NEW t \in Tasks, WorkerDies(t) PROVE CompleteInv'
  <2>1. status' = "completed" => report # 0 \/ "unreported" \in incidents
    BY <1>9 DEF WorkerDies, CompleteInv
  <2>2. tasks[t].kind \in {"ingest", "analyse"} /\ tasks[t].retry \in Nat
    BY DEF TypeOK
  <2>3. AdvanceAnd(t, "ended", Task(tasks[t].kind, tasks[t].retry)) /\ tasks[t].stage # "unused"
    BY <1>9 DEF WorkerDies, Running
  <2>4. QED
    BY <1>9, <2>1, <2>2, <2>3, AdvanceFrame, CompleteFrame DEF WorkerDies, Row
<1>10. ASSUME NEW t \in Tasks, Redeliver(t) PROVE CompleteInv'
  <2>1. status' = "completed" => report # 0 \/ "unreported" \in incidents
    BY <1>10 DEF Redeliver, CompleteInv
  <2>2. tasks[t].kind \in {"ingest", "analyse"} /\ tasks[t].retry \in Nat
    BY DEF TypeOK
  <2>3. AdvanceAnd(t, tasks[t].stage, Task(tasks[t].kind, tasks[t].retry)) /\ tasks[t].stage # "unused"
    BY <1>10 DEF Redeliver, Running
  <2>4. QED
    BY <1>10, <2>1, <2>2, <2>3, AdvanceFrame, CompleteFrame DEF Redeliver, Flushed, Row
<1>11. ASSUME NEW c \in Clients, Open(c) PROVE CompleteInv'
  <2>1. /\ stream'[c] = [stream[c] EXCEPT !.end = "open"]
        /\ \A d \in Clients \ {c} : stream'[d] = stream[d]
        /\ UNCHANGED <<status, traces, report, tasks, used, flushes, incidents, faults>>
    BY <1>11 DEF Open, TypeOK
  <2>2. /\ stream'[c].end = "open" /\ stream'[c].sent = stream[c].sent
    BY <2>1 DEF TypeOK
  <2>3. \A d \in Clients : stream'[d].sent = stream[d].sent
          /\ (stream'[d].end = "completed" => stream'[d] = stream[d])
    BY <2>1, <2>2
  <2>4. \A t \in Tasks : /\ Flushed(t)' = Flushed(t) /\ Recorded(t)' = Recorded(t)
                         /\ \A stage : At(t, "analyse", stage)' = At(t, "analyse", stage)
    BY <2>1 DEF Flushed, Recorded, Event, At
  <2>5. QED
    BY <1>0, <2>1, <2>3, <2>4 DEF CompleteInv, Row
<1>12. ASSUME NEW c \in Clients, Poll(c) PROVE CompleteInv'
  <2>1. /\ stream'[c].end = "completed" => status = "completed"
        /\ stream'[c].sent = stream[c].sent \o News(c)
        /\ stream'[c].runs = flushes /\ stream'[c].report = report
        /\ \A d \in Clients \ {c} : stream'[d] = stream[d]
        /\ UNCHANGED <<status, traces, report, tasks, used, flushes, incidents, faults>>
    BY <1>12 DEF Poll, TypeOK
  <2>2. stream[c].sent = <<>> \/ stream[c].sent = traces => stream'[c].sent = traces
    BY <2>1, SentGrows DEF Grown
  <2>3. \A t \in Tasks : /\ Flushed(t)' = Flushed(t) /\ Recorded(t)' = Recorded(t)
                         /\ \A stage : At(t, "analyse", stage)' = At(t, "analyse", stage)
    BY <2>1 DEF Flushed, Recorded, Event, At
  <2>4. \A d \in Clients : "unflushed" \notin incidents =>
          /\ flushes = 0 => stream'[d].sent = <<>>
          /\ flushes = 1 => stream'[d].sent = <<>> \/ stream'[d].sent = traces
    BY <2>1, <2>2 DEF CompleteInv
  <2>5. \A d \in Clients : stream'[d].end = "completed" =>
          /\ "unreported" \notin incidents => stream'[d].report # 0
          /\ stream'[d].report # 0 => Flushed(stream'[d].report)
          /\ stream'[d].runs = 1 /\ "unflushed" \notin incidents =>
               stream'[d].sent = Recorded(stream'[d].report)
    BY <2>1, <2>2 DEF CompleteInv
  <2>6. QED
    <3>1. \A d \in Clients :
            (stream[d].end = "completed" =>
               /\ "unreported" \notin incidents => stream[d].report # 0
               /\ stream[d].report # 0 => Flushed(stream[d].report)
               /\ stream[d].runs = 1 /\ "unflushed" \notin incidents =>
                    stream[d].sent = Recorded(stream[d].report))'
      BY <2>1, <2>5 DEF Flushed, Recorded, Event
    <3>2. (/\ report # 0 => Flushed(report)
           /\ "unreported" \in incidents => "unflushed" \in incidents
           /\ ~Row => \A t \in Tasks : At(t, "analyse", "reporting") => "unflushed" \in incidents
           /\ "unreported" \notin incidents =>
                /\ status = "completed" => report # 0
                /\ \A t \in Tasks : At(t, "analyse", "completing") => report # 0)'
      BY <1>0, <2>1, <2>3 DEF CompleteInv, Row
    <3>3. ("unflushed" \notin incidents =>
             /\ flushes = 0 =>
                  /\ traces = <<>> /\ report = 0
                  /\ \A d \in Clients : stream[d].sent = <<>>
                  /\ \A t \in Tasks : ~At(t, "analyse", "reporting")
             /\ flushes = 1 =>
                  /\ report # 0 => traces = Recorded(report)
                  /\ \A t \in Tasks : At(t, "analyse", "reporting") => traces = Recorded(t)
                  /\ \A d \in Clients : stream[d].sent = <<>> \/ stream[d].sent = traces)'
      BY <1>0, <2>1, <2>3, <2>4 DEF CompleteInv
    <3>4. QED
      BY <3>1, <3>2, <3>3 DEF CompleteInv
<1>13. CASE UNCHANGED vars
  BY <1>13 DEF vars, CompleteInv, Flushed, At, Recorded, Event, Row
<1>14. QED
  BY <1>1, <1>2, <1>3, <1>4, <1>5, <1>6, <1>7, <1>8, <1>9, <1>10, <1>11, <1>12, <1>13, <1>15,
     <1>16 DEF Next, Work

\* A stream that ended on completed has a report to fetch, unless one was saved
\* before there was a row, and after one flush and none that failed or found no
\* row it has shown all the events of that report's run.
THEOREM CompletedComplete == Spec => []CompletedStreamIsComplete
<1>1. Init => CompleteInv
  <2> SUFFICES ASSUME Init PROVE CompleteInv
    OBVIOUS
  <2>1. \A t \in Tasks : tasks[t].kind = "ingest"
    BY DEF Init, Task
  <2>2. /\ traces = <<>> /\ report = 0 /\ flushes = 0 /\ status # "completed" /\ incidents = {}
        /\ \A c \in Clients : stream[c].end = "closed" /\ stream[c].sent = <<>>
    BY DEF Init
  <2>3. QED
    BY <2>1, <2>2 DEF CompleteInv, At
<1>2. CompleteInv => CompletedStreamIsComplete
  BY DEF CompleteInv, CompletedStreamIsComplete
<1>3. QED
  BY <1>1, <1>2, CompleteStep, TypeCorrect, PTL DEF Spec

=============================================================================
