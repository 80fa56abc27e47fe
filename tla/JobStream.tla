----------------------------- MODULE JobStream -----------------------------
(***************************************************************************)
(* What clients see of a job: stream_job_progress of src/api/v1/upload.py  *)
(* polls the job's row while deliveries of its messages to the ingestion   *)
(* worker (src/worker/worker.py) and the LangGraph worker                  *)
(* (src/worker/langgraph_worker.py) write to it.  Each analysis has its    *)
(* own trace collector (src/core/tracing/collector.py), which records      *)
(* events in memory and replaces the traces in the row once, at the end.   *)
(*                                                                         *)
(* JobLifecycle has the job's other effects; here a delivery is a task,    *)
(* numbered in the order of their messages, and a failed one is followed   *)
(* by another with a higher retry count.                                   *)
(***************************************************************************)
EXTENDS Naturals, Sequences, FiniteSets

CONSTANTS
  Clients,      \* open streams of the job
  MaxTasks,     \* bound: deliveries
  MaxEvents,    \* bound: events one analysis records
  MaxRetries,   \* max_retries of consume (3 in the code)
  MaxFaults     \* bound: failing calls, dying workers, lost connections

ASSUME BoundsAssumption ==
  /\ MaxTasks \in Nat \ {0}
  /\ {MaxEvents, MaxRetries, MaxFaults} \subseteq Nat

VARIABLES
  status,     \* of the job's row; "none" before it is committed
  traces,     \* of its metadata: events, each with the task that recorded it
  report,     \* the task whose report is in the metadata, or 0
  tasks,      \* deliveries of the job's messages
  used,       \* how many of them there are
  stream,     \* each client's generator, with what it has sent
  flushes,    \* history: flushes that reached the database
  incidents,  \* history: circumstances some properties depend on
  faults

vars == <<status, traces, report, tasks, used, stream, flushes, incidents, faults>>

Tasks == 1..MaxTasks
Verdicts == {"completed", "failed"}

\* no_chunks: a pipeline run yielded nothing; unflushed, unreported, no_status:
\* traces, a report or a verdict did not reach the row, because the call failed
\* or there was no row yet; repeated: a message was delivered again although
\* its handler got through, or still may.
Incidents == {"no_chunks", "unflushed", "unreported", "no_status", "repeated"}

\* hung: the handler waits for an answer that never comes; abandoned: nobody
\* works on the message, and it is neither acknowledged nor rejected.
Stages == {"unused", "ready", "working", "invoking", "flushing", "reporting",
           "completing", "returned", "hung", "abandoned", "ended"}

Event(t, i) == <<t, i>>
Recorded(t) == [i \in 1..tasks[t].events |-> Event(t, i)]

TypeOK ==
  /\ status \in {"none", "queued", "processing"} \cup Verdicts
  /\ traces \in Seq(Tasks \X (1..MaxEvents))
  /\ report \in {0} \cup Tasks
  /\ tasks \in [Tasks -> [kind : {"ingest", "analyse"}, retry : 0..MaxRetries,
                          stage : Stages, events : 0..MaxEvents]]
  /\ used \in Tasks
  /\ \A t \in Tasks : tasks[t].stage = "unused" <=> t > used
  /\ stream \in [Clients -> [end : {"closed", "open"} \cup Verdicts,
                              sent : Seq(Tasks \X (1..MaxEvents)),
                              runs : Nat,
                              report : {0} \cup Tasks]]
  /\ flushes \in Nat
  /\ incidents \subseteq Incidents
  /\ faults \in 0..MaxFaults

Task(kind, retry) == [kind |-> kind, retry |-> retry, stage |-> "ready", events |-> 0]

\* The upload has published the job's message and not yet committed its row, or
\* it has, and the first deliveries have failed since and been retried.
Init ==
  /\ traces = <<>>
  /\ report = 0
  /\ \E past \in 0..MaxRetries :
       /\ status = IF past = 0 THEN "none" ELSE "failed"
       /\ tasks = [t \in Tasks |->
                     [Task("ingest", IF t = 1 THEN past ELSE 0)
                        EXCEPT !.stage = IF t = 1 THEN "ready" ELSE "unused"]]
  /\ used = 1
  /\ stream = [c \in Clients |-> [end |-> "closed", sent |-> <<>>, runs |-> 0,
                                  report |-> 0]]
  /\ flushes = 0
  /\ incidents = {}
  /\ faults = 0

Fault == faults < MaxFaults /\ faults' = faults + 1
At(t, kind, stage) == tasks[t].kind = kind /\ tasks[t].stage = stage
Advance(t, stage) == tasks' = [tasks EXCEPT ![t].stage = stage]

\* Task t goes to stage, and a message for another one is queued.
AdvanceAnd(t, stage, task) ==
  /\ used < MaxTasks
  /\ used' = used + 1
  /\ tasks' = [tasks EXCEPT ![t].stage = stage, ![used + 1] = task]

Row == status # "none"

\* session.commit of the upload, at any time from here on, or never.
Commit ==
  /\ ~Row
  /\ status' = "queued"
  /\ UNCHANGED <<traces, report, tasks, used, stream, flushes, incidents, faults>>

-----------------------------------------------------------------------------
(* Workers.  Their updates of the row do nothing while there is none.      *)

\* The ingestion worker sets the status; the LangGraph worker does not.
Begin(t) ==
  /\ tasks[t].stage = "ready"
  /\ IF tasks[t].kind = "ingest"
     THEN Advance(t, "working") /\ status' = IF Row THEN "processing" ELSE status
     ELSE Advance(t, "invoking") /\ UNCHANGED status
  /\ UNCHANGED <<traces, report, used, stream, flushes, incidents, faults>>

\* The pipeline has run; the analysis is published unless there are no chunks.
Ingested(t) ==
  /\ At(t, "ingest", "working")
  /\ \/ /\ AdvanceAnd(t, "returned", Task("analyse", 0))
        /\ UNCHANGED incidents
     \/ /\ Advance(t, "returned")
        /\ incidents' = incidents \cup {"no_chunks"}
        /\ UNCHANGED used
  /\ UNCHANGED <<status, traces, report, stream, flushes, faults>>

\* The graph runs; its callbacks record events, which nobody sees before the
\* flush.  _invoke_with_retry keeps the collector through all its attempts.
Invoke(t) ==
  /\ At(t, "analyse", "invoking")
  /\ \E n \in 0..MaxEvents :
       tasks' = [tasks EXCEPT ![t].stage = "flushing", ![t].events = n]
  /\ UNCHANGED <<status, traces, report, used, stream, flushes, incidents, faults>>

\* A tool call of the graph never returns: mcp_client.py sets no timeout.
ToolHangs(t) ==
  /\ At(t, "analyse", "invoking")
  /\ Advance(t, "hung")
  /\ UNCHANGED <<status, traces, report, used, stream, flushes, incidents, faults>>

\* Mutant: the events of this run are appended to those of others.
FlushAppends(t) ==
  /\ At(t, "analyse", "flushing")
  /\ Row
  /\ traces' = traces \o Recorded(t)
  /\ flushes' = flushes + 1
  /\ Advance(t, "reporting")
  /\ UNCHANGED <<status, report, used, stream, incidents, faults>>

\* Mutant: the verdict is announced as soon as the graph is through.
FlushCompletes(t) ==
  /\ At(t, "analyse", "flushing")
  /\ Row
  /\ status' = "completed"
  /\ traces' = Recorded(t)
  /\ flushes' = flushes + 1
  /\ Advance(t, "reporting")
  /\ UNCHANGED <<report, used, stream, incidents, faults>>

\* flush_to_db replaces the traces; its failure is logged and swallowed.
Flush(t) ==
  /\ At(t, "analyse", "flushing")
  /\ \/ /\ Row
        /\ traces' = Recorded(t)
        /\ flushes' = flushes + 1
        /\ UNCHANGED <<incidents, faults>>
     \/ /\ Fault \/ (~Row /\ UNCHANGED faults)
        /\ incidents' = incidents \cup {"unflushed"}
        /\ UNCHANGED <<traces, flushes>>
  /\ Advance(t, "reporting")
  /\ UNCHANGED <<status, report, used, stream>>

SaveReport(t) ==
  /\ At(t, "analyse", "reporting")
  /\ IF Row
     THEN report' = t /\ UNCHANGED incidents
     ELSE incidents' = incidents \cup {"unreported"} /\ UNCHANGED report
  /\ Advance(t, "completing")
  /\ UNCHANGED <<status, traces, used, stream, flushes, faults>>

\* The row gets the verdict, if there is one.
SetVerdict(verdict) ==
  IF Row THEN status' = verdict /\ UNCHANGED incidents
  ELSE incidents' = incidents \cup {"no_status"} /\ UNCHANGED status

Complete(t) ==
  /\ At(t, "analyse", "completing")
  /\ SetVerdict("completed")
  /\ Advance(t, "returned")
  /\ UNCHANGED <<traces, report, used, stream, flushes, faults>>

\* The queue acknowledges what the callback returned from.
Acknowledge(t) ==
  /\ tasks[t].stage = "returned"
  /\ Advance(t, "ended")
  /\ UNCHANGED <<status, traces, report, used, stream, flushes, incidents, faults>>

Running(t) == tasks[t].stage \in {"working", "invoking", "flushing", "reporting",
                                  "completing"}

Retried(t) ==
  IF tasks[t].retry < MaxRetries
  THEN AdvanceAnd(t, "ended", Task(tasks[t].kind, tasks[t].retry + 1))
  ELSE Advance(t, "ended") /\ UNCHANGED used

\* A call raises (other than the flush, which swallows it): the handler tries to
\* set the status to failed and the queue retries the message or dead-letters
\* it, or keeps it unacknowledged if that raises.  What the collector held is
\* forgotten.
Fails(t) ==
  /\ Fault
  /\ Running(t)
  /\ Retried(t) \/ (Advance(t, "abandoned") /\ UNCHANGED used)
  /\ \/ SetVerdict("failed")
     \/ incidents' = incidents \cup {"no_status"} /\ UNCHANGED status
  /\ UNCHANGED <<traces, report, stream, flushes>>

\* The worker dies or, in the stages where it does nothing any more, is
\* disconnected, and the queue delivers the message again.
WorkerDies(t) ==
  /\ Fault
  /\ Running(t) \/ tasks[t].stage \in {"returned", "hung", "abandoned"}
  /\ AdvanceAnd(t, "ended", Task(tasks[t].kind, tasks[t].retry))
  /\ incidents' = IF tasks[t].stage = "returned" THEN incidents \cup {"repeated"}
                                                 ELSE incidents
  /\ UNCHANGED <<status, traces, report, stream, flushes>>

\* The connection is lost, and the message delivered again while its handler
\* goes on.
Redeliver(t) ==
  /\ Fault
  /\ Running(t) \/ tasks[t].stage \in {"returned", "hung"}
  /\ AdvanceAnd(t, tasks[t].stage, Task(tasks[t].kind, tasks[t].retry))
  /\ incidents' = incidents \cup {"repeated"}
  /\ UNCHANGED <<status, traces, report, stream, flushes>>

-----------------------------------------------------------------------------
(* stream_job_progress                                                     *)

\* A client learns the job's id from the answer to the upload.
Open(c) ==
  /\ Row
  /\ stream[c].end = "closed"
  /\ stream' = [stream EXCEPT ![c].end = "open"]
  /\ UNCHANGED <<status, traces, report, tasks, used, flushes, incidents, faults>>

\* The traces beyond those already sent.
News(c) == SubSeq(traces, Len(stream[c].sent) + 1, Len(traces))

\* Mutant: only a completed job ends the stream.
PollUntilCompleted(c) ==
  /\ stream[c].end = "open"
  /\ stream' = [stream EXCEPT
       ![c] = [end |-> IF status = "completed" THEN status ELSE "open",
               sent |-> @.sent \o News(c), runs |-> flushes, report |-> report]]
  /\ UNCHANGED <<status, traces, report, tasks, used, flushes, incidents, faults>>

\* One turn of the generator: it reads the row once, sends the news, and ends
\* when the status it read is a verdict.  runs and report are history: how
\* often traces had been flushed, and what get_job_report would have returned.
Poll(c) ==
  /\ stream[c].end = "open"
  /\ stream' = [stream EXCEPT
       ![c] = [end |-> IF status \in Verdicts THEN status ELSE "open",
               sent |-> @.sent \o News(c), runs |-> flushes, report |-> report]]
  /\ UNCHANGED <<status, traces, report, tasks, used, flushes, incidents, faults>>

-----------------------------------------------------------------------------
Work(t) ==
  \/ Begin(t) \/ Ingested(t) \/ Invoke(t)
  \/ Flush(t) \/ SaveReport(t) \/ Complete(t) \/ Acknowledge(t)

Next ==
  \/ Commit
  \/ \E t \in Tasks : Work(t) \/ ToolHangs(t)
  \/ \E t \in Tasks : Fails(t) \/ WorkerDies(t) \/ Redeliver(t)
  \/ \E c \in Clients : Open(c) \/ Poll(c)

Spec == Init /\ [][Next]_vars

\* A delivery that can go on does, and a generator wakes from its sleep.  That a
\* graph ends is not assumed: ToolHangs may forestall it.
Fairness ==
  /\ \A t \in Tasks : WF_vars(Work(t))
  /\ \A c \in Clients : WF_vars(Poll(c))

FairSpec == Spec /\ Fairness

-----------------------------------------------------------------------------
(* Safety                                                                  *)

\* However often the analysis is repeated and its traces replaced, a stream
\* sends an event for every position once, in order: it never shows a position
\* twice and never leaves one out.
PositionsShownOnce ==
  \A c \in Clients : \A i \in DOMAIN stream[c].sent : stream[c].sent[i][2] = i

\* A stream that ends on completed has a report to fetch, unless one was saved
\* before there was a row; after one flush, and none that failed or found no
\* row, it has shown all events of the analysis that wrote that report: traces,
\* report and status are written in this order.
CompletedStreamIsComplete ==
  \A c \in Clients : stream[c].end = "completed" =>
    /\ "unreported" \notin incidents => stream[c].report # 0
    /\ stream[c].runs = 1 /\ "unflushed" \notin incidents =>
         stream[c].sent = Recorded(stream[c].report)

\* A stream that ended on completed told the final verdict, unless a message
\* was delivered again; one that ended on failed may be belied by the retry.
CompletedIsFinal ==
  \A c \in Clients :
    stream[c].end = "completed" /\ "repeated" \notin incidents => status = "completed"

(* Liveness                                                                *)

\* A message that nobody will take up again while its worker stays connected.
Stranded == \E t \in Tasks : tasks[t].stage \in {"hung", "abandoned"}

\* A stream stays open for good only over a job that has no verdict: a run
\* yielded no chunks, a verdict could not be recorded or came before the row was
\* committed, or a message hangs in a tool call or was abandoned by a failing
\* retry.  Missing any status between two polls keeps no stream open.
StreamsEnd ==
  \A c \in Clients :
    <>[](stream[c].end = "open" =>
           /\ status \notin Verdicts
           /\ incidents \cap {"no_chunks", "no_status"} # {} \/ Stranded)

=============================================================================
