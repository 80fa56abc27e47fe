---------------------------- MODULE JobLifecycle ----------------------------
(***************************************************************************)
(* One upload job from the API to its verdict: the upload handler          *)
(* (src/api/v1/upload.py), the ingestion worker (src/worker/worker.py)     *)
(* with its pipeline, the storage worker (src/worker/storage_worker.py)    *)
(* and the LangGraph worker (src/worker/langgraph_worker.py), the object   *)
(* store, the jobs table and the vector store they share.  Job ids are     *)
(* fresh, so jobs do not interfere and one job stands for all.             *)
(*                                                                         *)
(* The three work queues are one bag of tasks.  They are used through what *)
(* DeliveryContract promises and RetryQueue implements: a failed task is   *)
(* queued again with its retry count, then dead-lettered; a task may be    *)
(* delivered again while, or after, it is handled.                         *)
(*                                                                         *)
(* A chunk is identified by the pipeline run that produced it (its id is a *)
(* uuid4 of that run) and the file it comes from.  One chunk per file and  *)
(* one chunk per storage batch keep what the properties tell apart.        *)
(***************************************************************************)
EXTENDS Naturals, FiniteSets, Bags

CONSTANTS
  Files,       \* the files of the upload
  Readable,    \* those the pipeline can parse
  MaxMessages, \* bound: messages in the queues at a time
  MaxRetries,  \* max_retries of consume (3 in the code)
  MaxFaults    \* bound: failing calls, crashes, repeated deliveries

ASSUME FilesAssumption == Readable \subseteq Files /\ Files # {}
ASSUME BoundsAssumption == {MaxMessages, MaxRetries, MaxFaults} \subseteq Nat

VARIABLES
  api,        \* where the upload handler is
  pending,    \* files it has still to upload, or to delete when cleaning up
  store,      \* objects in the object store
  parts,      \* objects with a multipart upload left open there
  row,        \* the job's row: "none" or its status
  report,     \* the report in the row's metadata
  tasks,      \* bag of messages, each with the progress of its handler
  runs,       \* pipeline runs so far
  vectors,    \* chunks in the vector store
  documents,  \* files with a row in the documents table
  incidents,  \* history: circumstances some properties depend on
  faults      \* faults injected so far

upload == <<api, pending, store, parts>>
job == <<row, report, tasks, runs, vectors, documents>>
vars == <<upload, job, incidents, faults>>

ApiStages == {"uploading", "committing", "aborting", "cleaning",
              "accepted", "rejected", "gone"}
Statuses == {"queued", "processing", "completed", "failed"}

\* no_row: a worker's update found no row for the job; no_chunks: a pipeline
\* run produced nothing; leak: a call of the clean-up failed; lost_answer: a
\* multipart upload was opened or completed and the answer was lost, so that the
\* handler does not know of it.
Incidents == {"no_row", "no_chunks", "leak", "lost_answer"}

Kinds == {"ingest", "store", "analyse"}

\* hung: the handler waits for an answer that never comes.  abandoned: nobody
\* works on the message, and it is neither acknowledged nor rejected.
Stages == {"ready", "started", "publishing", "stored", "found", "missing",
           "analysed", "saved", "hung", "done", "abandoned", "dead"}

Message(kind, run, chunks) ==
  [kind |-> kind, run |-> run, chunks |-> chunks, sent |-> {},
   retry |-> 0, stage |-> "ready"]

\* The tasks there are.
Live == BagToSet(tasks)

NoReport == [run |-> 0, chunks |-> {}]

TypeOK ==
  /\ api \in ApiStages
  /\ pending \in SUBSET Files
  /\ store \in SUBSET Files
  /\ parts \in SUBSET Files
  /\ row \in Statuses \cup {"none"}
  /\ report \in [run : Nat, chunks : SUBSET Files]
  /\ IsABag(tasks)
  /\ Live \subseteq [kind : Kinds, run : Nat, chunks : SUBSET Files,
                     sent : SUBSET Files, retry : 0..MaxRetries,
                     stage : Stages]
  /\ runs \in Nat
  /\ vectors \subseteq (1..runs) \X Files
  /\ documents \in SUBSET Files
  /\ incidents \in SUBSET Incidents
  /\ faults \in 0..MaxFaults

Init ==
  /\ api = "uploading"
  /\ pending = Files
  /\ store = {}
  /\ parts = {}
  /\ row = "none"
  /\ report = NoReport
  /\ tasks = EmptyBag
  /\ runs = 0
  /\ vectors = {}
  /\ documents = {}
  /\ incidents = {}
  /\ faults = 0

Fault == faults < MaxFaults /\ faults' = faults + 1

At(t, kind, stage) == t.kind = kind /\ t.stage = stage

\* The queues have room for one more message.
Room == BagCardinality(tasks) < MaxMessages

\* Task t becomes u; task t becomes u and a message is queued besides.
Becomes(t, u) == tasks' = (tasks (-) SetToBag({t})) (+) SetToBag({u})
BecomesAnd(t, u, message) ==
  /\ Room
  /\ tasks' = (tasks (-) SetToBag({t})) (+) SetToBag({u}) (+) SetToBag({message})

Advance(t, stage) == Becomes(t, [t EXCEPT !.stage = stage])

-----------------------------------------------------------------------------
(* upload_documents, and upload_stream of src/storage/s3.py                *)

\* create_multipart_upload for the next file of the loop, answered.
OpenUpload(f) ==
  /\ api = "uploading"
  /\ f \in pending
  /\ parts = {}
  /\ parts' = {f}
  /\ UNCHANGED <<api, pending, store, job, incidents, faults>>

\* Its parts are uploaded and complete_multipart_upload makes the object.
CompleteUpload(f) ==
  /\ api = "uploading"
  /\ f \in parts
  /\ store' = store \cup {f}
  /\ pending' = pending \ {f}
  /\ parts' = {}
  /\ UNCHANGED <<api, job, incidents, faults>>

\* queue.publish of the job, while the row is only in the open transaction.
PublishJob ==
  /\ api = "uploading"
  /\ pending = {}
  /\ tasks' = tasks (+) SetToBag({Message("ingest", 0, {})})
  /\ api' = "committing"
  /\ UNCHANGED <<pending, store, parts, row, report, runs, vectors, documents,
                 incidents, faults>>

\* session.commit makes the row visible; the client gets 201.
Commit ==
  /\ api = "committing"
  /\ row' = "queued"
  /\ api' = "accepted"
  /\ UNCHANGED <<pending, store, parts, report, tasks, runs, vectors, documents,
                 incidents, faults>>

\* Mutant: a failed commit is answered without the clean-up.
UploadFailsDirty ==
  /\ Fault
  /\ api \in {"uploading", "committing"}
  /\ pending' = IF api = "committing" THEN {} ELSE store
  /\ api' = "aborting"
  /\ UNCHANGED <<store, parts, job, incidents>>

\* A call to the object store, the publish or the commit raises: the
\* transaction is rolled back, and the except branches abort the open upload
\* and go over the files uploaded so far.
UploadFails ==
  /\ Fault
  /\ api \in {"uploading", "committing"}
  /\ pending' = store
  /\ api' = "aborting"
  /\ UNCHANGED <<store, parts, job, incidents>>

\* The same, where the call was carried out and only its answer is lost.  The
\* multipart upload is opened before the try, so nobody aborts it; the object
\* that is completed is in no list, and aborting its upload comes too late; the
\* commit cannot be rolled back.
AnswerLost ==
  /\ Fault
  /\ pending' = store
  /\ \/ /\ api = "uploading" /\ parts = {}
        /\ \E f \in pending : parts' = {f}
        /\ api' = "cleaning"
        /\ incidents' = incidents \cup {"lost_answer"}
        /\ UNCHANGED <<store, row>>
     \/ /\ api = "uploading" /\ parts # {}
        /\ store' = store \cup parts
        /\ parts' = {}
        /\ api' = "aborting"
        /\ incidents' = incidents \cup {"lost_answer"}
        /\ UNCHANGED row
     \/ /\ api = "committing"
        /\ row' = "queued"
        /\ api' = "aborting"
        /\ UNCHANGED <<store, parts, incidents>>
  /\ UNCHANGED <<report, tasks, runs, vectors, documents>>

\* abort_multipart_upload, if an upload is open; its failure is logged.
Abort ==
  /\ api = "aborting"
  /\ api' = "cleaning"
  /\ \/ parts' = {} /\ UNCHANGED <<incidents, faults>>
     \/ /\ Fault
        /\ parts # {}
        /\ incidents' = incidents \cup {"leak"}
        /\ UNCHANGED parts
  /\ UNCHANGED <<pending, store, job>>

\* storage.delete of one uploaded file; its failure is logged and skipped.
CleanUp(f) ==
  /\ api = "cleaning"
  /\ f \in pending
  /\ pending' = pending \ {f}
  /\ \/ /\ store' = store \ {f}
        /\ UNCHANGED <<faults, incidents>>
     \/ /\ Fault
        /\ incidents' = incidents \cup {"leak"}
        /\ UNCHANGED store
  /\ UNCHANGED <<api, parts, job>>

\* The clean-up is over; the client gets the error.
Reject ==
  /\ api = "cleaning"
  /\ pending = {}
  /\ api' = "rejected"
  /\ UNCHANGED <<pending, store, parts, job, incidents, faults>>

\* The API process dies, or the request is cancelled, which no except branch
\* catches.
ApiDies ==
  /\ Fault
  /\ api \in {"uploading", "committing", "aborting", "cleaning"}
  /\ api' = "gone"
  /\ UNCHANGED <<pending, store, parts, job, incidents>>

-----------------------------------------------------------------------------
(* The workers' writes to the jobs table: nothing happens without the row.  *)

SetStatus(status) ==
  /\ row' = IF row = "none" THEN "none" ELSE status
  /\ incidents' = IF row = "none" THEN incidents \cup {"no_row"} ELSE incidents

SaveReport(r) ==
  /\ report' = IF row = "none" THEN report ELSE r
  /\ incidents' = IF row = "none" THEN incidents \cup {"no_row"} ELSE incidents

-----------------------------------------------------------------------------
(* Ingestion worker: _process_job                                          *)

\* Mutant: a job that is no longer "queued" is skipped, as a guard against
\* repeated deliveries would.
StartIngestOnce(t) ==
  /\ At(t, "ingest", "ready")
  /\ SetStatus(IF row = "queued" THEN "processing" ELSE row)
  /\ Advance(t, IF row \in {"none", "queued"} THEN "started" ELSE "done")
  /\ UNCHANGED <<upload, report, runs, vectors, documents, faults>>

\* _update_job_status(processing), before anything else.
StartIngest(t) ==
  /\ At(t, "ingest", "ready")
  /\ SetStatus("processing")
  /\ Advance(t, "started")
  /\ UNCHANGED <<upload, report, runs, vectors, documents, faults>>

\* pipeline.run: whatever fails for a file (it is unreadable, already deleted,
\* or a call made for it raises) is swallowed, and the file yields no chunks.
RunPipeline(t) ==
  /\ At(t, "ingest", "started")
  /\ \E chunks \in SUBSET (store \cap Readable) :
       /\ IF chunks = store \cap Readable THEN UNCHANGED faults ELSE Fault
       /\ runs' = runs + 1
       /\ Becomes(t, [t EXCEPT !.run = runs + 1,
                               !.chunks = chunks,
                               !.stage = IF chunks = {} THEN "done"
                                                        ELSE "publishing"])
       /\ incidents' = IF chunks = {} THEN incidents \cup {"no_chunks"}
                                      ELSE incidents
  /\ UNCHANGED <<upload, row, report, vectors, documents>>

\* _publish_for_storage: one batch.
PublishBatch(t) ==
  /\ At(t, "ingest", "publishing")
  /\ \E f \in t.chunks \ t.sent :
       BecomesAnd(t, [t EXCEPT !.sent = @ \cup {f}],
                  Message("store", t.run, {f}))
  /\ UNCHANGED <<upload, row, report, runs, vectors, documents,
                 incidents, faults>>

\* Mutant: the analysis is published without waiting for the batches.
PublishAnalysisFirst(t) ==
  /\ At(t, "ingest", "publishing")
  /\ BecomesAnd(t, [t EXCEPT !.stage = "done"],
                Message("analyse", t.run, t.chunks))
  /\ UNCHANGED <<upload, row, report, runs, vectors, documents,
                 incidents, faults>>

\* _publish_for_langgraph: all chunks, after the last batch.
PublishAnalysis(t) ==
  /\ At(t, "ingest", "publishing")
  /\ t.sent = t.chunks
  /\ BecomesAnd(t, [t EXCEPT !.stage = "done"],
                Message("analyse", t.run, t.chunks))
  /\ UNCHANGED <<upload, row, report, runs, vectors, documents,
                 incidents, faults>>

-----------------------------------------------------------------------------
(* Storage worker: _store_chunks                                           *)

\* store_batch upserts the points under the chunk ids.
StoreVectors(t) ==
  /\ At(t, "store", "ready")
  /\ vectors' = vectors \cup ({t.run} \X t.chunks)
  /\ Advance(t, "stored")
  /\ UNCHANGED <<upload, row, report, runs, documents,
                 incidents, faults>>

\* _save_relational_graph looks for the document row, whose id follows from the
\* job and the file name.
FindDocument(t) ==
  /\ At(t, "store", "stored")
  /\ Advance(t, IF t.chunks \subseteq documents THEN "found" ELSE "missing")
  /\ UNCHANGED <<upload, row, report, runs, vectors, documents, incidents, faults>>

\* Another batch of the file has committed the row since.
Beaten(t) == t.stage = "missing" /\ t.chunks \subseteq documents

\* It inserts the row if it was missing, and commits.  The insert is refused if
\* the row is there by now or, by the foreign key, the job's row is not.
SaveGraph(t) ==
  /\ t.kind = "store"
  /\ \/ t.stage = "found"
     \/ t.stage = "missing" /\ ~Beaten(t) /\ row # "none"
  /\ documents' = documents \cup t.chunks
  /\ Advance(t, "done")
  /\ UNCHANGED <<upload, row, report, runs, vectors, incidents, faults>>

-----------------------------------------------------------------------------
(* LangGraph worker: _process_job                                          *)

\* _invoke_with_retry returns the final state of the graph.
Analyse(t) ==
  /\ At(t, "analyse", "ready")
  /\ Advance(t, "analysed")
  /\ UNCHANGED <<upload, row, report, runs, vectors, documents,
                 incidents, faults>>

\* A tool call of the graph never returns: mcp_client.py sets no timeout.  The
\* worker lives, so the broker leaves it the message.
ToolHangs(t) ==
  /\ At(t, "analyse", "ready")
  /\ Advance(t, "hung")
  /\ UNCHANGED <<upload, row, report, runs, vectors, documents,
                 incidents, faults>>

Verdict(t) == [run |-> t.run, chunks |-> t.chunks]

\* _save_report, then _update_job_status(completed): two transactions.
Persist(t) ==
  /\ \/ /\ At(t, "analyse", "analysed")
        /\ SaveReport(Verdict(t))
        /\ Advance(t, "saved")
        /\ UNCHANGED row
     \/ /\ At(t, "analyse", "saved")
        /\ SetStatus("completed")
        /\ Advance(t, "done")
        /\ UNCHANGED report
  /\ UNCHANGED <<upload, runs, vectors, documents, faults>>

-----------------------------------------------------------------------------
(* The queues                                                              *)

\* The message of a task as the next delivery sees it.
Redelivery(t) ==
  IF t.kind = "ingest" THEN [Message("ingest", 0, {}) EXCEPT !.retry = t.retry]
  ELSE [Message(t.kind, t.run, t.chunks) EXCEPT !.retry = t.retry]

\* Mutant: a handler's error is swallowed and its message acknowledged.
AfterFailureDropped(t) == [Redelivery(t) EXCEPT !.stage = "done"]

\* The except branch of on_message: a retry while any is left, then the dead
\* letter queue.
AfterFailure(t) ==
  IF t.retry < MaxRetries
  THEN [Redelivery(t) EXCEPT !.retry = t.retry + 1]
  ELSE [Redelivery(t) EXCEPT !.stage = "dead"]

\* In the except branch the publish of the retry raises, or the reject, or the
\* worker is killed in the backoff before them: nothing follows.
Abandoned(t) == [Redelivery(t) EXCEPT !.stage = "abandoned"]

Working(t) == t.stage \notin {"hung", "done", "abandoned", "dead"}

\* A call made by a handler raises.  The ingestion and LangGraph workers try to
\* set the status to failed, and the queue takes the message back, if it can.
HandlerFails(t) ==
  /\ Fault
  /\ Working(t)
  /\ Becomes(t, AfterFailure(t)) \/ Becomes(t, Abandoned(t))
  /\ \/ t.kind # "store" /\ SetStatus("failed")
     \/ UNCHANGED <<row, incidents>>
  /\ UNCHANGED <<upload, report, runs, vectors, documents>>

\* The storage worker's insert violates the primary or the foreign key.
GraphRefused(t) ==
  /\ At(t, "store", "missing")
  /\ row = "none" \/ Beaten(t)
  /\ \/ Becomes(t, AfterFailure(t)) /\ UNCHANGED faults
     \/ Becomes(t, Abandoned(t)) /\ Fault
  /\ incidents' = IF row = "none" THEN incidents \cup {"no_row"} ELSE incidents
  /\ UNCHANGED <<upload, row, report, runs, vectors, documents>>

\* The callback has returned and the message is acknowledged.
Ack(t) ==
  /\ t.stage = "done"
  /\ tasks' = tasks (-) SetToBag({t})
  /\ UNCHANGED <<upload, row, report, runs, vectors, documents,
                 incidents, faults>>

\* A message is delivered again while, or although, a handler works on it.
Redeliver(t) ==
  /\ Fault
  /\ Room
  /\ t.stage \notin {"abandoned", "dead"}
  /\ tasks' = tasks (+) SetToBag({Redelivery(t)})
  /\ UNCHANGED <<upload, row, report, runs, vectors, documents,
                 incidents>>

\* A worker process dies or is disconnected, and a message it had not
\* acknowledged is queued again.  One that held several takes as many steps.
WorkerDies(t) ==
  /\ Fault
  /\ t.stage \notin {"ready", "dead"}
  /\ Becomes(t, Redelivery(t))
  /\ UNCHANGED <<upload, row, report, runs, vectors, documents,
                 incidents>>

-----------------------------------------------------------------------------
ApiStep ==
  \/ \E f \in Files : OpenUpload(f) \/ CompleteUpload(f) \/ CleanUp(f)
  \/ Abort
  \/ PublishJob
  \/ Commit
  \/ Reject

Work(t) ==
  \/ StartIngest(t)
  \/ RunPipeline(t)
  \/ PublishBatch(t)
  \/ PublishAnalysis(t)
  \/ StoreVectors(t)
  \/ FindDocument(t)
  \/ SaveGraph(t)
  \/ GraphRefused(t)
  \/ Analyse(t)
  \/ Persist(t)
  \/ Ack(t)

Next ==
  \/ ApiStep
  \/ UploadFails
  \/ AnswerLost
  \/ ApiDies
  \/ \E t \in Live : Work(t) \/ ToolHangs(t)
  \/ \E t \in Live : HandlerFails(t) \/ Redeliver(t) \/ WorkerDies(t)

Spec == Init /\ [][Next]_vars

\* A request is served to its end; while there is a message to deliver or a
\* handler to resume, the workers do something.  What they can do without new
\* faults is finite, so none of it starves.  That an analysis returns is not
\* assumed: ToolHangs may forestall it.
Fairness == WF_vars(ApiStep) /\ WF_vars(\E t \in Live : Work(t))

FairSpec == Spec /\ Fairness

-----------------------------------------------------------------------------
(* Safety                                                                  *)

\* Some message for chunk f of run r is queued, being handled or dead.
StorePending(r, f) ==
  \E t \in Live : t.kind = "store" /\ t.run = r /\ f \in t.chunks

\* A job the client was told is queued keeps its files, and is never
\* forgotten: until its report is saved some message for it is queued, being
\* handled, left unacknowledged or dead-lettered, unless a worker looked for
\* the row before the commit or a run of the pipeline found nothing to analyse.
AcceptedJobIsTracked ==
  api = "accepted" =>
    /\ store = Files /\ parts = {}
    /\ \/ report # NoReport
       \/ incidents # {}
       \/ \E t \in Live : t.kind \in {"ingest", "analyse"}

\* An upload answered with an error leaves no object and no parts of one behind,
\* at whichever step a call was refused or the answer to a commit lost, unless a
\* call of the clean-up failed too, or the answer to a call that opened an upload
\* or completed an object was lost.
RejectedUploadLeavesNoFiles ==
  api = "rejected" /\ incidents \cap {"leak", "lost_answer"} = {} =>
    store = {} /\ parts = {}

\* The chunks a saved report is about are in the vector store, or the message
\* that carries them there is still held: the storage batches are published
\* before the analysis, so no crash or retry can leave a report whose chunks
\* nobody will ever store.
AnalysedChunksReachStorage ==
  \A f \in report.chunks :
    <<report.run, f>> \in vectors \/ StorePending(report.run, f)

\* A chunk in the vector store has its document row in PostgreSQL, or the
\* message that writes it is still held: the two stores diverge only while a
\* retry is owed or its message is dead-lettered.
StoredChunksAreIndexed ==
  \A v \in vectors : v[2] \in documents \/ StorePending(v[1], v[2])

(* A claim of the code that does not hold                                  *)

\* query.py admits queries on completed jobs and tells the others to "Wait
\* until ingestion and analysis are complete": a completed job's chunks are in
\* the vector store.
CompletedJobIsQueryable ==
  row = "completed" => \A f \in report.chunks : <<report.run, f>> \in vectors

(* Liveness                                                                *)

\* A message that nobody will take up again while its worker stays connected.
Stranded == \E t \in Live : t.stage \in {"hung", "abandoned", "dead"}

\* A job accepted ends completed, for good, unless one of its messages is
\* dead-lettered, hangs in a tool call or was abandoned by a failing retry, or
\* one of the incidents happened: no crash, retry or repeated delivery leaves it
\* "processing" or "failed".
AcceptedJobCompletes ==
  <>[](api = "accepted" =>
         row = "completed" \/ Stranded \/ incidents # {})

=============================================================================
