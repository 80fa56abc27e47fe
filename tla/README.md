# Dotkonnekt in TLA+

Dotkonnekt ingests legal documents: the API takes files, a chain of workers
connected by RabbitMQ queues parses, stores and analyses them, and clients ask
questions about the result. This directory holds TLA+ models of the parts of
that program whose correctness depends on the order of things: queues, retries,
crashes, connections that drop, and several processes writing to shared stores.
Every definition is translated from the Python source; paths below are relative
to `src/` of the repository (`src/queue/rabbitmq.py` and so on).

`tlc -config X.cfg MCModule` checks a run; `tlapm M.tla` checks the proofs of the
modules `*_proofs`. `PROJECT.json` lists the runs, the
mutated definitions each property is known to detect, the code lines each
definition stands for, the hazards, the findings and the theorems.

## 1. The system

```
client --upload--> API (upload.py) --S3/MinIO--> object store
                      |        \---> PostgreSQL: jobs row
                      v publish
               [ingestion queue] --> Worker (worker.py) --> Pipeline
                      |                      | batches of chunks
                      |                      v
                      |              [storage queue] --> StorageWorker --> Qdrant
                      |                      |                        \--> PostgreSQL graph
                      |                      v all chunks, after the batches
                      |              [langgraph queue] --> LangGraphWorker --> analysis graph --> MCP tool
                      |                                                    \--> jobs row: report, status
client --status/stream/report/query--> API
```

| Component | State it keeps | Operations | What makes it correct | Modelled by |
|---|---|---|---|---|
| RabbitMQ work queue `queue/rabbitmq.py` | messages with `x-retry-count`, unacknowledged deliveries, dead letter queue | `publish`, `consume.on_message`, `connect`, `_setup_queue_with_dlq`, `close` | no message lost; dead letters had every retry; duplicates only from lost connections; retries end; processes that start together do not harm each other | RetryQueue, DeliveryContract, Startup |
| Upload API `api/v1/upload.py` | uploaded files of a request, open transaction, what a stream has sent | `upload_documents`, status, stream, report | accepted jobs are queued and keep their files; rejected ones leave nothing; a stream ends on the final word | JobLifecycle, JobStream |
| Ingestion worker `worker/worker.py` | status of the job | `_process_job`, both publishers | batches precede the analysis; failures are retried | JobLifecycle, JobStream |
| Pipeline `core/pipeline.py` | none | `run`, `_to_embedded_chunks` | per-file errors do not stop the job; later stages get what they use | JobLifecycle (as one step), QuestionAnswering (its fields) |
| Storage worker `worker/storage_worker.py` | none | `_store_chunks`, `_save_relational_graph` | vectors and relational graph agree | JobLifecycle, VectorStorer, QuestionAnswering |
| Vector storer `core/storer.py` | collection cache, lock | `initialize`, `ensure_collection`, `recreate_collection`, `store_batch` | stored points stay; races are harmless; no deadlock | VectorStorer |
| LangGraph worker `worker/langgraph_worker.py` | attempts | `_process_job`, `_invoke_with_retry`, `_save_report` | a completed job has its traces and its report | JobLifecycle, JobStream, AnalysisGraph |
| Analysis graph `core/agent/graph.py` | `current_chunk_idx`, `findings`, checkpointer | the nodes and routes | covers every chunk, ends, right score | AnalysisGraph |
| MCP client and server `core/agent/mcp_client.py`, `mcp_server/` | none | one tool call | failures become a default | AnalysisGraph |
| Jobs table and manager `database/` | status, metadata, engine | updates by id, `connect`, `create_all` | a missing row is not created; a start settles | JobLifecycle, JobStream, Startup |
| Object storage `storage/` | objects, multipart uploads | upload, delete, bucket creation | no half-uploaded objects | JobLifecycle |
| Question answering `api/v1/query.py`, `core/agent/qa.py` | events of a stream | both endpoints | grounded answers about the asked job; a well-formed stream | QuestionAnswering |
| Retrieval `core/retrieval/` | none | `execute`, `_expand_and_deduplicate` | hits and their neighbours, of one job | QuestionAnswering |
| Semantic chunker `core/chunkers/semantic.py` | the chunk list of one call | `chunk_document` | no text lost or misplaced, sizes in range, one chain | SemanticChunker |
| Model registry `core/models/` | configurations, model lists, selection, `model_config.json` | load, refresh, connect, select, save | memory and file agree; lists and selections fit the configuration | ModelRegistry |
| Tracing `core/tracing/collector.py` | in-memory trace list | record, flush | traces and report are of one run | JobStream |
| Entry points `server.py`, `worker/run.py` | which services are up | start, stop | a process that is up can work | Startup |
| Clause graph, embedder, enrichment, parsers, settings, migrations | none | pure functions, tables of values | links within the document, order kept | not modelled (section 6) |

How they interact: the API and the three workers are separate processes that
share only RabbitMQ, PostgreSQL, the object store and Qdrant. Inside a process
handlers are asyncio tasks that interleave at every `await`; no prefetch limit
is set, so one process handles any number of messages at a time.

Hard behaviours: acknowledgements that use a connection that is gone; a publish
that raises inside an `except` branch; messages delivered twice, or while the
first delivery is still handled; a commit that comes after a publish; two
stores written one after the other; a cache checked before a lock and used after
it; a graph retried on the state its failed attempt left; tool calls without a
timeout; a registry changed before an `await` and saved after it; a list of traces
replaced under the clients that page through it; a queue deleted and declared
again by several processes at once; a collection read twice for one question.
`PROJECT.json` lists each as a hazard at its line, with the properties that would catch it going
wrong, or the reason there is none.

## 2. Modules

### RetryQueue — `queue/rabbitmq.py`, `publish` and `consume`

A retry in this code is a *new message* with the same body and a header one
higher, published before the original is acknowledged. The model therefore has
*copies*: `broker[c]` is where copy c is (ready, unacked, acked, dead),
`body[c]` and `retry[c]` what it carries, `handler[c][e]` where the coroutine
`on_message` is that handles c's delivery over connection `e`. `epoch` counts
connections: when one is lost the broker requeues what is unacknowledged, while
the handlers of the old connection run on and their `ack` raises (`AckRaises`;
that `ack` stands inside the `try`, so a processed message takes the retry
branch). `RepublishRaises` is the `publish` in the `except` branch that nobody
catches: the delivery stays unacknowledged until its connection ends. `accepted`,
`processed` and `failures` are history.

Abstracted: the delay of the backoff (any time may pass), message bodies,
several consumer processes on one queue (the copies of one consumer interleave
in the same ways; a crash, however, takes all its handlers).

### DeliveryContract — what the queue promises

At-least-once delivery on message bodies: accepted, queued, dead, processed.
`AtLeastOnce` in RetryQueue instantiates it with the mapping `BodiesIn`. The
contract says when a queue may forget (`Forget`), give up (`GiveUp`) and bring
back (`Revive`) a message; JobLifecycle uses its queues only through it.

### JobLifecycle — `upload.py`, `s3.py`, `worker.py`, `pipeline.py`, `storage_worker.py`, `langgraph_worker.py`

One job (ids are fresh uuids, so jobs meet nowhere) through all four processes.
A file is uploaded in two steps (`OpenUpload`, `CompleteUpload`), between which
the multipart upload exists in the store as `parts`; a failing one is aborted
(`Abort`) before the handler removes what it had uploaded (`CleanUp`).
`AnswerLost` is the failure in which the call was carried out and only its answer
is lost: an upload that is open though its caller does not know the id (the call
stands before the `try`, so nothing is aborted), an object that is complete though
in no list, a row that is committed though the client gets an error. The
three queues are one bag `tasks` of messages; a task's `stage` is how far its
handler has come, and every `await` that writes to a shared store ends a
stage. `row` is the job's status as other transactions see it, `report` the
report in its metadata, `vectors` and `documents` what Qdrant and the
`documents` table hold, vectors tagged with the pipeline run because chunk ids
are made anew in each run. `_save_relational_graph` is a get-or-insert: `FindDocument`
looks for the row, and a batch that found none (`missing`) either inserts it
(`SaveGraph`) or is beaten by another batch and refused with its whole
transaction (`GraphRefused`). The `documents` row stands for all rows of a file:
parties and relations follow the same rule in the same commit.
`HandlerFails`, `Redeliver`, `WorkerDies`, `UploadFails` and `ApiDies` may strike
at any stage; a worker's death is a step of each of its messages. A message may
also be left with nobody at work on it: its tool call hangs (`ToolHangs`), the
publish of its retry raises in the `except` branch (`Abandoned`, the
`RepublishRaises` of RetryQueue), or it is dead-lettered; `Stranded` names the
three, and a death of the worker frees the first two. `incidents` is
history: it names the situations (a worker looked for the row before the commit,
a run produced no chunks, the answer to a call that opened an upload or completed
an object was lost, a call of the clean-up failed) in which the code makes no promise.

### JobStream — `stream_job_progress`, `core/tracing/collector.py`

What a client sees. The upload publishes the job before it commits the row, so
`status` starts as `none` and `Commit` may come at any time, or never; until then
updates of the row find nothing and do nothing (`Row`, `SetVerdict`), and what is
lost in this way is an incident: `unflushed`, `unreported`, `no_status`.
Deliveries of the job's two messages are numbered `tasks`; each analysis records events in memory (`Invoke`) and then, in three transactions, replaces
the traces in the row (`Flush`, which swallows its errors), saves the report and sets the
status, or never comes back (`ToolHangs`). `stream[c]` is a client's generator: it reads the row (`Poll`), sends
the events beyond the number it has sent, and ends when the status it read is a
verdict. An event carries the task that recorded it, so that a client which was
shown traces of two runs can be told from one which was not. JobLifecycle has
the effects on the other stores; this module the row in detail.

### AnalysisGraph — `core/agent/graph.py`, `_invoke_with_retry`

`node` is the node that runs next, `idx` and `findings` the thread state, and
`Invoke`, `InvokeRaises`, `GiveUp` the retry loop around the graph. A chunk is
the number of its risky terms. What matters is LangGraph's rule for a new
attempt on the same thread: `current_chunk_idx` is overwritten by the input,
`findings` has the reducer `operator.add` and keeps what the failed attempt
found. A redelivery builds a new checkpointer (`DeliveredAgain`). `ToolHangs` is
a tool call that never returns.

### VectorStorer — `core/storer.py`

Worker processes with a cache and a lock each, tasks that interleave at every
Qdrant call, and one collection with a vector size. `EnsureLocked` after
`Ensure` is the double check; `Relock`, `Delete` and `Recreate` are
`recreate_collection`, which takes the lock but does not look at the size again.
Faults: calls that fail before or after taking effect, dying workers, an
operator dropping the collection. Each task is handled once at a time:
duplicated deliveries upsert the same ids and are left to JobLifecycle.

### SemanticChunker — `core/chunkers/semantic.py`

A sequential algorithm, one step per level of its hierarchy. `Init` takes a
document, already grouped into sections and clauses by the operators `Sections`
and `Clauses`; `CutGroup` makes a group a chunk or hands its paragraphs to
`work`; `CutParagraph` is `_split_by_sentence`, `CutSentence` and `CutCharacters`
are `_split_by_character`, one round of its loop per step. `Emit` keeps the chain
of chunk ids, `Assign` patches it. Splitting and merging are functions on
sequences of characters, of which only whitespace is told apart. A letter stands
for a character at its place, so no two blocks share one (`DocumentsAssumption`),
and the properties can see where each one went and in which order: letters are
numbered as they stand in the document. Every block has a letter: `pdf.py` drops
blocks that are blank. What the code accumulates in a loop is a
fold of a named step (`AddToSections`, `AddToClauses`, `AddText`, `AddPart`), so
that proofs can speak of one round of it.

Abstracted: which text begins like a clause (a block says so itself), clause
labels, content types. A paragraph break is a newline next to another; that the
code also takes a line of nothing but spaces for one is left out. Documents come as blocks, which is what the PDF parser
yields; the two other ways to extract segments are left out.

### QuestionAnswering — `api/v1/query.py`, `core/agent/qa.py`, `core/retrieval/pipeline.py`

One question, streamed or not, with or without a party, with the limit of a
summary or not. Its handler reads the row once (`Admit`), then the relational graph
(`LookUp`), the collection (`Search`) and the collection again (`Expand`), while workers store
chunks (`StoreChunk`), set the status and recreate the collection. A chunk is a
position in a document, linked to the one before and the one behind;
`snapshot` is history: the collection as the search saw it. `events` is
the server-sent stream. Every stage has the failure its `except` branch makes of
it: an empty result, the hits without neighbours, an apology, and for `LookUp`
an exception, because that branch calls a logger the module does not define.
`CarriedFields` and `EdgeFields` are the field names on both sides of the storage
message, from which `HasEdge` decides whether a chunk gets an edge.

Abstracted: scores and the order of the context, with the boost for matching
chunks that only reorders hits; prompts; the model.

### Startup — `server.py`, `worker/run.py`, `db.py`, the set-up half of `rabbitmq.py`

Servers and workers start side by side: `Connect` with its counted attempts,
`Inspect` and `Create` for the tables (workers only; both create if both saw
none, and the loser ends), then dead letter exchange and queue, the work queue, and what
`RabbitMQ` says to a declaration with other arguments: the channel is closed and the process
deletes the queue (`Delete`) and declares it again, whatever the queue has
become meanwhile. The set-up is done twice (`connect` and the runner's call), as `round` counts. One
queue stands for the three, which are set up alike. `Die` and `Outage` strike anywhere.

### ModelRegistry — `core/models/registry.py`

`configs`, `models`, `selected` are the registry's dictionaries, `file` is
`model_config.json`. `Connect` is `connect_provider` up to its `await`; a provider
that only litellm knows, or one without an address (`Bare`), is not asked, and its
request saves at once. `Fetched` is what follows the `await`, `Select` is
`select_model`. Each of the three ends in `Save`, which may raise after memory has
been changed and leave the file as it was or torn; if it does not, the client
gets its `Answer` in a step of its own, so that a kill may come between. `Load` and `Refresh` are the start of the API process,
`Die` kills it and may tear the file that is being written, `FetchHangs` is the
endless loop described in section 4. A list of models is the configuration
it was fetched with, so that a stale one shows.

History: `told` is what the last answer about each provider and each task said,
`InDoubt` where a request has set the key since and was killed or refused, or
had another one about the key beside it; `unsaved` says that the last write
failed, `contended` names the providers of whose list requests overlapped, and
`restored` those that a start gave litellm's list although they have an address.

### Composition

RetryQueue implements DeliveryContract; JobLifecycle and JobStream take the queue's side of
`on_message` (retry, dead letter, redelivery) from that contract. JobLifecycle
contains AnalysisGraph as the steps `Analyse` and `ToolHangs`, and VectorStorer as the
single step `StoreVectors`; JobStream opens its step `Persist`, QuestionAnswering
reads the stores it writes, and relies on the chain that SemanticChunker shows
to hold. Startup ends where the consumers of RetryQueue begin.

## 3. What the runs check

| Run | Shows | Bounds, and why they suffice |
|---|---|---|
| `queue` | `NoMessageLost`, `DeadLetteredAfterEveryRetry`, `OneAttemptOnFirstConnection`, the refinement `AtLeastOnce`, and `QueueDrains` | one message, 3 copies, 1 retry, 1 fault: enough copies for the retries of a message delivered twice. Messages meet only in the connection; the theorems cover any number, and more faults |
| `job` | `RejectedUploadLeavesNoFiles`, `AnalysedChunksReachStorage`, `StoredChunksAreIndexed`, `AcceptedJobIsTracked`, `AcceptedJobCompletes` | two files, so that uploads, clean-up and batches can fail halfway, one of them unreadable, so that a run may yield less or nothing; 4 messages at a time: the batches and the analysis of two runs; two faults: a crash and a failed, abandoned or repeated delivery of the same message, or a lost answer and a failing clean-up; calls that hang need none |
| `stream` | `PositionsShownOnce`, `CompletedStreamIsComplete`, `CompletedIsFinal`, `StreamsEnd` | one client (clients only read), 4 deliveries of the two messages, analyses of up to 2 events, so that a later list is shorter or longer than an earlier one; one fault. The row is committed at any point of this, or never; the retries that have failed before it are part of `Init` |
| `qa` | `AnswersStayInJob`, `ContextIsHitsAndNeighbours`, `AnswersAreGrounded`, `StreamIsWellFormed` | a document of the job and one of another, three chunks each: a middle, two ends; one hit or two; one failing call or recreated collection |
| `graph` | `ReportCoversEveryChunk`, `AttemptsAddUp`, `ScoreNeverFlatters`, `AnalysisEnds` | up to 3 chunks and batch sizes 1 to 4: no chunk, a full batch, a short last batch, a batch larger than the job; 3 attempts; chunks with 0, 1 and 13 risky terms, so that two of them reach the floor of the score |
| `storer` | `LockExcludes`, `StoredPointsStay`, `RacesCostNothing`, `BatchesEnd` | two tasks on two workers, embeddings of either size, a default collection or one nobody prepared, a fault: the tasks race, or recreate the collection for each other, from one process or from two |
| `chunker` | `CutOnlyToFit`, `TextIsKept`, `ChunkTellsItsPlace`, `ChunksAreChained`, `FallbackAdvances` | every document of up to 3 blocks on two pages, chunks of 6 characters with 1 of overlap, five texts: one that shares a chunk, a word of two chunks' length, words on lines, sentences, paragraphs. A group, a section or a page ends between any two of the blocks |
| `registry` | `FileIsCurrent`, `AnswersSurviveRestarts`, `ModelsFollowConfig`, `SelectedModelIsServed` | LM Studio, and azure with an address or without, where it is like a provider that only litellm lists (`Fixed` is empty for that reason); two configurations, two requests that overlap, two kills or failing writes: one tears the file, loses a request or leaves memory and file apart, the second meets what the first left |
| `startup` | `OnlyConflictsLoseMessages`, `UpMeansReady`, `StartsSettle` | a server and two workers, four starts, so that one of them starts twice, 2 attempts to connect, one message, an outage or a death; a queue that is absent, current or of an earlier version. Three processes can be refused together, each deleting what the one before has declared |

`job_queryable`, `storer_default` and `qa_parties` are the runs of section 4.

Type invariants: in every module but DeliveryContract `TypeOK` is a theorem, for
all values of the constants; `graph` and `chunker` check it too. Deadlock
is checked for the chunker, which must always go on to its end. The other
systems legitimately stop when their work is done, when a tool call hangs, or
when the event loop does. `Max...` constants bound what the code leaves
unbounded: faults injected, messages in the queues at a time (`MaxMessages` in
JobLifecycle), deliveries (`MaxTasks` in JobStream), starts, chunks, copies.
`Copies` is not a property of RabbitMQ: when all are in use a retry cannot be
published in the model, which the safety properties do not depend on and the run
avoids by having enough. Larger bounds no longer finish in a few minutes with the
liveness properties; the theorems stand in for them.

### Properties worth explaining

- `NoMessageLost` relates the history of a message to all its copies: with
  republish-then-acknowledge there is never a moment at which neither exists.
- `DeadLetteredAfterEveryRetry`: the count travels in headers, through
  connections that die; no failure may be counted twice.
- `AnalysedChunksReachStorage`: a saved report speaks of chunks of one pipeline
  run; those very chunks are stored or somebody still owes them, although
  another run with other chunk ids may have overtaken it.
- `StoredChunksAreIndexed`: Qdrant and PostgreSQL differ only while a retry is
  owed.
- `AcceptedJobCompletes`: after all retries and repeated deliveries have settled
  a job is `completed`, not `processing` or `failed` for good.
- `ScoreNeverFlatters`: retries make chunks count twice, so a score may be too
  low, never too high.
- `TextIsKept` compares the chunks with the document, whatever way the text took
  through the levels: its letters, all of them, in its order. Neighbours may share
  letters, but no more than the overlap, and only if both are cut from one sentence of
  one block that is too long for a chunk (`InLongSentence`): no other level repeats
  text. `CutOnlyToFit` says, after every step,
  that no chunk exceeds the size, that none mixes clauses and that a clause is cut
  only if it is too long.
- `CompletedStreamIsComplete`: traces, report and status are three transactions,
  the commit of the row a fourth, and the client one more party; what it was shown
  and what it can fetch are of one run. A report saved before the commit is lost,
  and the property says so (`unreported`).
- `PositionsShownOnce`: a client remembers only a number, while the list it
  counts in is replaced by another, maybe shorter one.
- `AnswersStayInJob`: the second read of the collection has no filter on the job;
  the property rests on the filter of the first and on the links.
- `ContextIsHitsAndNeighbours`: chunks may come and go between the two reads, but
  one that was there at the first is in the context.
- `OnlyConflictsLoseMessages` and `UpMeansReady`: several refused processes delete
  and declare in any order; what that costs is bounded, and without a queue of
  an earlier version it costs nothing.
- `FallbackAdvances`: the word boundary and the overlap both take the fallback
  back. It advances because a boundary counts only in the second half of a chunk
  and the overlap is at most half of that (`SizesAssumption`; the pipeline uses
  1000 and 200).
- `FileIsCurrent`: `connect_provider` saves after an `await` during which others
  save too, and a write may fail; still, once no list is awaited and the last write
  went through, nothing remains unsaved, and nothing is saved that memory does
  not hold.
- `AnswersSurviveRestarts` speaks of the restart itself: whatever other requests
  saved, failed to save or were killed at, it brings back of each provider and each
  selection what its last answer said, unless the key is in doubt (above). That a
  change may be in the file before its client is answered is one of those doubts.
- `SelectedModelIsServed` holds of selections made long before, in files written
  by earlier processes: the list a model was chosen from is of the address it is
  asked for at, or the exception is named.
- `RacesCostNothing`: a batch that loses the race for the collection goes on
  with the winner's, and is not even retried.

### Fairness

- Queue: the broker delivers what is ready (`WF Deliver`) and asyncio resumes a
  coroutine whose await is over (`WF Proceed`). A callback ends one way or the
  other. Nothing obliges producers or faults.
- Job: an HTTP request is served to its end (`WF ApiStep`); workers do something
  while there is something to do (`WF` of the union of their steps). The union is
  enough because without new faults the work is finite. That an analysis returns is
  not assumed: `ToolHangs` may take its place, and `AcceptedJobCompletes` says so.
- Graph: `WF Step`, the coroutine is resumed; a hanging tool call is excluded
  from it, and `AnalysisEnds` says so.
- Chunker: none is needed; its progress is the action property
  `FallbackAdvances` together with the absence of deadlock.
- Registry: none; no liveness is claimed, because a fetch may hang.
- Stream: `WF` for each delivery (asyncio and the broker, as above) and each
  generator, which wakes from its sleep. Neither the commit nor the return of a tool
  call is obliged to happen.
- Startup: `WF` for the steps of a start; nobody is obliged to start a process,
  and an outage may last.
- Question: none; no liveness is claimed, its calls are bounded by their clients.
- Storer: `WF` for starts and tasks, and `SF` for taking a lock: `asyncio.Lock`
  wakes its waiters in FIFO order, so a task cannot be passed over for ever.

## 4. Where code and documentation disagree

Each of these runs ends in a counterexample that the code really has:

- `job_queryable`: queries are admitted on `completed`, which the LangGraph
  worker sets without regard to the storage queue.
- `storer_default`: `initialize` calls the default vector size safe; two first
  batches of another size make the second recreate the collection the first has
  already stored to, and its points are gone.
- `qa_parties`: the README has the engine traverse the relational graph for
  questions that name a party; `_to_embedded_chunks` drops the fields the edges are
  made from, so there never is an edge to find.

What the models show beside these, without a run of its own: a job none of whose
files yields a chunk stays `processing`, and its streams stay open (the incident
`no_chunks` that `AcceptedJobCompletes` and `StreamsEnd` except); the README says
that failed runs resume from the last successful chunk, while a new attempt
begins at chunk 0 and adds its findings to the old ones (`AttemptsAddUp` states
what happens instead); no tool call has a timeout, although the README speaks of
timeout fallbacks: one that hangs (`mcp_client.py:20`) keeps its message and leaves
the job `processing` and its streams open until the worker dies, and so does a
retry whose publish raises (`rabbitmq.py:140`), which nobody acknowledges or rejects;
`AnalysisEnds`, `AcceptedJobCompletes` and `StreamsEnd` except both by name. The job is
published before its row is committed (`upload.py:94` and `98`), so a fast worker
may look for a row that is not there: then the job may end `completed` without a
report or traces, or never have a verdict. If only the answer of
`create_multipart_upload` is lost (`s3.py:67`, before the `try` at 77), the upload
stays open and nobody aborts it; so does an object of which only the answer of
`complete_multipart_upload` is lost. A conflict of queue arguments costs the messages
in the queue, those published while a second refused process has yet to delete
it, and those published before it is declared again, which the broker returns and
`publish` does not notice (`OnlyConflictsLoseMessages` bounds them); a stream that ended on `failed` may be
belied by a retry (`CompletedIsFinal` speaks of `completed` only); a failed
look-up of a party ends the question, unlike the other stages, because its
`except` branch raises. Observed on the way: three concurrent batches of a size
other than the default can use up each other's three retries; a commit that
fails after the publish leaves a queued message for a job that was rolled back;
only the last finding of a batch is sent to the tool.
In the chunker: `min_chunk_size` is used nowhere, although two docstrings say
what it does; the text of a heading is in no chunk's content; two docstrings
(`semantic.py:93` and `:423`) speak of an overlap at sentence boundaries, which the
code never makes, since only the character fallback steps back (`TextIsKept` says
where text is repeated); and a page change begins a new clause, so a clause over two
pages is cut although it would fit, against "never splits clauses unless
unavoidable" (`semantic.py:6-7`; `CutOnlyToFit` takes a clause as the code does,
`BeginsClause`).
In the registry: a write of the file that raises (`registry.py:75`, a full disk) leaves the
change in memory and in force although the client is told it failed, and the file old
or torn until the next write (`PUT /config` catches only `ValueError`, so there the
client gets a bare 500); the file is written before the answer, so a change nobody was told
of may survive a kill; after a restart a compatible provider with an address of its
own offers litellm's list (`registry.py:37-38`) until it is connected again, and a
model its address does not serve can be selected from it; an LM Studio that lists models but none for embeddings sends
`_fetch_lmstudio_models` into an endless loop (line 170), and, since the
configuration may already be saved by another request, at every start again;
two overlapping requests for one provider can leave the models of one
configuration with the address of the other; after a reconnect
`get_litellm_kwargs` pairs the address of the selection with the key of the new
configuration; workers never see what the API selects after their start.

## 5. What is proved

### The queue

`RetryQueue_proofs` holds for every
set of messages and copies, every `MaxRetries` and every `MaxFaults`, from three
assumptions only: `NoMsg` is not a message, and the two numbers are naturals.

| Theorem | States |
|---|---|
| `TypeCorrect` | `Spec => []TypeOK`; in particular no copy ever carries a count above the limit |
| `DeadLettersHadEveryRetry` | `Spec => []DeadLetteredAfterEveryRetry` |
| `NothingLost` | `Spec => []NoMessageLost` |
| `NoDuplicateAttempts` | `Spec => []OneAttemptOnFirstConnection` |
| `ImplementsContract` | `Spec => AtLeastOnce`: the queue implements DeliveryContract |

The argument. `TypeInv` adds to the types what a handler's stage says about its
copy: handlers exist only for copies in use, copies in use carry accepted
messages, a handler backing off has retries left. `StepShapes` then sorts the
steps into eight shapes with pointwise effects, so that later proofs split on
shapes and not on actions.
`Counting` is the inductive form of the dead letter property: the count of a copy
never exceeds its message's failures, and a handler backing off has one more.
`NoMessageLost` is not inductive: when a retried original is acknowledged, its
copy must be held, but that copy may have been handled, retried and acknowledged
meanwhile. `Custody` therefore says that a handler that has republished leaves
its message processed, or held in a copy with a *higher count*; counts grow along
the chain, so acknowledging one link never removes the last.
The refinement needs `Tracking` besides: a handler at work on the current
connection holds its copy unacknowledged, so what it settles was not settled
before. Acknowledging then forgets a message only when Custody says it is
processed, dead or held by a later copy.
`OneAttemptOnFirstConnection` speaks of two handlers at work; inductive is that
on the first connection at most one copy *carries* a message, that is waits,
is dead, or is being handled and has not handed it on, and that none carries a
processed one but the copy that processed it (`OneCarrier`).

### The registry

`ModelRegistry_proofs` holds for every set of providers, configurations, tasks and
requests, and any number of kills and failing writes. Its assumptions say that the kinds of
providers are disjoint, with LM Studio among the dynamic ones, and that the
values for "nothing" differ from real ones.

| Theorem | States |
|---|---|
| `TypeCorrect` | `Spec => []TypeOK`, with no request in flight in a process that is down or starting |
| `FileAlwaysCurrent` | `Spec => []FileIsCurrent` |
| `AnswersSurvive` | `Spec => []AnswersSurviveRestarts` |
| `ModelsAlwaysFollow` | `Spec => []ModelsFollowConfig` |
| `SelectionAlwaysServed` | `Spec => []SelectedModelIsServed` |

The argument. None of the four is inductive, because a restart makes memory of
what the file holds. `Saved` extends `FileIsCurrent` to the time before requests are
served. `Kept` has two parts: a key that is not in doubt has what was told in memory
and in the file (`Sure`), and so has the key of a request that was alone about it all
along (`Lone`): in memory from its first step, in the file once it has saved.
A request about another key may write the file in between, and writes this key
with it; a failing write leaves in doubt only the key of its own request, because
the file then has, of every other key, what it had before, or is torn.
`Followed` adds what an awaited list will be: the only request of a provider
carries the provider's present configuration (`Awaited`). `Served` says of the file what
`SelectedModelIsServed` says of memory. What the actions share is stated once:
`StartedBegan` and `Began` for a request that begins, `SaveFacts` for a write.

### The storer and the starts

The two components whose processes race to create what they share have their
proofs in one module, `Races_proofs`: it extends VectorStorer, and Startup is its
instance `Launch`, whose assumptions are hypotheses of the theorems about it.
They hold for any workers, tasks, servers, messages, sizes and bounds.

| Theorem | States |
|---|---|
| `TypeCorrect` | `Spec => []TypeOK` |
| `LockAlwaysExcludes` | `Spec => []LockExcludes` |
| `PointsStay` | `Spec => []StoredPointsStay` |
| `RacesAreFree` | `Spec => []RacesCostNothing` |
| `StartTypeCorrect` | `Launch!Spec => []Launch!TypeOK` |
| `OnlyConflictsLose` | `Launch!Spec => []Launch!OnlyConflictsLoseMessages` |
| `UpIsReady` | `Launch!Spec => []Launch!UpMeansReady` |
| `ContestedOnce` | `Launch!Spec => []Launch!TablesAreContestedOnce`: nobody loses the race for the tables twice; proved only, no run checks it |

`LockHeld` ties each lock to the position and the worker of its task, from both
sides, which `LockExcludes` needs at a step that delivers a task to another
worker. Where the sizes agree, `Undisturbed` says that nobody is on the
way to recreating the collection and that it has the size of the embeddings;
`Smooth` adds for runs without faults that what is cached or ensured exists.

`ConflictInv` says that before the old queue is deleted nobody publishes, and that
what is published beside a refused process or without a queue is exposed;
`NoConflict` that without an old queue nobody is ever refused and whoever is up has
its queue. `DlqInv` and `ReadyInv` say what whoever is past a
declaration may rely on, unless another process is about to declare again.

### The progress stream

`JobStream_proofs`, for any clients and bounds.

| Theorem | States |
|---|---|
| `TypeCorrect` | `Spec => []TypeOK` |
| `PositionsOnce` | `Spec => []PositionsShownOnce` |
| `CompletedFinal` | `Spec => []CompletedIsFinal` |
| `CompletedComplete` | `Spec => []CompletedStreamIsComplete` |

`PositionsInv` holds of the row what the property says of a stream, since each
poll copies a tail of the row. `FinalInv` says that without repeated deliveries
only the last task is at work, and none is once the job is completed: a retry
is a new task after the old one has ended. `CompleteInv` follows one flush to its
report and its status: after it the traces are those of the run that saved the
report or is about to, and a client has been sent all of them or none. It also
says what the order of the writes makes true where the row comes late: the commit
is final, so a report that found no row was preceded by traces that found none.

### The job

`JobLifecycle_proofs`, for any files and bounds.

| Theorem | States |
|---|---|
| `TypeCorrect` | `Spec => []TypeOK`, with every task of a run that has happened |
| `RejectedLeavesNothing` | `Spec => []RejectedUploadLeavesNoFiles` |
| `AcceptedTracked` | `Spec => []AcceptedJobIsTracked` |
| `AnalysedReachStorage` | `Spec => []AnalysedChunksReachStorage` |
| `StoredIndexed` | `Spec => []StoredChunksAreIndexed` |

Every step of a worker takes one copy of a task from the bag and puts others
there; `WorkerStep` says so once (`Moves`) and lists what those may be
(`Outcome`), so that the later proofs reason about sets of tasks and not about
bags. A failed message comes back as its retry, its dead letter or abandoned
(`ReturnedFacts`), and counts as held in each form. `UploadInv` says which files are in
the store, and whether an upload is open, at each stage of the handler, unless
something leaked or an answer was lost. `OwedInv`: until there is a report, somebody
not yet done owes it. `CarryInv` is the inductive form of `AnalysedChunksReachStorage`: what a
run has *sent* is stored or on its way, so that what its analysis is about is,
and therefore what its report is about. `IndexInv` adds what a storage task that
found its row, or saved it, knows.

### A question

`QuestionAnswering_proofs`, for any documents, limits, answers and bounds.

| Theorem | States |
|---|---|
| `TypeCorrect` | `Spec => []TypeOK` |
| `StaysInJob` | `Spec => []AnswersStayInJob` |
| `NothingMadeUp` | `Spec => []AnswersAreGrounded` |
| `StreamsWellFormed` | `Spec => []StreamIsWellFormed` |
| `PromptIsHitsAndNeighbours` | `Spec => []ContextIsHitsAndNeighbours` |

`GroundedInv` says why hits and context are empty when they are, and that the
model is reached with a context only; `StreamInv` what the stream looks like at
each stage. `PromptInv` says that the points are finitely many, that the context
is filled once and only with what is near a hit, and that without a failing
call the snapshot of the search is still there at the second read. The bound on the prompt is then
`NearThreeTimes`: a finite set of chunks has at most three times as many chunks
near it, because a step forward and a step back each reach one chunk per hit at
most.

### The analysis graph

`AnalysisGraph_proofs` holds for any number of chunks, any batch size, any
numbers of risky terms, any attempts and faults. It assumes only that these are
naturals and that a batch has at least one chunk.

| Theorem | States |
|---|---|
| `TypeCorrect` | `Spec => []TypeOK`; in particular the score, made from a sum over the findings, stays in `0..100` |
| `FindingsAddUp` | `Spec => []AttemptsAddUp` |
| `ReportsAreComplete` | `Spec => []ReportCoversEveryChunk` |
| `ScoresAreSafe` | `Spec => []ScoreNeverFlatters` |

`AttemptInv` ties the findings, which survive an attempt, to the index, which
does not: every attempt but the present one counted a chunk at most once, the
present one exactly the chunks before the index (`CountedOnce`), and *its* findings
are the last ones, in order (`InOrder`). At the end the last findings are therefore
all chunks, so that the report covers them, and the sum over all findings is at
least the sum over the chunks, equal on a first attempt (`ReportInv`).

### The chunker

`SemanticChunker_proofs` holds for every set of documents, of any number of
blocks and any length, and all sizes, from two assumptions: `SizesAssumption`
(twice the overlap is at most half a chunk) and `DocumentsAssumption` (section 2).

| Theorem | States |
|---|---|
| `TypeCorrect` | `Spec => []TypeOK` |
| `Chained` | `Spec => []ChunksAreChained` |
| `PlacesAreTold` | `Spec => []ChunkTellsItsPlace` |
| `TextKept` | `Spec => []TextIsKept` |
| `CutsOnlyToFit` | `Spec => []CutOnlyToFit` |
| `FallbackMoves` | `Spec => FallbackAdvances` |

`ChunkerInv` has three parts. What is still to cut is groups of *this* document
(`GroupsFor`) and pieces whose letters are those of the first group; what has
been cut is a chain at whose end the next chunk is linked; every chunk fits, and
the letters in it stand on its page and under its heading (`InPlace`). The lemmas say what
each operator does to letters, places and lengths: grouping keeps a segment in
its section (`AddToSections`, `AddToClauses`), splitting, stripping and joining bring in no
letter, merging exceeds the size only with a piece that did, and a piece of the
fallback ends more than twice the overlap behind its start (`PieceEnds`).

`TextInv` says what all chunks have together; TLC has checked it on the
documents of the run `chunker`, too. Neither property above is inductive,
because both speak of chunks only and a step is right or wrong by what it
leaves. `TextInv` has three parts:

- `QueueInv`: the groups are clauses of the document, read off it (`ClauseAt`), with
  letters in turn; so are the pieces of the first one, which is too long to be a
  chunk, and only the first piece may have been begun, by characters.
- `CutInTurn`: the chunks' letters and those still to cut (`LeftOf`) are the
  letters of the bodies, and the former stand before the latter. What the next
  chunk repeats (`AgainOf`) are letters of the last chunk and of no other: an
  overlap reaches back one chunk only, which is what twice the overlap in
  `PieceEnds` is for.
- `ClausesCut`: no chunk mixes clauses, and a clause that fits is in one chunk.

A step that makes a chunk preserves them if the chunk begins with what is to be
repeated and goes on with what comes first of the rest (`EmitText`); a step that
makes none, if it leaves the same letters (`SameText`). That this is so is the
work of the lemmas before, one for each operator: `SplitKeeps`, `StripKeeps`,
`MergeKeeps`, `JoinKeeps`, `SectionsKeep`, `ClausesKeep` and `GroupsKeep` say that it
keeps every letter and their order, `GroupKeeps` that a group's text has the
length of its clause, `RoundKeeps` what a round of the fallback writes, repeats
and leaves.

`CutInv` says where the pieces stand, which `TextInv` does not: a piece too long for
a chunk is an excerpt (`Excerpt`) of one paragraph of one block, below that level of one
sentence, and pieces are cut at characters only there; neighbours that share
letters stand in such a sentence. Merging makes no such piece of several
(`MergeLong`), and splitting, stripping and joining leave excerpts of what they
were given (`SplitExcerpt`, `StripExcerpt`, `JoinExcerpt`).

### Induction without an induction theorem

The library's induction theorems take an operator as a parameter and cannot be
cited. Where a proof needs induction, over a sum or a fold, it is a least
counterexample instead: the set of the numbers for which the claim fails is a subset of
`Nat`, which is well founded, so if it is not empty it has a least element
(`LeastNatural`), for which the claim is then shown. `FoldExists` gets this way that a
fold's recursive function exists, `FoldPrefix` and `FoldType` that every value of it
has the type that one round preserves (`MergeFold`, `JoinFold`, `ClausesFold`,
`SectionsFold`, `FlattenPrefix`: a type per round, such as what has the letters
of the first *i* texts); `MinimalSubset` does it for finite sets
by their cardinality, for the sums of AnalysisGraph.

### What stays with TLC

Model-checked only: all liveness, which is out of reach of the prover. Every
invariant and action property that a run expects to hold is a theorem.

## 6. What is not modelled

- Contents of documents, chunks, embeddings and reports; regular expressions
  (enrichment and document analyzers), PDF extraction, prompts: conversions
  without state or control, which a model could only repeat.
- `clause_graph`, the embedder's batches (gathered in order, so that nothing
  interleaves visibly), clause labels; documents without blocks.
- `get_litellm_kwargs`, which only reads the registry, and the registries that
  other processes load.
- Times: backoff delays, poll intervals. Steps happen in any order instead.
- LangGraph's recursion limit, and `ingest_node` with files in the state, a path
  the worker does not use. The MCP scores of findings: nothing reads them.
- `VectorStorer.store_document_chunks`, which no worker calls, and `close`;
  `upload_bytes`, which the API does not call.
- Scores of retrieved chunks and the order of the context.
- Settings, migrations, logging.
- Memory: an unlimited prefetch is modelled, its cost is not.

## 7. Plan

Done: all modules of section 2, their runs, and proofs of every safety
property the runs check. Next, in this order:

1. Abstract specifications: a job as its client sees it (queued, processing,
   verdict), implemented by JobLifecycle where no incident happened; a collection
   as a set of stored batches, implemented by VectorStorer where sizes agree.
2. The chunker on documents without blocks, and the clause graph's links beside
   the chain of chunks.
3. ModelRegistry with several processes that read one file.
