------------------------- MODULE QuestionAnswering -------------------------
(***************************************************************************)
(* One question about a job, asked through POST /query/{job_id} or its     *)
(* streaming twin (src/api/v1/query.py): admission, retrieval              *)
(* (src/core/retrieval/pipeline.py) and generation (src/core/agent/qa.py), *)
(* while workers go on storing chunks, setting the job's status and        *)
(* recreating the collection.  Requests only read, so one stands for all.  *)
(*                                                                         *)
(* A document is one file of one run of the ingestion pipeline; its chunks *)
(* have ids of their own, an index from 0, and are linked to the chunk     *)
(* before and behind them (SemanticChunker.ChunksAreChained).  The context *)
(* is a set: its order, by index, and the scores are not modelled, so the  *)
(* boost of 2.0 for the ids in matching, which only reorders hits, is not  *)
(* visible either.                                                         *)
(***************************************************************************)
EXTENDS Naturals, Sequences, FiniteSets

CONSTANTS
  Documents,    \* passes of files through the pipeline
  Asked,        \* those of the job the question is about
  Last,         \* index of a document's last chunk
  Attributed,   \* chunks in which the enrichment finds duties of the party
  TopK,         \* top_k of the request
  SummaryTopK,  \* what a question for a summary raises it to (10 in the code)
  MaxTokens,    \* bound: tokens of an answer
  MaxFaults     \* bound: failing calls

Chunk == Documents \X (0..Last)

ASSUME DocumentsAssumption == Asked \subseteq Documents /\ Attributed \subseteq Chunk
ASSUME NumbersAssumption ==
  /\ {Last, SummaryTopK, MaxTokens, MaxFaults} \subseteq Nat
  /\ TopK \in Nat \ {0}

VARIABLES
  row,       \* status of the job's row, or "none"
  vectors,   \* chunks in the searched collection
  edges,     \* chunks with an obligation or risk of the party in PostgreSQL
  ask,       \* the question
  stage,     \* where its handler is
  snapshot,  \* history: the collection as the handler last read it
  matching,  \* matching_chunk_ids
  hits,      \* what the search returned
  context,   \* chunks the answer may use
  events,    \* server-sent events so far
  answer,    \* kind of the answer given
  faults     \* failing calls so far

vars == <<row, vectors, edges, ask, stage, snapshot, matching, hits, context,
          events, answer, faults>>
world == <<row, vectors, edges>>

Statuses == {"none", "queued", "processing", "completed", "failed"}
Running == {"admission", "lookup", "search", "expand", "context", "answering"}
Over == {"refused", "closed", "gone"}

\* here: the collection searched, which is the request's or the default and
\* never the job's own, is the one the job's chunks are in.
Question == [mode : {"answer", "stream"}, party : BOOLEAN,
             limit : {TopK, IF TopK > SummaryTopK THEN TopK ELSE SummaryTopK},
             here : BOOLEAN]

TypeOK ==
  /\ row \in Statuses
  /\ vectors \subseteq Chunk /\ edges \subseteq Chunk /\ snapshot \subseteq Chunk
  /\ ask \in Question
  /\ stage \in Running \cup Over \cup {"idle"}
  /\ matching \subseteq Chunk /\ hits \subseteq Chunk /\ context \subseteq Chunk
  /\ events \in Seq({"context", "token", "done", "error"})
  /\ answer \in {"none", "nothing", "model", "apology"}
  /\ faults \in 0..MaxFaults

Init ==
  /\ row \in Statuses
  /\ vectors = {} /\ edges = {} /\ snapshot = {}
  /\ ask \in Question
  /\ stage = "idle"
  /\ matching = {} /\ hits = {} /\ context = {}
  /\ events = <<>>
  /\ answer = "none"
  /\ faults = 0

Fault == faults < MaxFaults /\ faults' = faults + 1

-----------------------------------------------------------------------------
(* The workers.  What they do is followed as long as the question may read *)
(* it: the status until admission, the collection until the end.           *)

\* The fields of the derived metadata that _to_embedded_chunks copies; the
\* storage message has those of a party from here or not at all.
CarriedFields ==
  {"summary", "keywords", "obligations", "risks", "entities", "topics",
   "deadlines", "rights", "exclusions", "definitions", "parties",
   "jurisdictions", "document_type"}

\* The fields _save_relational_graph makes edges from.
EdgeFields == {"obligations_by_party", "risks_by_party"}

HasEdge(c) == c \in Attributed /\ EdgeFields \cap CarriedFields # {}

\* A storage message is handled: points, then edges.
StoreChunk(c) ==
  /\ stage \notin Over
  /\ vectors' = vectors \cup {c}
  /\ edges' = IF HasEdge(c) THEN edges \cup {c} ELSE edges
  /\ UNCHANGED <<row, ask, stage, snapshot, matching, hits, context, events,
                 answer, faults>>

\* A worker sets the status; a finished job is ingested or analysed again
\* when its message is delivered again.
SetStatus(status) ==
  /\ stage \in {"idle", "admission"}
  /\ row # "none"
  /\ row' = status
  /\ UNCHANGED <<vectors, edges, ask, stage, snapshot, matching, hits, context,
                 events, answer, faults>>

\* The storer deletes the collection to change its vector size.
Recreate ==
  /\ Fault
  /\ stage \notin Over
  /\ vectors' = {}
  /\ UNCHANGED <<row, edges, ask, stage, snapshot, matching, hits, context,
                 events, answer>>

-----------------------------------------------------------------------------
(* Admission                                                               *)

Ask ==
  /\ stage = "idle"
  /\ stage' = "admission"
  /\ UNCHANGED <<world, ask, snapshot, matching, hits, context, events, answer,
                 faults>>

\* _assert_job_exists: 404, 400, or on with the question.  The status is not
\* looked at again.
Admit ==
  /\ stage = "admission"
  /\ stage' = IF row # "completed" THEN "refused"
              ELSE IF ask.party THEN "lookup" ELSE "search"
  /\ UNCHANGED <<world, ask, snapshot, matching, hits, context, events, answer,
                 faults>>

-----------------------------------------------------------------------------
(* Retrieval                                                               *)

Event(e) == events' = IF ask.mode = "stream" THEN Append(events, e) ELSE events

\* The chunk ids of the party's obligations and risks, of whatever job.
LookUp ==
  /\ stage = "lookup"
  /\ matching' = edges
  /\ snapshot' = vectors
  /\ stage' = "search"
  /\ UNCHANGED <<world, ask, hits, context, events, answer, faults>>

\* The except branch around it calls a logger the module does not have: the
\* NameError leaves execute, and the endpoint answers 500 or an error event.
LookUpFails ==
  /\ Fault
  /\ stage = "lookup"
  /\ Event("error")
  /\ stage' = "closed"
  /\ UNCHANGED <<world, ask, snapshot, matching, hits, context, answer>>

\* The points the search may return.
Candidates == {c \in vectors : ask.here /\ c[1] \in Asked}

\* Mutant: the search forgets its filter.
SearchEverywhere ==
  /\ stage = "search"
  /\ \E found \in SUBSET vectors :
       /\ Cardinality(found) <= ask.limit
       /\ hits' = found
  /\ snapshot' = vectors
  /\ stage' = "expand"
  /\ UNCHANGED <<world, ask, matching, context, events, answer, faults>>

\* embed_query and query_points with the filter on job_id: the best candidates.
Search ==
  /\ stage = "search"
  /\ \E found \in SUBSET Candidates :
       /\ Cardinality(found) <= ask.limit
       /\ Cardinality(found) < ask.limit => found = Candidates
       /\ hits' = found
  /\ snapshot' = vectors
  /\ stage' = "expand"
  /\ UNCHANGED <<world, ask, matching, context, events, answer, faults>>

\* Embedding or search raise: an empty result, as if nothing had been found.
SearchFails ==
  /\ Fault
  /\ stage = "search"
  /\ stage' = "context"
  /\ UNCHANGED <<world, ask, snapshot, matching, hits, context, events, answer>>

\* Mutant: only the chunk behind a hit is fetched.
NeighboursNext(c) == {n \in Chunk : n[1] = c[1] /\ n[2] = c[2] + 1}

\* previous_chunk and next_chunk
Neighbours(c) ==
  {n \in Chunk : n[1] = c[1] /\ (n[2] + 1 = c[2] \/ n[2] = c[2] + 1)}

\* _expand_and_deduplicate: a second call fetches the neighbours by id, from
\* the collection as it is by then and with no filter on the job.
Expand ==
  /\ stage = "expand"
  /\ context' = hits \cup ((UNION {Neighbours(c) : c \in hits}) \cap vectors)
  /\ stage' = "context"
  /\ UNCHANGED <<world, ask, snapshot, matching, hits, events, answer, faults>>

\* The second call raises: the hits alone.
ExpandFails ==
  /\ Fault
  /\ stage = "expand"
  /\ context' = hits
  /\ stage' = "context"
  /\ UNCHANGED <<world, ask, snapshot, matching, hits, events, answer>>

-----------------------------------------------------------------------------
(* Generation                                                              *)

\* Mutant: the stream goes on to the model without a context.
UseContextAlways ==
  /\ stage = "context"
  /\ IF context = {} /\ ask.mode = "answer"
     THEN answer' = "nothing" /\ stage' = "closed" /\ UNCHANGED events
     ELSE stage' = "answering" /\ Event("context") /\ UNCHANGED answer
  /\ UNCHANGED <<world, ask, snapshot, matching, hits, context, faults>>

\* Mutant: the return behind the fixed answer is missing in the stream.
UseContextNoReturn ==
  /\ stage = "context"
  /\ IF context = {}
     THEN /\ answer' = "nothing"
          /\ stage' = IF ask.mode = "answer" THEN "closed" ELSE "answering"
          /\ events' = IF ask.mode = "answer" THEN events
                       ELSE events \o <<"context", "done">>
     ELSE stage' = "answering" /\ Event("context") /\ UNCHANGED answer
  /\ UNCHANGED <<world, ask, snapshot, matching, hits, context, faults>>

\* The context event; without any chunk the fixed answer, else the model.
UseContext ==
  /\ stage = "context"
  /\ IF context = {}
     THEN /\ answer' = "nothing"
          /\ stage' = "closed"
          /\ events' = IF ask.mode = "answer" THEN events
                       ELSE events \o <<"context", "done">>
     ELSE stage' = "answering" /\ Event("context") /\ UNCHANGED answer
  /\ UNCHANGED <<world, ask, snapshot, matching, hits, context, faults>>

\* A token of the streamed answer.
Token ==
  /\ stage = "answering"
  /\ ask.mode = "stream"
  /\ Len(events) <= MaxTokens
  /\ Event("token")
  /\ UNCHANGED <<world, ask, stage, snapshot, matching, hits, context, answer,
                 faults>>

\* The model's answer is complete.
Finish ==
  /\ stage = "answering"
  /\ answer' = "model"
  /\ Event("done")
  /\ stage' = "closed"
  /\ UNCHANGED <<world, ask, snapshot, matching, hits, context, faults>>

\* The model raises, maybe after some tokens: its error is the answer.
ModelFails ==
  /\ Fault
  /\ stage = "answering"
  /\ answer' = "apology"
  /\ Event("done")
  /\ stage' = "closed"
  /\ UNCHANGED <<world, ask, snapshot, matching, hits, context>>

\* The client of a stream goes away: its generator is cancelled.
Disconnect ==
  /\ ask.mode = "stream"
  /\ stage \in Running \ {"admission"}
  /\ stage' = "gone"
  /\ UNCHANGED <<world, ask, snapshot, matching, hits, context, events, answer,
                 faults>>

-----------------------------------------------------------------------------
Handle == Admit \/ LookUp \/ Search \/ Expand \/ UseContext \/ Token \/ Finish

Failure == LookUpFails \/ SearchFails \/ ExpandFails \/ ModelFails \/ Recreate

Next ==
  \/ Ask \/ Handle \/ Failure \/ Disconnect
  \/ \E c \in Chunk : StoreChunk(c)
  \/ \E s \in Statuses \ {"none"} : SetStatus(s)

Spec == Init /\ [][Next]_vars

-----------------------------------------------------------------------------
(* Safety                                                                  *)

\* What a question about one job is answered from, and what its context event
\* shows, are chunks of that job only: the neighbours are fetched by id alone,
\* so this rests on the filter of the search and on the links between chunks.
AnswersStayInJob == \A c \in hits \cup context : c[1] \in Asked

\* h and c are the same chunk or neighbours.
Near(c, h) == c[1] = h[1] /\ c[2] <= h[2] + 1 /\ h[2] <= c[2] + 1

\* A chunk gets into the prompt as a hit or as the neighbour of one, so a
\* prompt has at most three times limit chunks; and as long as no call failed,
\* no neighbour that was stored when the search ran is missing, although the
\* collection has changed since.
ContextIsHitsAndNeighbours ==
  /\ \A c \in context : \E h \in hits : Near(c, h)
  /\ Cardinality(context) <= 3 * ask.limit
  /\ stage \in {"context", "answering", "closed"} /\ faults = 0 =>
       \A h \in hits : {c \in snapshot : Near(c, h)} \subseteq context

\* The model is never asked, and no token streamed, without a context to
\* ground the answer; and a question is answered with "No relevant context
\* found" while no call failed only if the collection searched held none of
\* the job's chunks.
AnswersAreGrounded ==
  /\ answer \in {"model", "apology"} \/ "token" \in {events[i] : i \in DOMAIN events}
       => context # {}
  /\ answer = "nothing" /\ faults = 0 /\ ask.here =>
       \A c \in snapshot : c[1] \notin Asked

Terminal(e) == e \in {"done", "error"}

\* A stream is one context event, then tokens, then one done event and nothing
\* more; an error event comes alone.  It ends with the request, unless the
\* client has left it.
StreamIsWellFormed ==
  /\ \A i \in DOMAIN events :
       /\ (events[i] = "context") <=> (i = 1 /\ events[1] # "error")
       /\ Terminal(events[i]) => i = Len(events) /\ stage = "closed"
  /\ ask.mode = "stream" /\ stage = "closed" =>
       events # <<>> /\ Terminal(events[Len(events)])
  /\ ask.mode = "answer" => events = <<>>

(* Claims of the README that do not hold                                   *)

\* README.MD says of a question that names a party that "the engine traverses
\* the PostgreSQL relational graph to retrieve corresponding Risk edges and
\* their corresponding Qdrant IDs": a chunk that was stored, and in which the
\* enrichment found duties of the party, is among the ids.
PartyQuestionsFindEdges ==
  stage = "search" /\ ask.party => snapshot \cap Attributed \subseteq matching

=============================================================================
