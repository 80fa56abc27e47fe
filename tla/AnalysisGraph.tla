--------------------------- MODULE AnalysisGraph ---------------------------
(***************************************************************************)
(* The risk analysis of one job: the graph of src/core/agent/graph.py and  *)
(* the loop of LangGraphWorker._invoke_with_retry around it.               *)
(*                                                                         *)
(* A chunk is represented by the number of its risky terms.  The graph's   *)
(* checkpointer keeps the state of the job's thread between the attempts   *)
(* of one delivery: a new attempt applies its input to that state, where   *)
(* current_chunk_idx is overwritten but findings has the reducer           *)
(* operator.add.  It lives in memory and is built anew for every delivery. *)
(***************************************************************************)
EXTENDS Naturals, Sequences, FiniteSets, Functions

CONSTANTS
  MaxChunks,    \* bound: chunks of the job
  Terms,        \* numbers of risky terms a chunk may have
  MaxBatch,     \* bound: settings.graph_batch_size
  MaxAttempts,  \* settings.langgraph_max_retries
  MaxFaults     \* bound: failing nodes, hanging tools, repeated deliveries

ASSUME TermsAssumption == Terms \subseteq Nat
ASSUME NumbersAssumption ==
  /\ {MaxChunks, MaxAttempts, MaxFaults} \subseteq Nat
  /\ MaxBatch \in Nat \ {0}

VARIABLES
  chunks,    \* the chunks of the message
  batch,     \* the batch size in force: 1 when batching is off
  node,      \* the node that runs next
  idx,       \* current_chunk_idx
  findings,  \* the chunk_idx of each finding, in order
  attempt,   \* calls of ainvoke made for this delivery
  report,    \* the reconciled report
  faults     \* faults injected so far

vars == <<chunks, batch, node, idx, findings, attempt, report, faults>>

Nodes == {"invoke", "ingest", "risk", "mcp", "waiting", "reconcile", "end", "raised"}

\* chunk_idx runs from 0.
Indices == 0 .. Len(chunks) - 1

NoReport == [covered |-> {}, score |-> 0]

TypeOK ==
  /\ chunks \in Seq(Terms) /\ Len(chunks) <= MaxChunks
  /\ batch \in 1..MaxBatch
  /\ node \in Nodes
  /\ idx \in 0..Len(chunks)
  /\ findings \in Seq(Indices)
  /\ attempt \in 0..MaxAttempts
  /\ report \in [covered : SUBSET Indices, score : 0..100]
  /\ faults \in 0..MaxFaults

Init ==
  /\ \E n \in 0..MaxChunks : chunks \in [1..n -> Terms]
  /\ batch \in 1..MaxBatch
  /\ node = "invoke"
  /\ idx = 0
  /\ findings = <<>>
  /\ attempt = 0
  /\ report = NoReport
  /\ faults = 0

Fault == faults < MaxFaults /\ faults' = faults + 1

\* min(batch_size, len(chunks) - idx)
BatchLength ==
  IF batch <= Len(chunks) - idx THEN batch ELSE Len(chunks) - idx

RiskyTerms(c) == chunks[c + 1]

-----------------------------------------------------------------------------
(* The nodes                                                               *)

\* app.ainvoke(initial_state): the input sets current_chunk_idx to 0 and adds
\* no findings to those of the thread; the run begins at the entry point.
Invoke ==
  /\ node = "invoke"
  /\ attempt < MaxAttempts
  /\ attempt' = attempt + 1
  /\ node' = "ingest"
  /\ idx' = 0
  /\ UNCHANGED <<chunks, batch, findings, report, faults>>

\* The loop is over without a result: RuntimeError.
GiveUp ==
  /\ node = "invoke"
  /\ attempt = MaxAttempts
  /\ node' = "raised"
  /\ UNCHANGED <<chunks, batch, idx, findings, attempt, report, faults>>

\* ingest_node: there are no files, so the chunks of the message are used (or,
\* if it has none, nothing is ingested); the index is reset.
Ingest ==
  /\ node = "ingest"
  /\ idx' = 0
  /\ node' = "risk"
  /\ UNCHANGED <<chunks, batch, findings, attempt, report, faults>>

\* Mutant: chunk_idx counts within the batch.
RiskAnalysisRelative ==
  /\ node = "risk"
  /\ findings' = findings \o [i \in 1..BatchLength |-> i - 1]
  /\ node' = "mcp"
  /\ UNCHANGED <<chunks, batch, idx, attempt, report, faults>>

\* risk_analysis_node: one finding for each chunk of the batch.
RiskAnalysis ==
  /\ node = "risk"
  /\ findings' = findings \o [i \in 1..BatchLength |-> idx + i - 1]
  /\ node' = "mcp"
  /\ UNCHANGED <<chunks, batch, idx, attempt, report, faults>>

\* Mutants of the step below: the index moves by the configured batch size
\* where the last batch may be shorter; the route leaves out the last chunk;
\* the route's comparison admits the index behind the last chunk.
McpToolFullBatch ==
  /\ node = "mcp"
  /\ idx' = idx + batch
  /\ node' = IF idx' < Len(chunks) THEN "risk" ELSE "reconcile"
  /\ UNCHANGED <<chunks, batch, findings, attempt, report, faults>>

McpToolStopsEarly ==
  /\ node = "mcp"
  /\ idx' = idx + BatchLength
  /\ node' = IF idx' + 1 < Len(chunks) THEN "risk" ELSE "reconcile"
  /\ UNCHANGED <<chunks, batch, findings, attempt, report, faults>>

McpToolGoesOn ==
  /\ node = "mcp"
  /\ idx' = idx + BatchLength
  /\ node' = IF idx' <= Len(chunks) THEN "risk" ELSE "reconcile"
  /\ UNCHANGED <<chunks, batch, findings, attempt, report, faults>>

\* mcp_tool_node, whose tool calls are answered or fail (call_compliance_tool
\* turns an error into a default score), and route_next_chunk after it.
McpTool ==
  /\ node = "mcp"
  /\ idx' = idx + BatchLength
  /\ node' = IF idx' < Len(chunks) THEN "risk" ELSE "reconcile"
  /\ UNCHANGED <<chunks, batch, findings, attempt, report, faults>>

\* A tool call for a term of the last finding is never answered: neither
\* stdio_client nor ClientSession is given a timeout.
ToolHangs ==
  /\ Fault
  /\ node = "mcp"
  /\ findings # <<>> /\ RiskyTerms(findings[Len(findings)]) > 0
  /\ node' = "waiting"
  /\ UNCHANGED <<chunks, batch, idx, findings, attempt, report>>

\* Five points off for every risky term of every finding, but never below 0.
Score(terms) == IF terms * 5 <= 100 THEN 100 - terms * 5 ELSE 0

\* Mutant: the score counts risky chunks instead of risky terms.
ReconcileRiskyChunks ==
  /\ node = "reconcile"
  /\ report' =
       [covered |-> Range(findings),
        score   |-> Score(Cardinality({c \in Range(findings) : RiskyTerms(c) > 0}))]
  /\ node' = "end"
  /\ UNCHANGED <<chunks, batch, idx, findings, attempt, faults>>

\* reconcile_node
Reconcile ==
  /\ node = "reconcile"
  /\ report' =
       [covered |-> Range(findings),
        score   |-> Score(SumFunction([k \in DOMAIN findings |->
                                         RiskyTerms(findings[k])]))]
  /\ node' = "end"
  /\ UNCHANGED <<chunks, batch, idx, findings, attempt, faults>>

-----------------------------------------------------------------------------
(* Failures                                                                *)

\* A node or the checkpointer raises out of ainvoke, after the backoff the loop
\* goes on with the next attempt.  The thread keeps what the completed nodes
\* wrote.
InvokeRaises ==
  /\ Fault
  /\ node \in {"ingest", "risk", "mcp", "reconcile"}
  /\ node' = "invoke"
  /\ UNCHANGED <<chunks, batch, idx, findings, attempt, report>>

\* The queue delivers the message again, after the last attempt raised or
\* because the worker died: create_graph makes a new checkpointer.
DeliveredAgain ==
  /\ Fault
  /\ node # "end"
  /\ node' = "invoke"
  /\ idx' = 0
  /\ findings' = <<>>
  /\ attempt' = 0
  /\ UNCHANGED <<chunks, batch, report>>

-----------------------------------------------------------------------------
Step == \/ Invoke \/ GiveUp \/ Ingest \/ RiskAnalysis \/ McpTool \/ Reconcile

Next == \/ Step \/ ToolHangs \/ InvokeRaises \/ DeliveredAgain

Spec == Init /\ [][Next]_vars

\* The worker's coroutine is resumed whenever its await is over.
FairSpec == Spec /\ WF_vars(Step)

-----------------------------------------------------------------------------
(* Safety                                                                  *)

\* A report speaks about every chunk of the job, whatever the batch size, the
\* length of the last batch and the attempts that failed on the way.
ReportCoversEveryChunk == node = "end" => report.covered = Indices

Occurrences(c) == Cardinality({k \in DOMAIN findings : findings[k] = c})

\* The attempt going on has analysed exactly the chunks before the index, in
\* order and once each (and, before the tool node, those of its batch); the
\* findings before are those of earlier attempts, so no chunk is counted more
\* often than there were attempts.
AttemptsAddUp ==
  /\ \A c \in Indices : Occurrences(c) <= attempt
  /\ node \in {"risk", "mcp", "reconcile", "end"} =>
       LET done == IF node = "mcp" THEN idx + BatchLength ELSE idx IN
       /\ Len(findings) >= done
       /\ \A k \in 1..done : findings[Len(findings) - done + k] = k - 1

\* The score of a document none of whose attempts failed.
TrueScore == Score(SumFunction(chunks))

\* Failed attempts never make a document look safer than it is, and a report
\* of a first attempt has the document's score.
ScoreNeverFlatters ==
  node = "end" =>
    /\ report.score <= TrueScore
    /\ attempt = 1 => report.score = TrueScore

(* Liveness                                                                *)

\* The graph does not loop: every job gets its report or fails for good, unless
\* a tool call hangs.
AnalysisEnds == <>[](node \in {"end", "raised", "waiting"})

=============================================================================
