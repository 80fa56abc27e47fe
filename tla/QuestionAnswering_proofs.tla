----------------------- MODULE QuestionAnswering_proofs -----------------------
(***************************************************************************)
(* Proofs about QuestionAnswering, for any documents, chunks, limits and   *)
(* bounds: its types, that a question is answered from its own job, that   *)
(* no answer is made up, and that a stream has the form its clients rely   *)
(* on.                                                                     *)
(***************************************************************************)
EXTENDS QuestionAnswering, FiniteSetTheorems, TLAPS

-----------------------------------------------------------------------------
(* Types                                                                   *)

\* One event more keeps the type of the events.
LEMMA EventType ==
  ASSUME TypeOK, NEW e \in {"context", "token", "done", "error"}, Event(e)
  PROVE  events' \in Seq({"context", "token", "done", "error"})
BY DEF TypeOK, Event

\* Every step keeps the types.
LEMMA TypeStep ==
  ASSUME TypeOK, [Next]_vars
  PROVE  TypeOK'
<1> USE DocumentsAssumption, NumbersAssumption
<1>1. CASE Ask
  BY <1>1 DEF Ask, TypeOK, world, Fault, Over, Running, Statuses, Candidates, HasEdge
<1>2. CASE Admit
  BY <1>2 DEF Admit, TypeOK, world, Fault, Over, Running, Statuses, Candidates, HasEdge
<1>3. CASE LookUp
  BY <1>3 DEF LookUp, TypeOK, world, Fault, Over, Running, Statuses, Candidates, HasEdge
<1>4. CASE LookUpFails
  <2>1. events' \in Seq({"context", "token", "done", "error"})
    BY <1>4, EventType DEF LookUpFails
  <2>2. QED
    BY <1>4, <2>1 DEF LookUpFails, TypeOK, world, Fault, Over, Running
<1>5. CASE Search
  BY <1>5 DEF Search, TypeOK, world, Fault, Over, Running, Statuses, Candidates, HasEdge
<1>6. CASE SearchFails
  BY <1>6 DEF SearchFails, TypeOK, world, Fault, Over, Running, Statuses, Candidates, HasEdge
<1>7. CASE Expand
  <2>1. context' \subseteq hits \cup vectors
    <3> DEFINE near == UNION {Neighbours(c) : c \in hits}
    <3>1. context' = hits \cup (near \cap vectors)
      BY <1>7 DEF Expand
    <3> HIDE DEF near
    <3>2. QED
      BY <3>1
  <2>2. QED
    BY <1>7, <2>1 DEF Expand, TypeOK, world, Over, Running
<1>8. CASE ExpandFails
  BY <1>8 DEF ExpandFails, TypeOK, world, Fault, Over, Running, Statuses, Candidates, HasEdge
<1>9. CASE UseContext
  <2>1. events \o <<"context", "done">> \in Seq({"context", "token", "done", "error"})
    BY DEF TypeOK
  <2>2. events' \in Seq({"context", "token", "done", "error"})
    <3>1. CASE context = {}
      BY <1>9, <2>1, <3>1 DEF UseContext, TypeOK
    <3>2. CASE context # {}
      BY <1>9, <3>2, EventType DEF UseContext
    <3>3. QED
      BY <3>1, <3>2
  <2>3. QED
    BY <1>9, <2>2 DEF UseContext, TypeOK, world, Over, Running
<1>10. CASE Token
  <2>1. events' \in Seq({"context", "token", "done", "error"})
    BY <1>10, EventType DEF Token
  <2>2. QED
    BY <1>10, <2>1 DEF Token, TypeOK, world, Fault, Over, Running
<1>11. CASE Finish
  <2>1. events' \in Seq({"context", "token", "done", "error"})
    BY <1>11, EventType DEF Finish
  <2>2. QED
    BY <1>11, <2>1 DEF Finish, TypeOK, world, Fault, Over, Running
<1>12. CASE ModelFails
  <2>1. events' \in Seq({"context", "token", "done", "error"})
    BY <1>12, EventType DEF ModelFails
  <2>2. QED
    BY <1>12, <2>1 DEF ModelFails, TypeOK, world, Fault, Over, Running
<1>13. CASE Recreate
  BY <1>13 DEF Recreate, TypeOK, world, Fault, Over, Running, Statuses, Candidates, HasEdge
<1>14. CASE Disconnect
  BY <1>14 DEF Disconnect, TypeOK, world, Fault, Over, Running, Statuses, Candidates, HasEdge
<1>15. ASSUME NEW c \in Chunk, StoreChunk(c) PROVE TypeOK'
  BY <1>15 DEF StoreChunk, TypeOK, world, Fault, Over, Running, Statuses, Candidates, HasEdge
<1>16. ASSUME NEW s \in Statuses \ {"none"}, SetStatus(s) PROVE TypeOK'
  BY <1>16 DEF SetStatus, TypeOK, world, Fault, Over, Running, Statuses, Candidates, HasEdge
<1>17. CASE UNCHANGED vars
  BY <1>17 DEF vars, TypeOK, world, Fault, Over, Running, Statuses, Candidates, HasEdge
<1>18. QED
  BY <1>1, <1>2, <1>3, <1>4, <1>5, <1>6, <1>7, <1>8, <1>9, <1>10, <1>11, <1>12, <1>13, <1>14, <1>15, <1>16, <1>17 DEF Next, Handle, Failure

\* The types hold throughout.
THEOREM TypeCorrect == Spec => []TypeOK
<1>1. Init => TypeOK
  BY DocumentsAssumption, NumbersAssumption DEF Init, TypeOK
<1>2. QED
  BY <1>1, TypeStep, PTL DEF Spec

-----------------------------------------------------------------------------
(* Answers stay in the job                                                 *)

\* Only Search and Expand find chunks: the first filters, the second goes to
\* neighbours, which are of the same document.
LEMMA JobStep ==
  ASSUME AnswersStayInJob, [Next]_vars
  PROVE  AnswersStayInJob'
<1>1. CASE Search
  BY <1>1 DEF Search, AnswersStayInJob, Candidates
<1>2. CASE Expand
  <2>1. ASSUME NEW h \in hits, NEW n \in Neighbours(h) PROVE n[1] \in Asked
    BY <2>1 DEF Neighbours, AnswersStayInJob
  <2>2. ASSUME NEW c \in context' PROVE c \in hits \/ \E h \in hits : c \in Neighbours(h)
    BY <1>2, <2>2 DEF Expand
  <2>3. hits' = hits
    BY <1>2 DEF Expand
  <2>4. QED
    BY <2>1, <2>2, <2>3 DEF AnswersStayInJob
<1>3. CASE ExpandFails
  BY <1>3 DEF ExpandFails, AnswersStayInJob
<1>4. CASE UNCHANGED <<hits, context>>
  BY <1>4 DEF AnswersStayInJob
<1>5. QED
  BY <1>1, <1>2, <1>3, <1>4
  DEF Next, Handle, Failure, Ask, Admit, LookUp, LookUpFails, SearchFails,
      UseContext, Token, Finish, ModelFails, Recreate, Disconnect, StoreChunk,
      SetStatus, vars

\* Whatever the workers store meanwhile, a question about one job is answered
\* from its chunks alone.
THEOREM StaysInJob == Spec => []AnswersStayInJob
<1>1. Init => AnswersStayInJob
  BY DEF Init, AnswersStayInJob
<1>2. QED
  BY <1>1, JobStep, PTL DEF Spec

-----------------------------------------------------------------------------
(* Answers are grounded                                                    *)

Early == {"idle", "admission", "lookup", "search", "expand", "context"}

Tokens == {i \in DOMAIN events : events[i] = "token"}

NoneThere == \A c \in snapshot : c[1] \notin Asked

\* What makes AnswersAreGrounded inductive: nothing is answered before the
\* context is there, the model is reached with a context only, and hits and
\* context are empty for a reason.
GroundedInv ==
  /\ stage \in Early => answer = "none" /\ Tokens = {}
  /\ stage = "answering" \/ answer \in {"model", "apology"} \/ Tokens # {} => context # {}
  /\ stage = "expand" /\ ask.here /\ hits = {} => NoneThere
  /\ ((stage = "context" /\ context = {}) \/ answer = "nothing") /\ faults = 0 /\ ask.here
       => NoneThere

\* Appending an event that is no token adds no token.
LEMMA TokensKept ==
  ASSUME TypeOK, NEW e \in {"context", "done", "error"}, Event(e)
  PROVE  Tokens' = Tokens
BY DEF TypeOK, Event, Tokens

\* The fixed answer of a stream has no token.
LEMMA NoTokenInFixedAnswer ==
  ASSUME TypeOK, events' = events \o <<"context", "done">>
  PROVE  Tokens' = Tokens
BY DEF TypeOK, Tokens

\* Only failures change the count of faults, and they leave it above 0.
LEMMA FaultCounts ==
  ASSUME TypeOK, Fault
  PROVE  faults' # 0
BY NumbersAssumption DEF TypeOK, Fault

\* A search that comes back with nothing although no bound was reached had no
\* candidate.
LEMMA NothingFound ==
  ASSUME TypeOK, Search, hits' = {}, ask.here
  PROVE  NoneThere'
<1>1. ask.limit \in Nat /\ ask.limit > 0
  BY NumbersAssumption DEF TypeOK, Question
<1>2. Cardinality({}) = 0
  BY FS_EmptySet
<1>3. Candidates = {}
  BY <1>1, <1>2 DEF Search
<1>4. snapshot' = vectors
  BY DEF Search
<1>5. QED
  BY <1>3, <1>4 DEF Candidates, NoneThere

\* Every step preserves it.
LEMMA GroundedStep ==
  ASSUME TypeOK, GroundedInv, [Next]_vars
  PROVE  GroundedInv'
<1>1. CASE Ask
  BY <1>1 DEF Ask, GroundedInv, NoneThere, Tokens, Early, world
<1>2. CASE Admit
  BY <1>2 DEF Admit, GroundedInv, NoneThere, Tokens, Early, world
<1>3. CASE LookUp
  BY <1>3 DEF LookUp, GroundedInv, NoneThere, Tokens, Early, world
<1>4. CASE LookUpFails
  <2>1. Tokens' = Tokens
    BY <1>4, TokensKept DEF LookUpFails
  <2>2. QED
    BY <1>4, <2>1, FaultCounts DEF LookUpFails, GroundedInv, NoneThere, Early, world
<1>5. CASE Search
  <2>1. ask.here /\ hits' = {} => NoneThere'
    BY <1>5, NothingFound
  <2>2. Tokens' = Tokens
    BY <1>5 DEF Search, Tokens
  <2>3. QED
    BY <1>5, <2>1, <2>2 DEF Search, GroundedInv, Early, world
<1>6. CASE SearchFails
  BY <1>6, FaultCounts DEF SearchFails, GroundedInv, NoneThere, Tokens, Early, world
<1>7. CASE Expand
  BY <1>7 DEF Expand, GroundedInv, NoneThere, Tokens, Early, world
<1>8. CASE ExpandFails
  BY <1>8, FaultCounts DEF ExpandFails, GroundedInv, NoneThere, Tokens, Early, world
<1>9. CASE UseContext
  <2>1. Tokens' = Tokens
    <3>1. CASE context = {} /\ ask.mode = "answer"
      BY <1>9, <3>1 DEF UseContext, Tokens
    <3>2. CASE context = {} /\ ask.mode # "answer"
      BY <1>9, <3>2, NoTokenInFixedAnswer DEF UseContext
    <3>3. CASE context # {}
      BY <1>9, <3>3, TokensKept DEF UseContext
    <3>4. QED
      BY <3>1, <3>2, <3>3
  <2>2. QED
    BY <1>9, <2>1 DEF UseContext, GroundedInv, NoneThere, Early, world
<1>10. CASE Token
  BY <1>10 DEF Token, GroundedInv, NoneThere, Tokens, Early, world
<1>11. CASE Finish
  <2>1. Tokens' = Tokens
    BY <1>11, TokensKept DEF Finish
  <2>2. QED
    BY <1>11, <2>1 DEF Finish, GroundedInv, NoneThere, Early, world
<1>12. CASE ModelFails
  <2>1. Tokens' = Tokens
    BY <1>12, TokensKept DEF ModelFails
  <2>2. QED
    BY <1>12, <2>1, FaultCounts DEF ModelFails, GroundedInv, NoneThere, Early, world
<1>13. CASE Recreate
  BY <1>13, FaultCounts DEF Recreate, GroundedInv, NoneThere, Tokens, Early, world
<1>14. CASE Disconnect
  BY <1>14 DEF Disconnect, GroundedInv, NoneThere, Tokens, Early, world
<1>15. ASSUME NEW c \in Chunk, StoreChunk(c) PROVE GroundedInv'
  BY <1>15 DEF StoreChunk, GroundedInv, NoneThere, Tokens, Early, world
<1>16. ASSUME NEW s \in Statuses \ {"none"}, SetStatus(s) PROVE GroundedInv'
  BY <1>16 DEF SetStatus, GroundedInv, NoneThere, Tokens, Early, world
<1>17. CASE UNCHANGED vars
  BY <1>17 DEF vars, GroundedInv, NoneThere, Tokens, Early, world
<1>18. QED
  BY <1>1, <1>2, <1>3, <1>4, <1>5, <1>6, <1>7, <1>8, <1>9, <1>10, <1>11, <1>12, <1>13, <1>14, <1>15, <1>16, <1>17 DEF Next, Handle, Failure

\* The model is asked only with a context, and an answer that nothing was found
\* is true unless a call failed.
THEOREM NothingMadeUp == Spec => []AnswersAreGrounded
<1>1. Init => GroundedInv
  BY DEF Init, GroundedInv, Tokens
<1>2. GroundedInv => AnswersAreGrounded
  BY DEF GroundedInv, AnswersAreGrounded, NoneThere, Tokens
<1>3. QED
  BY <1>1, <1>2, GroundedStep, TypeCorrect, PTL DEF Spec

-----------------------------------------------------------------------------
(* Streams                                                                 *)

\* What makes StreamIsWellFormed inductive.
StreamInv ==
  /\ StreamIsWellFormed
  /\ stage \in Early => events = <<>>
  /\ stage = "answering" /\ ask.mode = "stream" => events # <<>> /\ events[1] = "context"

\* Every step preserves it.
LEMMA StreamStep ==
  ASSUME TypeOK, StreamInv, [Next]_vars
  PROVE  StreamInv'
<1>1. CASE Ask
  BY <1>1 DEF Ask, StreamInv, StreamIsWellFormed, Terminal, Early, world, Running, Over
<1>2. CASE Admit
  BY <1>2 DEF Admit, StreamInv, StreamIsWellFormed, Terminal, Early, world, Running, Over
<1>3. CASE LookUp
  BY <1>3 DEF LookUp, StreamInv, StreamIsWellFormed, Terminal, Early, world, Running, Over
<1>4. CASE LookUpFails
  <2>1. CASE ask.mode = "answer"
    BY <1>4, <2>1 DEF LookUpFails, Event, TypeOK, Question, StreamInv, StreamIsWellFormed, Terminal, Early, world
  <2>2. CASE ask.mode = "stream"
    BY <1>4, <2>2 DEF LookUpFails, Event, TypeOK, Question, StreamInv, StreamIsWellFormed, Terminal, Early, world
  <2>3. QED
    BY <2>1, <2>2 DEF TypeOK, Question
<1>5. CASE Search
  BY <1>5 DEF Search, StreamInv, StreamIsWellFormed, Terminal, Early, world, Running, Over
<1>6. CASE SearchFails
  BY <1>6 DEF SearchFails, StreamInv, StreamIsWellFormed, Terminal, Early, world, Running, Over
<1>7. CASE Expand
  BY <1>7 DEF Expand, StreamInv, StreamIsWellFormed, Terminal, Early, world, Running, Over
<1>8. CASE ExpandFails
  BY <1>8 DEF ExpandFails, StreamInv, StreamIsWellFormed, Terminal, Early, world, Running, Over
<1>9. CASE UseContext
  <2>1. CASE ask.mode = "answer"
    BY <1>9, <2>1 DEF UseContext, Event, TypeOK, Question, StreamInv, StreamIsWellFormed, Terminal, Early, world
  <2>2. CASE ask.mode = "stream" /\ context = {}
    <3>1. events' = <<"context", "done">> /\ stage' = "closed" /\ ask' = ask
      BY <1>9, <2>2 DEF UseContext, TypeOK, StreamInv, Early
    <3>2. QED
      BY <2>2, <3>1 DEF StreamInv, StreamIsWellFormed, Terminal, Early
  <2>3. CASE ask.mode = "stream" /\ context # {}
    <3>1. events' = <<"context">> /\ stage' = "answering" /\ ask' = ask
      BY <1>9, <2>3 DEF UseContext, Event, TypeOK, StreamInv, Early
    <3>2. QED
      BY <2>3, <3>1 DEF StreamInv, StreamIsWellFormed, Terminal, Early
  <2>4. QED
    BY <2>1, <2>2, <2>3 DEF TypeOK, Question
<1>10. CASE Token
  <2>1. CASE ask.mode = "answer"
    BY <1>10, <2>1 DEF Token, Event, TypeOK, Question, StreamInv, StreamIsWellFormed, Terminal, Early, world
  <2>2. CASE ask.mode = "stream"
    BY <1>10, <2>2 DEF Token, Event, TypeOK, Question, StreamInv, StreamIsWellFormed, Terminal, Early, world
  <2>3. QED
    BY <2>1, <2>2 DEF TypeOK, Question
<1>11. CASE Finish
  <2>1. CASE ask.mode = "answer"
    BY <1>11, <2>1 DEF Finish, Event, TypeOK, Question, StreamInv, StreamIsWellFormed, Terminal, Early, world
  <2>2. CASE ask.mode = "stream"
    BY <1>11, <2>2 DEF Finish, Event, TypeOK, Question, StreamInv, StreamIsWellFormed, Terminal, Early, world
  <2>3. QED
    BY <2>1, <2>2 DEF TypeOK, Question
<1>12. CASE ModelFails
  <2>1. CASE ask.mode = "answer"
    BY <1>12, <2>1 DEF ModelFails, Event, TypeOK, Question, StreamInv, StreamIsWellFormed, Terminal, Early, world
  <2>2. CASE ask.mode = "stream"
    BY <1>12, <2>2 DEF ModelFails, Event, TypeOK, Question, StreamInv, StreamIsWellFormed, Terminal, Early, world
  <2>3. QED
    BY <2>1, <2>2 DEF TypeOK, Question
<1>13. CASE Recreate
  BY <1>13 DEF Recreate, StreamInv, StreamIsWellFormed, Terminal, Early, world, Running, Over
<1>14. CASE Disconnect
  BY <1>14 DEF Disconnect, StreamInv, StreamIsWellFormed, Terminal, Early, world, Running, Over
<1>15. ASSUME NEW c \in Chunk, StoreChunk(c) PROVE StreamInv'
  BY <1>15 DEF StoreChunk, StreamInv, StreamIsWellFormed, Terminal, Early, world, Running, Over
<1>16. ASSUME NEW s \in Statuses \ {"none"}, SetStatus(s) PROVE StreamInv'
  BY <1>16 DEF SetStatus, StreamInv, StreamIsWellFormed, Terminal, Early, world, Running, Over
<1>17. CASE UNCHANGED vars
  BY <1>17 DEF vars, StreamInv, StreamIsWellFormed, Terminal, Early, world, Running, Over
<1>18. QED
  BY <1>1, <1>2, <1>3, <1>4, <1>5, <1>6, <1>7, <1>8, <1>9, <1>10, <1>11, <1>12, <1>13, <1>14, <1>15, <1>16, <1>17 DEF Next, Handle, Failure

\* A stream has the form its clients rely on, whatever fails and whenever they
\* leave.
THEOREM StreamsWellFormed == Spec => []StreamIsWellFormed
<1>1. Init => StreamInv
  BY DEF Init, StreamInv, StreamIsWellFormed
<1>2. StreamInv => StreamIsWellFormed
  BY DEF StreamInv
<1>3. QED
  BY <1>1, <1>2, StreamStep, TypeCorrect, PTL DEF Spec

-----------------------------------------------------------------------------
(* What the prompt is made of                                              *)

\* A chunk has at most one chunk before it and one behind it: a set of chunks
\* each near one of hs is at most three times as large as hs.
LEMMA NearThreeTimes ==
  ASSUME NEW hs \in SUBSET Chunk, IsFiniteSet(hs),
         NEW cs \in SUBSET Chunk, \A c \in cs : \E h \in hs : Near(c, h)
  PROVE  IsFiniteSet(cs) /\ Cardinality(cs) <= 3 * Cardinality(hs)
<1> USE NumbersAssumption
<1> DEFINE same == cs \cap hs
           before == {c \in cs : <<c[1], c[2] + 1>> \in hs}
           behind == {c \in cs : c[2] > 0 /\ <<c[1], c[2] - 1>> \in hs}
<1>1. IsFiniteSet(same) /\ Cardinality(same) <= Cardinality(hs)
  BY FS_Subset
<1>2. IsFiniteSet(before) /\ Cardinality(before) <= Cardinality(hs)
  <2> DEFINE f == [c \in before |-> <<c[1], c[2] + 1>>]
  <2>1. f \in [before -> hs]
    OBVIOUS
  <2>2. ASSUME NEW c \in before, NEW d \in before, f[c] = f[d] PROVE c = d
    <3>1. c[1] = d[1] /\ c[2] + 1 = d[2] + 1
      BY <2>2
    <3>2. c \in Documents \X (0..Last) /\ d \in Documents \X (0..Last)
      BY DEF Chunk
    <3> QED BY <3>1, <3>2
  <2>3. f \in Injection(before, hs)
    BY <2>1, <2>2 DEF Injection, IsInjective
  <2> QED BY <2>3, FS_Injection
<1>3. IsFiniteSet(behind) /\ Cardinality(behind) <= Cardinality(hs)
  <2> DEFINE f == [c \in behind |-> <<c[1], c[2] - 1>>]
  <2>1. f \in [behind -> hs]
    OBVIOUS
  <2>2. ASSUME NEW c \in behind, NEW d \in behind, f[c] = f[d] PROVE c = d
    <3>1. c[1] = d[1] /\ c[2] - 1 = d[2] - 1
      BY <2>2
    <3>2. c \in Documents \X (0..Last) /\ d \in Documents \X (0..Last)
      BY DEF Chunk
    <3> QED BY <3>1, <3>2
  <2>3. f \in Injection(behind, hs)
    BY <2>1, <2>2 DEF Injection, IsInjective
  <2> QED BY <2>3, FS_Injection
<1>4. cs = (same \cup before) \cup behind
  <2>1. ASSUME NEW c \in cs PROVE c \in same \/ c \in before \/ c \in behind
    <3>1. PICK h \in hs : Near(c, h)
      OBVIOUS
    <3>2. PICK d \in Documents, i \in 0..Last : c = <<d, i>>
      BY DEF Chunk
    <3>3. PICK e \in Documents, k \in 0..Last : h = <<e, k>>
      BY DEF Chunk
    <3>4. d = e /\ (i = k \/ i + 1 = k \/ (i > 0 /\ i - 1 = k))
      BY <3>1, <3>2, <3>3 DEF Near
    <3> QED BY <3>2, <3>3, <3>4
  <2> QED BY <2>1
<1> HIDE DEF same, before, behind
<1>5. /\ IsFiniteSet(same \cup before)
      /\ Cardinality(same \cup before) <= Cardinality(same) + Cardinality(before)
  <2>1. IsFiniteSet(same \cap before)
    BY <1>1, FS_Intersection
  <2>2. /\ Cardinality(same) \in Nat /\ Cardinality(before) \in Nat
        /\ Cardinality(same \cap before) \in Nat
    BY <1>1, <1>2, <2>1, FS_CardinalityType
  <2>3. /\ IsFiniteSet(same \cup before)
        /\ Cardinality(same \cup before) =
             Cardinality(same) + Cardinality(before) - Cardinality(same \cap before)
    BY <1>1, <1>2, FS_Union
  <2> QED BY <2>2, <2>3
<1>6. Cardinality(cs) <= Cardinality(same \cup before) + Cardinality(behind)
  <2>1. IsFiniteSet((same \cup before) \cap behind)
    BY <1>5, FS_Intersection
  <2>2. /\ Cardinality(same \cup before) \in Nat /\ Cardinality(behind) \in Nat
        /\ Cardinality((same \cup before) \cap behind) \in Nat
    BY <1>3, <1>5, <2>1, FS_CardinalityType
  <2>3. Cardinality((same \cup before) \cup behind) =
          Cardinality(same \cup before) + Cardinality(behind)
            - Cardinality((same \cup before) \cap behind)
    BY <1>3, <1>5, FS_Union
  <2> QED BY <1>4, <2>2, <2>3
<1>7. IsFiniteSet(cs)
  BY <1>3, <1>4, <1>5, FS_Union
<1>8. /\ Cardinality(same) \in Nat /\ Cardinality(before) \in Nat
      /\ Cardinality(behind) \in Nat /\ Cardinality(same \cup before) \in Nat
      /\ Cardinality(hs) \in Nat /\ Cardinality(cs) \in Nat
  BY <1>1, <1>2, <1>3, <1>5, <1>7, FS_CardinalityType
<1> QED BY <1>1, <1>2, <1>3, <1>5, <1>6, <1>7, <1>8

\* Every neighbour of a hit that the search could see is in the context.
NoneMissing == \A h \in hits : {c \in snapshot : Near(c, h)} \subseteq context

\* What makes ContextIsHitsAndNeighbours inductive: hits and context are made
\* once each, finitely many points are ever stored, and without a failing call
\* nothing the handler has seen in the collection goes away.
PromptInv ==
  /\ IsFiniteSet(vectors) /\ IsFiniteSet(hits)
  /\ Cardinality(hits) <= ask.limit
  /\ stage \in Early \ {"context"} => context = {}
  /\ \A c \in context : \E h \in hits : Near(c, h)
  /\ faults = 0 => snapshot \subseteq vectors
  /\ stage \in {"context", "answering", "closed"} /\ faults = 0 => NoneMissing

LEMMA PromptInit == Init => PromptInv
<1> SUFFICES ASSUME Init PROVE PromptInv
  OBVIOUS
<1>1. ask.limit >= 0
  BY NumbersAssumption DEF Init, Question
<1> QED BY <1>1, FS_EmptySet DEF Init, PromptInv, Early

\* A hit or its neighbour is near it, and nothing else is.
LEMMA NearIsNeighbour ==
  ASSUME NEW c \in Chunk, NEW h \in Chunk
  PROVE  Near(c, h) <=> c = h \/ c \in Neighbours(h)
<1> USE NumbersAssumption
<1>1. PICK d \in Documents, i \in 0..Last : c = <<d, i>>
  BY DEF Chunk
<1>2. PICK e \in Documents, k \in 0..Last : h = <<e, k>>
  BY DEF Chunk
<1> QED BY <1>1, <1>2 DEF Near, Neighbours

\* Every step preserves it.
LEMMA PromptStep ==
  ASSUME TypeOK, PromptInv, [Next]_vars
  PROVE  PromptInv'
<1>1. CASE Ask
  BY <1>1 DEF Ask, PromptInv, NoneMissing, Early, world
<1>2. CASE Admit
  BY <1>2 DEF Admit, PromptInv, NoneMissing, Early, world
<1>3. CASE LookUp
  BY <1>3 DEF LookUp, PromptInv, NoneMissing, Early, world
<1>4. CASE LookUpFails
  BY <1>4, FaultCounts DEF LookUpFails, PromptInv, Early, world
<1>5. CASE Search
  <2>1. PICK found \in SUBSET Candidates :
          Cardinality(found) <= ask.limit /\ hits' = found
    BY <1>5 DEF Search
  <2>2. found \in SUBSET vectors
    BY DEF Candidates
  <2>3. IsFiniteSet(hits') /\ Cardinality(hits') <= ask.limit
    BY <2>1, <2>2, FS_Subset DEF PromptInv
  <2> QED BY <1>5, <2>3 DEF Search, PromptInv, Early, world
<1>6. CASE SearchFails
  BY <1>6, FaultCounts DEF SearchFails, PromptInv, Early, world
<1>7. CASE Expand
  <2>1. ASSUME NEW c \in context'
        PROVE  \E h \in hits : Near(c, h)
    <3>1. CASE c \in hits
      BY <3>1, NearIsNeighbour DEF TypeOK
    <3>2. CASE c \notin hits
      <4>1. PICK h \in hits : c \in Neighbours(h)
        BY <1>7, <2>1, <3>2 DEF Expand
      <4>2. c \in Chunk /\ h \in Chunk
        BY <4>1 DEF Neighbours, TypeOK
      <4> QED BY <4>1, <4>2, NearIsNeighbour
    <3> QED BY <3>1, <3>2
  <2>2. ASSUME faults = 0, NEW h \in hits, NEW c \in snapshot, Near(c, h)
        PROVE  c \in context'
    <3>1. c \in Chunk /\ h \in Chunk /\ c \in vectors
      BY <2>2 DEF TypeOK, PromptInv
    <3>2. c = h \/ c \in Neighbours(h)
      BY <2>2, <3>1, NearIsNeighbour
    <3> QED BY <1>7, <3>1, <3>2 DEF Expand
  <2>3. UNCHANGED <<vectors, hits, snapshot, ask, faults>> /\ stage' = "context"
    BY <1>7 DEF Expand, world
  <2> QED BY <2>1, <2>2, <2>3 DEF PromptInv, NoneMissing, Early
<1>8. CASE ExpandFails
  <2>1. \A h \in hits : Near(h, h)
    BY NearIsNeighbour DEF TypeOK
  <2> QED BY <1>8, <2>1, FaultCounts DEF ExpandFails, PromptInv, Early, world
<1>9. CASE UseContext
  BY <1>9 DEF UseContext, PromptInv, NoneMissing, Early, world
<1>10. CASE Token
  BY <1>10 DEF Token, PromptInv, NoneMissing, Early, world
<1>11. CASE Finish
  BY <1>11 DEF Finish, PromptInv, NoneMissing, Early, world
<1>12. CASE ModelFails
  BY <1>12, FaultCounts DEF ModelFails, PromptInv, Early, world
<1>13. CASE Recreate
  BY <1>13, FaultCounts, FS_EmptySet DEF Recreate, PromptInv, Early, world
<1>14. CASE Disconnect
  BY <1>14 DEF Disconnect, PromptInv, NoneMissing, Early, world
<1>15. ASSUME NEW c \in Chunk, StoreChunk(c) PROVE PromptInv'
  <2>1. IsFiniteSet(vectors \cup {c})
    BY FS_AddElement DEF PromptInv
  <2> QED BY <1>15, <2>1 DEF StoreChunk, PromptInv, NoneMissing, Early
<1>16. ASSUME NEW s \in Statuses \ {"none"}, SetStatus(s) PROVE PromptInv'
  BY <1>16 DEF SetStatus, PromptInv, NoneMissing, Early, world
<1>17. CASE UNCHANGED vars
  BY <1>17 DEF vars, PromptInv, NoneMissing, Early, world
<1>18. QED
  BY <1>1, <1>2, <1>3, <1>4, <1>5, <1>6, <1>7, <1>8, <1>9, <1>10, <1>11, <1>12, <1>13, <1>14, <1>15, <1>16, <1>17 DEF Next, Handle, Failure

LEMMA PromptSuffices ==
  ASSUME TypeOK, PromptInv
  PROVE  ContextIsHitsAndNeighbours
<1>1. IsFiniteSet(context) /\ Cardinality(context) <= 3 * Cardinality(hits)
  BY NearThreeTimes DEF TypeOK, PromptInv
<1>2. Cardinality(hits) \in Nat /\ ask.limit \in Nat
  BY NumbersAssumption, FS_CardinalityType DEF TypeOK, Question, PromptInv
<1>3. IsFiniteSet(context) => Cardinality(context) \in Nat
  BY FS_CardinalityType
<1>4. Cardinality(hits) <= ask.limit
  BY DEF PromptInv
<1>5. Cardinality(context) <= 3 * ask.limit
  BY <1>1, <1>2, <1>3, <1>4
<1> QED BY <1>5 DEF PromptInv, NoneMissing, ContextIsHitsAndNeighbours

\* A prompt has at most three times limit chunks, all of them hits or next to
\* one; and while no call fails no neighbour that was there when the search ran
\* is missing from it, whatever is stored between the two calls.
THEOREM PromptIsHitsAndNeighbours == Spec => []ContextIsHitsAndNeighbours
<1>1. TypeOK /\ PromptInv /\ [Next]_vars => PromptInv'
  BY PromptStep
<1>2. TypeOK /\ PromptInv => ContextIsHitsAndNeighbours
  BY PromptSuffices
<1>3. QED
  BY PromptInit, <1>1, <1>2, TypeCorrect, PTL DEF Spec

=============================================================================
