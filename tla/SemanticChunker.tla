-------------------------- MODULE SemanticChunker --------------------------
(***************************************************************************)
(* SemanticChunker.chunk_document (src/core/chunkers/semantic.py): a       *)
(* document, the blocks the PDF parser found in reading order, is cut into *)
(* sections, the sections into clause groups, and a group that is too long *)
(* at paragraphs, then sentences, then characters.                         *)
(*                                                                         *)
(* A text is a sequence of characters.  What the algorithm tells apart is  *)
(* whitespace, of three kinds, and letters, of which nothing is compared;  *)
(* a letter is the number of its place in the document, so that a lost, a  *)
(* repeated or a misplaced one shows.                                      *)
(***************************************************************************)
EXTENDS Naturals, FiniteSets, SequencesExt

CONSTANTS
  MaxChunkSize,   \* max_chunk_size
  ChunkOverlap,   \* chunk_overlap
  Documents       \* the documents to cut

\* The pipeline's sizes, 1000 and 200, satisfy both: the character fallback
\* moves by more than half a chunk before it steps back by the overlap.
ASSUME SizesAssumption ==
  /\ MaxChunkSize \in Nat \ {0}
  /\ ChunkOverlap \in Nat
  /\ 2 * ChunkOverlap <= MaxChunkSize \div 2

Space == 0           \* " " between words
SentenceSpace == 1   \* " " at which _SENTENCE_RE splits
NewLine == 2

IsLetter(c) == c > 2
Break == <<NewLine, NewLine>>

\* A block is [kind, page, text]; kind "clause" means that its text begins
\* like a clause (_is_clause_boundary).
Kinds == {"heading", "clause", "body"}
NoHeading == [kind |-> "heading", page |-> 0, text |-> <<>>]

Block == [kind : Kinds, page : Nat, text : Seq(Nat)]

Letters(text) == {c \in Range(text) : IsLetter(c)}

\* Letters K stand before letters L; the letters of a text stand in order.
Before(K, L) == \A k \in K, l \in L : k < l
InOrder(text) ==
  \A i, j \in DOMAIN text : i < j /\ IsLetter(text[i]) /\ IsLetter(text[j]) => text[i] < text[j]

\* The parser drops blank blocks, and letters are numbered in reading order.
ASSUME DocumentsAssumption ==
  \A d \in Documents :
    /\ d \in Seq(Block)
    /\ \A b \in DOMAIN d : Letters(d[b].text) # {} /\ InOrder(d[b].text)
    /\ \A b, c \in DOMAIN d : b < c => Before(Letters(d[b].text), Letters(d[c].text))

VARIABLES
  doc,      \* the document: a sequence of blocks
  groups,   \* clause groups still to cut, with the heading of their section
  work,     \* pieces of the current group still to cut
  chunks,   \* the chunks made so far; a chunk's id is its position
  prev,     \* prev_chunk_id; 0 is None
  done

vars == <<doc, groups, work, chunks, prev, done>>

-----------------------------------------------------------------------------
(* Sections and clauses                                                    *)

\* _build_sections: a heading starts a section; its text goes into none.
AddToSections(sections, b) ==
  LET open == IF sections = <<>>
              THEN <<[heading |-> NoHeading, segments |-> <<>>]>>
              ELSE sections
  IN  IF b.kind = "heading"
      THEN Append(sections, [heading |-> b, segments |-> <<>>])
      ELSE [open EXCEPT ![Len(open)].segments = Append(@, b)]
Sections(blocks) == FoldLeft(AddToSections, <<>>, blocks)

\* Mutant: clause boundaries are not looked at.
ClausesByPage(segments) ==
  LET add(clauses, s) ==
        IF clauses = <<>> \/ s.page # Head(Last(clauses)).page
        THEN Append(clauses, <<s>>)
        ELSE [clauses EXCEPT ![Len(clauses)] = Append(@, s)]
  IN  FoldLeft(add, <<>>, segments)

\* Mutant: a new page does not start a new group.
ClausesAcrossPages(segments) ==
  LET add(clauses, s) ==
        IF clauses = <<>> \/ s.kind = "clause"
        THEN Append(clauses, <<s>>)
        ELSE [clauses EXCEPT ![Len(clauses)] = Append(@, s)]
  IN  FoldLeft(add, <<>>, segments)

\* _group_into_clauses: a clause boundary or a new page starts a group.
AddToClauses(clauses, s) ==
  IF clauses = <<>> \/ s.kind = "clause" \/ s.page # Head(Last(clauses)).page
  THEN Append(clauses, <<s>>)
  ELSE [clauses EXCEPT ![Len(clauses)] = Append(@, s)]
Clauses(segments) == FoldLeft(AddToClauses, <<>>, segments)

\* The loops of _hierarchical_split over sections and their clause groups.
GroupsIn(section) ==
  LET cs == Clauses(section.segments)
  IN  [i \in DOMAIN cs |-> [heading |-> section.heading, segments |-> cs[i]]]
GroupsOf(blocks) ==
  LET ss == Sections(blocks)
  IN  FlattenSeq([i \in DOMAIN ss |-> GroupsIn(ss[i])])

-----------------------------------------------------------------------------
(* Text                                                                    *)

Strip(text) ==
  LET kept == {i \in DOMAIN text : IsLetter(text[i])}
  IN  IF kept = {} THEN <<>>
      ELSE SubSeq(text, CHOOSE i \in kept : \A j \in kept : i <= j,
                        CHOOSE i \in kept : \A j \in kept : j <= i)

\* re.split at the characters with indices in seps, stripped and without the
\* empty parts.
SplitText(text, seps) ==
  LET inside == DOMAIN text \ seps
      partAt(i) == Strip(SubSeq(text, i, CHOOSE e \in inside : i <= e /\ i..e \subseteq inside
                                                               /\ e + 1 \notin inside))
      starts == {i \in inside : i - 1 \notin inside /\ partAt(i) # <<>>}
      nth(k) == CHOOSE i \in starts : Cardinality({j \in starts : j <= i}) = k
  IN  [k \in 1..Cardinality(starts) |-> partAt(nth(k))]

\* _PARAGRAPH_RE: a newline next to another.
Paragraphs(text) ==
  LET newlines == {i \in DOMAIN text : text[i] = NewLine}
  IN  SplitText(text, {i \in newlines : {i - 1, i + 1} \cap newlines # {}})

\* _SENTENCE_RE
Sentences(text) == SplitText(text, {i \in DOMAIN text : text[i] = SentenceSpace})

\* Clause text: the segments' texts joined with "\n\n".
AddText(text, s) == IF text = <<>> THEN s.text ELSE text \o Break \o s.text
JoinTexts(segments) == FoldLeft(AddText, <<>>, segments)

\* Mutant: the part that no longer fits is dropped.
MergeDropsRest(parts) ==
  LET add(merged, part) ==
        LET candidate == Last(merged) \o Break \o part
        IN  IF merged = <<>> THEN <<part>>
            ELSE IF Len(candidate) <= MaxChunkSize
                 THEN Append(Front(merged), candidate)
                 ELSE merged
  IN  FoldLeft(add, <<>>, parts)

\* _merge_small_parts
AddPart(merged, part) ==
  LET candidate == Last(merged) \o Break \o part
  IN  IF merged # <<>> /\ Len(candidate) <= MaxChunkSize
      THEN Append(Front(merged), candidate)
      ELSE Append(merged, part)
MergeSmallParts(parts) == FoldLeft(AddPart, <<>>, parts)

\* Mutant: any space will do, however early.
PieceEndAtAnySpace(text, start) ==
  LET end == IF start + MaxChunkSize <= Len(text) THEN start + MaxChunkSize ELSE Len(text)
      spaces == {k \in 0..(end - start - 1) :
                   k > 0 /\ text[start + k + 1] \in {Space, SentenceSpace}}
  IN  IF end < Len(text) /\ spaces # {}
      THEN start + (CHOOSE k \in spaces : \A l \in spaces : l <= k)
      ELSE end

\* _split_by_character: where a piece that begins at start (counted from 0)
\* ends.  A space in its second half is preferred.
PieceEnd(text, start) ==
  LET end == IF start + MaxChunkSize <= Len(text) THEN start + MaxChunkSize ELSE Len(text)
      spaces == {k \in 0..(end - start - 1) :
                   /\ 2 * k > MaxChunkSize
                   /\ text[start + k + 1] \in {Space, SentenceSpace}}
  IN  IF end < Len(text) /\ spaces # {}
      THEN start + (CHOOSE k \in spaces : \A l \in spaces : l <= k)
      ELSE end

-----------------------------------------------------------------------------
Init ==
  /\ doc \in Documents
  /\ groups = GroupsOf(doc)
  /\ work = <<>>
  /\ chunks = <<>>
  /\ prev = 0
  /\ done = FALSE

Piece(level, text) == [level |-> level, text |-> text, start |-> 0]
Pieces(level, texts) == [i \in DOMAIN texts |-> Piece(level, texts[i])]

\* Mutant: a chunk is linked to its successor before there is one.
EmitLinksAhead(group, content) ==
  LET id == Len(chunks) + 1
  IN  /\ chunks' = Append(chunks,
           [content |-> content, page |-> Head(group.segments).page,
            section |-> group.heading.text, previous |-> prev, next |-> id + 1])
      /\ prev' = id

\* Mutant: prev_chunk_id is set for the first chunk only.
EmitForgetsPrev(group, content) ==
  LET id == Len(chunks) + 1
      linked == IF prev = 0 THEN chunks ELSE [chunks EXCEPT ![prev].next = id]
  IN  /\ chunks' = Append(linked,
           [content |-> content, page |-> Head(group.segments).page,
            section |-> group.heading.text, previous |-> prev, next |-> 0])
      /\ prev' = IF prev = 0 THEN id ELSE prev

\* A chunk of the group, linked to the one before it.  All pieces of a group
\* carry the page of its first segment.
Emit(group, content) ==
  LET id == Len(chunks) + 1
      linked == IF prev = 0 THEN chunks ELSE [chunks EXCEPT ![prev].next = id]
  IN  /\ chunks' = Append(linked,
           [content |-> content, page |-> Head(group.segments).page,
            section |-> group.heading.text, previous |-> prev, next |-> 0])
      /\ prev' = id

\* The next group: one chunk, or paragraphs for _split_oversized.
CutGroup ==
  /\ work = <<>> /\ groups # <<>>
  /\ LET text == JoinTexts(Head(groups).segments)
     IN  \/ /\ Len(text) <= MaxChunkSize
            /\ Emit(Head(groups), text)
            /\ groups' = Tail(groups)
            /\ UNCHANGED work
         \/ /\ Len(text) > MaxChunkSize
            /\ work' = Pieces("paragraph", MergeSmallParts(Paragraphs(text)))
            /\ UNCHANGED <<groups, chunks, prev>>
  /\ UNCHANGED <<doc, done>>

\* The rest of the work is done when the group is.
Rest(pieces) ==
  /\ work' = pieces
  /\ groups' = IF pieces = <<>> THEN Tail(groups) ELSE groups

Cutting(level) == work # <<>> /\ Head(work).level = level
Fits == Len(Head(work).text) <= MaxChunkSize

\* A paragraph or sentence that fits is a chunk.
EmitPiece ==
  /\ Cutting("paragraph") \/ Cutting("sentence")
  /\ Fits
  /\ Emit(Head(groups), Head(work).text)
  /\ Rest(Tail(work))
  /\ UNCHANGED <<doc, done>>

\* _split_by_sentence of a paragraph that is too long
CutParagraph ==
  /\ Cutting("paragraph") /\ ~Fits
  /\ work' = Pieces("sentence", MergeSmallParts(Sentences(Head(work).text))) \o Tail(work)
  /\ UNCHANGED <<doc, groups, chunks, prev, done>>

\* A sentence that is too long is left to _split_by_character.
CutSentence ==
  /\ Cutting("sentence") /\ ~Fits
  /\ work' = [work EXCEPT ![1].level = "character"]
  /\ UNCHANGED <<doc, groups, chunks, prev, done>>

\* One round of the loop of _split_by_character.
CutCharacters ==
  /\ Cutting("character")
  /\ LET text == Head(work).text
         start == Head(work).start
         end == PieceEnd(text, start)
     IN  /\ Emit(Head(groups), Strip(SubSeq(text, start + 1, end)))
         /\ Rest(IF end < Len(text)
                 THEN [work EXCEPT ![1].start = end - ChunkOverlap]
                 ELSE Tail(work))
  /\ UNCHANGED <<doc, done>>

\* _assign_ids_and_metadata fills the links that are still None.
Assign ==
  /\ work = <<>> /\ groups = <<>> /\ ~done
  /\ chunks' = [i \in DOMAIN chunks |->
       [chunks[i] EXCEPT
          !.previous = IF i > 1 /\ @ = 0 THEN i - 1 ELSE @,
          !.next = IF i < Len(chunks) /\ @ = 0 THEN i + 1 ELSE @]]
  /\ done' = TRUE
  /\ UNCHANGED <<doc, groups, work, prev>>

Finished == done /\ UNCHANGED vars

Next ==
  \/ CutGroup \/ EmitPiece \/ CutParagraph \/ CutSentence \/ CutCharacters
  \/ Assign \/ Finished

Spec == Init /\ [][Next]_vars

-----------------------------------------------------------------------------
(* Properties                                                              *)

TypeOK ==
  /\ \A b \in DOMAIN doc : doc[b].kind \in Kinds /\ doc[b].page \in Nat
  /\ \A i \in DOMAIN groups : groups[i].heading.kind = "heading" /\ groups[i].segments # <<>>
  /\ \A i \in DOMAIN work :
       /\ work[i].level \in {"paragraph", "sentence", "character"}
       /\ work[i].start < Len(work[i].text)
  /\ \A i \in DOMAIN chunks : {chunks[i].previous, chunks[i].next} \subseteq 0..Len(chunks)
  /\ prev \in 0..Len(chunks)
  /\ done \in BOOLEAN

\* The letters of a document's bodies, which is everything but its headings.
BodyLetters(d) == UNION {Letters(d[b].text) : b \in {c \in DOMAIN d : d[c].kind # "heading"}}

\* No sentence and no paragraph ends between characters lo and hi of a text.
OneSentence(text, lo, hi) ==
  \A i \in lo..hi : /\ text[i] # SentenceSpace
                    /\ i < hi /\ text[i] = NewLine => text[i + 1] # NewLine

\* Letters L of document d stand in one sentence, which is too long for a chunk.
InLongSentence(d, L) ==
  \E b \in DOMAIN d : \E lo, hi \in {i \in DOMAIN d[b].text : IsLetter(d[b].text[i])} :
    /\ hi - lo >= MaxChunkSize
    /\ OneSentence(d[b].text, lo, hi)
    /\ L \subseteq Range(SubSeq(d[b].text, lo, hi))

\* Chunks have the document's text in its order: nothing is lost, invented or
\* moved by grouping, splitting, merging or stripping.  And text is repeated only
\* where characters were cut: inside a sentence that is too long for a chunk, by
\* the next chunk, and no more than chunk_overlap of it.
TextIsKept ==
  /\ done => UNION {Letters(chunks[i].content) : i \in DOMAIN chunks} = BodyLetters(doc)
  /\ \A i \in DOMAIN chunks : InOrder(chunks[i].content)
  /\ \A i, j \in DOMAIN chunks : i < j =>
       LET earlier == Letters(chunks[i].content)
           later == Letters(chunks[j].content)
           shared == earlier \cap later
       IN  /\ Before(earlier, later \ shared)
           /\ shared # {} => /\ j = i + 1
                             /\ shared \subseteq Range(SubSeq(chunks[j].content, 1, ChunkOverlap))
                             /\ InLongSentence(doc, earlier \cup later)

\* The section of block b of document d: the text of the last heading before it.
SectionAt(d, b) ==
  LET above == {h \in 1..b : d[h].kind = "heading"}
  IN  IF above = {} THEN <<>> ELSE d[Max(above)].text

\* Citations are true: every letter of a chunk stands on the chunk's page, under
\* the heading that is the chunk's section.
ChunkTellsItsPlace ==
  \A i \in DOMAIN chunks : \A b \in DOMAIN doc :
    /\ doc[b].kind # "heading"
    /\ Letters(doc[b].text) \cap Letters(chunks[i].content) # {}
    => doc[b].page = chunks[i].page /\ SectionAt(doc, b) = chunks[i].section

\* Block b of document d begins a clause.
BeginsClause(d, b) ==
  /\ d[b].kind # "heading"
  /\ \/ d[b].kind = "clause"
     \/ b = 1
     \/ d[b - 1].kind = "heading"
     \/ d[b - 1].page # d[b].page

\* The blocks of the clause that block b begins, their letters and their length.
ClauseOf(d, b) ==
  {k \in b..Len(d) : d[k].kind # "heading"
                     /\ \A m \in (b + 1)..k : d[m].kind # "heading" /\ ~BeginsClause(d, m)}
ClauseText(d, b) == UNION {Letters(d[k].text) : k \in ClauseOf(d, b)}
ClauseLength(d, b) ==
  LET add(n, k) == IF k \in ClauseOf(d, b) THEN n + Len(d[k].text) + (IF k = b THEN 0 ELSE 2) ELSE n
  IN  FoldLeftDomain(add, 0, d)

ChunksFit == \A i \in DOMAIN chunks : Len(chunks[i].content) <= MaxChunkSize

\* No chunk is longer than max_chunk_size, whatever the separators that merging
\* puts in and the pieces that overlap add; but a clause is split only if it is
\* too long, and never shares a chunk with another.
CutOnlyToFit ==
  /\ ChunksFit
  /\ \A b \in DOMAIN doc : BeginsClause(doc, b) =>
       LET holding == {i \in DOMAIN chunks :
                         Letters(chunks[i].content) \cap ClauseText(doc, b) # {}}
       IN  /\ \A i \in holding : Letters(chunks[i].content) \subseteq ClauseText(doc, b)
           /\ ClauseLength(doc, b) <= MaxChunkSize => \A i, j \in holding : i = j

\* The chunks of a document are one chain, as retrieval walks it in both
\* directions.
ChunksAreChained ==
  done => \A i \in DOMAIN chunks :
    /\ chunks[i].previous = i - 1
    /\ chunks[i].next = IF i = Len(chunks) THEN 0 ELSE i + 1

\* The character fallback ends: each round moves it forward, and the word
\* boundary and the overlap together never take it back to where it was.
FallbackAdvances ==
  [][Cutting("character") /\ work' # <<>> /\ Len(work') = Len(work)
       => work'[1].start > work[1].start]_vars

=============================================================================
