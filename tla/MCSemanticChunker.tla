------------------------- MODULE MCSemanticChunker -------------------------
(* SemanticChunker on every document of up to MaxBlocks blocks, for TLC.   *)
EXTENDS SemanticChunker

CONSTANT MaxBlocks

\* Texts, with 3 for a letter: one that leaves room for another in a chunk, a
\* long word, words on two lines, sentences, paragraphs.
Texts == {
  <<3, 3>>,
  <<3, 3, 3, 3, 3, 3, 3, 3, 3, 3, 3, 3, 3>>,
  <<3, 0, 3, 3, 3, 0, 3, 3, 3, 3, 0, 3, 2, 3, 3, 3>>,
  <<3, 3, 1, 3, 1, 3, 3, 0, 3, 3, 0, 3, 3, 1, 3>>,
  <<3, 2, 2, 3, 2, 2, 3, 3, 1, 3, 3, 3, 3, 2, 2, 3, 3>> }

\* The letters of block b are its own.
Numbered(b, text) == [i \in DOMAIN text |-> IF text[i] = 3 THEN 20 * b + i ELSE text[i]]

\* A heading's length does not matter, any more than its words.
BlocksAt(b) ==
  [kind : {"heading"}, page : 1..2, text : {Numbered(b, <<3, 3>>)}]
    \cup [kind : Kinds \ {"heading"}, page : 1..2, text : {Numbered(b, t) : t \in Texts}]

SmallDocuments ==
  UNION {{d \in [1..n -> UNION {BlocksAt(b) : b \in 1..n}] :
            /\ \A b \in 1..n : d[b] \in BlocksAt(b)
            /\ \A b \in 1..(n - 1) : d[b].page <= d[b + 1].page} : n \in 0..MaxBlocks}

=============================================================================
