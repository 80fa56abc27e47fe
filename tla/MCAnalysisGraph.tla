--------------------------- MODULE MCAnalysisGraph ---------------------------
(* AnalysisGraph on small sets, for TLC.                                    *)
EXTENDS AnalysisGraph

\* A harmless chunk, a risky one, and one that takes more than half the score.
ChunkTerms == {0, 1, 13}

=============================================================================
