------------------------ MODULE MCQuestionAnswering ------------------------
(* QuestionAnswering on small sets, for TLC.                               *)
EXTENDS QuestionAnswering

CONSTANTS d1, d2

\* The party's duties stand in the middle of both documents.
MiddleChunks == {<<d1, 1>>, <<d2, 1>>}

=============================================================================
