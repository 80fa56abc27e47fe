---------------------------- MODULE MCRetryQueue ----------------------------
(* RetryQueue on small sets, for TLC.                                      *)
EXTENDS RetryQueue, TLC

\* Copies are interchangeable, and so are messages.
Symmetry == Permutations(Copies) \cup Permutations(Msgs)

=============================================================================
