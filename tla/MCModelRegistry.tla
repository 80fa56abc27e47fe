-------------------------- MODULE MCModelRegistry --------------------------
(* ModelRegistry on small sets, for TLC.                                   *)
EXTENDS ModelRegistry, TLC

\* Configurations are interchangeable, and so are requests.
Symmetry == Permutations(Configs) \cup Permutations(Requests)

=============================================================================
