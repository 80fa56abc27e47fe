--------------------------- MODULE MCVectorStorer ---------------------------
(* VectorStorer on small sets, for TLC.  Workers and tasks are model values *)
(* of the configurations; liveness is checked, so there is no symmetry.     *)
EXTENDS VectorStorer

=============================================================================
