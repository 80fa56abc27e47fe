---------------------------- MODULE MCJobStream ----------------------------
(* JobStream on small sets, for TLC.                                       *)
EXTENDS JobStream

=============================================================================
