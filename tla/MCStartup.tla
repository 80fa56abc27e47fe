----------------------------- MODULE MCStartup -----------------------------
(* Startup on small sets, for TLC.                                         *)
EXTENDS Startup

=============================================================================
