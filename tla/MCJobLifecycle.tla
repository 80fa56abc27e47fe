--------------------------- MODULE MCJobLifecycle ---------------------------
(* JobLifecycle on small sets, for TLC.                                    *)
EXTENDS JobLifecycle, TLC

\* Where all files are readable, they are interchangeable.
Symmetry == Permutations(Files)

=============================================================================
