--------------------------- MODULE MCLoaderDeploy ---------------------------
(* Small instances of LoaderProperties for TLC: the configurations name the *)
(* model values.                                                            *)
EXTENDS LoaderProperties, TLC

\* Invocations are interchangeable, and so are the Boot numbers that are free.
Symmetry == Permutations(Procs) \cup Permutations(Free)
=============================================================================
