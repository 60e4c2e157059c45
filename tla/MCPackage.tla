----------------------------- MODULE MCPackage ------------------------------
(* Small instances of PackageProperties for TLC.                            *)
EXTENDS PackageProperties, TLC

Symmetry == Permutations(Packages)
=============================================================================
