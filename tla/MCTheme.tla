------------------------------ MODULE MCTheme -------------------------------
(* Small instances of ThemeProperties for TLC: the configurations name the  *)
(* model values and the bounds.                                             *)
EXTENDS ThemeProperties, TLC

Symmetry == Permutations(Packages)
=============================================================================
