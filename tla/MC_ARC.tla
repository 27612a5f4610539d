------------------------------- MODULE MC_ARC -------------------------------
(* ARC and its history on a small instance; pages are interchangeable.     *)
EXTENDS ARCHistory, TLC

Symmetry == Permutations(Page)
=============================================================================
