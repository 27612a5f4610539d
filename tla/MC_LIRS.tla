------------------------------ MODULE MC_LIRS -------------------------------
(* LIRS on small instances; pages are interchangeable.                     *)
EXTENDS LIRS, TLC

Symmetry == Permutations(Page)
=============================================================================
