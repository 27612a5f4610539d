------------------------------ MODULE MC_LIRS2 ------------------------------
(* LIRS2 on small instances; pages are interchangeable.                    *)
EXTENDS LIRS2, TLC

Symmetry == Permutations(Page)
=============================================================================
