------------------------------- MODULE MC_LRU -------------------------------
(* LRU on small instances.  No symmetry: the state is the order of a few   *)
(* pages and little else, so that there is nothing to save.                *)
EXTENDS LRU
=============================================================================
