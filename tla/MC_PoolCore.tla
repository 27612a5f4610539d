---------------------------- MODULE MC_PoolCore ----------------------------
(* The pool on its own, under any sequence of calls of its owner.          *)
EXTENDS PoolCore, TLC

const_Priority == [t \in Task |-> t]
=============================================================================
