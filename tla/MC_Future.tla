----------------------------- MODULE MC_Future ------------------------------
(* Futures on a small instance.                                            *)
EXTENDS Future
=============================================================================
