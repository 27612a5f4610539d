------------------------------- MODULE MC_OPT -------------------------------
(* Reader and engine on every short trace.                                 *)
EXTENDS OPTRivals

SomeCutlines == {-1, 0, 4}
=============================================================================
