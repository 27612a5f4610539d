--------------------------- MODULE MC_TraceHandle ---------------------------
(* The trace reader alone, on short files read to their end.               *)
EXTENDS TraceHandle

NoCutline == {-1}
=============================================================================
