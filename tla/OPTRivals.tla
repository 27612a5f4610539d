----------------------------- MODULE OPTRivals ------------------------------
(***************************************************************************)
(* The optimal engine measured against every other cache of its size.  The *)
(* variable `rivals' is not in the code: it records, while the engine      *)
(* replays the trace, all the ways in which a demand cache can serve the   *)
(* same references, whatever it evicts when it is full.                    *)
(***************************************************************************)
EXTENDS OPT

VARIABLE rivals       (* what such a cache may hold by now, and its faults *)

rivalVars == <<vars, rivals>>

RivalInit == Init /\ rivals = {[cache |-> {}, faults |-> 0]}

(* What a demand cache may be after a reference to p.                      *)
Serve(r, p) ==
  IF p \in r.cache THEN {r}
  ELSE LET kept == IF Cardinality(r.cache) < mCacheMaxLimit THEN {r.cache}
                   ELSE {r.cache \ {victim} : victim \in r.cache}
       IN  {[cache |-> k \cup {p}, faults |-> r.faults + 1] : k \in kept}

RivalNext ==
  /\ Next
  /\ rivals' = IF cur_ref' = cur_ref THEN rivals
               ELSE UNION {Serve(r, Trace(cur_ref)) : r \in rivals}

(* One sequential thread, which the system keeps scheduling.               *)
RivalSpec ==
  RivalInit /\ [][RivalNext]_rivalVars /\ WF_rivalVars(RivalNext)

-----------------------------------------------------------------------------
(* Correctness *)

(* The engine has served every prefix of the trace with the least number   *)
(* of faults any demand cache of its size can, counted the distinct pages, *)
(* and has not given up: reader and engine agree on what mNextPos means    *)
(* (trace_handle.cc:62, replace_opt.cc:74-84) and the set, ordered by keys *)
(* that change while pages are outside it, never loses or confuses one.    *)
FewestFaults ==
  /\ mPageFaultNum = Min({r.faults : r \in rivals})
  /\ ColdMiss = Cardinality({Trace(i) : i \in 0 .. cur_ref - 1})
  /\ engine \notin {"exit", "wrong"}
=============================================================================
