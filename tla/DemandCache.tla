---------------------------- MODULE DemandCache ----------------------------
(***************************************************************************)
(* What every replacement policy of the simulator promises, whatever it    *)
(* uses to choose a victim: pages are loaded on demand only, a reference   *)
(* to a cached page is never counted as a fault, a reference to any other  *)
(* page is counted exactly once, and a page leaves the cache only when the *)
(* cache is full and another page takes its frame.                         *)
(*                                                                         *)
(* The policies (LIRS2, ARC, ...) instantiate this module with a           *)
(* refinement mapping that reads `resident' off their own page table.      *)
(***************************************************************************)
EXTENDS Naturals, FiniteSets

CONSTANTS Page,       (* the page numbers a trace can mention              *)
          NULL,       (* "no page referenced yet" (last_ref_pg = -1)       *)
          Capacity,   (* mCacheMaxLimit: the number of frames              *)
          FaultMod    (* mPageFaultNum counts modulo this (uint32_t: 2^32) *)

VARIABLES resident,   (* the pages that occupy a frame                     *)
          faults,     (* mPageFaultNum                                     *)
          last        (* the page referenced last                          *)

vars == <<resident, faults, last>>

Init == resident = {} /\ faults = 0 /\ last = NULL

Hit(p) == /\ p \in resident
          /\ last' = p
          /\ UNCHANGED <<resident, faults>>

Fault(p) == /\ p \notin resident
            /\ last' = p
            /\ faults' = (faults + 1) % FaultMod

Load(p) == /\ Fault(p)
           /\ Cardinality(resident) < Capacity
           /\ resident' = resident \cup {p}

Replace(p, victim) == /\ Fault(p)
                      /\ Cardinality(resident) = Capacity
                      /\ resident' = (resident \ {victim}) \cup {p}

Next == \E p \in Page : \/ Hit(p)
                        \/ Load(p)
                        \/ \E victim \in resident : Replace(p, victim)

Spec == Init /\ [][Next]_vars
=============================================================================
