----------------------------- MODULE LRUPolicy ------------------------------
(***************************************************************************)
(* Least recently used, without a linked list: the cached pages in the     *)
(* order of their last references.  The last one is replaced.              *)
(***************************************************************************)
EXTENDS Naturals, Sequences, SequencesExt

CONSTANTS Page, NULL, FaultMod

VARIABLES frames,  (* the number of frames; never changes                  *)
          order,   (* the cached pages, the latest reference first         *)
          faults,
          last     (* the page referenced last                             *)

vars == <<frames, order, faults, last>>

Init == order = <<>> /\ faults = 0 /\ last = NULL

Pos(p) == CHOOSE i \in 1 .. Len(order) : order[i] = p

Others(p) == RemoveAt(order, Pos(p))

Hit(p) == /\ p \in Range(order)
          /\ order' = <<p>> \o Others(p)
          /\ UNCHANGED faults

Fault(p) == p \notin Range(order) /\ faults' = (faults + 1) % FaultMod

Load(p) == Fault(p) /\ Len(order) < frames /\ order' = <<p>> \o order

Replace(p) == /\ Fault(p)
              /\ Len(order) = frames
              /\ order' = <<p>> \o Front(order)

Next == /\ UNCHANGED frames
        /\ \E p \in Page : /\ last' = p
                           /\ Hit(p) \/ Load(p) \/ Replace(p)

Spec == Init /\ [][Next]_vars
=============================================================================
