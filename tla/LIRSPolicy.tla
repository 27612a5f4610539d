----------------------------- MODULE LIRSPolicy -----------------------------
(***************************************************************************)
(* The LIRS policy without its machinery: no recency marks, no Rmax        *)
(* pointer, no length counter.  The recency order alone decides.  A page   *)
(* that is not LIR becomes LIR when it is referenced while its previous    *)
(* reference is more recent than that of some LIR page; the LIR page       *)
(* referenced longest ago makes room for it.                               *)
(***************************************************************************)
EXTENDS Integers, Sequences, FiniteSets, SequencesExt, FiniteSetsExt

CONSTANTS Page, NULL, FaultMod

VARIABLES frames,     (* the number of frames; never changes               *)
          hirFrames,  (* those set aside for the pages that are not LIR    *)
          hist,       (* pages by recency, the latest reference first      *)
          lir,        (* the LIR pages                                     *)
          queue,      (* the other cached pages, the next to leave last    *)
          faults, last

vars == <<frames, hirFrames, hist, lir, queue, faults, last>>

Init == /\ hist = <<>> /\ lir = {} /\ queue = <<>>
        /\ faults = 0 /\ last = NULL

Cached == lir \cup Range(queue)
Free   == frames - Cardinality(Cached)

Pos(list, p) == CHOOSE i \in 1 .. Len(list) : list[i] = p

Without(list, p) ==
  IF p \in Range(list) THEN RemoveAt(list, Pos(list, p)) ELSE list

(* The order after a reference to p: the LIRS stack and what lies below.   *)
Refresh(p) == <<p>> \o Without(hist, p)

Before(p, q) == \E i, j \in 1 .. Len(hist) : /\ i < j
                                             /\ hist[i] = p
                                             /\ hist[j] = q

Promotable(p) == \E q \in lir : Before(p, q)

Oldest == CHOOSE q \in lir : \A r \in lir \ {q} : Before(r, q)

(* p has its frame; l and q are the LIR pages and the queue so far.        *)
Place(p, l, q) ==
  /\ hist' = Refresh(p)
  /\ \/ p \in l /\ lir' = l /\ queue' = q
     \/ /\ p \notin l /\ Promotable(p)
        /\ lir' = (l \ {Oldest}) \cup {p}
        /\ queue' = <<Oldest>> \o q
     \/ p \notin l /\ ~Promotable(p) /\ lir' = l /\ queue' = <<p>> \o q

Hit(p) == /\ p \in Cached
          /\ Place(p, lir, Without(queue, p))
          /\ UNCHANGED faults

Fault(p) == p \notin Cached /\ faults' = (faults + 1) % FaultMod

LoadAsLIR(p) == Fault(p) /\ Free > hirFrames /\ Place(p, lir \cup {p}, queue)

Load(p)  == Fault(p) /\ Free \in 1 .. hirFrames /\ Place(p, lir, queue)

Evict(p) == Fault(p) /\ Free = 0 /\ queue # <<>> /\ Place(p, lir, Front(queue))

Next == \E p \in Page : /\ p # last
                        /\ last' = p
                        /\ Hit(p) \/ LoadAsLIR(p) \/ Load(p) \/ Evict(p)
                        /\ UNCHANGED <<frames, hirFrames>>

Spec == Init /\ [][Next]_vars
=============================================================================
