---------------------------- MODULE LIRS2Policy ----------------------------
(***************************************************************************)
(* The LIRS2 policy without its machinery: no nodes, instance numbers,     *)
(* Rmax pointers, Cursor, recency marks or length counters.  The recency   *)
(* history alone decides: a sequence of pages, the latest reference first, *)
(* in which every page seen so far stands twice, at its last reference and *)
(* at the one before (right below the first while it is the only one).     *)
(*                                                                         *)
(* A page that is not LIR becomes LIR when it is referenced again and its  *)
(* older entry is a real reference above the older entries of every LIR    *)
(* page; the LIR page whose older entry is the lowest makes room for it.   *)
(***************************************************************************)
EXTENDS Integers, Sequences, FiniteSets, SequencesExt, FiniteSetsExt

CONSTANTS Page, NULL,
          Capacity,   (* frames                                            *)
          HIRFrames,  (* frames set aside for the pages that are not LIR   *)
          Depth,      (* entries the history keeps above the LIR bottom    *)
          FaultMod

VARIABLES hist,       (* pages by recency of their last two references     *)
          once,       (* pages referenced once so far                      *)
          lir,        (* the LIR pages                                     *)
          queue,      (* the other cached pages, the next to leave last    *)
          faults, last

vars == <<hist, once, lir, queue, faults, last>>

Init == /\ hist = <<>> /\ once = {} /\ lir = {} /\ queue = <<>>
        /\ faults = 0 /\ last = NULL

Cached == lir \cup Range(queue)
Free   == Capacity - Cardinality(Cached)

Pos(list, p) == CHOOSE i \in 1 .. Len(list) : list[i] = p

Without(list, p) ==
  IF p \in Range(list) THEN RemoveAt(list, Pos(list, p)) ELSE list

Older(h, p) == Max({i \in 1 .. Len(h) : h[i] = p})

(* The lowest older entry of a LIR page; the region above it is the stack. *)
Bottom(h, l) == IF l = {} THEN 0 ELSE Max({Older(h, p) : p \in l})

(* p is referenced: its older entry moves to the top.                      *)
Refresh(h, p) == IF p \notin Range(h) THEN <<p, p>> \o h
                 ELSE <<p>> \o RemoveAt(h, Older(h, p))

(* A region that has outgrown Depth loses its lowest entry of a page that  *)
(* is not LIR, which sinks right below the region.                         *)
Sink(h, l) ==
  LET bottom == Bottom(h, l)
      i == Max({j \in 1 .. bottom : h[j] \notin l})
  IN  IF bottom <= Depth THEN h
      ELSE RemoveAt(InsertAt(h, bottom + 1, h[i]), i)

Trim(h, l) == Sink(Sink(h, l), l)

Promotable(p) == /\ p \in Range(hist) \ once
                 /\ Older(hist, p) < Bottom(hist, lir)

(* The history, the LIR set and the queue after a reference to p, given    *)
(* the LIR set l and the queue q once p has its frame.                     *)
Place(p, l, q) ==
  LET h == Refresh(hist, p)
      bottomPage == h[Bottom(h, l)]
      newLir == IF p \in l THEN l
                ELSE IF Promotable(p) THEN (l \ {bottomPage}) \cup {p} ELSE l
  IN  /\ lir' = newLir
      /\ queue' = IF p \in l THEN q
                  ELSE IF Promotable(p) THEN <<bottomPage>> \o q
                  ELSE <<p>> \o q
      /\ hist' = Trim(h, newLir)
      /\ once' = IF p \in Range(hist) THEN once \ {p} ELSE once \cup {p}

Hit(p) == /\ p \in Cached
          /\ Place(p, lir, Without(queue, p))
          /\ UNCHANGED faults

Fault(p) == /\ p \notin Cached
            /\ faults' = (faults + 1) % FaultMod

LoadAsLIR(p) == Fault(p) /\ Free > HIRFrames /\ Place(p, lir \cup {p}, queue)

Load(p)  == Fault(p) /\ Free \in 1 .. HIRFrames /\ Place(p, lir, queue)

Evict(p) == Fault(p) /\ Free = 0 /\ queue # <<>> /\ Place(p, lir, Front(queue))

Next == \E p \in Page : /\ p # last
                        /\ last' = p
                        /\ Hit(p) \/ LoadAsLIR(p) \/ Load(p) \/ Evict(p)

Spec == Init /\ [][Next]_vars
=============================================================================
