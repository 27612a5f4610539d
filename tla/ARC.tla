-------------------------------- MODULE ARC --------------------------------
(***************************************************************************)
(* The ARC replacement engine (src/src/replace_arc.cc).  One step is one   *)
(* iteration of the loop in ARC_Replace::Run.  The four copies of every    *)
(* list function (T1, B1, T2, B2) are one operator with the list's name as *)
(* a parameter; a doubly linked list is a sequence, its head (MRU) first.  *)
(* The block types T1_BLK ... B2_BLK are the list names, NO_BLK is "NO".   *)
(*                                                                         *)
(* A failed check of the program ends it: status = "exit".                 *)
(***************************************************************************)
EXTENDS Integers, Sequences, FiniteSets, SequencesExt

CONSTANTS Page, NULL,
          mCacheMaxLimit,   (* mem_size                                    *)
          UINT_MOD,         (* uint32_t: 2^32                              *)
          DELTA_MOD         (* uint16_t delta: 2^16                        *)

ASSUME ConstantsAssumption ==
  /\ mCacheMaxLimit \in Nat \ {0}
  /\ UINT_MOD \in Nat /\ UINT_MOD > 2 * mCacheMaxLimit
  /\ DELTA_MOD \in Nat \ {0}
  /\ NULL \notin Page

Cached == {"T1", "T2"}
Ghost  == {"B1", "B2"}
List   == Cached \cup Ghost

VARIABLES list,         (* the four lists                                  *)
          size,         (* T1_size, T2_size, B1_size, B2_size              *)
          block_type,   (* the list the page table says a page is in       *)
          isResident,
          p,            (* the target size of T1                           *)
          mPageFaultNum, last_ref_pg, status

vars == <<list, size, block_type, isResident, p, mPageFaultNum, last_ref_pg,
          status>>

TypeOK == /\ list \in [List -> Seq(Page)]
          /\ size \in [List -> 0 .. 2 * mCacheMaxLimit]
          /\ block_type \in [Page -> List \cup {"NO"}]
          /\ isResident \in [Page -> BOOLEAN]
          /\ p \in 0 .. mCacheMaxLimit
          /\ mPageFaultNum \in 0 .. UINT_MOD - 1
          /\ last_ref_pg \in Page \cup {NULL}
          /\ status \in {"running", "exit"}

Init == /\ list = [L \in List |-> <<>>]
        /\ size = [L \in List |-> 0]
        /\ block_type = [g \in Page |-> "NO"]
        /\ isResident = [g \in Page |-> FALSE]
        /\ p = 0 /\ mPageFaultNum = 0
        /\ last_ref_pg = NULL
        /\ status = "running"

-----------------------------------------------------------------------------
(* The list functions, on the state m the handler is halfway through.      *)

Machine == [list |-> list, size |-> size, type |-> block_type,
            resident |-> isResident, failed |-> FALSE]

Check(m, condition) == [m EXCEPT !.failed = @ \/ ~condition]

Pos(seq, g) == CHOOSE i \in 1 .. Len(seq) : seq[i] = g

(* Mutant: an evicted page is still called resident (lines 152, 186).      *)
UnlinkStaysResident(m, L, g) ==
  [m EXCEPT !.list[L] = RemoveAt(@, Pos(@, g)),
            !.size[L] = @ - 1,
            !.type[g] = "NO"]

(* Page g leaves list L.                                                   *)
Unlink(m, L, g) ==
  [m EXCEPT !.list[L] = RemoveAt(@, Pos(@, g)),
            !.size[L] = @ - 1,
            !.type[g] = "NO",
            !.resident[g] = @ /\ L \in Ghost]

(* del_T1_LRU and its copies: nothing to delete is only a message.         *)
del_LRU(m, L) ==
  IF m.list[L] = <<>> THEN m
  ELSE Unlink(Check(m, Len(m.list[L]) = 1 => m.size[L] = 1),
              L, Last(m.list[L]))

(* move_from_T1 and its copies; the links of g must be those of L.         *)
move_from(m, L, g) ==
  Unlink(Check(m, /\ m.type[g] = L /\ g \in Range(m.list[L])
                  /\ L \in Ghost => ~m.resident[g]), L, g)

(* Mutant: the page enters at the tail of the list.                        *)
add_LRU(m, L, g) ==
  [m EXCEPT !.list[L] = Append(@, g),
            !.size[L] = @ + 1,
            !.type[g] = L,
            !.resident[g] = @ \/ L \in Cached]

(* add_T1_MRU and its copies.                                              *)
add_MRU(m, L, g) ==
  [Check(m, m.list[L] = <<>> => m.size[L] = 0) EXCEPT
     !.list[L] = <<g>> \o @,
     !.size[L] = @ + 1,
     !.type[g] = L,
     !.resident[g] = @ \/ L \in Cached]

(* Mutant: the evicted page is forgotten (lines 350, 353 missing).         *)
Forget(m, L, G) == del_LRU(m, L)

(* The LRU page of the cached list L becomes the MRU page of ghost list G; *)
(* with L empty the NULL that del_LRU returned fails the check of add_MRU. *)
Demote(m, L, G) == IF m.list[L] = <<>> THEN Check(m, FALSE)
                   ELSE add_MRU(del_LRU(m, L), G, Last(m.list[L]))

(* Mutant: T1 may be empty (first conjunct of line 348 missing).           *)
replaceFromEmpty(m, g, target) ==
  IF \/ m.size["T1"] > target
     \/ m.type[g] = "B2" /\ m.size["T1"] = target
  THEN Demote(m, "T1", "B1")
  ELSE Demote(m, "T2", "B2")

(* Forces the size of T1 towards the target.                               *)
replace(m, g, target) ==
  IF /\ m.size["T1"] > 0
     /\ \/ m.size["T1"] > target
        \/ m.type[g] = "B2" /\ m.size["T1"] = target
  THEN Demote(m, "T1", "B1")
  ELSE Demote(m, "T2", "B2")

Install(m) == /\ list' = m.list /\ size' = m.size
              /\ block_type' = m.type /\ isResident' = m.resident
              /\ status' = IF m.failed THEN "exit" ELSE "running"

MIN(a, b) == IF a <= b THEN a ELSE b

(* How far a hit in ghost list G moves the target, other being the other   *)
(* ghost list; uint16_t keeps the low 16 bits.                             *)
delta(G, other) ==
  IF size[G] >= size[other] THEN 1 ELSE (size[other] \div size[G]) % DELTA_MOD

-----------------------------------------------------------------------------
(* One reference; an immediate repetition of the last page is skipped.     *)

Refer(g) == status = "running" /\ g # last_ref_pg /\ last_ref_pg' = g

Fault(g) == Refer(g) /\ mPageFaultNum' = (mPageFaultNum + 1) % UINT_MOD

(* Case I: a hit in T1 or T2 moves the page to the head of T2.             *)
CaseI(g) ==
  /\ Refer(g)
  /\ block_type[g] \in Cached
  /\ Install(add_MRU(move_from(Check(Machine, isResident[g]),
                               block_type[g], g), "T2", g))
  /\ UNCHANGED <<p, mPageFaultNum>>

(* Cases II and III: the page is in ghost list G; the target moves before  *)
(* room is made.                                                           *)
GhostHit(g, G, target) ==
  /\ Fault(g)
  /\ block_type[g] = G
  /\ p' = target
  /\ Install(add_MRU(move_from(replace(Machine, g, target), G, g), "T2", g))

(* Mutant: the target is not capped (MIN missing in line 591).             *)
CaseIIUncapped(g) ==
  GhostHit(g, "B1", (p + delta("B1", "B2")) % UINT_MOD)

CaseII(g) ==
  GhostHit(g, "B1", MIN((p + delta("B1", "B2")) % UINT_MOD, mCacheMaxLimit))

(* The subtraction is unsigned and MIN with 0 is 0: the target is reset.   *)
CaseIII(g) == GhostHit(g, "B2", MIN((p - delta("B2", "B1")) % UINT_MOD, 0))

NewPage(g) == Fault(g) /\ block_type[g] = "NO" /\ UNCHANGED p

InL1 == size["T1"] + size["B1"]

(* Mutants: one list is left out of the sum of line 636.                   *)
InDirectoryButB2 == InL1 + size["T2"]
InDirectoryButT2 == InL1 + size["B2"]
InDirectory == InL1 + size["T2"] + size["B2"]

(* Case IV, A: T1 and B1 together are full.                                *)
CaseIV_A(g) ==
  /\ NewPage(g)
  /\ InL1 = mCacheMaxLimit
  /\ LET room == IF size["T1"] < mCacheMaxLimit
                 THEN replace(del_LRU(Machine, "B1"), g, p)
                 ELSE del_LRU(Check(Machine, size["B1"] = 0), "T1")
     IN  Install(add_MRU(room, "T1", g))

(* Case IV, B.                                                             *)
CaseIV_B(g) ==
  /\ NewPage(g)
  /\ InL1 # mCacheMaxLimit
  /\ LET m == Check(Machine, InL1 < mCacheMaxLimit)
         trimmed == IF InDirectory = 2 * mCacheMaxLimit
                    THEN del_LRU(m, "B2") ELSE m
         room == IF InDirectory >= mCacheMaxLimit
                 THEN replace(trimmed, g, p) ELSE m
     IN  Install(add_MRU(room, "T1", g))

Next == \E g \in Page : \/ CaseI(g)
                        \/ CaseII(g)
                        \/ CaseIII(g)
                        \/ CaseIV_A(g)
                        \/ CaseIV_B(g)

Spec == Init /\ [][Next]_vars

-----------------------------------------------------------------------------
(* Properties *)

(* A page is in the list its block_type names and in no other, at most     *)
(* once; the size counters count; exactly the pages of T1 and T2 are       *)
(* resident (lines 45-342, 359-526).                                       *)
ListsAgree ==
  /\ \A L \in List : /\ IsInjective(list[L])
                     /\ size[L] = Len(list[L])
                     /\ Range(list[L]) = {g \in Page : block_type[g] = L}
  /\ \A g \in Page : isResident[g] <=> block_type[g] \in Cached

(* The directory keeps its shape: the cache holds at most c pages, T1 with *)
(* its ghosts at most c, everything at most 2c, and while any ghost is     *)
(* remembered the cache is full, so that a ghost hit always has a page to  *)
(* demote (lines 571-643).                                                 *)
DirectoryBounded ==
  /\ size["T1"] + size["T2"] <= mCacheMaxLimit
  /\ size["T1"] + size["B1"] <= mCacheMaxLimit
  /\ size["T1"] + size["T2"] + size["B1"] + size["B2"] <= 2 * mCacheMaxLimit
  /\ size["B1"] + size["B2"] > 0 =>
       size["T1"] + size["T2"] = mCacheMaxLimit

(* None of the program's own checks fails: "CASEA Error", "CASEB Error",   *)
(* a NULL from an empty list, a size that does not fit (lines 46-53, 144-  *)
(* 161, 206-228, 360-374, 574, 622, 632).                                  *)
NeverExits == status = "running"

Cache == INSTANCE DemandCache WITH
  Capacity <- mCacheMaxLimit,
  FaultMod <- UINT_MOD,
  resident <- {g \in Page : isResident[g]},
  faults   <- mPageFaultNum,
  last     <- last_ref_pg

(* ARC is a demand cache: it loads on a fault only, evicts one page per    *)
(* fault and only when all frames are taken (Run, with every helper).      *)
ImplementsCache == Cache!Spec
=============================================================================
