-------------------------------- MODULE LIRS --------------------------------
(***************************************************************************)
(* The LIRS replacement engine (src/src/replace_lirs_base.cc), from which  *)
(* LIRS2 was derived.  One step is one iteration of the loop in            *)
(* LIRS_Replace::Run, every helper it calls included; any page may be      *)
(* referenced next, in a cache of any of the sizes MemSizes.               *)
(*                                                                         *)
(* Every page owns one list node, so the two linked lists are sequences of *)
(* pages, the head first: S by LIRS_next / LIRS_prev (nothing ever leaves  *)
(* it) and Q by HIR_rsd_next / HIR_rsd_prev.  A step that would follow a   *)
(* NULL pointer ends with status = "segv".                                 *)
(*                                                                         *)
(* With one or two frames no frame is left for a LIR page; a promotion     *)
(* then enters a page into Q that may not be cached or is in Q already,    *)
(* which no sequence describes.  Those sizes are left out.                 *)
(***************************************************************************)
EXTENDS Integers, Sequences, FiniteSets, SequencesExt, FiniteSetsExt

CONSTANTS Page,           (* page numbers, 0..mVmSize                      *)
          NULL,           (* the null pointer; also "no last page" (-1)    *)
          MemSizes,       (* the values mem_size is given                  *)
          HIR_RATE,       (* percentage of frames for HIR pages; 1         *)
          LOWEST_HG_NUM,  (* least number of HIR frames; 2                 *)
          UINT_MOD        (* uint32_t counters wrap at this; 2^32          *)

ASSUME ConstantsAssumption ==
  /\ HIR_RATE \in 0 .. 99
  /\ LOWEST_HG_NUM \in Nat \ {0}
  /\ MemSizes \subseteq {n \in Nat : n > LOWEST_HG_NUM}
  /\ UINT_MOD \in Nat /\ \A n \in MemSizes : n < UINT_MOD
  /\ NULL \notin Page

VARIABLES mCacheMaxLimit, (* mem_size, chosen when the engine is built     *)
          mPageTable,     (* page -> isResident, isHIR_block, recency      *)
          S, Q,           (* the two lists, head first                     *)
          LIR_LRU_block_ptr, (* the LIR page lowest in S                   *)
          cur_lir_S_len,  (* number of pages in S at or above that page    *)
          mFreeMemSize, mPageFaultNum, num_LIR_pgs, last_ref_pg,
          status          (* "running", "segv" or "exit"                   *)

vars == <<mCacheMaxLimit, mPageTable, S, Q, LIR_LRU_block_ptr, cur_lir_S_len,
          mFreeMemSize, mPageFaultNum, num_LIR_pgs, last_ref_pg, status>>

(* The frames set aside for HIR pages: a rate with a minimum.              *)
HIR_block_portion_limit ==
  LET portion == (HIR_RATE * mCacheMaxLimit) \div 100
  IN  IF portion < LOWEST_HG_NUM THEN LOWEST_HG_NUM ELSE portion

PageFields == [isResident : BOOLEAN, isHIR_block : BOOLEAN, recency : BOOLEAN]

TypeOK ==
  /\ mCacheMaxLimit \in MemSizes
  /\ mPageTable \in [Page -> PageFields]
  /\ S \in Seq(Page) /\ Q \in Seq(Page)
  /\ LIR_LRU_block_ptr \in Page \cup {NULL}
  /\ cur_lir_S_len \in Nat
  /\ mFreeMemSize \in 0 .. mCacheMaxLimit
  /\ mPageFaultNum \in 0 .. UINT_MOD - 1
  /\ num_LIR_pgs \in Nat
  /\ last_ref_pg \in Page \cup {NULL}
  /\ status \in {"running", "segv", "exit"}

Init ==
  /\ mCacheMaxLimit \in MemSizes
  /\ mPageTable = [p \in Page |-> [isResident |-> FALSE, isHIR_block |-> TRUE,
                                   recency |-> FALSE]]
  /\ S = <<>> /\ Q = <<>>
  /\ LIR_LRU_block_ptr = NULL /\ cur_lir_S_len = 0
  /\ mFreeMemSize = mCacheMaxLimit
  /\ mPageFaultNum = 0 /\ num_LIR_pgs = 0
  /\ last_ref_pg = NULL
  /\ status = "running"

-----------------------------------------------------------------------------
(* The handler works on the state m it is halfway through changing; each   *)
(* operator below is a part of the handler and returns the state after it. *)

Pos(list, p) == CHOOSE i \in 1 .. Len(list) : list[i] = p

RemovePage(list, p) ==
  IF p \in Range(list) THEN RemoveAt(list, Pos(list, p)) ELSE list

(* Mutant: the pages the pointer passes keep their mark.                   *)
UnmarkNone(table, pages) == table

Unmark(table, pages) ==
  [p \in Page |-> IF p \in pages THEN [table[p] EXCEPT !.recency = FALSE]
                  ELSE table[p]]

(* findLastLirLru, called with LIR_LRU_block_ptr on the page at position i *)
(* of S (0: on NULL): the pointer moves towards the head to the first LIR  *)
(* page, and the HIR pages it passes lose their mark.                      *)
findLastLirLru(m, i) ==
  LET lirs == {j \in 1 .. i : ~m.table[m.S[j]].isHIR_block}
      to == Max(lirs)
  IN  IF i = 0 THEN [m EXCEPT !.status = "exit"]
      ELSE IF lirs = {} THEN [m EXCEPT !.status = "segv"]
      ELSE [m EXCEPT !.ptr = m.S[to],
                     !.len = m.len - (i - to),
                     !.table = Unmark(m.table, {m.S[j] : j \in to + 1 .. i})]

(* A page that is not in S is left alone.  (So is the only page in S, but  *)
(* that one was referenced last.)  The pointer leaves the page first.      *)
removeLIRSList(m, p) ==
  LET n == IF p = m.ptr THEN findLastLirLru(m, Pos(m.S, p) - 1) ELSE m
  IN  IF p \notin Range(m.S) THEN m ELSE [n EXCEPT !.S = RemovePage(m.S, p)]

(* The first page ever becomes the one LIR_LRU_block_ptr points to.        *)
addLruListHead(m, p) ==
  [m EXCEPT !.S = <<p>> \o m.S, !.ptr = IF m.S = <<>> THEN p ELSE m.ptr]

(* Lines 144-145: resident, and one more page in the stack unless it has   *)
(* been above LIR_LRU_block_ptr all along.                                 *)
EnterStack(m, p) ==
  [m EXCEPT !.table[p].isResident = TRUE,
            !.len = IF m.table[p].recency THEN m.len ELSE m.len + 1]

(* Mutant: the frames for HIR pages are forgotten.                         *)
AllFramesTaken(lirs) == lirs > mCacheMaxLimit

(* Line 254; the difference is unsigned.                                   *)
LIRFramesTaken(lirs) ==
  lirs > (mCacheMaxLimit - HIR_block_portion_limit) % UINT_MOD

(* Lines 250-263: the LIR page at the bottom makes room for p, unless      *)
(* there is a LIR frame to spare.                                          *)
Promote(m, p) ==
  LET up == [m EXCEPT !.table[p].isHIR_block = FALSE]
      down == [up EXCEPT !.Q = <<m.ptr>> \o m.Q,
                         !.table[m.ptr].isHIR_block = TRUE,
                         !.table[m.ptr].recency = FALSE]
  IN  IF LIRFramesTaken(m.num + 1) THEN findLastLirLru(down, Pos(m.S, m.ptr))
      ELSE [up EXCEPT !.num = m.num + 1]

(* Mutant: a page is promoted whether its mark is set or not.              *)
ClassifyAnyPage(m, p) ==
  IF m.table[p].isHIR_block THEN Promote(m, p) ELSE m

(* Lines 248-267.                                                          *)
Classify(m, p) ==
  LET page == m.table[p]
  IN  IF page.isHIR_block /\ page.recency THEN Promote(m, p)
      ELSE IF page.isHIR_block THEN [m EXCEPT !.Q = <<p>> \o m.Q]
      ELSE m

-----------------------------------------------------------------------------
(* The state at the start of the handler, with the page table, the queue   *)
(* and the number of LIR pages as the branches of lines 217-237 leave them.*)
Machine(table, queue, lirs) ==
  [table |-> table, S |-> S, Q |-> queue, ptr |-> LIR_LRU_block_ptr,
   len |-> cur_lir_S_len, num |-> lirs, status |-> "running"]

(* The rest of the iteration, lines 239-269, unless the program has ended; *)
(* a step that ends it leaves no other trace.                              *)
Touch(p, machine) ==
  LET Live(m, next) == IF m.status = "running" THEN next ELSE m
      unlinked == Live(machine, removeLIRSList(machine, p))
      placed == EnterStack(addLruListHead(unlinked, p), p)
      m == Live(unlinked, Classify(placed, p))
  IN  /\ status' = m.status
      /\ IF m.status = "running"
         THEN /\ mPageTable' = [m.table EXCEPT ![p].recency = TRUE]
              /\ S' = m.S /\ Q' = m.Q
              /\ LIR_LRU_block_ptr' = m.ptr /\ cur_lir_S_len' = m.len
              /\ num_LIR_pgs' = m.num
              /\ last_ref_pg' = p
         ELSE UNCHANGED <<mPageTable, S, Q, LIR_LRU_block_ptr, cur_lir_S_len,
                          num_LIR_pgs, last_ref_pg>>

Stopped == status' # "running"

(* Counters of the branches; a crash further down leaves them as they were.*)
Count(free, faults) ==
  /\ mFreeMemSize' = IF Stopped THEN mFreeMemSize ELSE free
  /\ mPageFaultNum' = IF Stopped THEN mPageFaultNum ELSE faults

Faulted == (mPageFaultNum + 1) % UINT_MOD

Miss(p) == ~mPageTable[p].isResident

(* Lines 220-228: the page at the tail of Q gives its frame; with an empty *)
(* queue HIR_list_tail is NULL.                                            *)
Evicted ==
  IF Q = <<>> THEN [Machine(mPageTable, Q, num_LIR_pgs) EXCEPT !.status = "segv"]
  ELSE Machine([mPageTable EXCEPT ![Last(Q)].isResident = FALSE],
               Front(Q), num_LIR_pgs)

MissEvict(p) == /\ Miss(p) /\ mFreeMemSize = 0
                /\ Touch(p, Evicted)
                /\ Count(0, Faulted)

(* Lines 229-232: the cache warms up with LIR pages.                       *)
MissLoadLIR(p) ==
  /\ Miss(p) /\ mFreeMemSize > HIR_block_portion_limit
  /\ Touch(p, Machine([mPageTable EXCEPT ![p].isHIR_block = FALSE],
                      Q, num_LIR_pgs + 1))
  /\ Count(mFreeMemSize - 1, Faulted)

(* Mutant: a page is also loaded when there is no free frame.              *)
MissLoadHIRAlways(p) ==
  /\ Miss(p) /\ mFreeMemSize <= HIR_block_portion_limit
  /\ Touch(p, Machine(mPageTable, Q, num_LIR_pgs))
  /\ Count(mFreeMemSize - 1, Faulted)

(* The frames left over take HIR pages.                                    *)
MissLoadHIR(p) ==
  /\ Miss(p) /\ mFreeMemSize \in 1 .. HIR_block_portion_limit
  /\ Touch(p, Machine(mPageTable, Q, num_LIR_pgs))
  /\ Count(mFreeMemSize - 1, Faulted)

(* Mutant: the page that was hit stays in the queue.                       *)
HitHIRStaysInQ(p) ==
  /\ ~Miss(p) /\ mPageTable[p].isHIR_block
  /\ Touch(p, Machine(mPageTable, Q, num_LIR_pgs))
  /\ Count(mFreeMemSize, mPageFaultNum)

(* Lines 235-237.                                                          *)
HitHIR(p) ==
  /\ ~Miss(p) /\ mPageTable[p].isHIR_block
  /\ Touch(p, Machine(mPageTable, RemovePage(Q, p), num_LIR_pgs))
  /\ Count(mFreeMemSize, mPageFaultNum)

HitLIR(p) ==
  /\ ~Miss(p) /\ ~mPageTable[p].isHIR_block
  /\ Touch(p, Machine(mPageTable, Q, num_LIR_pgs))
  /\ Count(mFreeMemSize, mPageFaultNum)

(* Repeated references are skipped.                                        *)
Next == /\ status = "running"
        /\ UNCHANGED mCacheMaxLimit
        /\ \E p \in Page \ {last_ref_pg} :
             \/ MissEvict(p) \/ MissLoadLIR(p) \/ MissLoadHIR(p)
             \/ HitHIR(p) \/ HitLIR(p)

Spec == Init /\ [][Next]_vars

-----------------------------------------------------------------------------
(* Correctness *)

Resident == {p \in Page : mPageTable[p].isResident}
LIRs     == {p \in Page : ~mPageTable[p].isHIR_block}

(* Frames are neither lost nor used twice: the resident pages and the free *)
(* frames add up; Q holds exactly the resident HIR pages, once each, so a  *)
(* full cache always has a victim; LIR pages are cached, counted, and      *)
(* fill their share once the cache is past its warm-up (lines 217-267).    *)
FramesAccounted ==
  /\ Cardinality(Resident) + mFreeMemSize = mCacheMaxLimit
  /\ Range(Q) = Resident \ LIRs
  /\ Len(Q) = Cardinality(Range(Q))
  /\ LIRs \subseteq Resident
  /\ num_LIR_pgs = Cardinality(LIRs)
  /\ mFreeMemSize <= HIR_block_portion_limit =>
       num_LIR_pgs = mCacheMaxLimit - HIR_block_portion_limit

(* The mark of a page is set exactly while it is in the stack proper, that *)
(* is at or above the lowest LIR page of S; LIR_LRU_block_ptr points to    *)
(* that page and cur_lir_S_len counts the marks.  Set and cleared at       *)
(* lines 105, 257 and 269, far from where they are used (line 250).        *)
MarksMatchStack ==
  S # <<>> =>
    LET bottom == Pos(S, LIR_LRU_block_ptr)
    IN  /\ bottom = Max({i \in 1 .. Len(S) : S[i] \in LIRs})
        /\ {p \in Page : mPageTable[p].recency} = {S[i] : i \in 1 .. bottom}
        /\ cur_lir_S_len = bottom

(* The walk of lines 104-108 has no end test and line 225 no test for an   *)
(* empty queue.  Neither ends the program in a cache with frames for two   *)
(* LIR pages or more.                                                      *)
StopsOnlyWithOneLIRFrame ==
  status # "running" => mCacheMaxLimit - HIR_block_portion_limit = 1

(* The refinement mapping.                                                 *)
Policy == INSTANCE LIRSPolicy WITH
            FaultMod <- UINT_MOD, frames <- mCacheMaxLimit,
            hirFrames <- HIR_block_portion_limit,
            hist <- S, lir <- LIRs, queue <- Q,
            faults <- mPageFaultNum, last <- last_ref_pg

(* Marks, pointer and counter implement the policy: the page the engine    *)
(* promotes, demotes or evicts is the one the recency order names.         *)
FollowsPolicy == Policy!Spec
=============================================================================
