------------------------------- MODULE LIRS2 -------------------------------
(***************************************************************************)
(* The LIRS2 replacement engine (src/src/replace_lirs2.cc).  One step of   *)
(* the specification is one iteration of the loop in LIRS2_Replace::Run:   *)
(* the handling of one reference of the trace, every helper it calls       *)
(* included.  Traces are not fixed: any page may be referenced next.       *)
(*                                                                         *)
(* Each page owns two list nodes, its entries in mPageTable1 and           *)
(* mPageTable2: node <<p, t>> is the entry of page p in table t.  The two  *)
(* doubly linked lists are sequences of nodes, the head first:             *)
(*   S  the LIRS stack (LIRS_next / LIRS_prev), every node ever pushed;    *)
(*   Q  the resident HIR queue (HIR_rsd_next / HIR_rsd_prev).              *)
(* A pointer is a node or NULL.  A step that would follow a NULL pointer   *)
(* ends with status = "segv" and nothing happens after it.                 *)
(*                                                                         *)
(* Left out: cur_ins1_rmax1_len, cur_ins2_rmax2_len, LRU_list_tail and the *)
(* eviction log, which the program writes and never reads.  The asserts    *)
(* are compiled out of the default release build (-DNDEBUG), so they do    *)
(* not stop a step here; AssertionsHold states them.                       *)
(***************************************************************************)
EXTENDS Integers, Sequences, FiniteSets, SequencesExt, FiniteSetsExt

CONSTANTS Page,           (* page numbers, 0..mVmSize                      *)
          NULL,           (* the null pointer; also "no last page" (-1)    *)
          mCacheMaxLimit, (* mem_size, the number of page frames           *)
          HIR_RATE,       (* percentage of frames for HIR pages; 1         *)
          LOWEST_HG_NUM,  (* least number of HIR frames; 4 in the code     *)
          MAX_S_LEN,      (* stack length limit; 8 * mem_size in the code  *)
          UINT_MOD        (* uint32_t counters wrap at this; 2^32          *)

Node == Page \X {1, 2}

ASSUME ConstantsAssumption ==
  /\ mCacheMaxLimit \in Nat \ {0}
  /\ HIR_RATE \in Nat
  /\ LOWEST_HG_NUM \in Nat \ {0}
  /\ MAX_S_LEN \in Nat
  /\ UINT_MOD \in Nat \ {0}
  /\ NULL \notin Page
  /\ NULL \notin Node

(* The frames set aside for HIR pages: a rate with a minimum.              *)
HIR_block_portion_limit ==
  LET portion == (HIR_RATE * mCacheMaxLimit) \div 100
  IN  IF portion < LOWEST_HG_NUM THEN LOWEST_HG_NUM ELSE portion

VARIABLES mPageTable,     (* page -> isResident, isHIR_block               *)
          inst,           (* node -> the fields of its page_struct         *)
          S, Q,           (* the two lists, head first                     *)
          Rmax1, Rmax2,   (* lowest LIR node of each instance number       *)
          Cursor,         (* where the stack pruning resumes               *)
          cur_lir_S_len,  (* number of nodes at or above Rmax2             *)
          mFreeMemSize, mPageFaultNum, num_LIR_pgs, last_ref_pg,
          status          (* "running", or "segv": a NULL was followed     *)

vars == <<mPageTable, inst, S, Q, Rmax1, Rmax2, Cursor, cur_lir_S_len,
          mFreeMemSize, mPageFaultNum, num_LIR_pgs, last_ref_pg, status>>

InstanceFields == [which_instance : 0 .. 2, fake_ins : BOOLEAN,
                   recency1 : BOOLEAN, recency2 : BOOLEAN]

TypeOK ==
  /\ mPageTable \in [Page -> [isResident : BOOLEAN, isHIR_block : BOOLEAN]]
  /\ inst \in [Node -> InstanceFields]
  /\ S \in Seq(Node) /\ Q \in Seq(Node)
  /\ {Rmax1, Rmax2, Cursor} \subseteq Node \cup {NULL}
  /\ cur_lir_S_len \in Int
  /\ mFreeMemSize \in 0 .. mCacheMaxLimit
  /\ mPageFaultNum \in 0 .. UINT_MOD - 1
  /\ num_LIR_pgs \in Nat
  /\ last_ref_pg \in Page \cup {NULL}
  /\ status \in {"running", "segv"}

Init ==
  /\ mPageTable = [p \in Page |-> [isResident |-> FALSE, isHIR_block |-> TRUE]]
  /\ inst = [n \in Node |-> [which_instance |-> 0, fake_ins |-> TRUE,
                             recency1 |-> FALSE, recency2 |-> FALSE]]
  /\ S = <<>> /\ Q = <<>>
  /\ Rmax1 = NULL /\ Rmax2 = NULL /\ Cursor = NULL
  /\ cur_lir_S_len = 0
  /\ mFreeMemSize = mCacheMaxLimit
  /\ mPageFaultNum = 0 /\ num_LIR_pgs = 0
  /\ last_ref_pg = NULL
  /\ status = "running"

-----------------------------------------------------------------------------
(* Lists *)

Pos(list, n) == CHOOSE i \in 1 .. Len(list) : list[i] = n

(* The neighbour towards the head: ->LIRS_prev.                            *)
Above(list, n) == IF Pos(list, n) = 1 THEN NULL ELSE list[Pos(list, n) - 1]

RemoveNode(list, n) == RemoveAt(list, Pos(list, n))

(* insertLRUList: n becomes the neighbour of `at' away from the head.      *)
InsertBelow(list, n, at) == InsertAt(list, Pos(list, at) + 1, n)

pointerInstance(p, k) ==
  IF inst[<<p, 1>>].which_instance = k THEN <<p, 1>>
  ELSE IF inst[<<p, 2>>].which_instance = k THEN <<p, 2>> ELSE NULL

(* The node of page p in Q, found by its links: a node with no neighbour   *)
(* is taken to be the only one in Q, whichever page that one belongs to.   *)
findInstanceInQ(p) ==
  LET linked(n) == n \in Range(Q) /\ Len(Q) > 1
  IN  IF linked(<<p, 2>>) THEN <<p, 2>>
      ELSE IF linked(<<p, 1>>) THEN <<p, 1>> ELSE Head(Q)

-----------------------------------------------------------------------------
(* The handler works on the state m it is halfway through changing; each   *)
(* operator below is a part of the handler and returns the state after it. *)

Machine(table, queue, lirs) ==
  [table |-> table, Q |-> queue, lirs |-> lirs, S |-> S, inst |-> inst,
   Rmax1 |-> Rmax1, Rmax2 |-> Rmax2, Cursor |-> Cursor,
   len |-> cur_lir_S_len, segv |-> FALSE]

IsLIR(m, n) == ~m.table[n[1]].isHIR_block

(* Where the walk towards the head from node n stops: the first LIR node   *)
(* above n with instance number k, NULL when the walk runs off the list.   *)
WalkEnd(m, n, k) ==
  LET found == {i \in 1 .. Pos(m.S, n) - 1 :
                  IsLIR(m, m.S[i]) /\ m.inst[m.S[i]].which_instance = k}
  IN  IF found = {} THEN NULL ELSE m.S[Max(found)]

(* The nodes such a walk leaves behind.                                    *)
Passed(m, from, to) == {m.S[i] : i \in Pos(m.S, to) + 1 .. Pos(m.S, from)}

findLastLirLru1(m) ==
  LET to == WalkEnd(m, m.Rmax1, 1)
      passed == Passed(m, m.Rmax1, to)
  IN  IF to = NULL THEN [m EXCEPT !.segv = TRUE]
      ELSE [m EXCEPT
             !.Rmax1 = to,
             !.inst = [n \in Node |-> IF n \in passed
                                      THEN [m.inst[n] EXCEPT !.recency1 = FALSE]
                                      ELSE m.inst[n]]]

findLastLirLru2(m) ==
  LET to == WalkEnd(m, m.Rmax2, 2)
      passed == Passed(m, m.Rmax2, to)
  IN  IF to = NULL THEN [m EXCEPT !.segv = TRUE]
      ELSE [m EXCEPT
             !.Rmax2 = to, !.Cursor = to,
             !.len = m.len - Cardinality(passed),
             !.inst = [n \in Node |-> IF n \in passed
                                      THEN [m.inst[n] EXCEPT !.recency2 = FALSE]
                                      ELSE m.inst[n]]]

(* The pruned node leaves both regions; the mutant forgets line 236.        *)
UnmarkHalf(i) == [i EXCEPT !.recency1 = FALSE]
Unmark(i)     == [i EXCEPT !.recency1 = FALSE, !.recency2 = FALSE]

(* One turn of the pruning loop: the first HIR node at or above Cursor is  *)
(* taken out of the region above Rmax2 and put right below Rmax2.          *)
PruneOnce(m) ==
  LET hir == IF m.Cursor = NULL THEN {}
             ELSE {i \in 1 .. Pos(m.S, m.Cursor) : ~IsLIR(m, m.S[i])}
      n == m.S[Max(hir)]
  IN  IF m.segv \/ m.len <= MAX_S_LEN THEN m
      ELSE IF hir = {} THEN [m EXCEPT !.segv = TRUE]
      ELSE [m EXCEPT
             !.Cursor = Above(m.S, n),
             !.inst[n] = Unmark(@),
             !.S = InsertBelow(RemoveNode(m.S, n), n, m.Rmax2),
             !.len = m.len - 1]

(* A reference adds at most two nodes to a stack within its limit, so the  *)
(* loop turns at most twice; were a third turn needed, StackBounded would  *)
(* fail.                                                                   *)
pruneLIRSstack(m) == PruneOnce(PruneOnce(m))

-----------------------------------------------------------------------------
(* The stack part of the handler *)

(* Both nodes of p enter at the head, node 1 last; the mutant swaps them.   *)
PushSwapped(list, p) == <<<<p, 2>>, <<p, 1>>>> \o list
PushBoth(list, p)    == <<<<p, 1>>, <<p, 2>>>> \o list

(* First reference to p: both nodes enter, the lower one fake.             *)
FirstTouch(m, p) ==
  LET n1 == <<p, 1>>
      n2 == <<p, 2>>
      initial == m.Rmax2 = NULL
      entered == [m.inst EXCEPT
                   ![n1] = [which_instance |-> 1, fake_ins |-> FALSE,
                            recency1 |-> TRUE, recency2 |-> TRUE],
                   ![n2] = [which_instance |-> 2, fake_ins |-> TRUE,
                            recency1 |-> ~initial, recency2 |-> TRUE]]
  IN  [m EXCEPT
        !.S = PushBoth(m.S, p),
        !.inst = entered,
        !.Rmax1 = IF m.Rmax1 = NULL THEN n1 ELSE m.Rmax1,
        !.Rmax2 = IF initial THEN n2 ELSE m.Rmax2,
        !.Cursor = IF initial THEN n2 ELSE m.Cursor,
        !.len = m.len + 2,
        !.Q = IF m.table[p].isHIR_block THEN <<n1>> \o m.Q ELSE m.Q,
        !.table = [m.table EXCEPT ![p].isResident = TRUE]]

(* Node n, about to move to the top, no longer counts as one of the region *)
(* above Rmax2; the mutant forgets line 396.                               *)
LeavesRegionUncounted(m, n) == IF n = m.Rmax2 THEN findLastLirLru2(m) ELSE m
LeavesRegion(m, n) ==
  IF n = m.Rmax2 THEN findLastLirLru2(m)
  ELSE IF m.inst[n].recency2 THEN [m EXCEPT !.len = m.len - 1] ELSE m

(* Cursor steps aside when n moves to the top; the mutant forgets line 403. *)
CursorMovesAlong(m, n) == m.Cursor
CursorGivesWay(m, n)   == IF m.Cursor = n THEN Above(m.S, n) ELSE m.Cursor

(* The older node of p moves to the top and the two nodes swap numbers;    *)
(* Rmax2, Cursor and Rmax1 give way when they stand on a node of p.        *)
MoveToTop(m, p) ==
  LET ins1 == pointerInstance(p, 1)
      ins2 == pointerInstance(p, 2)
      renumbered == [m.inst EXCEPT
                      ![ins1].which_instance = 2,
                      ![ins2] = [@ EXCEPT !.which_instance = 1, !.fake_ins = FALSE]]
      renamed == [m EXCEPT !.inst = renumbered]
      counted == LeavesRegion(renamed, ins2)
      moved == [counted EXCEPT
                 !.Cursor = CursorGivesWay(counted, ins2),
                 !.S = <<ins2>> \o RemoveNode(counted.S, ins2),
                 !.len = counted.len + 1]
  IN  IF ins1 = m.Rmax1 THEN findLastLirLru1(moved) ELSE moved

(* Rmax1 leaves a page that is no longer LIR; the mutant forgets 434-436.   *)
Rmax1Stays(m)    == m
Rmax1GivesWay(m) == IF IsLIR(m, m.Rmax1) THEN m ELSE findLastLirLru1(m)

(* p becomes LIR and the page of Rmax2 becomes a resident HIR page.        *)
(* num_LIR_pgs goes up and down again.                                     *)
Promote(m, p) ==
  LET demoted == m.Rmax2
      table == [m.table EXCEPT ![p].isHIR_block = FALSE,
                               ![demoted[1]].isHIR_block = TRUE]
      unmarked == [m.inst EXCEPT ![demoted].recency2 = FALSE]
      swapped == [m EXCEPT !.table = table,
                           !.Q = <<demoted>> \o m.Q,
                           !.inst = unmarked]
  IN  findLastLirLru2(Rmax1GivesWay(swapped))

(* Mutants: a condition of line 422 is missing.                             *)
PromotableIfReal(p) == ~inst[pointerInstance(p, 2)].fake_ins
PromotableIfRecent(p) == inst[pointerInstance(p, 2)].recency2

(* A HIR page is promoted when its older node was inside the region above  *)
(* Rmax2 and stood for a real reference.                                   *)
Promotable(p) ==
  LET older == inst[pointerInstance(p, 2)]
  IN  older.recency2 /\ ~older.fake_ins

(* Reference to a page that has nodes in the stack.                        *)
Retouch(m, p) ==
  LET ins2 == pointerInstance(p, 2)
      moved == MoveToTop(m, p)
      placed == IF ~m.table[p].isHIR_block THEN moved
                ELSE IF Promotable(p) THEN Promote(moved, p)
                ELSE [moved EXCEPT !.Q = <<ins2>> \o moved.Q]
      marked == [placed.inst EXCEPT ![ins2] = [@ EXCEPT !.recency1 = TRUE,
                                                        !.recency2 = TRUE]]
  IN  [placed EXCEPT !.table = [placed.table EXCEPT ![p].isResident = TRUE],
                     !.inst = marked]

Install(m) ==
  /\ mPageTable' = m.table /\ inst' = m.inst
  /\ S' = m.S /\ Q' = m.Q
  /\ Rmax1' = m.Rmax1 /\ Rmax2' = m.Rmax2 /\ Cursor' = m.Cursor
  /\ cur_lir_S_len' = m.len
  /\ num_LIR_pgs' = m.lirs
  /\ status' = IF m.segv THEN "segv" ELSE "running"

Known(p) == pointerInstance(p, 1) # NULL \/ pointerInstance(p, 2) # NULL

Touch(p, table, queue, lirs) ==
  LET m == Machine(table, queue, lirs)
  IN  \/ ~Known(p) /\ Install(pruneLIRSstack(FirstTouch(m, p)))
      \/ Known(p)  /\ Install(pruneLIRSstack(Retouch(m, p)))

-----------------------------------------------------------------------------
(* One reference.  An immediate repetition of the last page is skipped by  *)
(* the code and changes nothing.                                           *)

Refer(p) == /\ status = "running"
            /\ p # last_ref_pg
            /\ last_ref_pg' = p

Miss(p) == /\ Refer(p)
           /\ ~mPageTable[p].isResident
           /\ mPageFaultNum' = (mPageFaultNum + 1) % UINT_MOD

(* No free frame: the page at the tail of Q loses its frame, not its nodes *)
(* in S.                                                                   *)
MissEvict(p) ==
  /\ Miss(p)
  /\ mFreeMemSize = 0
  /\ UNCHANGED mFreeMemSize
  /\ IF Q = <<>>
     THEN /\ status' = "segv"
          /\ UNCHANGED <<mPageTable, inst, S, Q, Rmax1, Rmax2, Cursor,
                         cur_lir_S_len, num_LIR_pgs>>
     ELSE Touch(p, [mPageTable EXCEPT ![Last(Q)[1]].isResident = FALSE],
                Front(Q), num_LIR_pgs)

(* Mutant: a warm-up page is not counted as LIR (line 332 missing).         *)
MissLoadLIRUncounted(p) ==
  /\ Miss(p)
  /\ mFreeMemSize > HIR_block_portion_limit
  /\ mFreeMemSize' = mFreeMemSize - 1
  /\ Touch(p, [mPageTable EXCEPT ![p].isHIR_block = FALSE], Q, num_LIR_pgs)

(* Warm-up: while more frames are free than HIR pages may have, new pages  *)
(* start as LIR.                                                           *)
MissLoadLIR(p) ==
  /\ Miss(p)
  /\ mFreeMemSize > HIR_block_portion_limit
  /\ mFreeMemSize' = mFreeMemSize - 1
  /\ Touch(p, [mPageTable EXCEPT ![p].isHIR_block = FALSE], Q, num_LIR_pgs + 1)

(* Mutant: the test for a free frame is missing (line 325).                *)
MissLoadHIRAlways(p) ==
  /\ Miss(p)
  /\ mFreeMemSize <= HIR_block_portion_limit
  /\ mFreeMemSize' = mFreeMemSize - 1
  /\ Touch(p, mPageTable, Q, num_LIR_pgs)

MissLoadHIR(p) ==
  /\ Miss(p)
  /\ mFreeMemSize \in 1 .. HIR_block_portion_limit
  /\ mFreeMemSize' = mFreeMemSize - 1
  /\ Touch(p, mPageTable, Q, num_LIR_pgs)

(* Mutant: the page stays in Q when it is referenced (line 338 missing).    *)
HitHIRStaysInQ(p) ==
  /\ Refer(p)
  /\ mPageTable[p].isResident /\ mPageTable[p].isHIR_block
  /\ UNCHANGED <<mFreeMemSize, mPageFaultNum>>
  /\ Touch(p, mPageTable, Q, num_LIR_pgs)

HitHIR(p) ==
  /\ Refer(p)
  /\ mPageTable[p].isResident /\ mPageTable[p].isHIR_block
  /\ UNCHANGED <<mFreeMemSize, mPageFaultNum>>
  /\ Touch(p, mPageTable, RemoveNode(Q, findInstanceInQ(p)), num_LIR_pgs)

HitLIR(p) ==
  /\ Refer(p)
  /\ mPageTable[p].isResident /\ ~mPageTable[p].isHIR_block
  /\ UNCHANGED <<mFreeMemSize, mPageFaultNum>>
  /\ Touch(p, mPageTable, Q, num_LIR_pgs)

Next == \E p \in Page : \/ MissEvict(p)
                        \/ MissLoadLIR(p)
                        \/ MissLoadHIR(p)
                        \/ HitHIR(p)
                        \/ HitLIR(p)

Spec == Init /\ [][Next]_vars

-----------------------------------------------------------------------------
(* Properties.  Those about the state between two references hold while    *)
(* the program runs; NeverCrashes says that it does.                       *)

Running   == status = "running"
Resident  == {p \in Page : mPageTable[p].isResident}
LIRPages  == {p \in Page : ~mPageTable[p].isHIR_block}
InStack(n) == n \in Range(S)
At(n)     == Pos(S, n)

(* Every frame is accounted for (lines 320-339 and 422-441): the resident  *)
(* pages and the free frames add up to the cache size, LIR pages are       *)
(* resident, the resident HIR pages are exactly those in Q, once each, and *)
(* once the cache is full there are as many LIR pages as it sets aside.    *)
FramesAccounted == Running =>
  /\ Cardinality(Resident) + mFreeMemSize = mCacheMaxLimit
  /\ LIRPages \subseteq Resident
  /\ num_LIR_pgs = Cardinality(LIRPages)
  /\ {n[1] : n \in Range(Q)} = Resident \ LIRPages
  /\ Len(Q) = Cardinality(Resident \ LIRPages)
  /\ mFreeMemSize = 0 =>
       num_LIR_pgs = mCacheMaxLimit - HIR_block_portion_limit

(* The two nodes of a page stay in the stack for good, the one that stands *)
(* for the later reference (which_instance 1) above the other, whatever is *)
(* moved, renumbered or pruned (lines 341-355, 384-406, 237-238).          *)
InstancesPaired == Running =>
  /\ IsInjective(S)
  /\ \A p \in Page : Known(p) =>
       LET ins1 == pointerInstance(p, 1)
           ins2 == pointerInstance(p, 2)
       IN  /\ {ins1, ins2} = {<<p, 1>>, <<p, 2>>}
           /\ InStack(ins1) /\ InStack(ins2)
           /\ At(ins1) < At(ins2)
  /\ \A n \in Range(S) : Known(n[1])

(* Rmax1 and Rmax2 are the lowest LIR nodes of their instance number, the  *)
(* whole region below holding none: the walks of findLastLirLru never have *)
(* to look back (lines 125-161, 391-411, 428-437).                         *)
RmaxIsLowest == Running /\ S # <<>> =>
  \A k \in {1, 2} :
    LET rmax == IF k = 1 THEN Rmax1 ELSE Rmax2
        lirNodes == {n \in Range(S) : /\ ~mPageTable[n[1]].isHIR_block
                                      /\ inst[n].which_instance = k}
    IN  /\ rmax \in lirNodes
        /\ \A n \in lirNodes : At(n) <= At(rmax)

(* The recency marks the promotion test reads (line 422) agree with the    *)
(* order of the stack: a node is marked exactly while it is at or above    *)
(* the Rmax pointer, although no operation compares positions.             *)
MarksMatchStack == Running =>
  \A n \in Range(S) : inst[n].recency2 <=> At(n) <= At(Rmax2)

(* cur_lir_S_len, kept by increments and decrements in six places, is the  *)
(* number of nodes at or above Rmax2, and MAX_S_LEN bounds it after every  *)
(* reference (lines 149, 230-240, 368, 396, 418).                          *)
StackBounded == Running /\ S # <<>> =>
  /\ cur_lir_S_len = At(Rmax2)
  /\ cur_lir_S_len <= MAX_S_LEN

(* The pruning may start at Cursor instead of Rmax2: no HIR node lies in   *)
(* the part it skips (lines 231-234, 362, 403, 153).                       *)
CursorSkipsOnlyLIR == Running /\ S # <<>> =>
  \A i \in 1 .. At(Rmax2) :
     (Cursor = NULL \/ At(Cursor) < i) => ~mPageTable[S[i][1]].isHIR_block

(* No reference makes the program follow a NULL pointer: the walks of      *)
(* findLastLirLru (lines 136, 151) and of the pruning (line 232) end at a  *)
(* node, and Q has a tail when a frame is needed (line 327).               *)
NeverCrashes == Running

(* The assert of line 427: when p is promoted, the LIR pages with p are    *)
(* more than the frames LIR pages may have (the difference is unsigned).   *)
PromotionCounted(p) ==
  Running /\ p # last_ref_pg /\ Known(p) /\ p \notin LIRPages
    /\ ~(p \notin Resident /\ mFreeMemSize > HIR_block_portion_limit)
    /\ Promotable(p)
  => num_LIR_pgs + 1 > (mCacheMaxLimit - HIR_block_portion_limit) % UINT_MOD

LIRCountAssertion == \A p \in Page : PromotionCounted(p)

(* The asserts of the source hold wherever a debug build would evaluate    *)
(* them: findInstanceInQ (258, 263, 269), pointerInstance and its caller   *)
(* (279, 284, 378), and the LIR count at a promotion (427).                *)
AssertionsHold == Running => LIRCountAssertion /\
  \A p \in Page :
    /\ p \in Resident \ LIRPages =>
         /\ ~({<<p, 1>>, <<p, 2>>} \subseteq Range(Q) /\ Len(Q) > 1)
         /\ findInstanceInQ(p)[1] = p
    /\ Known(p) => /\ pointerInstance(p, 1) # NULL
                   /\ pointerInstance(p, 2) # NULL

(* The pages a list of nodes stands for.                                   *)
PageList(list) == [i \in 1 .. Len(list) |-> list[i][1]]

SeenOnce == {p \in Page : Known(p) /\ inst[pointerInstance(p, 2)].fake_ins}

(* LIRS2 follows the policy: seen from outside, nodes, marks, pointers and *)
(* counters implement the plain recency order of LIRS2Policy.              *)
Policy == INSTANCE LIRS2Policy WITH
  Capacity  <- mCacheMaxLimit,
  HIRFrames <- HIR_block_portion_limit,
  Depth     <- MAX_S_LEN,
  FaultMod  <- UINT_MOD,
  hist      <- PageList(S),
  once      <- SeenOnce,
  lir       <- LIRPages,
  queue     <- PageList(Q),
  faults    <- mPageFaultNum,
  last      <- last_ref_pg

FollowsPolicy == Policy!Spec
=============================================================================
