-------------------------------- MODULE LRU ---------------------------------
(***************************************************************************)
(* The LRU replacement engine (src/src/replace_lru.cc), with its doubly    *)
(* linked list as it is: two pointers in every page and a head and a tail. *)
(* One step is one iteration of the loop in LRU_Replace::Run; any page may *)
(* be referenced next (this engine does not skip repeated references), in  *)
(* a cache of any of the sizes MemSizes.                                   *)
(*                                                                         *)
(* A step that would write through a NULL pointer ends with status "segv". *)
(* Left out: pf_times and the recency field, which nothing reads.          *)
(***************************************************************************)
EXTENDS Naturals, Sequences, FiniteSets, SequencesExt

CONSTANTS Page,      (* page numbers, 0..mVmSize                           *)
          NULL,      (* the null pointer                                   *)
          MemSizes,  (* the values mem_size is given                       *)
          UINT_MOD   (* uint32_t counters wrap at this; 2^32               *)

ASSUME ConstantsAssumption == /\ MemSizes \subseteq Nat
                              /\ UINT_MOD \in Nat \ {0}
                              /\ NULL \notin Page
                              /\ IsFiniteSet(Page)

VARIABLES mCacheMaxLimit,  (* mem_size, chosen when the engine is built    *)
          isResident,      (* the pages whose flag is set                  *)
          LRU_next, LRU_prev, LRU_list_head, LRU_list_tail,
          mFreeMemSize, mPageFaultNum,
          ref_page,        (* the page referenced last                     *)
          status           (* "running", or "segv"                        *)

links == <<LRU_next, LRU_prev, LRU_list_head, LRU_list_tail>>
vars == <<mCacheMaxLimit, isResident, links, mFreeMemSize, mPageFaultNum,
          ref_page, status>>

Init ==
  /\ mCacheMaxLimit \in MemSizes
  /\ isResident = {}
  /\ LRU_next = [p \in Page |-> NULL] /\ LRU_prev = [p \in Page |-> NULL]
  /\ LRU_list_head = NULL /\ LRU_list_tail = NULL
  /\ mFreeMemSize = mCacheMaxLimit /\ mPageFaultNum = 0
  /\ ref_page = NULL
  /\ status = "running"

-----------------------------------------------------------------------------
(* The handler works on the four links l it is halfway through changing.   *)

List == [next |-> LRU_next, prev |-> LRU_prev,
         head |-> LRU_list_head, tail |-> LRU_list_tail]

(* The list without its last node (lines 61-65).                           *)
DropTail(l) ==
  LET victim == l.tail
      last == l.prev[victim]
  IN  [l EXCEPT !.tail = last,
                !.next = [l.next EXCEPT ![last] = NULL, ![victim] = NULL],
                !.prev[victim] = NULL]

(* Mutant: the tail does not move when the last node is hit.               *)
UnlinkKeepsTail(l, p) ==
  LET before == l.prev[p]
      after == l.next[p]
  IN  [l EXCEPT !.head = IF before = NULL THEN after ELSE l.head,
                !.next = IF before = NULL THEN l.next
                         ELSE [l.next EXCEPT ![before] = after],
                !.prev = IF after = NULL THEN l.prev
                         ELSE [l.prev EXCEPT ![after] = before]]

(* Lines 71-79: the neighbours of p are linked to each other; the links of *)
(* p itself stay until it is put at the head.                              *)
Unlink(l, p) ==
  LET before == l.prev[p]
      after == l.next[p]
  IN  [l EXCEPT !.head = IF before = NULL THEN after ELSE l.head,
                !.tail = IF after = NULL THEN before ELSE l.tail,
                !.next = IF before = NULL THEN l.next
                         ELSE [l.next EXCEPT ![before] = after],
                !.prev = IF after = NULL THEN l.prev
                         ELSE [l.prev EXCEPT ![after] = before]]

(* Mutant: the old head does not point back to the new one.                *)
PushHeadNoBackLink(l, p) ==
  [next |-> [l.next EXCEPT ![p] = l.head],
   prev |-> [l.prev EXCEPT ![p] = NULL],
   head |-> p,
   tail |-> IF l.tail = NULL THEN p ELSE l.tail]

(* Lines 82-90.                                                            *)
PushHead(l, p) ==
  [next |-> [l.next EXCEPT ![p] = l.head],
   prev |-> [q \in Page |-> IF q = p THEN NULL
                            ELSE IF q = l.head THEN p ELSE l.prev[q]],
   head |-> p,
   tail |-> IF l.tail = NULL THEN p ELSE l.tail]

SetList(l) == /\ LRU_next' = l.next /\ LRU_prev' = l.prev
              /\ LRU_list_head' = l.head /\ LRU_list_tail' = l.tail

-----------------------------------------------------------------------------
Faulted == (mPageFaultNum + 1) % UINT_MOD

Load(p) ==
  /\ p \notin isResident /\ mFreeMemSize > 0
  /\ isResident' = isResident \cup {p}
  /\ SetList(PushHead(List, p))
  /\ mFreeMemSize' = mFreeMemSize - 1 /\ mPageFaultNum' = Faulted
  /\ UNCHANGED status
  /\ ref_page' = p

(* Lines 60 and 63 write through the tail and through the node before it.  *)
NullAtTail ==
  IF LRU_list_tail = NULL THEN TRUE ELSE LRU_prev[LRU_list_tail] = NULL

Evict(p) ==
  /\ p \notin isResident /\ mFreeMemSize = 0 /\ ~NullAtTail
  /\ isResident' = (isResident \ {LRU_list_tail}) \cup {p}
  /\ SetList(PushHead(DropTail(List), p))
  /\ mPageFaultNum' = Faulted
  /\ UNCHANGED <<mFreeMemSize, status>>
  /\ ref_page' = p

EvictCrashes(p) ==
  /\ p \notin isResident /\ mFreeMemSize = 0 /\ NullAtTail
  /\ status' = "segv"
  /\ UNCHANGED <<isResident, links, mFreeMemSize, mPageFaultNum, ref_page>>

Hit(p) ==
  /\ p \in isResident
  /\ SetList(PushHead(Unlink(List, p), p))
  /\ UNCHANGED <<isResident, mFreeMemSize, mPageFaultNum, status>>
  /\ ref_page' = p

Next == /\ status = "running"
        /\ UNCHANGED mCacheMaxLimit
        /\ \E p \in Page : Load(p) \/ Evict(p) \/ EvictCrashes(p) \/ Hit(p)

Spec == Init /\ [][Next]_vars

-----------------------------------------------------------------------------
(* Correctness *)

(* One more step of a walk along next; a walk that has ended stays.        *)
Further(head, next, walked, k) ==
  LET here == IF walked = <<>> THEN head ELSE next[Last(walked)]
  IN  IF Len(walked) < k - 1 \/ here = NULL THEN walked
      ELSE Append(walked, here)

(* The nodes met from head.  On a list that had become a cycle they would  *)
(* be more than there are pages.                                           *)
Walk(head, next) ==
  LET path[k \in 0 .. Cardinality(Page) + 1] ==
        IF k = 0 THEN <<>> ELSE Further(head, next, path[k - 1], k)
  IN  path[Cardinality(Page) + 1]

(* The list as a sequence.                                                 *)
ListOrder == Walk(LRU_list_head, LRU_next)

(* An eviction writes through the tail and through the node before it      *)
(* (lines 60 and 63), without a test.  Both exist in a cache of two frames *)
(* or more.                                                                *)
StopsOnlyBelowTwoFrames == status = "segv" => mCacheMaxLimit < 2

(* The refinement mapping.                                                 *)
Policy == INSTANCE LRUPolicy WITH
            FaultMod <- UINT_MOD, frames <- mCacheMaxLimit,
            order <- ListOrder, faults <- mPageFaultNum, last <- ref_page

(* The pointers implement the policy: after every reference the list is    *)
(* the recency order of the cached pages, and the page replaced is the     *)
(* least recently used one.  The relinking of lines 59-90 treats the head, *)
(* the tail, the middle and the only node differently; a link it gets      *)
(* wrong shows when a later reference uses it.                             *)
FollowsLRU == Policy!Spec
=============================================================================
