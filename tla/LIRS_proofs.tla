----------------------------- MODULE LIRS_proofs -----------------------------
(***************************************************************************)
(* What holds of the LIRS engine for every cache size, every set of pages  *)
(* and every trace.  Nothing is assumed but ConstantsAssumption.           *)
(*                                                                         *)
(* The checked invariants are not inductive: they say which pages are      *)
(* marked, but not that a page outside S is neither marked nor cached,     *)
(* nor that S holds LIR pages only as long as the cache warms up, and the  *)
(* handler relies on both.  IInv adds them.                                *)
(*                                                                         *)
(* A handler is a branch (Taken: the table, the queue and the counts it    *)
(* hands on), the move of the page to the head of S (HasPlaced) and the    *)
(* classification of the page (Settled).  HasTouched is all of it.  The    *)
(* invariant and the refinement both read that one description.            *)
(***************************************************************************)
EXTENDS LIRS, ListLemmas

-----------------------------------------------------------------------------
(* The inductive invariant.                                                *)

(* Stack s with its marks in table t, the pointer on page q at position n. *)
StackOK(t, s, q, n) ==
  /\ s \in Seq(Page) /\ IsInjective(s)
  /\ n \in 1 .. Len(s) /\ s[n] = q /\ ~t[q].isHIR_block
  /\ \A i \in 1 .. Len(s) : /\ t[s[i]].recency <=> i <= n
                            /\ ~t[s[i]].isHIR_block => i <= n
  /\ \A x \in Page : x \notin Range(s) => /\ ~t[x].recency
                                          /\ ~t[x].isResident
                                          /\ t[x].isHIR_block

(* No page has been referenced yet.                                        *)
Fresh ==
  /\ S = <<>> /\ Q = <<>> /\ LIR_LRU_block_ptr = NULL /\ last_ref_pg = NULL
  /\ cur_lir_S_len = 0
  /\ mFreeMemSize = mCacheMaxLimit
  /\ \A x \in Page : /\ ~mPageTable[x].recency
                     /\ ~mPageTable[x].isResident
                     /\ mPageTable[x].isHIR_block

ResidentIn(t) == {x \in Page : t[x].isResident}
LIRIn(t) == {x \in Page : ~t[x].isHIR_block}

(* The number of LIR pages when there are so many free frames.             *)
LIRShare(free) == IF free > HIR_block_portion_limit
                  THEN mCacheMaxLimit - free
                  ELSE mCacheMaxLimit - HIR_block_portion_limit

(* The frames, in table t with queue q, the number of LIR pages and the    *)
(* number of free frames.                                                  *)
Accounted(t, q, lirs, free) ==
  /\ q \in Seq(Page) /\ IsInjective(q)
  /\ \A x \in Page : /\ x \in Range(q) <=> t[x].isResident /\ t[x].isHIR_block
                     /\ ~t[x].isHIR_block => t[x].isResident
  /\ IsFiniteSet(ResidentIn(t)) /\ IsFiniteSet(LIRIn(t))
  /\ Cardinality(ResidentIn(t)) = mCacheMaxLimit - free
  /\ Cardinality(LIRIn(t)) = lirs
  /\ lirs = LIRShare(free)

IInv ==
  /\ TypeOK
  /\ Accounted(mPageTable, Q, num_LIR_pgs, mFreeMemSize)
  /\ \/ Fresh
     \/ /\ StackOK(mPageTable, S, LIR_LRU_block_ptr, cur_lir_S_len)
        /\ last_ref_pg = S[1]
  /\ mFreeMemSize > HIR_block_portion_limit =>
       \A x \in Range(S) : ~mPageTable[x].isHIR_block
  /\ StopsOnlyWithOneLIRFrame

-----------------------------------------------------------------------------
(* The list functions.                                                     *)

(* Pos finds a member of a list.                                           *)
LEMMA PosFacts ==
  ASSUME NEW A, NEW s \in Seq(A), NEW a \in Range(s)
  PROVE  Pos(s, a) \in 1 .. Len(s) /\ s[Pos(s, a)] = a
<1>1. \E i \in 1 .. Len(s) : s[i] = a
  BY DEF Range
<1> QED BY <1>1 DEF Pos

(* A page of a list without repetitions is where Pos says, and there only. *)
LEMMA PosUnique ==
  ASSUME NEW A, NEW s \in Seq(A), IsInjective(s), NEW i \in 1 .. Len(s)
  PROVE  Pos(s, s[i]) = i
<1>1. Pos(s, s[i]) \in 1 .. Len(s) /\ s[Pos(s, s[i])] = s[i]
  BY PosFacts DEF Range
<1> QED BY <1>1 DEF IsInjective

(* A list after a page of it has moved, or a new page has come, to its     *)
(* head.                                                                   *)
ToHead(s, p) == <<p>> \o RemovePage(s, p)

(* The page at position k moves to the head; those above it move down.     *)
LEMMA MovedToHead ==
  ASSUME NEW A, NEW s \in Seq(A), IsInjective(s), NEW k \in 1 .. Len(s)
  PROVE  LET t == ToHead(s, s[k]) IN
           /\ t \in Seq(A) /\ IsInjective(t) /\ Range(t) = Range(s)
           /\ Len(t) = Len(s) /\ t[1] = s[k]
           /\ \A j \in 1 .. Len(s) : /\ j < k => t[j + 1] = s[j]
                                     /\ j > k => t[j] = s[j]
<1> DEFINE a == s[k]
           u == RemoveAt(s, k)
           t == <<a>> \o u
<1>1. a \in Range(s) /\ a \in A /\ Len(s) \in Nat
  BY DEF Range
<1>2. ToHead(s, s[k]) = t
  BY <1>1, PosUnique DEF ToHead, RemovePage
<1>3. /\ u \in Seq(A) /\ IsInjective(u) /\ Range(u) = Range(s) \ {a}
      /\ Len(u) = Len(s) - 1
      /\ \A j \in 1 .. Len(s) - 1 : u[j] = IF j < k THEN s[j] ELSE s[j + 1]
  BY RemoveAtFacts
<1> HIDE DEF u, a
<1>4. /\ t \in Seq(A) /\ IsInjective(t) /\ Range(t) = Range(u) \cup {a}
      /\ Len(t) = Len(u) + 1 /\ t[1] = a
      /\ \A j \in 2 .. Len(u) + 1 : t[j] = u[j - 1]
  BY <1>1, <1>3, ConsFacts
<1> HIDE DEF t
<1>5. ASSUME NEW j \in 1 .. Len(s), j < k PROVE t[j + 1] = s[j]
  <2>1. j \in 1 .. Len(s) - 1 /\ j + 1 \in 2 .. Len(u) + 1 /\ (j + 1) - 1 = j
    BY <1>1, <1>3, <1>5
  <2>2. t[j + 1] = u[(j + 1) - 1]
    BY <1>4, <2>1
  <2> QED BY <1>3, <1>5, <2>1, <2>2
<1>6. ASSUME NEW j \in 1 .. Len(s), j > k PROVE t[j] = s[j]
  <2>1. /\ j - 1 \in 1 .. Len(s) - 1 /\ j \in 2 .. Len(u) + 1
        /\ (j - 1) + 1 = j /\ ~(j - 1 < k)
    BY <1>1, <1>3, <1>6
  <2>2. t[j] = u[j - 1] /\ u[j - 1] = s[(j - 1) + 1]
    BY <1>3, <1>4, <2>1
  <2> QED BY <2>1, <2>2
<1>7. Range(t) = Range(s) /\ Len(t) = Len(s)
  BY <1>1, <1>3, <1>4
<1>8. t[1] = s[k]
  BY <1>4 DEF a
<1> QED BY <1>2, <1>4, <1>5, <1>6, <1>7, <1>8

(* A page that was not in the list comes to its head.                      *)
LEMMA NewAtHead ==
  ASSUME NEW A, NEW s \in Seq(A), IsInjective(s), NEW p \in A, p \notin Range(s)
  PROVE  LET t == ToHead(s, p) IN
           /\ t \in Seq(A) /\ IsInjective(t) /\ Range(t) = Range(s) \cup {p}
           /\ Len(t) = Len(s) + 1 /\ t[1] = p
           /\ \A j \in 1 .. Len(s) : t[j + 1] = s[j]
<1> DEFINE t == <<p>> \o s
<1>1. ToHead(s, p) = t
  BY DEF ToHead, RemovePage
<1>2. /\ t \in Seq(A) /\ IsInjective(t) /\ Range(t) = Range(s) \cup {p}
      /\ Len(t) = Len(s) + 1 /\ t[1] = p
      /\ \A j \in 2 .. Len(s) + 1 : t[j] = s[j - 1]
  BY ConsFacts
<1> HIDE DEF t
<1>3. ASSUME NEW j \in 1 .. Len(s) PROVE t[j + 1] = s[j]
  <2>1. j + 1 \in 2 .. Len(s) + 1 /\ (j + 1) - 1 = j
    OBVIOUS
  <2>2. t[j + 1] = s[(j + 1) - 1]
    BY <1>2, <2>1
  <2> QED BY <2>1, <2>2
<1> QED BY <1>1, <1>2, <1>3

(* Either way its members are those of the list and the page.              *)
LEMMA ToHeadRange ==
  ASSUME NEW A, NEW s \in Seq(A), IsInjective(s), NEW p \in A
  PROVE  /\ ToHead(s, p) \in Seq(A) /\ IsInjective(ToHead(s, p))
         /\ Range(ToHead(s, p)) = Range(s) \cup {p}
<1>1. CASE p \in Range(s)
  <2>1. PICK k \in 1 .. Len(s) : p = s[k]
    BY <1>1 DEF Range
  <2>2. /\ ToHead(s, s[k]) \in Seq(A) /\ IsInjective(ToHead(s, s[k]))
        /\ Range(ToHead(s, s[k])) = Range(s)
    BY MovedToHead
  <2> QED BY <1>1, <2>1, <2>2
<1>2. CASE p \notin Range(s)
  BY <1>2, NewAtHead
<1> QED BY <1>1, <1>2

(* The machines a handler passes through while the program is running.     *)
Machines ==
  [table : [Page -> PageFields], S : Seq(Page), Q : Seq(Page),
   ptr : Page \cup {NULL}, len : Int, num : Int, status : {"running"}]

(* Machine r is machine m after the pointer, on the page at position i,    *)
(* has moved to the first LIR page.                                        *)
HasFound(m, r, i) ==
  \E to \in 1 .. i :
    /\ ~m.table[m.S[to]].isHIR_block
    /\ \A j \in to + 1 .. i : m.table[m.S[j]].isHIR_block
    /\ r \in Machines
    /\ r.S = m.S /\ r.Q = m.Q /\ r.num = m.num
    /\ r.ptr = m.S[to] /\ r.len = m.len - (i - to)
    /\ \A x \in Page :
         /\ r.table[x].isResident = m.table[x].isResident
         /\ r.table[x].isHIR_block = m.table[x].isHIR_block
         /\ r.table[x].recency <=>
              m.table[x].recency /\ \A j \in to + 1 .. i : m.S[j] # x

(* What Unmark does.                                                       *)
LEMMA UnmarkFacts ==
  ASSUME NEW t \in [Page -> PageFields], NEW P
  PROVE  /\ Unmark(t, P) \in [Page -> PageFields]
         /\ \A x \in Page :
              /\ Unmark(t, P)[x].isResident = t[x].isResident
              /\ Unmark(t, P)[x].isHIR_block = t[x].isHIR_block
              /\ Unmark(t, P)[x].recency <=> t[x].recency /\ x \notin P
<1>1. \A x \in Page : /\ t[x] \in PageFields
                      /\ [t[x] EXCEPT !.recency = FALSE] \in PageFields
  BY DEF PageFields
<1>2. Unmark(t, P) \in [Page -> PageFields]
  BY <1>1 DEF Unmark
<1>3. ASSUME NEW x \in Page, x \in P
      PROVE  /\ Unmark(t, P)[x].isResident = t[x].isResident
             /\ Unmark(t, P)[x].isHIR_block = t[x].isHIR_block
             /\ Unmark(t, P)[x].recency = FALSE
  <2>1. Unmark(t, P)[x] = [t[x] EXCEPT !.recency = FALSE]
    BY <1>3 DEF Unmark
  <2> QED BY <1>1, <2>1 DEF PageFields
<1>4. ASSUME NEW x \in Page, x \notin P
      PROVE  Unmark(t, P)[x] = t[x]
  BY <1>4 DEF Unmark
<1> QED BY <1>2, <1>3, <1>4

(* With a LIR page at or above it, the pointer stops at the first one.     *)
LEMMA findLastFacts ==
  ASSUME NEW m \in Machines, NEW i \in 1 .. Len(m.S),
         \E j \in 1 .. i : ~m.table[m.S[j]].isHIR_block
  PROVE  HasFound(m, findLastLirLru(m, i), i)
<1> DEFINE lirs == {j \in 1 .. i : ~m.table[m.S[j]].isHIR_block}
           to == Max(lirs)
           P == {m.S[j] : j \in to + 1 .. i}
           r == findLastLirLru(m, i)
<1>1. i \in Nat /\ lirs \subseteq 1 .. i /\ lirs # {} /\ i # 0
  BY DEF Machines
<1>2. to \in lirs /\ \A x \in lirs : x <= to
  <2> HIDE DEF lirs
  <2> QED BY <1>1, MaxExists
<1>3. r = [m EXCEPT !.ptr = m.S[to], !.len = m.len - (i - to),
                    !.table = Unmark(m.table, P)]
  BY <1>1 DEF findLastLirLru
<1> HIDE DEF to
<1>4. to \in 1 .. i /\ ~m.table[m.S[to]].isHIR_block
  BY <1>2
<1>5. ASSUME NEW j \in to + 1 .. i PROVE m.table[m.S[j]].isHIR_block
  <2>1. j \in 1 .. i /\ ~(j <= to)
    BY <1>1, <1>4
  <2> QED BY <1>2, <2>1
<1> HIDE DEF lirs
<1>6. /\ Unmark(m.table, P) \in [Page -> PageFields]
      /\ \A x \in Page :
           /\ Unmark(m.table, P)[x].isResident = m.table[x].isResident
           /\ Unmark(m.table, P)[x].isHIR_block = m.table[x].isHIR_block
           /\ Unmark(m.table, P)[x].recency <=> m.table[x].recency /\ x \notin P
  <2> HIDE DEF P
  <2> QED BY UnmarkFacts DEF Machines
<1>7. m.S[to] \in Page
  BY <1>1, <1>4 DEF Machines
<1> HIDE DEF r
<1>8. /\ r.S = m.S /\ r.Q = m.Q /\ r.num = m.num
      /\ r.ptr = m.S[to] /\ r.len = m.len - (i - to)
      /\ r.table = Unmark(m.table, P)
  BY <1>3 DEF Machines
<1>9. r \in Machines
  <2> DEFINE t == Unmark(m.table, P)
             q == m.S[to]
             n == m.len - (i - to)
  <2>1. t \in [Page -> PageFields] /\ q \in Page \cup {NULL} /\ n \in Int
    BY <1>1, <1>4, <1>6, <1>7 DEF Machines
  <2>2. r = [m EXCEPT !.ptr = q, !.len = n, !.table = t]
    BY <1>3
  <2> HIDE DEF t, q, n
  <2> QED BY <2>1, <2>2 DEF Machines
<1>10. \A x \in Page : x \notin P <=> \A j \in to + 1 .. i : m.S[j] # x
  OBVIOUS
<1> HIDE DEF P
<1>11. HasFound(m, r, i)
  BY <1>4, <1>5, <1>6, <1>8, <1>9, <1>10 DEF HasFound
<1> QED BY <1>11 DEF r

-----------------------------------------------------------------------------
(* From the start of the handler to its end.                               *)

(* The table t a branch hands to the rest of the handler for page p: the   *)
(* marks are as they were, and no page but p has changed its kind.         *)
BranchTable(t, p) ==
  /\ t \in [Page -> PageFields]
  /\ \A x \in Page : /\ t[x].recency = mPageTable[x].recency
                     /\ x # p => t[x].isHIR_block = mPageTable[x].isHIR_block
                     /\ t[x].isResident => mPageTable[x].isResident
                     /\ ~mPageTable[x].isHIR_block => ~t[x].isHIR_block

(* StackOK, of a machine in which page p is at the head but its mark is    *)
(* still to be set.                                                        *)
Stacked(m, p) ==
  /\ m \in Machines /\ IsInjective(m.S)
  /\ m.len \in 1 .. Len(m.S) /\ m.S[1] = p
  /\ m.S[m.len] = m.ptr /\ ~m.table[m.ptr].isHIR_block
  /\ \A i \in 1 .. Len(m.S) : /\ m.S[i] # p => (m.table[m.S[i]].recency <=> i <= m.len)
                              /\ ~m.table[m.S[i]].isHIR_block => i <= m.len
  /\ \A x \in Page : x \notin Range(m.S) => /\ ~m.table[x].recency
                                            /\ ~m.table[x].isResident
                                            /\ m.table[x].isHIR_block

(* Machine r is the start of the handler, with table t, queue q and lirs   *)
(* LIR pages, after page p has been cached and put at the head of S.       *)
HasPlaced(r, p, t, q, lirs) ==
  /\ Stacked(r, p) /\ r.S = ToHead(S, p) /\ r.Q = q /\ r.num = lirs
  /\ p # LIR_LRU_block_ptr => /\ S # <<>> => r.ptr = LIR_LRU_block_ptr
                              /\ r.table[p].recency = t[p].recency
  /\ \A x \in Page : /\ r.table[x].isHIR_block = t[x].isHIR_block
                     /\ r.table[x].isResident <=> t[x].isResident \/ x = p

(* The rest of lines 240 to 269 leaves the machine as it is.               *)
Placed(m, p) == EnterStack(addLruListHead(m, p), p)

(* What EnterStack after addLruListHead does.                              *)
LEMMA PlacedFacts ==
  ASSUME NEW m \in Machines, NEW p \in Page
  PROVE  LET r == Placed(m, p) IN
           /\ r \in Machines /\ r.S = <<p>> \o m.S /\ r.Q = m.Q
           /\ r.num = m.num /\ r.ptr = IF m.S = <<>> THEN p ELSE m.ptr
           /\ r.len = IF m.table[p].recency THEN m.len ELSE m.len + 1
           /\ \A x \in Page :
                /\ r.table[x].isHIR_block = m.table[x].isHIR_block
                /\ r.table[x].recency = m.table[x].recency
                /\ r.table[x].isResident <=> m.table[x].isResident \/ x = p
<1> DEFINE s == <<p>> \o m.S
           q == IF m.S = <<>> THEN p ELSE m.ptr
           n == IF m.table[p].recency THEN m.len ELSE m.len + 1
           t == [m.table EXCEPT ![p].isResident = TRUE]
           a == [m EXCEPT !.S = s, !.ptr = q]
           r == [a EXCEPT !.table = t, !.len = n]
<1>1. s \in Seq(Page) /\ q \in Page \cup {NULL} /\ n \in Int
  BY DEF Machines
<1>2. /\ t \in [Page -> PageFields]
      /\ \A x \in Page : /\ t[x].isHIR_block = m.table[x].isHIR_block
                         /\ t[x].recency = m.table[x].recency
                         /\ t[x].isResident <=> m.table[x].isResident \/ x = p
  BY DEF Machines, PageFields
<1>3. addLruListHead(m, p) = a
  BY DEF addLruListHead
<1>4. Placed(m, p) = r
  BY <1>3 DEF Placed, EnterStack, Machines
<1> HIDE DEF s, q, n, t
<1>5. a \in Machines
  BY <1>1 DEF Machines
<1>6. r \in Machines /\ r.S = s /\ r.Q = m.Q /\ r.num = m.num /\ r.ptr = q
      /\ r.len = n /\ r.table = t
  BY <1>1, <1>2, <1>5 DEF Machines
<1> HIDE DEF r, a
<1> QED BY <1>2, <1>4, <1>6 DEF s, q, n, t

(* The first page ever: it is loaded as a LIR page.                        *)
LEMMA FirstPlaced ==
  ASSUME NEW p \in Page, Fresh, NEW t, BranchTable(t, p), ~t[p].isHIR_block,
         NEW q \in Seq(Page), NEW lirs \in Int
  PROVE  LET u == removeLIRSList(Machine(t, q, lirs), p) IN
           u.status = "running" /\ HasPlaced(Placed(u, p), p, t, q, lirs)
<1> DEFINE m == Machine(t, q, lirs)
           r == Placed(m, p)
<1>0. removeLIRSList(m, p) = m /\ m.status = "running"
  BY DEF removeLIRSList, Machine, Fresh, Range
<1>1. /\ m \in Machines /\ m.table = t /\ m.S = <<>> /\ m.Q = q
      /\ m.ptr = LIR_LRU_block_ptr /\ m.len = 0 /\ m.num = lirs
  BY DEF Machine, Machines, BranchTable, Fresh
<1> HIDE DEF m
<1>2. /\ r \in Machines /\ r.S = <<p>> \o m.S /\ r.Q = m.Q
      /\ r.num = m.num /\ r.ptr = IF m.S = <<>> THEN p ELSE m.ptr
      /\ r.len = IF m.table[p].recency THEN m.len ELSE m.len + 1
      /\ \A x \in Page :
           /\ r.table[x].isHIR_block = m.table[x].isHIR_block
           /\ r.table[x].recency = m.table[x].recency
           /\ r.table[x].isResident <=> m.table[x].isResident \/ x = p
  BY <1>1, PlacedFacts
<1> HIDE DEF r
<1>3. r.S = <<p>> /\ r.ptr = p /\ r.len = 1 /\ r.S = ToHead(S, p)
  BY <1>1, <1>2 DEF Fresh, BranchTable, ToHead, RemovePage, Range
<1>4. IsInjective(r.S) /\ Range(r.S) = {p} /\ Len(r.S) = 1 /\ r.S[1] = p
  BY <1>3 DEF IsInjective, Range
<1>5. Stacked(r, p)
  BY <1>1, <1>2, <1>3, <1>4 DEF Stacked, Fresh, BranchTable
<1>6. p # LIR_LRU_block_ptr => /\ S # <<>> => r.ptr = LIR_LRU_block_ptr
                               /\ r.table[p].recency = t[p].recency
  BY <1>1, <1>2 DEF Fresh
<1>7. HasPlaced(r, p, t, q, lirs)
  BY <1>1, <1>2, <1>3, <1>5, <1>6 DEF HasPlaced
<1> QED BY <1>0, <1>7 DEF r, m

(* A page other than the lowest LIR page, in S or not.                     *)
LEMMA OtherPlaced ==
  ASSUME NEW p \in Page,
         StackOK(mPageTable, S, LIR_LRU_block_ptr, cur_lir_S_len),
         p # LIR_LRU_block_ptr, NEW t, BranchTable(t, p),
         NEW q \in Seq(Page), NEW lirs \in Int
  PROVE  LET u == removeLIRSList(Machine(t, q, lirs), p) IN
           u.status = "running" /\ HasPlaced(Placed(u, p), p, t, q, lirs)
<1> DEFINE m == Machine(t, q, lirs)
           u == removeLIRSList(m, p)
           r == Placed(u, p)
           n == cur_lir_S_len
<1>1. /\ S \in Seq(Page) /\ IsInjective(S) /\ Len(S) \in Nat
      /\ n \in 1 .. Len(S) /\ S[n] = LIR_LRU_block_ptr
      /\ LIR_LRU_block_ptr \in Page /\ LIR_LRU_block_ptr \in Range(S)
      /\ ~mPageTable[LIR_LRU_block_ptr].isHIR_block
      /\ \A i \in 1 .. Len(S) : /\ mPageTable[S[i]].recency <=> i <= n
                                /\ ~mPageTable[S[i]].isHIR_block => i <= n
      /\ \A x \in Page : x \notin Range(S) => /\ ~mPageTable[x].recency
                                              /\ ~mPageTable[x].isResident
                                              /\ mPageTable[x].isHIR_block
  BY DEF StackOK, Range
<1>2. /\ m \in Machines /\ m.table = t /\ m.S = S /\ m.Q = q
      /\ m.ptr = LIR_LRU_block_ptr /\ m.len = n /\ m.num = lirs
  BY <1>1 DEF Machine, Machines, BranchTable
<1> HIDE DEF m
<1>3. /\ u \in Machines /\ u.table = t /\ u.S = RemovePage(S, p) /\ u.Q = q
      /\ u.ptr = LIR_LRU_block_ptr /\ u.len = n /\ u.num = lirs
  <2>1. CASE p \in Range(S)
    <3>1. u = [m EXCEPT !.S = RemovePage(S, p)]
      BY <1>2, <2>1 DEF removeLIRSList
    <3>2. RemovePage(S, p) \in Seq(Page)
      BY <1>1, <2>1, PosFacts, RemoveAtFacts DEF RemovePage
    <3> QED BY <1>2, <3>1, <3>2 DEF Machines
  <2>2. CASE p \notin Range(S)
    BY <1>2, <2>2 DEF removeLIRSList, RemovePage
  <2> QED BY <2>1, <2>2
<1> HIDE DEF u
<1>4. /\ r \in Machines /\ r.S = <<p>> \o u.S /\ r.Q = u.Q
      /\ r.num = u.num /\ r.ptr = IF u.S = <<>> THEN p ELSE u.ptr
      /\ r.len = IF u.table[p].recency THEN u.len ELSE u.len + 1
      /\ \A x \in Page :
           /\ r.table[x].isHIR_block = u.table[x].isHIR_block
           /\ r.table[x].recency = u.table[x].recency
           /\ r.table[x].isResident <=> u.table[x].isResident \/ x = p
  BY <1>3, PlacedFacts
<1> HIDE DEF r
<1> DEFINE s == ToHead(S, p)
           z == IF mPageTable[p].recency THEN n ELSE n + 1
<1>5. r.S = s /\ r.len = z
  BY <1>1, <1>2, <1>3, <1>4 DEF ToHead, BranchTable
<1>6. /\ IsInjective(s) /\ s[1] = p /\ s \in Seq(Page)
      /\ z \in 1 .. Len(s) /\ s[z] = LIR_LRU_block_ptr
      /\ Range(s) = Range(S) \cup {p}
      /\ \A i \in 1 .. Len(s) :
           /\ s[i] # p => (mPageTable[s[i]].recency <=> i <= z)
           /\ i # 1 /\ ~mPageTable[s[i]].isHIR_block => i <= z
  <2>1. CASE p \in Range(S)
    <3>1. PICK k \in 1 .. Len(S) : S[k] = p
      BY <2>1 DEF Range
    <3>2. /\ s \in Seq(Page) /\ IsInjective(s) /\ Range(s) = Range(S)
          /\ Len(s) = Len(S) /\ s[1] = S[k]
          /\ \A j \in 1 .. Len(S) : /\ j < k => s[j + 1] = S[j]
                                    /\ j > k => s[j] = S[j]
      <4> DEFINE v == ToHead(S, S[k])
      <4>1. /\ v \in Seq(Page) /\ IsInjective(v) /\ Range(v) = Range(S)
            /\ Len(v) = Len(S) /\ v[1] = S[k]
            /\ \A j \in 1 .. Len(S) : /\ j < k => v[j + 1] = S[j]
                                      /\ j > k => v[j] = S[j]
        <5>1. S \in Seq(Page) /\ IsInjective(S)
          BY <1>1
        <5> HIDE DEF n, s, z
        <5> QED BY <5>1, MovedToHead
      <4>2. s = v
        BY <3>1
      <4> HIDE DEF v, s
      <4> QED BY <4>1, <4>2
    <3> HIDE DEF s
    <3>3. k # n /\ (mPageTable[p].recency <=> k <= n)
      BY <1>1, <3>1
    <3>4. z \in 1 .. Len(s) /\ s[z] = LIR_LRU_block_ptr
      <4>1. CASE k < n
        BY <1>1, <3>2, <3>3, <4>1
      <4>2. CASE k > n
        <5>1. n + 1 \in 1 .. Len(S) /\ s[n + 1] = S[n] /\ z = n + 1
          BY <1>1, <3>1, <3>2, <3>3, <4>2
        <5> QED BY <1>1, <3>2, <5>1
      <4> QED BY <1>1, <3>1, <3>3, <4>1, <4>2
    <3>5. ASSUME NEW i \in 1 .. Len(s), i # 1
          PROVE  /\ mPageTable[s[i]].recency <=> i <= z
                 /\ ~mPageTable[s[i]].isHIR_block => i <= z
      <4>1. CASE i <= k
        <5> DEFINE j == i - 1
        <5>1. j \in 1 .. Len(S) /\ j < k /\ i = j + 1
          BY <1>1, <3>1, <3>2, <3>5, <4>1
        <5> HIDE DEF j
        <5>2. s[i] = S[j]
          BY <3>2, <5>1
        <5>3. /\ mPageTable[S[j]].recency <=> j <= n
              /\ ~mPageTable[S[j]].isHIR_block => j <= n
          BY <1>1, <5>1
        <5> QED BY <1>1, <3>1, <3>3, <5>1, <5>2, <5>3
      <4>2. CASE i > k
        <5>1. i \in 1 .. Len(S) /\ s[i] = S[i]
          BY <3>2, <4>2
        <5> QED BY <1>1, <3>1, <3>3, <4>2, <5>1
      <4> QED BY <1>1, <3>1, <3>2, <4>1, <4>2
    <3>6. Range(s) = Range(S) \cup {p}
      BY <2>1, <3>2
    <3> QED BY <3>1, <3>2, <3>4, <3>5, <3>6
  <2>2. CASE p \notin Range(S)
    <3>1. /\ s \in Seq(Page) /\ IsInjective(s) /\ Range(s) = Range(S) \cup {p}
          /\ Len(s) = Len(S) + 1 /\ s[1] = p
          /\ \A j \in 1 .. Len(S) : s[j + 1] = S[j]
      BY <1>1, <2>2, NewAtHead
    <3> HIDE DEF s
    <3>2. z = n + 1
      BY <1>1, <2>2
    <3>3. z \in 1 .. Len(s) /\ s[z] = LIR_LRU_block_ptr
      BY <1>1, <3>1, <3>2
    <3>4. ASSUME NEW i \in 1 .. Len(s), i # 1
          PROVE  /\ mPageTable[s[i]].recency <=> i <= z
                 /\ ~mPageTable[s[i]].isHIR_block => i <= z
      <4> DEFINE j == i - 1
      <4>1. j \in 1 .. Len(S) /\ s[j + 1] = S[j] /\ i = j + 1
        BY <1>1, <3>1, <3>4
      <4> HIDE DEF j
      <4> QED BY <1>1, <3>2, <4>1
    <3> QED BY <3>1, <3>3, <3>4
  <2> QED BY <2>1, <2>2
<1> HIDE DEF s, z
<1>7. r.ptr = LIR_LRU_block_ptr
  <2>1. u.S # <<>>
    <3>1. CASE p \in Range(S)
      <4>1. /\ Pos(S, p) \in 1 .. Len(S) /\ S[Pos(S, p)] = p
        BY <1>1, <3>1, PosFacts
      <4>2. u.S = RemoveAt(S, Pos(S, p))
        BY <1>3, <3>1 DEF RemovePage
      <4> DEFINE k == Pos(S, p)
      <4> HIDE DEF k
      <4>5. S \in Seq(Page) /\ IsInjective(S) /\ k \in 1 .. Len(S)
        BY <1>1, <4>1 DEF k
      <4>3. Range(RemoveAt(S, k)) = Range(S) \ {S[k]}
        BY <4>5, RemoveAtFacts
      <4>4. LIR_LRU_block_ptr \in Range(u.S)
        BY <1>1, <4>1, <4>2, <4>3 DEF k
      <4> QED BY <4>4 DEF Range
    <3>2. CASE p \notin Range(S)
      <4>1. u.S = S
        BY <1>3, <3>2 DEF RemovePage
      <4> QED BY <1>1, <4>1
    <3> QED BY <3>1, <3>2
  <2> QED BY <1>3, <1>4, <2>1
<1>8. Stacked(r, p)
  <2>1. ~r.table[r.ptr].isHIR_block
    BY <1>1, <1>3, <1>4, <1>7 DEF BranchTable
  <2>2. \A i \in 1 .. Len(s) : s[i] \in Page
    BY <1>6
  <2>3. \A i \in 1 .. Len(s) : i # 1 => s[i] # p
    BY <1>6 DEF IsInjective
  <2>4. \A i \in 1 .. Len(s) :
          /\ s[i] # p => (r.table[s[i]].recency <=> i <= z)
          /\ ~r.table[s[i]].isHIR_block => i <= z
    BY <1>3, <1>4, <1>6, <2>2, <2>3 DEF BranchTable
  <2>5. \A x \in Page : x \notin Range(s) => /\ ~r.table[x].recency
                                             /\ ~r.table[x].isResident
                                             /\ r.table[x].isHIR_block
    <3> SUFFICES ASSUME NEW x \in Page, x \notin Range(s)
                 PROVE  /\ ~r.table[x].recency /\ ~r.table[x].isResident
                        /\ r.table[x].isHIR_block
      OBVIOUS
    <3>1. x \notin Range(S) /\ x # p
      BY <1>6
    <3>2. /\ ~mPageTable[x].recency /\ ~mPageTable[x].isResident
          /\ mPageTable[x].isHIR_block
      BY <1>1, <3>1
    <3>3. ~t[x].recency /\ ~t[x].isResident /\ t[x].isHIR_block
      BY <3>1, <3>2 DEF BranchTable
    <3> QED BY <1>3, <1>4, <3>1, <3>3
  <2> QED BY <1>4, <1>5, <1>6, <1>7, <2>1, <2>4, <2>5 DEF Stacked
<1>9. r.table[p].recency = t[p].recency
  BY <1>3, <1>4
<1>10. HasPlaced(r, p, t, q, lirs)
  BY <1>3, <1>4, <1>5, <1>7, <1>8, <1>9 DEF HasPlaced, s
<1> QED BY <1>3, <1>10 DEF r, u, m, Machines

(* The lowest LIR page, with another LIR page above it.                    *)
LEMMA PtrPlaced ==
  ASSUME NEW p \in Page,
         StackOK(mPageTable, S, LIR_LRU_block_ptr, cur_lir_S_len),
         p = LIR_LRU_block_ptr, NEW t, BranchTable(t, p),
         NEW q \in Seq(Page), NEW lirs \in Int,
         \E i \in 1 .. cur_lir_S_len - 1 : ~mPageTable[S[i]].isHIR_block
  PROVE  LET u == removeLIRSList(Machine(t, q, lirs), p) IN
           u.status = "running" /\ HasPlaced(Placed(u, p), p, t, q, lirs)
<1> DEFINE m == Machine(t, q, lirs)
           n == cur_lir_S_len
           f == findLastLirLru(m, n - 1)
           u == removeLIRSList(m, p)
           r == Placed(u, p)
<1>1. /\ S \in Seq(Page) /\ IsInjective(S) /\ Len(S) \in Nat
      /\ n \in 1 .. Len(S) /\ S[n] = p /\ p \in Range(S)
      /\ ~mPageTable[p].isHIR_block
      /\ \A i \in 1 .. Len(S) : /\ S[i] \in Page
                                /\ mPageTable[S[i]].recency <=> i <= n
                                /\ ~mPageTable[S[i]].isHIR_block => i <= n
      /\ \A x \in Page : x \notin Range(S) => /\ ~mPageTable[x].recency
                                              /\ ~mPageTable[x].isResident
                                              /\ mPageTable[x].isHIR_block
  BY DEF StackOK, Range
<1>2. /\ m \in Machines /\ m.table = t /\ m.S = S /\ m.Q = q
      /\ m.ptr = p /\ m.len = n /\ m.num = lirs
  BY <1>1 DEF Machine, Machines, BranchTable
<1>3. Pos(S, p) = n
  BY <1>1, PosUnique
<1> HIDE DEF m
<1>4. \A x \in Page : /\ t[x].recency <=> mPageTable[x].recency
                      /\ t[x].isHIR_block <=> mPageTable[x].isHIR_block
  BY <1>1 DEF BranchTable
<1>5. HasFound(m, f, n - 1)
  <2>1. PICK i \in 1 .. n - 1 : ~mPageTable[S[i]].isHIR_block
    OBVIOUS
  <2>2. n - 1 \in 1 .. Len(m.S) /\ i \in 1 .. Len(S)
    BY <1>1, <1>2
  <2>3. ~m.table[m.S[i]].isHIR_block
    BY <1>1, <1>2, <1>4, <2>1, <2>2
  <2> QED BY <1>2, <2>2, <2>3, findLastFacts
<1> HIDE DEF f
<1>6. PICK to \in 1 .. n - 1 :
        /\ ~t[S[to]].isHIR_block
        /\ \A j \in to + 1 .. n - 1 : t[S[j]].isHIR_block
        /\ f \in Machines /\ f.S = S /\ f.Q = q /\ f.num = lirs
        /\ f.ptr = S[to] /\ f.len = n - (n - 1 - to)
        /\ \A x \in Page :
             /\ f.table[x].isResident = t[x].isResident
             /\ f.table[x].isHIR_block = t[x].isHIR_block
             /\ f.table[x].recency <=>
                  t[x].recency /\ \A j \in to + 1 .. n - 1 : S[j] # x
  BY <1>2, <1>5 DEF HasFound
<1>7. f.len = to + 1 /\ to \in 1 .. Len(S) /\ to < n
  BY <1>1, <1>6
<1>8. /\ u \in Machines /\ u.table = f.table /\ u.S = RemovePage(S, p)
      /\ u.Q = q /\ u.ptr = S[to] /\ u.len = to + 1 /\ u.num = lirs
  <2>1. u = [f EXCEPT !.S = RemovePage(S, p)]
    BY <1>1, <1>2, <1>3 DEF removeLIRSList, f
  <2>2. RemovePage(S, p) \in Seq(Page)
    BY <1>1, <1>3, RemoveAtFacts DEF RemovePage
  <2>3. /\ f \in Machines /\ f.Q = q /\ f.num = lirs
        /\ f.ptr = S[to] /\ f.len = to + 1
    BY <1>6, <1>7
  <2> QED BY <2>1, <2>2, <2>3 DEF Machines
<1> HIDE DEF u
<1>9. /\ r \in Machines /\ r.S = <<p>> \o u.S /\ r.Q = u.Q
      /\ r.num = u.num /\ r.ptr = IF u.S = <<>> THEN p ELSE u.ptr
      /\ r.len = IF u.table[p].recency THEN u.len ELSE u.len + 1
      /\ \A x \in Page :
           /\ r.table[x].isHIR_block = u.table[x].isHIR_block
           /\ r.table[x].recency = u.table[x].recency
           /\ r.table[x].isResident <=> u.table[x].isResident \/ x = p
  BY <1>8, PlacedFacts
<1> HIDE DEF r
<1> DEFINE s == ToHead(S, p)
<1>10. /\ s \in Seq(Page) /\ IsInjective(s) /\ Range(s) = Range(S)
       /\ Len(s) = Len(S) /\ s[1] = p
       /\ \A j \in 1 .. Len(S) : /\ j < n => s[j + 1] = S[j]
                                 /\ j > n => s[j] = S[j]
  <2> DEFINE v == ToHead(S, S[n])
  <2>1. /\ v \in Seq(Page) /\ IsInjective(v) /\ Range(v) = Range(S)
        /\ Len(v) = Len(S) /\ v[1] = S[n]
        /\ \A j \in 1 .. Len(S) : /\ j < n => v[j + 1] = S[j]
                                  /\ j > n => v[j] = S[j]
    <3>1. S \in Seq(Page) /\ IsInjective(S) /\ n \in 1 .. Len(S)
      BY <1>1
    <3> HIDE DEF n, s
    <3> QED BY <3>1, MovedToHead
  <2>2. s = v
    BY <1>1
  <2> HIDE DEF v, s
  <2> QED BY <1>1, <2>1, <2>2
<1>11. r.S = s
  BY <1>8, <1>9 DEF ToHead
<1> HIDE DEF s
<1>12. \A j \in 1 .. Len(S) : j # n => S[j] # p
  BY <1>1 DEF IsInjective
<1>13. r.len = to + 1
  <2>1. \A j \in to + 1 .. n - 1 : S[j] # p
    BY <1>1, <1>7, <1>12
  <2>2. u.table[p].recency
    BY <1>1, <1>4, <1>6, <1>8, <2>1
  <2> QED BY <1>8, <1>9, <2>2
<1>14. r.ptr = S[to]
  <2> DEFINE v == RemoveAt(S, n)
  <2>1. u.S = v /\ Len(v) = Len(S) - 1
    BY <1>1, <1>3, <1>8, RemoveAtFacts DEF RemovePage
  <2> HIDE DEF v
  <2>2. Len(u.S) >= 1
    BY <1>1, <1>7, <2>1
  <2>3. u.S # <<>>
    BY <2>2
  <2> QED BY <1>8, <1>9, <2>3
<1>15. /\ s[to + 1] = S[to] /\ to + 1 \in 1 .. Len(s)
       /\ S[to] \in Page /\ ~r.table[S[to]].isHIR_block
  BY <1>1, <1>6, <1>7, <1>8, <1>9, <1>10
<1>16. ASSUME NEW i \in 1 .. Len(s), i # 1
       PROVE  /\ r.table[s[i]].recency <=> i <= to + 1
              /\ ~r.table[s[i]].isHIR_block => i <= to + 1
  <2>1. CASE i <= n
    <3> DEFINE j == i - 1
    <3>1. j \in 1 .. Len(S) /\ j < n /\ i = j + 1
      BY <1>1, <1>10, <1>16, <2>1
    <3> HIDE DEF j
    <3>2. s[i] = S[j] /\ S[j] \in Page
      BY <1>1, <1>10, <3>1
    <3>3. /\ r.table[S[j]].isHIR_block = t[S[j]].isHIR_block
          /\ r.table[S[j]].recency <=>
               \A k \in to + 1 .. n - 1 : S[k] # S[j]
      <4>1. mPageTable[S[j]].recency
        BY <1>1, <3>1
      <4>2. t[S[j]].recency
        BY <1>4, <3>2, <4>1
      <4>3. /\ r.table[S[j]].isHIR_block = f.table[S[j]].isHIR_block
            /\ r.table[S[j]].recency = f.table[S[j]].recency
        BY <1>8, <1>9, <3>2
      <4> QED BY <1>6, <3>2, <4>2, <4>3
    <3>4. (\A k \in to + 1 .. n - 1 : S[k] # S[j]) <=> j <= to
      <4>1. \A k \in 1 .. Len(S) : S[k] = S[j] => k = j
        BY <1>1, <3>1 DEF IsInjective
      <4>2. \A k \in to + 1 .. n - 1 : k \in 1 .. Len(S) /\ k > to
        BY <1>1, <1>7
      <4>3. j > to => j \in to + 1 .. n - 1
        BY <1>1, <1>7, <3>1
      <4>4. CASE j <= to
        BY <1>7, <3>1, <4>1, <4>2, <4>4
      <4>5. CASE j > to
        BY <1>7, <3>1, <4>3, <4>5
      <4> QED BY <1>7, <3>1, <4>4, <4>5
    <3>5. ~t[S[j]].isHIR_block => j <= to
      <4>1. j > to => j \in to + 1 .. n - 1
        BY <1>1, <1>7, <3>1
      <4> QED BY <1>1, <1>6, <1>7, <3>1, <4>1
    <3> QED BY <1>7, <3>1, <3>2, <3>3, <3>4, <3>5
  <2>2. CASE i > n
    <3>1. i \in 1 .. Len(S) /\ s[i] = S[i] /\ S[i] \in Page
      BY <1>1, <1>10, <2>2
    <3>2. ~mPageTable[S[i]].recency /\ mPageTable[S[i]].isHIR_block
      BY <1>1, <2>2, <3>1
    <3>3. ~r.table[S[i]].recency /\ r.table[S[i]].isHIR_block
      <4>1. ~t[S[i]].recency /\ t[S[i]].isHIR_block
        BY <1>4, <3>1, <3>2
      <4>2. ~f.table[S[i]].recency /\ f.table[S[i]].isHIR_block
        BY <1>6, <3>1, <4>1
      <4> QED BY <1>8, <1>9, <3>1, <4>2
    <3> QED BY <1>1, <1>7, <2>2, <3>1, <3>3
  <2> QED BY <1>1, <1>10, <2>1, <2>2
<1>17. \A x \in Page : x \notin Range(s) => /\ ~r.table[x].recency
                                            /\ ~r.table[x].isResident
                                            /\ r.table[x].isHIR_block
  <2> SUFFICES ASSUME NEW x \in Page, x \notin Range(s)
               PROVE  /\ ~r.table[x].recency /\ ~r.table[x].isResident
                      /\ r.table[x].isHIR_block
    OBVIOUS
  <2>1. /\ ~mPageTable[x].recency /\ ~mPageTable[x].isResident
        /\ mPageTable[x].isHIR_block /\ x # p
    BY <1>1, <1>10
  <2>2. ~t[x].recency /\ ~t[x].isResident /\ t[x].isHIR_block
    BY <2>1 DEF BranchTable
  <2> QED BY <1>6, <1>8, <1>9, <2>1, <2>2
<1>18. \A i \in 1 .. Len(s) : /\ s[i] # p => (r.table[s[i]].recency <=> i <= to + 1)
                              /\ ~r.table[s[i]].isHIR_block => i <= to + 1
  <2> SUFFICES ASSUME NEW i \in 1 .. Len(s)
               PROVE  /\ s[i] # p => (r.table[s[i]].recency <=> i <= to + 1)
                      /\ ~r.table[s[i]].isHIR_block => i <= to + 1
    OBVIOUS
  <2>1. CASE i = 1
    BY <1>7, <1>10, <2>1
  <2>2. CASE i # 1
    BY <1>16, <2>2
  <2> QED BY <2>1, <2>2
<1>19. Stacked(r, p)
  <2>1. r.len \in 1 .. Len(r.S) /\ r.S[1] = p /\ r.S[r.len] = r.ptr
    BY <1>10, <1>11, <1>13, <1>14, <1>15
  <2>2. ~r.table[r.ptr].isHIR_block
    BY <1>14, <1>15
  <2>3. r \in Machines /\ IsInjective(r.S)
    BY <1>9, <1>10, <1>11
  <2> DEFINE z == to + 1
  <2>4. r.S = s /\ r.len = z
    BY <1>11, <1>13
  <2>5. \A i \in 1 .. Len(s) :
          /\ s[i] # p => (r.table[s[i]].recency <=> i <= z)
          /\ ~r.table[s[i]].isHIR_block => i <= z
    BY <1>18
  <2> HIDE DEF z
  <2> QED BY <1>17, <2>1, <2>2, <2>3, <2>4, <2>5 DEF Stacked
<1>20. \A x \in Page : /\ r.table[x].isHIR_block = t[x].isHIR_block
                       /\ r.table[x].isResident <=> t[x].isResident \/ x = p
  BY <1>6, <1>8, <1>9
<1>21. HasPlaced(r, p, t, q, lirs)
  BY <1>8, <1>9, <1>11, <1>19, <1>20 DEF HasPlaced, s
<1> QED BY <1>8, <1>21 DEF r, u, m, Machines

(* With no LIR page above the lowest, the pointer runs off the list.       *)
LEMMA PtrLost ==
  ASSUME NEW p \in Page,
         StackOK(mPageTable, S, LIR_LRU_block_ptr, cur_lir_S_len),
         p = LIR_LRU_block_ptr, p # S[1], NEW t, BranchTable(t, p),
         NEW q \in Seq(Page), NEW lirs \in Int,
         \A i \in 1 .. cur_lir_S_len - 1 : mPageTable[S[i]].isHIR_block
  PROVE  removeLIRSList(Machine(t, q, lirs), p).status = "segv"
<1> DEFINE m == Machine(t, q, lirs)
           n == cur_lir_S_len
           f == findLastLirLru(m, n - 1)
<1>1. /\ S \in Seq(Page) /\ IsInjective(S) /\ Len(S) \in Nat
      /\ n \in 1 .. Len(S) /\ S[n] = p /\ p \in Range(S) /\ n # 1
      /\ \A i \in 1 .. Len(S) : S[i] \in Page
  BY DEF StackOK, Range
<1>2. /\ m \in Machines /\ m.table = t /\ m.S = S /\ m.ptr = p
  BY <1>1 DEF Machine, Machines, BranchTable
<1>3. Pos(S, p) = n
  BY <1>1, PosUnique
<1> HIDE DEF m
<1>4. {j \in 1 .. n - 1 : ~m.table[m.S[j]].isHIR_block} = {}
  <2> SUFFICES ASSUME NEW j \in 1 .. n - 1, ~t[S[j]].isHIR_block PROVE FALSE
    BY <1>2
  <2>1. j \in 1 .. Len(S) /\ j # n /\ S[j] # p
    BY <1>1 DEF IsInjective
  <2> QED BY <1>1, <2>1 DEF BranchTable
<1>5. f = [m EXCEPT !.status = "segv"]
  BY <1>1, <1>4 DEF findLastLirLru
<1>6. removeLIRSList(m, p) = [f EXCEPT !.S = RemovePage(S, p)]
  BY <1>1, <1>2, <1>3 DEF removeLIRSList
<1> QED BY <1>2, <1>5, <1>6 DEF Machines, m

(* What the handler makes of table t and queue q: page p is cached, it     *)
(* keeps its kind, and enters the queue if it is HIR; or, HIR and marked,  *)
(* it trades places with the lowest LIR page.                              *)
Settled(t, q, p, tf, qf) ==
  /\ tf \in [Page -> PageFields]
  /\ \A x \in Page : tf[x].isResident <=> t[x].isResident \/ x = p
  /\ \/ /\ ~t[p].isHIR_block /\ qf = q
        /\ \A x \in Page : tf[x].isHIR_block = t[x].isHIR_block
     \/ /\ t[p].isHIR_block /\ ~mPageTable[p].recency /\ qf = <<p>> \o q
        /\ \A x \in Page : tf[x].isHIR_block = t[x].isHIR_block
     \/ /\ t[p].isHIR_block /\ mPageTable[p].recency
        /\ LIR_LRU_block_ptr \in Page /\ ~t[LIR_LRU_block_ptr].isHIR_block
        /\ qf = <<LIR_LRU_block_ptr>> \o q
        /\ \A x \in Page : tf[x].isHIR_block <=>
             x = LIR_LRU_block_ptr \/ (x # p /\ t[x].isHIR_block)

(* One field of a page changes.                                            *)
LEMMA KindSet ==
  ASSUME NEW t \in [Page -> PageFields], NEW b \in Page, NEW v \in BOOLEAN
  PROVE  LET u == [t EXCEPT ![b].isHIR_block = v] IN
           /\ u \in [Page -> PageFields]
           /\ \A x \in Page : /\ u[x].isResident = t[x].isResident
                              /\ u[x].recency = t[x].recency
                              /\ u[x].isHIR_block =
                                   IF x = b THEN v ELSE t[x].isHIR_block
<1>1. \A x \in Page : /\ t[x] \in PageFields
                      /\ [t[x] EXCEPT !.isHIR_block = v] \in PageFields
  BY DEF PageFields
<1> QED BY <1>1 DEF PageFields

(* Likewise.                                                               *)
LEMMA MarkSet ==
  ASSUME NEW t \in [Page -> PageFields], NEW b \in Page, NEW v \in BOOLEAN
  PROVE  LET u == [t EXCEPT ![b].recency = v] IN
           /\ u \in [Page -> PageFields]
           /\ \A x \in Page : /\ u[x].isResident = t[x].isResident
                              /\ u[x].isHIR_block = t[x].isHIR_block
                              /\ u[x].recency =
                                   IF x = b THEN v ELSE t[x].recency
<1>1. \A x \in Page : /\ t[x] \in PageFields
                      /\ [t[x] EXCEPT !.recency = v] \in PageFields
  BY DEF PageFields
<1> QED BY <1>1 DEF PageFields

(* Table t with the mark of page p set.                                    *)
Marked(t, p) == [t EXCEPT ![p].recency = TRUE]

(* What it does.                                                           *)
LEMMA MarkedFacts ==
  ASSUME NEW t \in [Page -> PageFields], NEW p \in Page
  PROVE  /\ Marked(t, p) \in [Page -> PageFields]
         /\ \A x \in Page :
              /\ Marked(t, p)[x].isResident = t[x].isResident
              /\ Marked(t, p)[x].isHIR_block = t[x].isHIR_block
              /\ Marked(t, p)[x].recency <=> t[x].recency \/ x = p
<1> DEFINE u == [t EXCEPT ![p].recency = TRUE]
<1>1. /\ u \in [Page -> PageFields]
      /\ \A x \in Page : /\ u[x].isResident = t[x].isResident
                         /\ u[x].isHIR_block = t[x].isHIR_block
                         /\ u[x].recency =
                              IF x = p THEN TRUE ELSE t[x].recency
  BY MarkSet
<1>2. Marked(t, p) = u
  BY DEF Marked
<1> HIDE DEF u
<1> QED BY <1>1, <1>2

(* With the mark of the page at its head a machine's stack is in order.    *)
LEMMA MarkedStackOK ==
  ASSUME NEW m, NEW p \in Page, Stacked(m, p)
  PROVE  StackOK(Marked(m.table, p), m.S, m.ptr, m.len)
<1> DEFINE t == Marked(m.table, p)
<1>1. /\ m \in Machines /\ m.table \in [Page -> PageFields]
      /\ m.S \in Seq(Page) /\ p \in Range(m.S)
      /\ 1 \in 1 .. Len(m.S) /\ 1 <= m.len
  BY DEF Stacked, Machines, Range
<1>2. \A x \in Page : /\ t[x].isResident = m.table[x].isResident
                      /\ t[x].isHIR_block = m.table[x].isHIR_block
                      /\ t[x].recency <=> m.table[x].recency \/ x = p
  BY <1>1, MarkedFacts
<1> HIDE DEF t
<1>3. m.ptr \in Page /\ ~t[m.ptr].isHIR_block
  BY <1>1, <1>2 DEF Stacked
<1>4. ASSUME NEW i \in 1 .. Len(m.S)
      PROVE  /\ t[m.S[i]].recency <=> i <= m.len
             /\ ~t[m.S[i]].isHIR_block => i <= m.len
  <2>1. m.S[i] \in Page
    BY <1>1
  <2>2. /\ m.S[i] # p => (m.table[m.S[i]].recency <=> i <= m.len)
        /\ ~m.table[m.S[i]].isHIR_block => i <= m.len
    BY DEF Stacked
  <2>3. m.S[i] = p => i = 1
    BY <1>1 DEF Stacked, IsInjective
  <2> QED BY <1>1, <1>2, <2>1, <2>2, <2>3
<1>5. \A x \in Page : x \notin Range(m.S) => /\ ~t[x].recency
                                             /\ ~t[x].isResident
                                             /\ t[x].isHIR_block
  BY <1>1, <1>2 DEF Stacked
<1> QED BY <1>1, <1>3, <1>4, <1>5 DEF Stacked, StackOK, t

(* The lowest LIR page of a machine becomes an HIR page that leaves the    *)
(* stack proper, and page p, an HIR page at the head of S, a LIR page.     *)
LEMMA PromoteFacts ==
  ASSUME NEW m, NEW p \in Page, Stacked(m, p), m.table[p].isHIR_block,
         m.table[p].recency, LIRFramesTaken(m.num + 1)
  PROVE  LET c == Promote(m, p) IN
           /\ Stacked(c, p) /\ c.S = m.S /\ c.num = m.num
           /\ c.Q = <<m.ptr>> \o m.Q
           /\ \A x \in Page :
                /\ c.table[x].isResident = m.table[x].isResident
                /\ c.table[x].isHIR_block <=>
                     x = m.ptr \/ (x # p /\ m.table[x].isHIR_block)
<1> DEFINE b == m.ptr
           t0 == m.table
           t1 == [t0 EXCEPT ![p].isHIR_block = FALSE]
           t3 == [t1 EXCEPT ![b].isHIR_block = TRUE]
           t2 == [t3 EXCEPT ![b].recency = FALSE]
           k == <<m.ptr>> \o m.Q
           up == [m EXCEPT !.table = t1]
           d == [up EXCEPT !.Q = k, !.table = t2]
           c == findLastLirLru(d, m.len)
<1>1. /\ m \in Machines /\ m.table \in [Page -> PageFields]
      /\ m.S \in Seq(Page) /\ m.Q \in Seq(Page) /\ Len(m.S) \in Nat
      /\ m.len \in 1 .. Len(m.S) /\ m.S[m.len] = m.ptr /\ m.S[1] = p
      /\ m.ptr \in Page /\ m.ptr # p /\ m.len # 1 /\ IsInjective(m.S)
      /\ p \in Range(m.S) /\ m.ptr \in Range(m.S)
  BY DEF Stacked, Machines, Range
<1>2. Pos(m.S, m.ptr) = m.len
  BY <1>1, PosUnique
<1>3. Promote(m, p) = c
  BY <1>1, <1>2 DEF Promote, Machines
<1>4. b \in Page /\ b # p /\ t0 \in [Page -> PageFields]
  BY <1>1
<1> HIDE DEF b, t0
<1>5. /\ t1 \in [Page -> PageFields]
      /\ \A x \in Page : /\ t1[x].isResident = t0[x].isResident
                         /\ t1[x].recency = t0[x].recency
                         /\ t1[x].isHIR_block =
                              IF x = p THEN FALSE ELSE t0[x].isHIR_block
  BY <1>4, KindSet
<1> HIDE DEF t1
<1>16. /\ t3 \in [Page -> PageFields]
       /\ \A x \in Page : /\ t3[x].isResident = t1[x].isResident
                          /\ t3[x].recency = t1[x].recency
                          /\ t3[x].isHIR_block =
                               IF x = b THEN TRUE ELSE t1[x].isHIR_block
  BY <1>4, <1>5, KindSet
<1> HIDE DEF t3
<1>17. /\ t2 \in [Page -> PageFields]
       /\ \A x \in Page : /\ t2[x].isResident = t3[x].isResident
                          /\ t2[x].isHIR_block = t3[x].isHIR_block
                          /\ t2[x].recency =
                               IF x = b THEN FALSE ELSE t3[x].recency
  <2>1. b \in Page /\ t3 \in [Page -> PageFields]
    BY <1>4, <1>16
  <2> QED BY <2>1, MarkSet
<1> HIDE DEF t2
<1>18. t2 \in [Page -> PageFields]
       /\ \A x \in Page :
            /\ t2[x].isResident = t0[x].isResident
            /\ t2[x].recency <=> x # b /\ t0[x].recency
            /\ t2[x].isHIR_block <=> x = b \/ (x # p /\ t0[x].isHIR_block)
  <2>1. ASSUME NEW x \in Page
        PROVE  /\ t2[x].isResident = t0[x].isResident
               /\ t2[x].recency <=> x # b /\ t0[x].recency
               /\ t2[x].isHIR_block <=> x = b \/ (x # p /\ t0[x].isHIR_block)
    <3>1. /\ t2[x].isResident = t0[x].isResident
          /\ t2[x].recency = IF x = b THEN FALSE ELSE t0[x].recency
          /\ t2[x].isHIR_block = IF x = b THEN TRUE
                                 ELSE IF x = p THEN FALSE ELSE t0[x].isHIR_block
      <4>1. /\ t1[x].isResident = t0[x].isResident
            /\ t1[x].recency = t0[x].recency
            /\ t1[x].isHIR_block = IF x = p THEN FALSE ELSE t0[x].isHIR_block
        BY <1>5
      <4>2. /\ t3[x].isResident = t1[x].isResident
            /\ t3[x].recency = t1[x].recency
            /\ t3[x].isHIR_block = IF x = b THEN TRUE ELSE t1[x].isHIR_block
        BY <1>16
      <4>3. /\ t2[x].isResident = t3[x].isResident
            /\ t2[x].recency = IF x = b THEN FALSE ELSE t3[x].recency
            /\ t2[x].isHIR_block = t3[x].isHIR_block
        BY <1>17
      <4> QED BY <4>1, <4>2, <4>3, Zenon
    <3>2. t0[x].recency \in BOOLEAN /\ t0[x].isHIR_block \in BOOLEAN
      BY <1>4 DEF PageFields
    <3>3. CASE x = b
      BY <1>4, <3>1, <3>3
    <3>4. CASE x # b
      BY <3>1, <3>2, <3>4
    <3> QED BY <3>3, <3>4
  <2> QED BY <1>17, <2>1
<1>19. /\ t2 \in [Page -> PageFields]
       /\ \A x \in Page :
            /\ t2[x].isResident = m.table[x].isResident
            /\ t2[x].recency <=> x # m.ptr /\ m.table[x].recency
            /\ t2[x].isHIR_block <=>
                 x = m.ptr \/ (x # p /\ m.table[x].isHIR_block)
  BY <1>18 DEF b, t0
<1>6. up \in Machines /\ k \in Seq(Page)
  <2>1. m \in Machines /\ t1 \in [Page -> PageFields]
    BY <1>1, <1>5
  <2>2. k \in Seq(Page)
    BY <1>1
  <2> QED BY <2>1, <2>2 DEF Machines
<1> HIDE DEF k
<1>7. /\ d \in Machines /\ d.table = t2 /\ d.S = m.S /\ d.Q = k
      /\ d.ptr = m.ptr /\ d.len = m.len /\ d.num = m.num
  BY <1>6, <1>19 DEF Machines
<1> HIDE DEF d, up
<1>8. HasFound(d, c, m.len)
  <2>1. 1 \in 1 .. m.len /\ ~d.table[d.S[1]].isHIR_block
    BY <1>1, <1>19, <1>7
  <2> QED BY <1>1, <1>7, <2>1, findLastFacts
<1> HIDE DEF c
<1>9. PICK to \in 1 .. m.len :
        /\ ~t2[m.S[to]].isHIR_block
        /\ \A j \in to + 1 .. m.len : t2[m.S[j]].isHIR_block
        /\ c \in Machines
        /\ c.S = m.S /\ c.Q = k /\ c.num = m.num
        /\ c.ptr = m.S[to] /\ c.len = m.len - (m.len - to)
        /\ \A x \in Page :
             /\ c.table[x].isResident = t2[x].isResident
             /\ c.table[x].isHIR_block = t2[x].isHIR_block
             /\ c.table[x].recency <=>
                  t2[x].recency /\ \A j \in to + 1 .. m.len : m.S[j] # x
  BY <1>7, <1>8 DEF HasFound
<1>10. /\ to \in Nat /\ to \in 1 .. Len(m.S) /\ c.len = to /\ m.S[to] \in Page
       /\ to < m.len
  <2>1. to \in Nat /\ to \in 1 .. Len(m.S) /\ m.len - (m.len - to) = to
    BY <1>1
  <2>2. ASSUME to = m.len PROVE FALSE
    <3>1. m.S[to] = m.ptr /\ t2[m.ptr].isHIR_block
      BY <1>1, <1>19, <2>2
    <3>2. ~t2[m.S[to]].isHIR_block
      BY <1>9
    <3> QED BY <3>1, <3>2
  <2> QED BY <1>1, <1>9, <2>1, <2>2
<1>11. ASSUME NEW i \in 1 .. Len(m.S)
       PROVE  /\ m.S[i] # p => (c.table[m.S[i]].recency <=> i <= to)
              /\ ~c.table[m.S[i]].isHIR_block => i <= to
  <2> DEFINE x == m.S[i]
  <2>1. /\ x \in Page
        /\ x = m.ptr <=> i = m.len
        /\ x # p => (m.table[x].recency <=> i <= m.len)
        /\ ~m.table[x].isHIR_block => i <= m.len
        /\ x = p <=> i = 1
    <3>1. x = p <=> i = 1
      BY <1>1 DEF IsInjective
    <3>2. x = m.ptr <=> i = m.len
      BY <1>1 DEF IsInjective
    <3> QED BY <1>1, <3>1, <3>2 DEF Stacked
  <2>2. (\A j \in to + 1 .. m.len : m.S[j] # x) <=> i \notin to + 1 .. m.len
    BY <1>1, <1>10 DEF IsInjective
  <2>3. i \in to + 1 .. m.len => t2[x].isHIR_block
    BY <1>9
  <2> HIDE DEF x
  <2>4. x # p => (t2[x].recency <=> i < m.len)
    BY <1>1, <1>19, <2>1
  <2>5. x # p => (c.table[x].recency <=> i <= to)
    BY <1>1, <1>9, <1>10, <2>1, <2>2, <2>4
  <2>6. ~c.table[x].isHIR_block => i <= to
    <3>1. ~t2[x].isHIR_block => i <= m.len
      BY <1>1, <1>19, <2>1
    <3> QED BY <1>1, <1>9, <1>10, <2>1, <2>3, <3>1
  <2> QED BY <2>5, <2>6 DEF x
<1>12. \A x \in Page : x \notin Range(m.S) => /\ ~c.table[x].recency
                                              /\ ~c.table[x].isResident
                                              /\ c.table[x].isHIR_block
  <2> SUFFICES ASSUME NEW x \in Page, x \notin Range(m.S)
               PROVE  /\ ~c.table[x].recency /\ ~c.table[x].isResident
                      /\ c.table[x].isHIR_block
    OBVIOUS
  <2>1. /\ ~m.table[x].recency /\ ~m.table[x].isResident
        /\ m.table[x].isHIR_block /\ x # p
    BY <1>1 DEF Stacked
  <2> QED BY <1>19, <1>9, <2>1
<1>13. c.S[c.len] = c.ptr /\ ~c.table[c.ptr].isHIR_block
  BY <1>9, <1>10
<1>14. Stacked(c, p)
  <2>1. c.len = to /\ c.S = m.S /\ c \in Machines /\ to \in 1 .. Len(m.S)
    BY <1>9, <1>10
  <2> QED BY <1>1, <1>11, <1>12, <1>13, <2>1 DEF Stacked
<1>15. \A x \in Page :
         /\ c.table[x].isResident = m.table[x].isResident
         /\ c.table[x].isHIR_block <=>
              x = m.ptr \/ (x # p /\ m.table[x].isHIR_block)
  BY <1>19, <1>9
<1> QED BY <1>3, <1>9, <1>14, <1>15 DEF k

(* The end of the handler.                                                 *)
LEMMA ClassifyFacts ==
  ASSUME NEW p \in Page, NEW t, BranchTable(t, p), NEW q, NEW lirs, NEW r,
         HasPlaced(r, p, t, q, lirs),
         t[p].isHIR_block => p # LIR_LRU_block_ptr /\ S # <<>>,
         t[p].isHIR_block /\ mPageTable[p].recency => LIRFramesTaken(lirs + 1)
  PROVE  LET c == Classify(r, p) IN
           /\ Stacked(c, p) /\ c.S = ToHead(S, p) /\ c.num = lirs
           /\ Settled(t, q, p, Marked(c.table, p), c.Q)
<1> DEFINE c == Classify(r, p)
           tf == Marked(c.table, p)
<1>1. /\ Stacked(r, p) /\ r \in Machines /\ r.S = ToHead(S, p) /\ r.Q = q
      /\ r.num = lirs
      /\ \A x \in Page : /\ r.table[x].isHIR_block = t[x].isHIR_block
                         /\ r.table[x].isResident <=> t[x].isResident \/ x = p
      /\ t[p].isHIR_block => /\ r.ptr = LIR_LRU_block_ptr
                             /\ r.table[p].recency <=> mPageTable[p].recency
  BY DEF HasPlaced, Stacked, BranchTable
<1>2. SUFFICES /\ Stacked(c, p) /\ c.S = r.S /\ c.num = lirs
               /\ Settled(t, q, p, tf, c.Q)
  BY <1>1
<1>3. CASE ~t[p].isHIR_block
  <2>1. c = r
    BY <1>1, <1>3 DEF Classify
  <2>2. /\ tf \in [Page -> PageFields]
        /\ \A x \in Page : /\ tf[x].isResident = r.table[x].isResident
                           /\ tf[x].isHIR_block = r.table[x].isHIR_block
    <3>1. c.table = r.table /\ r.table \in [Page -> PageFields]
      BY <1>1, <2>1 DEF Machines
    <3> DEFINE g == c.table
    <3>2. g \in [Page -> PageFields] /\ tf = Marked(g, p) /\ g = r.table
      BY <3>1
    <3> HIDE DEF c, g, tf
    <3> QED BY <3>2, MarkedFacts
  <2> HIDE DEF tf, c
  <2> QED BY <1>1, <1>3, <2>1, <2>2 DEF Settled
<1>4. CASE t[p].isHIR_block /\ ~mPageTable[p].recency
  <2> DEFINE k == <<p>> \o r.Q
  <2>1. c = [r EXCEPT !.Q = k]
    BY <1>1, <1>4 DEF Classify
  <2>2. k \in Seq(Page)
    BY <1>1 DEF Machines
  <2> HIDE DEF k, c, tf
  <2>3. /\ c \in Machines /\ c.Q = k /\ c.S = r.S /\ c.table = r.table
        /\ c.ptr = r.ptr /\ c.len = r.len /\ c.num = r.num
    BY <1>1, <2>1, <2>2 DEF Machines
  <2>4. /\ tf \in [Page -> PageFields]
        /\ \A x \in Page : /\ tf[x].isResident = r.table[x].isResident
                           /\ tf[x].isHIR_block = r.table[x].isHIR_block
    <3> DEFINE g == c.table
    <3>1. g \in [Page -> PageFields] /\ tf = Marked(g, p) /\ g = r.table
      BY <2>3 DEF Machines, tf
    <3> HIDE DEF g
    <3> QED BY <3>1, MarkedFacts
  <2>5. Stacked(c, p)
    BY <1>1, <2>3 DEF Stacked
  <2>6. Settled(t, q, p, tf, c.Q)
    BY <1>1, <1>4, <2>3, <2>4 DEF Settled, k
  <2> QED BY <1>1, <2>3, <2>5, <2>6
<1>5. CASE t[p].isHIR_block /\ mPageTable[p].recency
  <2>1. c = Promote(r, p) /\ r.table[p].isHIR_block /\ r.table[p].recency
        /\ LIRFramesTaken(r.num + 1)
    BY <1>1, <1>5 DEF Classify
  <2> DEFINE d == Promote(r, p)
  <2>2. /\ Stacked(d, p) /\ d.S = r.S /\ d.num = r.num
        /\ d.Q = <<r.ptr>> \o r.Q
        /\ \A x \in Page :
             /\ d.table[x].isResident = r.table[x].isResident
             /\ d.table[x].isHIR_block <=>
                  x = r.ptr \/ (x # p /\ r.table[x].isHIR_block)
    BY <1>1, <2>1, PromoteFacts
  <2> HIDE DEF d, c, tf
  <2>3. /\ tf \in [Page -> PageFields]
        /\ \A x \in Page : /\ tf[x].isResident = d.table[x].isResident
                           /\ tf[x].isHIR_block = d.table[x].isHIR_block
    <3> DEFINE g == d.table
    <3>1. g \in [Page -> PageFields] /\ tf = Marked(g, p)
      BY <2>1, <2>2 DEF Machines, Stacked, tf, d
    <3>2. /\ tf \in [Page -> PageFields]
          /\ \A x \in Page : /\ tf[x].isResident = g[x].isResident
                             /\ tf[x].isHIR_block = g[x].isHIR_block
      <4> HIDE DEF g
      <4> QED BY <3>1, MarkedFacts
    <3> QED BY <3>2
  <2>4. r.ptr = LIR_LRU_block_ptr /\ r.ptr \in Page /\ ~t[r.ptr].isHIR_block
    <3>1. r.ptr \in Page /\ ~r.table[r.ptr].isHIR_block
      BY <1>1 DEF Stacked, Machines
    <3> QED BY <1>1, <1>5, <3>1
  <2>5. \A x \in Page : tf[x].isHIR_block <=>
          x = LIR_LRU_block_ptr \/ (x # p /\ t[x].isHIR_block)
    BY <1>1, <2>2, <2>3, <2>4
  <2>6. \A x \in Page : tf[x].isResident <=> t[x].isResident \/ x = p
    BY <1>1, <2>2, <2>3
  <2>7. c.Q = <<LIR_LRU_block_ptr>> \o q
    BY <1>1, <2>1, <2>2, <2>4 DEF d
  <2>8. Settled(t, q, p, tf, c.Q)
    BY <1>5, <2>3, <2>4, <2>5, <2>6, <2>7 DEF Settled
  <2> QED BY <1>1, <2>1, <2>2, <2>8 DEF d
<1> QED BY <1>3, <1>4, <1>5

(* A handler that went through for page p, with table t, queue q and lirs  *)
(* LIR pages from its branch.                                              *)
HasTouched(p, t, q, lirs) ==
  /\ status' = "running"
  /\ Settled(t, q, p, mPageTable', Q') /\ Q' \in Seq(Page)
  /\ S' = ToHead(S, p) /\ S'[1] = p
  /\ StackOK(mPageTable', S', LIR_LRU_block_ptr', cur_lir_S_len')
  /\ num_LIR_pgs' = lirs /\ last_ref_pg' = p

(* A handler that ended the program.                                       *)
HasStopped ==
  /\ status' = "segv"
  /\ UNCHANGED <<mPageTable, S, Q, LIR_LRU_block_ptr, cur_lir_S_len,
                 num_LIR_pgs, last_ref_pg>>

(* The steps of the handler after page p has left S, one by one.           *)
LEMMA LiveTouch ==
  ASSUME NEW p \in Page, NEW t, BranchTable(t, p), NEW q, NEW lirs,
         NEW m, m.status = "running",
         t[p].isHIR_block => p # LIR_LRU_block_ptr /\ S # <<>>,
         t[p].isHIR_block /\ mPageTable[p].recency => LIRFramesTaken(lirs + 1),
         removeLIRSList(m, p).status = "running",
         HasPlaced(Placed(removeLIRSList(m, p), p), p, t, q, lirs),
         Touch(p, m)
  PROVE  HasTouched(p, t, q, lirs)
<1> DEFINE u == removeLIRSList(m, p)
           r == Placed(u, p)
           c == Classify(r, p)
<1>1. /\ Stacked(c, p) /\ c.S = ToHead(S, p) /\ c.num = lirs
      /\ Settled(t, q, p, Marked(c.table, p), c.Q)
  BY ClassifyFacts
<1>2. c.status = "running"
  BY <1>1 DEF Stacked, Machines
<1> HIDE DEF c
<1>3. /\ status' = c.status
      /\ mPageTable' = Marked(c.table, p) /\ S' = c.S /\ Q' = c.Q
      /\ LIR_LRU_block_ptr' = c.ptr /\ cur_lir_S_len' = c.len
      /\ num_LIR_pgs' = c.num /\ last_ref_pg' = p
  BY <1>2 DEF Touch, Placed, Marked, c
<1>4. StackOK(Marked(c.table, p), c.S, c.ptr, c.len)
  BY <1>1, MarkedStackOK
<1>5. c.S[1] = p /\ c.Q \in Seq(Page)
  BY <1>1 DEF Stacked, Machines
<1> QED BY <1>1, <1>2, <1>3, <1>4, <1>5 DEF HasTouched

(* The program ends while page p leaves S.                                 *)
LEMMA DeadTouch ==
  ASSUME NEW p, NEW m, m.status = "running", Touch(p, m),
         removeLIRSList(m, p).status = "segv"
  PROVE  HasStopped
BY DEF Touch, HasStopped

(* Only one page can be LIR when the pointer runs off the list.            *)
LEMMA OneLIRFrame ==
  ASSUME IInv, StackOK(mPageTable, S, LIR_LRU_block_ptr, cur_lir_S_len),
         LIR_LRU_block_ptr # S[1],
         \A i \in 1 .. cur_lir_S_len - 1 : mPageTable[S[i]].isHIR_block
  PROVE  mCacheMaxLimit - HIR_block_portion_limit = 1
<1> DEFINE n == cur_lir_S_len
<1>1. /\ S \in Seq(Page) /\ Len(S) \in Nat /\ n \in 1 .. Len(S) /\ n # 1
      /\ S[n] = LIR_LRU_block_ptr /\ LIR_LRU_block_ptr \in Page
      /\ ~mPageTable[LIR_LRU_block_ptr].isHIR_block
      /\ \A i \in 1 .. Len(S) : ~mPageTable[S[i]].isHIR_block => i <= n
      /\ \A x \in Page : x \notin Range(S) => mPageTable[x].isHIR_block
  BY DEF StackOK
<1>2. LIRIn(mPageTable) = {LIR_LRU_block_ptr}
  <2>1. ASSUME NEW x \in Page, ~mPageTable[x].isHIR_block
        PROVE  x = LIR_LRU_block_ptr
    <3>1. PICK i \in 1 .. Len(S) : S[i] = x
      BY <1>1, <2>1 DEF Range
    <3>2. i <= n /\ i \notin 1 .. n - 1
      BY <1>1, <2>1, <3>1
    <3>3. i = n
      BY <1>1, <3>2
    <3> QED BY <1>1, <3>1, <3>3
  <2> QED BY <1>1, <2>1 DEF LIRIn
<1>3. Cardinality(LIRIn(mPageTable)) = 1
  BY <1>2, FS_Singleton
<1>4. LIRShare(mFreeMemSize) = 1
  BY <1>3 DEF IInv, Accounted
<1>5. ~(mFreeMemSize > HIR_block_portion_limit)
  <2> SUFFICES ASSUME mFreeMemSize > HIR_block_portion_limit PROVE FALSE
    OBVIOUS
  <2>1. ~mPageTable[S[1]].isHIR_block
    BY <1>1 DEF IInv, Range
  <2>2. 1 \in 1 .. n - 1
    BY <1>1
  <2> QED BY <2>1, <2>2
<1> QED BY <1>4, <1>5 DEF LIRShare

(* The handler on the state a branch leaves it: it goes through, or the    *)
(* program ends in a cache with one frame for LIR pages.                   *)
LEMMA TouchFacts ==
  ASSUME IInv, NEW p \in Page, p # last_ref_pg,
         NEW t, BranchTable(t, p), NEW q \in Seq(Page), NEW lirs \in Nat,
         Fresh => ~t[p].isHIR_block,
         t[p].isHIR_block /\ mPageTable[p].recency => LIRFramesTaken(lirs + 1),
         Touch(p, Machine(t, q, lirs))
  PROVE  \/ HasTouched(p, t, q, lirs)
         \/ HasStopped /\ mCacheMaxLimit - HIR_block_portion_limit = 1
<1> DEFINE m == Machine(t, q, lirs)
           u == removeLIRSList(m, p)
<1>1. m.status = "running" /\ lirs \in Int /\ Touch(p, m)
  BY DEF Machine
<1>2. CASE Fresh
  <2>1. u.status = "running" /\ HasPlaced(Placed(u, p), p, t, q, lirs)
    BY <1>1, <1>2, FirstPlaced
  <2> HIDE DEF m
  <2> QED BY <1>1, <1>2, <2>1, LiveTouch
<1>3. CASE ~Fresh
  <2>1. /\ StackOK(mPageTable, S, LIR_LRU_block_ptr, cur_lir_S_len)
        /\ p # S[1]
    BY <1>3 DEF IInv
  <2>2. t[p].isHIR_block => p # LIR_LRU_block_ptr /\ S # <<>>
    BY <2>1 DEF StackOK, BranchTable
  <2>3. CASE p # LIR_LRU_block_ptr
    <3>1. u.status = "running" /\ HasPlaced(Placed(u, p), p, t, q, lirs)
      BY <1>1, <2>1, <2>3, OtherPlaced
    <3> HIDE DEF m
    <3> QED BY <1>1, <2>2, <3>1, LiveTouch
  <2>4. CASE /\ p = LIR_LRU_block_ptr
             /\ \E i \in 1 .. cur_lir_S_len - 1 : ~mPageTable[S[i]].isHIR_block
    <3>1. u.status = "running" /\ HasPlaced(Placed(u, p), p, t, q, lirs)
      BY <1>1, <2>1, <2>4, PtrPlaced
    <3> HIDE DEF m
    <3> QED BY <1>1, <2>2, <3>1, LiveTouch
  <2>5. CASE /\ p = LIR_LRU_block_ptr
             /\ \A i \in 1 .. cur_lir_S_len - 1 : mPageTable[S[i]].isHIR_block
    <3>1. u.status = "segv"
      BY <1>1, <2>1, <2>5, PtrLost
    <3>2. HasStopped
      <4> HIDE DEF m
      <4> QED BY <1>1, <3>1, DeadTouch
    <3> QED BY <2>1, <2>5, <3>2, OneLIRFrame
  <2> QED BY <2>3, <2>4, <2>5
<1> QED BY <1>2, <1>3

-----------------------------------------------------------------------------
(* The frames.                                                             *)

(* Both kinds of page have a frame.                                        *)
LEMMA LimitFacts ==
  ASSUME mCacheMaxLimit \in MemSizes
  PROVE  /\ mCacheMaxLimit \in Nat /\ mCacheMaxLimit < UINT_MOD
         /\ HIR_block_portion_limit \in Nat
         /\ HIR_block_portion_limit > 0
         /\ HIR_block_portion_limit < mCacheMaxLimit
<1> DEFINE M == mCacheMaxLimit
           x == HIR_RATE * M
<1>1. /\ M \in Nat /\ M > LOWEST_HG_NUM /\ LOWEST_HG_NUM \in Nat
      /\ LOWEST_HG_NUM > 0 /\ M < UINT_MOD
  BY ConstantsAssumption
<1>2. x \in Nat /\ x <= 99 * M
  <2> HIDE DEF M
  <2>1. HIR_RATE \in Nat /\ HIR_RATE <= 99
    BY ConstantsAssumption
  <2>2. x \in Nat /\ (99 - HIR_RATE) * M \in Nat
    BY <1>1, <2>1
  <2> QED BY <1>1, <2>1, <2>2
<1>3. HIR_block_portion_limit =
        IF x \div 100 < LOWEST_HG_NUM THEN LOWEST_HG_NUM ELSE x \div 100
  BY DEF HIR_block_portion_limit
<1> HIDE DEF M, x
<1>4. x \div 100 \in Nat /\ x \div 100 < M
  BY <1>1, <1>2
<1> QED BY <1>1, <1>3, <1>4 DEF M

(* The counts of a branch for page p: as Accounted, but page p has been    *)
(* given its frame and is in no queue.                                     *)
Ready(t, q, lirs, free, p) ==
  /\ q \in Seq(Page) /\ IsInjective(q) /\ p \notin Range(q)
  /\ \A x \in Page :
       /\ x \in Range(q) <=> x # p /\ t[x].isResident /\ t[x].isHIR_block
       /\ ~t[x].isHIR_block => t[x].isResident \/ x = p
  /\ IsFiniteSet(ResidentIn(t) \cup {p}) /\ IsFiniteSet(LIRIn(t))
  /\ Cardinality(ResidentIn(t) \cup {p}) = mCacheMaxLimit - free
  /\ Cardinality(LIRIn(t)) = lirs
  /\ lirs = LIRShare(free)

(* The rest of the handler balances the counts.                            *)
LEMMA SettledAccounted ==
  ASSUME NEW p \in Page, NEW t \in [Page -> PageFields], NEW q, NEW lirs,
         NEW free, Ready(t, q, lirs, free, p),
         NEW tf, NEW qf, Settled(t, q, p, tf, qf)
  PROVE  Accounted(tf, qf, lirs, free)
<1>1. /\ q \in Seq(Page) /\ IsInjective(q) /\ p \notin Range(q)
      /\ \A x \in Page :
           /\ x \in Range(q) <=> x # p /\ t[x].isResident /\ t[x].isHIR_block
           /\ ~t[x].isHIR_block => t[x].isResident \/ x = p
  BY DEF Ready
<1>2. /\ tf \in [Page -> PageFields]
      /\ \A x \in Page : tf[x].isResident <=> t[x].isResident \/ x = p
  BY DEF Settled
<1>3. ResidentIn(tf) = ResidentIn(t) \cup {p}
  BY <1>2 DEF ResidentIn
<1>4. CASE /\ ~t[p].isHIR_block /\ qf = q
           /\ \A x \in Page : tf[x].isHIR_block = t[x].isHIR_block
  <2>1. LIRIn(tf) = LIRIn(t)
    BY <1>4 DEF LIRIn
  <2>2. \A x \in Page :
          /\ x \in Range(qf) <=> tf[x].isResident /\ tf[x].isHIR_block
          /\ ~tf[x].isHIR_block => tf[x].isResident
    BY <1>1, <1>2, <1>4
  <2> QED BY <1>1, <1>3, <1>4, <2>1, <2>2 DEF Accounted, Ready
<1>5. CASE /\ t[p].isHIR_block /\ qf = <<p>> \o q
           /\ \A x \in Page : tf[x].isHIR_block = t[x].isHIR_block
  <2>1. LIRIn(tf) = LIRIn(t)
    BY <1>5 DEF LIRIn
  <2>2. /\ qf \in Seq(Page) /\ IsInjective(qf) /\ Range(qf) = Range(q) \cup {p}
    BY <1>1, <1>5, ConsFacts
  <2>3. \A x \in Page :
          /\ x \in Range(qf) <=> tf[x].isResident /\ tf[x].isHIR_block
          /\ ~tf[x].isHIR_block => tf[x].isResident
    BY <1>1, <1>2, <1>5, <2>2
  <2> QED BY <1>3, <2>1, <2>2, <2>3 DEF Accounted, Ready
<1>6. CASE /\ t[p].isHIR_block
           /\ LIR_LRU_block_ptr \in Page /\ ~t[LIR_LRU_block_ptr].isHIR_block
           /\ qf = <<LIR_LRU_block_ptr>> \o q
           /\ \A x \in Page : tf[x].isHIR_block <=>
                x = LIR_LRU_block_ptr \/ (x # p /\ t[x].isHIR_block)
  <2> DEFINE b == LIR_LRU_block_ptr
  <2>1. b # p /\ b \notin Range(q)
    BY <1>1, <1>6
  <2>2. LIRIn(tf) = (LIRIn(t) \ {b}) \cup {p}
    BY <1>6, <2>1 DEF LIRIn
  <2>3. b \in LIRIn(t) /\ p \notin LIRIn(t) \ {b}
    BY <1>6 DEF LIRIn
  <2>4. /\ IsFiniteSet(LIRIn(t) \ {b})
        /\ Cardinality(LIRIn(t) \ {b}) = Cardinality(LIRIn(t)) - 1
    BY <2>3, FS_RemoveElement DEF Ready
  <2>5. /\ IsFiniteSet(LIRIn(tf))
        /\ Cardinality(LIRIn(tf)) = Cardinality(LIRIn(t) \ {b}) + 1
    <3> DEFINE K == LIRIn(t) \ {b}
    <3>1. LIRIn(tf) = K \cup {p} /\ p \notin K /\ IsFiniteSet(K)
      BY <2>2, <2>3, <2>4
    <3> HIDE DEF K
    <3>2. IsFiniteSet(K \cup {p}) /\ Cardinality(K \cup {p}) = Cardinality(K) + 1
      BY <3>1, FS_AddElement
    <3> QED BY <3>1, <3>2 DEF K
  <2>6. Cardinality(LIRIn(tf)) = Cardinality(LIRIn(t))
    <3>1. Cardinality(LIRIn(t)) \in Nat
      BY FS_CardinalityType DEF Ready
    <3> QED BY <2>4, <2>5, <3>1
  <2>7. /\ qf \in Seq(Page) /\ IsInjective(qf) /\ Range(qf) = Range(q) \cup {b}
    BY <1>1, <1>6, <2>1, ConsFacts
  <2>8. \A x \in Page :
          /\ x \in Range(qf) <=> tf[x].isResident /\ tf[x].isHIR_block
          /\ ~tf[x].isHIR_block => tf[x].isResident
    BY <1>1, <1>2, <1>6, <2>1, <2>7
  <2> QED BY <1>3, <2>5, <2>6, <2>7, <2>8 DEF Accounted, Ready
<1> QED BY <1>4, <1>5, <1>6 DEF Settled

-----------------------------------------------------------------------------
(* The branches.                                                           *)

(* What a branch for page p hands to the rest of the handler.              *)
Taken(p, t, q, lirs, free) ==
  /\ BranchTable(t, p) /\ Ready(t, q, lirs, free, p)
  /\ q \in Seq(Page) /\ lirs \in Nat /\ free \in 0 .. mCacheMaxLimit
  /\ Fresh => ~t[p].isHIR_block
  /\ t[p].isHIR_block /\ mPageTable[p].recency => LIRFramesTaken(lirs + 1)
  /\ free > HIR_block_portion_limit =>
       ~t[p].isHIR_block /\ \A x \in Range(S) : ~t[x].isHIR_block

(* A marked HIR page finds the LIR frames taken.                           *)
LEMMA MarkedFull ==
  ASSUME IInv, NEW p \in Page, mPageTable[p].isHIR_block, mPageTable[p].recency
  PROVE  LIRFramesTaken(num_LIR_pgs + 1)
<1>1. ~(mFreeMemSize > HIR_block_portion_limit)
  <2>1. p \in Range(S)
    BY DEF IInv, Fresh, StackOK
  <2> QED BY <2>1 DEF IInv
<1>2. num_LIR_pgs = mCacheMaxLimit - HIR_block_portion_limit
  BY <1>1 DEF IInv, Accounted, LIRShare
<1> DEFINE H == HIR_block_portion_limit
           M == mCacheMaxLimit
<1>3. /\ M \in Nat /\ M < UINT_MOD /\ UINT_MOD \in Nat
      /\ H \in Nat /\ H > 0 /\ H < M
  BY LimitFacts, ConstantsAssumption DEF IInv, TypeOK
<1>4. LIRFramesTaken(num_LIR_pgs + 1) <=> (M - H) + 1 > (M - H) % UINT_MOD
  BY <1>2 DEF LIRFramesTaken
<1> HIDE DEF M, H
<1>5. (M - H) % UINT_MOD = M - H
  <2>1. M - H \in 0 .. UINT_MOD - 1
    BY <1>3
  <2> QED BY <1>3, <2>1
<1> QED BY <1>3, <1>4, <1>5

(* What the branches rely on.                                              *)
LEMMA InvFacts ==
  ASSUME IInv
  PROVE  /\ mPageTable \in [Page -> PageFields]
         /\ Q \in Seq(Page) /\ IsInjective(Q) /\ num_LIR_pgs \in Nat
         /\ mFreeMemSize \in Nat /\ mFreeMemSize \in 0 .. mCacheMaxLimit
         /\ \A x \in Page :
              /\ x \in Range(Q) <=>
                   mPageTable[x].isResident /\ mPageTable[x].isHIR_block
              /\ ~mPageTable[x].isHIR_block => mPageTable[x].isResident
              /\ mPageTable[x].isResident => x \in Range(S)
         /\ IsFiniteSet(ResidentIn(mPageTable)) /\ IsFiniteSet(LIRIn(mPageTable))
         /\ Cardinality(ResidentIn(mPageTable)) = mCacheMaxLimit - mFreeMemSize
         /\ Cardinality(LIRIn(mPageTable)) = num_LIR_pgs
         /\ num_LIR_pgs = LIRShare(mFreeMemSize)
         /\ mFreeMemSize > HIR_block_portion_limit =>
              \A x \in Range(S) : ~mPageTable[x].isHIR_block
         /\ Fresh => mFreeMemSize = mCacheMaxLimit
         /\ mCacheMaxLimit \in Nat /\ HIR_block_portion_limit \in Nat
         /\ HIR_block_portion_limit > 0
         /\ HIR_block_portion_limit < mCacheMaxLimit
<1>1. /\ mCacheMaxLimit \in Nat /\ HIR_block_portion_limit \in Nat
      /\ HIR_block_portion_limit > 0
      /\ HIR_block_portion_limit < mCacheMaxLimit
  BY LimitFacts DEF IInv, TypeOK
<1>2. \A x \in Page : mPageTable[x].isResident => x \in Range(S)
  BY DEF IInv, Fresh, StackOK
<1>3. Fresh => mFreeMemSize = mCacheMaxLimit
  BY DEF Fresh
<1>4. /\ mPageTable \in [Page -> PageFields] /\ Q \in Seq(Page)
      /\ num_LIR_pgs \in Nat /\ mFreeMemSize \in 0 .. mCacheMaxLimit
  BY DEF IInv, TypeOK
<1>5. mFreeMemSize \in Nat
  BY <1>1, <1>4
<1>6. /\ Accounted(mPageTable, Q, num_LIR_pgs, mFreeMemSize)
      /\ mFreeMemSize > HIR_block_portion_limit =>
           \A x \in Range(S) : ~mPageTable[x].isHIR_block
  BY DEF IInv
<1> QED BY <1>1, <1>2, <1>3, <1>4, <1>5, <1>6 DEF Accounted

(* A hit on a LIR page.                                                    *)
LEMMA HitLIRTaken ==
  ASSUME IInv, NEW p \in Page, HitLIR(p)
  PROVE  Taken(p, mPageTable, Q, num_LIR_pgs, mFreeMemSize)
<1>1. mPageTable[p].isResident /\ ~mPageTable[p].isHIR_block
  BY DEF HitLIR, Miss
<1>2. BranchTable(mPageTable, p)
  BY InvFacts DEF BranchTable
<1>3. ResidentIn(mPageTable) \cup {p} = ResidentIn(mPageTable)
  BY <1>1 DEF ResidentIn
<1>4. Ready(mPageTable, Q, num_LIR_pgs, mFreeMemSize, p)
  BY <1>1, <1>3, InvFacts DEF Ready
<1> QED BY <1>1, <1>2, <1>4, InvFacts DEF Taken

(* A hit on an HIR page, which leaves the queue.                           *)
LEMMA HitHIRTaken ==
  ASSUME IInv, NEW p \in Page, HitHIR(p)
  PROVE  Taken(p, mPageTable, RemovePage(Q, p), num_LIR_pgs, mFreeMemSize)
<1> DEFINE q == RemovePage(Q, p)
           k == Pos(Q, p)
<1>1. mPageTable[p].isResident /\ mPageTable[p].isHIR_block /\ p \in Range(Q)
  BY InvFacts DEF HitHIR, Miss
<1>2. k \in 1 .. Len(Q) /\ Q[k] = p
  BY <1>1, InvFacts, PosFacts
<1>3. q = RemoveAt(Q, k)
  BY <1>1 DEF RemovePage
<1> HIDE DEF q, k
<1>4. q \in Seq(Page) /\ IsInjective(q) /\ Range(q) = Range(Q) \ {p}
  <2>1. Q \in Seq(Page) /\ IsInjective(Q)
    BY InvFacts
  <2> QED BY <1>2, <1>3, <2>1, RemoveAtFacts
<1>5. BranchTable(mPageTable, p)
  BY InvFacts DEF BranchTable
<1>6. ResidentIn(mPageTable) \cup {p} = ResidentIn(mPageTable)
  BY <1>1 DEF ResidentIn
<1>7. Ready(mPageTable, q, num_LIR_pgs, mFreeMemSize, p)
  BY <1>1, <1>4, <1>6, InvFacts DEF Ready
<1>8. ~(mFreeMemSize > HIR_block_portion_limit)
  BY <1>1, InvFacts
<1>9. ~Fresh
  BY <1>1 DEF Fresh
<1>10. mPageTable[p].recency => LIRFramesTaken(num_LIR_pgs + 1)
  BY <1>1, MarkedFull
<1> QED BY <1>4, <1>5, <1>7, <1>8, <1>9, <1>10, InvFacts DEF Taken, q

(* A miss that finds a frame for a LIR page.                               *)
LEMMA MissLoadLIRTaken ==
  ASSUME IInv, NEW p \in Page, MissLoadLIR(p)
  PROVE  Taken(p, [mPageTable EXCEPT ![p].isHIR_block = FALSE], Q,
               num_LIR_pgs + 1, mFreeMemSize - 1)
<1> DEFINE t == [mPageTable EXCEPT ![p].isHIR_block = FALSE]
<1>1. ~mPageTable[p].isResident /\ mFreeMemSize > HIR_block_portion_limit
  BY DEF MissLoadLIR, Miss
<1>2. /\ t \in [Page -> PageFields]
      /\ \A x \in Page : /\ t[x].isResident = mPageTable[x].isResident
                         /\ t[x].recency = mPageTable[x].recency
                         /\ t[x].isHIR_block = IF x = p THEN FALSE
                                               ELSE mPageTable[x].isHIR_block
  <2>1. mPageTable \in [Page -> PageFields]
    BY InvFacts
  <2> QED BY <2>1, KindSet
<1> HIDE DEF t
<1>3. mPageTable[p].isHIR_block /\ p \notin Range(Q)
  BY <1>1, InvFacts
<1>4. BranchTable(t, p)
  BY <1>2 DEF BranchTable
<1>5. /\ IsFiniteSet(ResidentIn(t) \cup {p})
      /\ Cardinality(ResidentIn(t) \cup {p}) = mCacheMaxLimit - (mFreeMemSize - 1)
  <2> DEFINE R == ResidentIn(mPageTable)
  <2>1. R = ResidentIn(t) /\ p \notin R
    BY <1>1, <1>2 DEF ResidentIn
  <2>2. IsFiniteSet(R) /\ Cardinality(R) = mCacheMaxLimit - mFreeMemSize
    BY InvFacts
  <2> HIDE DEF R
  <2>3. IsFiniteSet(R \cup {p}) /\ Cardinality(R \cup {p}) = Cardinality(R) + 1
    BY <2>1, <2>2, FS_AddElement
  <2> QED BY <2>1, <2>2, <2>3, InvFacts
<1>6. /\ IsFiniteSet(LIRIn(t))
      /\ Cardinality(LIRIn(t)) = num_LIR_pgs + 1
  <2> DEFINE L == LIRIn(mPageTable)
  <2>1. LIRIn(t) = L \cup {p} /\ p \notin L
    BY <1>2, <1>3 DEF LIRIn
  <2>2. IsFiniteSet(L) /\ Cardinality(L) = num_LIR_pgs
    BY InvFacts
  <2> HIDE DEF L
  <2> QED BY <2>1, <2>2, FS_AddElement
<1>7. num_LIR_pgs + 1 = LIRShare(mFreeMemSize - 1)
  BY <1>1, InvFacts DEF LIRShare
<1>8. \A x \in Page :
        /\ x \in Range(Q) <=> x # p /\ t[x].isResident /\ t[x].isHIR_block
        /\ ~t[x].isHIR_block => t[x].isResident \/ x = p
  BY <1>2, <1>3, InvFacts
<1>9. Ready(t, Q, num_LIR_pgs + 1, mFreeMemSize - 1, p)
  BY <1>3, <1>5, <1>6, <1>7, <1>8, InvFacts DEF Ready
<1>10. \A x \in Range(S) : ~t[x].isHIR_block
  <2>1. Range(S) \subseteq Page
    BY DEF IInv, TypeOK, Range
  <2> QED BY <1>1, <1>2, <2>1, InvFacts
<1>11. ~t[p].isHIR_block /\ mFreeMemSize - 1 \in 0 .. mCacheMaxLimit
  <2>1. mFreeMemSize - 1 \in 0 .. mCacheMaxLimit
    BY <1>1, InvFacts
  <2> QED BY <1>2, <2>1
<1> QED BY <1>4, <1>9, <1>10, <1>11, InvFacts DEF Taken, t

(* A miss that finds a frame left over for an HIR page.                    *)
LEMMA MissLoadHIRTaken ==
  ASSUME IInv, NEW p \in Page, MissLoadHIR(p)
  PROVE  Taken(p, mPageTable, Q, num_LIR_pgs, mFreeMemSize - 1)
<1>1. /\ ~mPageTable[p].isResident
      /\ mFreeMemSize \in 1 .. HIR_block_portion_limit
  BY DEF MissLoadHIR, Miss
<1>2. mPageTable[p].isHIR_block /\ p \notin Range(Q)
  BY <1>1, InvFacts
<1>3. BranchTable(mPageTable, p)
  BY InvFacts DEF BranchTable
<1>4. /\ IsFiniteSet(ResidentIn(mPageTable) \cup {p})
      /\ Cardinality(ResidentIn(mPageTable) \cup {p}) =
           mCacheMaxLimit - (mFreeMemSize - 1)
  <2> DEFINE R == ResidentIn(mPageTable)
  <2>1. p \notin R
    BY <1>1 DEF ResidentIn
  <2>2. IsFiniteSet(R) /\ Cardinality(R) = mCacheMaxLimit - mFreeMemSize
    BY InvFacts
  <2> HIDE DEF R
  <2>3. IsFiniteSet(R \cup {p}) /\ Cardinality(R \cup {p}) = Cardinality(R) + 1
    BY <2>1, <2>2, FS_AddElement
  <2>4. mCacheMaxLimit - mFreeMemSize + 1 = mCacheMaxLimit - (mFreeMemSize - 1)
    BY InvFacts
  <2> QED BY <2>2, <2>3, <2>4 DEF R
<1>5. num_LIR_pgs = LIRShare(mFreeMemSize - 1)
  BY <1>1, InvFacts DEF LIRShare
<1>6. \A x \in Page :
        x \in Range(Q) <=> /\ x # p /\ mPageTable[x].isResident
                           /\ mPageTable[x].isHIR_block
  BY <1>2, InvFacts
<1>7. Ready(mPageTable, Q, num_LIR_pgs, mFreeMemSize - 1, p)
  BY <1>2, <1>4, <1>5, <1>6, InvFacts DEF Ready
<1>8. ~Fresh /\ ~(mFreeMemSize - 1 > HIR_block_portion_limit)
      /\ mFreeMemSize - 1 \in 0 .. mCacheMaxLimit
  BY <1>1, InvFacts
<1>9. mPageTable[p].recency => LIRFramesTaken(num_LIR_pgs + 1)
  BY <1>2, MarkedFull
<1> QED BY <1>3, <1>7, <1>8, <1>9, InvFacts DEF Taken

(* A miss in a full cache: the queue is not empty, and the page at its     *)
(* tail gives its frame.                                                   *)
LEMMA MissEvictTaken ==
  ASSUME IInv, NEW p \in Page, MissEvict(p)
  PROVE  /\ Q # <<>>
         /\ Taken(p, [mPageTable EXCEPT ![Last(Q)].isResident = FALSE],
                  Front(Q), num_LIR_pgs, 0)
<1> DEFINE v == Last(Q)
           q == Front(Q)
           t == [mPageTable EXCEPT ![v].isResident = FALSE]
           R == ResidentIn(mPageTable)
           L == LIRIn(mPageTable)
<1>1. ~mPageTable[p].isResident /\ mFreeMemSize = 0
  BY DEF MissEvict, Miss
<1>2. /\ IsFiniteSet(R) /\ Cardinality(R) = mCacheMaxLimit
      /\ IsFiniteSet(L) /\ Cardinality(L) = num_LIR_pgs
      /\ num_LIR_pgs = mCacheMaxLimit - HIR_block_portion_limit
  BY <1>1, InvFacts DEF LIRShare
<1>3. Q # <<>>
  <2> SUFFICES ASSUME Q = <<>> PROVE FALSE
    OBVIOUS
  <2>1. \A x \in Page : mPageTable[x].isResident <=> ~mPageTable[x].isHIR_block
    BY InvFacts DEF Range
  <2>2. R = L
    BY <2>1 DEF ResidentIn, LIRIn
  <2> QED BY <1>2, <2>2, InvFacts
<1>4. /\ Q \in Seq(Page) /\ Len(Q) \in Nat /\ Len(Q) \in 1 .. Len(Q)
      /\ IsInjective(Q) /\ v = Q[Len(Q)] /\ v \in Range(Q) /\ v \in Page
  BY <1>3, InvFacts DEF Last, Range
<1>5. q = RemoveAt(Q, Len(Q))
  <2>1. SubSeq(Q, Len(Q) + 1, Len(Q)) = <<>>
    BY <1>4, SubSeqEmpty
  <2>2. SubSeq(Q, 1, Len(Q) - 1) \in Seq(Page)
    BY <1>4
  <2> QED BY <2>1, <2>2, ConcatEmptySeq DEF Front, RemoveAt
<1> HIDE DEF v, q
<1>6. q \in Seq(Page) /\ IsInjective(q) /\ Range(q) = Range(Q) \ {v}
  BY <1>4, <1>5, RemoveAtFacts
<1>7. /\ mPageTable[v].isResident /\ mPageTable[v].isHIR_block /\ v # p
      /\ mPageTable[p].isHIR_block /\ p \notin Range(Q)
  BY <1>1, <1>4, InvFacts
<1>8. /\ t \in [Page -> PageFields]
      /\ \A x \in Page :
           /\ t[x].isResident <=> x # v /\ mPageTable[x].isResident
           /\ t[x].recency = mPageTable[x].recency
           /\ t[x].isHIR_block = mPageTable[x].isHIR_block
  <2>1. v \in Page /\ mPageTable \in [Page -> PageFields]
    BY <1>4, InvFacts
  <2> QED BY <2>1 DEF PageFields
<1> HIDE DEF t
<1>9. BranchTable(t, p)
  BY <1>8 DEF BranchTable
<1>10. /\ IsFiniteSet(ResidentIn(t) \cup {p})
       /\ Cardinality(ResidentIn(t) \cup {p}) = mCacheMaxLimit
  <2>1. ResidentIn(t) = R \ {v} /\ v \in R /\ p \notin R
    BY <1>1, <1>4, <1>7, <1>8 DEF ResidentIn
  <2> HIDE DEF R
  <2>2. IsFiniteSet(R \ {v}) /\ Cardinality(R \ {v}) = Cardinality(R) - 1
    BY <1>2, <2>1, FS_RemoveElement
  <2>3. /\ IsFiniteSet((R \ {v}) \cup {p})
        /\ Cardinality((R \ {v}) \cup {p}) = Cardinality(R \ {v}) + 1
    BY <2>1, <2>2, FS_AddElement
  <2> QED BY <1>2, <2>1, <2>2, <2>3, InvFacts
<1>11. LIRIn(t) = L
  BY <1>8 DEF LIRIn
<1>12. num_LIR_pgs = LIRShare(0)
  BY <1>1, InvFacts
<1>13. \A x \in Page :
         /\ x \in Range(q) <=> x # p /\ t[x].isResident /\ t[x].isHIR_block
         /\ ~t[x].isHIR_block => t[x].isResident \/ x = p
  BY <1>6, <1>7, <1>8, InvFacts
<1>14. Ready(t, q, num_LIR_pgs, 0, p)
  BY <1>2, <1>6, <1>7, <1>10, <1>11, <1>12, <1>13, InvFacts DEF Ready
<1>15. ~Fresh /\ ~(0 > HIR_block_portion_limit) /\ 0 \in 0 .. mCacheMaxLimit
  BY <1>1, InvFacts
<1>16. mPageTable[p].recency => LIRFramesTaken(num_LIR_pgs + 1)
  BY <1>7, MarkedFull
<1>17. Taken(p, t, q, num_LIR_pgs, 0)
  BY <1>6, <1>8, <1>9, <1>14, <1>15, <1>16, InvFacts DEF Taken
<1> QED BY <1>3, <1>17 DEF t, q, v

-----------------------------------------------------------------------------
(* The invariant.                                                          *)

(* The step of a branch for page p: it goes through, or the program ends.  *)
Stepped(p, t, q, lirs, free) ==
  /\ Taken(p, t, q, lirs, free)
  /\ \/ HasTouched(p, t, q, lirs) /\ mFreeMemSize' = free
     \/ /\ HasStopped /\ mFreeMemSize' = mFreeMemSize
        /\ mCacheMaxLimit - HIR_block_portion_limit = 1
  /\ mPageFaultNum' \in 0 .. UINT_MOD - 1

(* A branch followed by the rest of the handler is such a step.            *)
LEMMA BranchSteps ==
  ASSUME IInv, NEW p \in Page, p # last_ref_pg, NEW t, NEW q, NEW lirs,
         NEW free, NEW faults \in 0 .. UINT_MOD - 1,
         Taken(p, t, q, lirs, free),
         Touch(p, Machine(t, q, lirs)), Count(free, faults)
  PROVE  Stepped(p, t, q, lirs, free)
<1>1. \/ HasTouched(p, t, q, lirs)
      \/ HasStopped /\ mCacheMaxLimit - HIR_block_portion_limit = 1
  <2>1. /\ BranchTable(t, p) /\ q \in Seq(Page) /\ lirs \in Nat
        /\ Fresh => ~t[p].isHIR_block
        /\ t[p].isHIR_block /\ mPageTable[p].recency => LIRFramesTaken(lirs + 1)
    BY DEF Taken
  <2> QED BY <2>1, TouchFacts
<1>2. mPageFaultNum \in 0 .. UINT_MOD - 1
  BY DEF IInv, TypeOK
<1>3. HasTouched(p, t, q, lirs) =>
        mFreeMemSize' = free /\ mPageFaultNum' = faults
  BY DEF HasTouched, Count, Stopped
<1>4. HasStopped =>
        mFreeMemSize' = mFreeMemSize /\ mPageFaultNum' = mPageFaultNum
  BY DEF HasStopped, Count, Stopped
<1> QED BY <1>1, <1>2, <1>3, <1>4 DEF Stepped

(* Every step of the program is one of these.                              *)
LEMMA NextSteps ==
  ASSUME IInv, Next
  PROVE  \E p \in Page : \E t, q, lirs, free : Stepped(p, t, q, lirs, free)
<1>1. PICK p \in Page :
        /\ p # last_ref_pg
        /\ MissEvict(p) \/ MissLoadLIR(p) \/ MissLoadHIR(p) \/ HitHIR(p) \/ HitLIR(p)
  BY DEF Next
<1>2. Faulted \in 0 .. UINT_MOD - 1 /\ mPageFaultNum \in 0 .. UINT_MOD - 1
  <2>1. UINT_MOD \in Nat /\ UINT_MOD > 0 /\ mPageFaultNum \in 0 .. UINT_MOD - 1
    BY LimitFacts, ConstantsAssumption DEF IInv, TypeOK
  <2> QED BY <2>1 DEF Faulted
<1>3. CASE MissEvict(p)
  <2> DEFINE t == [mPageTable EXCEPT ![Last(Q)].isResident = FALSE]
             q == Front(Q)
  <2>1. Q # <<>> /\ Taken(p, t, q, num_LIR_pgs, 0)
    BY <1>3, MissEvictTaken
  <2>2. Touch(p, Machine(t, q, num_LIR_pgs)) /\ Count(0, Faulted)
    BY <1>3, <2>1 DEF MissEvict, Evicted
  <2> HIDE DEF t, q
  <2> QED BY <1>1, <1>2, <2>1, <2>2, BranchSteps
<1>4. CASE MissLoadLIR(p)
  <2> DEFINE t == [mPageTable EXCEPT ![p].isHIR_block = FALSE]
             lirs == num_LIR_pgs + 1
             free == mFreeMemSize - 1
  <2>1. Taken(p, t, Q, lirs, free)
    BY <1>4, MissLoadLIRTaken
  <2>2. Touch(p, Machine(t, Q, lirs)) /\ Count(free, Faulted)
    BY <1>4 DEF MissLoadLIR
  <2> HIDE DEF t, lirs, free
  <2> QED BY <1>1, <1>2, <2>1, <2>2, BranchSteps
<1>5. CASE MissLoadHIR(p)
  <2> DEFINE free == mFreeMemSize - 1
  <2>1. Taken(p, mPageTable, Q, num_LIR_pgs, free)
    BY <1>5, MissLoadHIRTaken
  <2>2. Touch(p, Machine(mPageTable, Q, num_LIR_pgs)) /\ Count(free, Faulted)
    BY <1>5 DEF MissLoadHIR
  <2> HIDE DEF free
  <2> QED BY <1>1, <1>2, <2>1, <2>2, BranchSteps
<1>6. CASE HitHIR(p)
  <2> DEFINE q == RemovePage(Q, p)
  <2>1. Taken(p, mPageTable, q, num_LIR_pgs, mFreeMemSize)
    BY <1>6, HitHIRTaken
  <2>2. /\ Touch(p, Machine(mPageTable, q, num_LIR_pgs))
        /\ Count(mFreeMemSize, mPageFaultNum)
    BY <1>6 DEF HitHIR
  <2> HIDE DEF q
  <2> QED BY <1>1, <1>2, <2>1, <2>2, BranchSteps
<1>7. CASE HitLIR(p)
  <2>1. Taken(p, mPageTable, Q, num_LIR_pgs, mFreeMemSize)
    BY <1>7, HitLIRTaken
  <2>2. /\ Touch(p, Machine(mPageTable, Q, num_LIR_pgs))
        /\ Count(mFreeMemSize, mPageFaultNum)
    BY <1>7 DEF HitLIR
  <2> QED BY <1>1, <1>2, <2>1, <2>2, BranchSteps
<1> QED BY <1>1, <1>3, <1>4, <1>5, <1>6, <1>7

(* A new engine satisfies the invariant.                                   *)
LEMMA InitInv == Init => IInv
<1> SUFFICES ASSUME Init PROVE IInv
  OBVIOUS
<1>1. /\ mCacheMaxLimit \in Nat /\ mCacheMaxLimit < UINT_MOD
      /\ HIR_block_portion_limit \in Nat
      /\ HIR_block_portion_limit < mCacheMaxLimit
  BY LimitFacts DEF Init
<1>2. \A x \in Page : /\ ~mPageTable[x].recency
                      /\ ~mPageTable[x].isResident
                      /\ mPageTable[x].isHIR_block
  BY DEF Init
<1>3. Fresh
  BY <1>2 DEF Init, Fresh
<1>4. TypeOK
  <2>1. mPageTable \in [Page -> PageFields]
    BY DEF Init, PageFields
  <2>2. mPageFaultNum \in 0 .. UINT_MOD - 1 /\ mFreeMemSize \in 0 .. mCacheMaxLimit
    BY <1>1, ConstantsAssumption DEF Init
  <2> QED BY <2>1, <2>2 DEF Init, TypeOK
<1>5. Accounted(mPageTable, Q, num_LIR_pgs, mFreeMemSize)
  <2>1. ResidentIn(mPageTable) = {} /\ LIRIn(mPageTable) = {}
    BY <1>2 DEF ResidentIn, LIRIn
  <2>2. IsFiniteSet({}) /\ Cardinality({}) = 0
    BY FS_EmptySet
  <2>3. /\ Q \in Seq(Page) /\ IsInjective(Q) /\ Range(Q) = {}
        /\ num_LIR_pgs = 0 /\ mFreeMemSize = mCacheMaxLimit
    BY DEF Init, IsInjective, Range
  <2>4. num_LIR_pgs = LIRShare(mFreeMemSize)
    BY <1>1, <2>3 DEF LIRShare
  <2>5. mCacheMaxLimit - mFreeMemSize = 0
    BY <1>1, <2>3
  <2> QED BY <1>2, <2>1, <2>2, <2>3, <2>4, <2>5 DEF Accounted
<1>6. Range(S) = {} /\ status = "running"
  BY DEF Init, Range
<1> QED BY <1>3, <1>4, <1>5, <1>6 DEF IInv, StopsOnlyWithOneLIRFrame

(* Every step keeps it.                                                    *)
LEMMA StepInv == IInv /\ [Next]_vars => IInv'
<1> SUFFICES ASSUME IInv, [Next]_vars PROVE IInv'
  OBVIOUS
<1>1. CASE UNCHANGED vars
  BY <1>1 DEF IInv, vars, TypeOK, PageFields, HIR_block_portion_limit, Accounted,
     ResidentIn, LIRIn, LIRShare, Fresh, StackOK, StopsOnlyWithOneLIRFrame
<1>2. CASE Next
  <2>0. PICK p \in Page : \E t, q, lirs, free : Stepped(p, t, q, lirs, free)
    BY <1>2, NextSteps
  <2>1. PICK t, q, lirs, free : Stepped(p, t, q, lirs, free)
    BY <2>0
  <2>2. /\ mCacheMaxLimit' = mCacheMaxLimit /\ status = "running"
        /\ HIR_block_portion_limit' = HIR_block_portion_limit
    BY <1>2 DEF Next, HIR_block_portion_limit
  <2>3. CASE HasStopped
    <3>1. /\ mFreeMemSize' = mFreeMemSize
          /\ mCacheMaxLimit - HIR_block_portion_limit = 1
          /\ mPageFaultNum' \in 0 .. UINT_MOD - 1
      BY <2>1, <2>3 DEF Stepped, HasTouched, HasStopped
    <3>2. TypeOK'
      BY <2>2, <2>3, <3>1 DEF IInv, TypeOK, HasStopped
    <3>3. StopsOnlyWithOneLIRFrame'
      BY <2>2, <3>1 DEF StopsOnlyWithOneLIRFrame
    <3> QED BY <2>2, <2>3, <3>1, <3>2, <3>3
            DEF IInv, HasStopped, Accounted, ResidentIn, LIRIn, LIRShare, Fresh,
                StackOK
  <2>4. CASE HasTouched(p, t, q, lirs)
    <3>1. /\ mFreeMemSize' = free /\ mPageFaultNum' \in 0 .. UINT_MOD - 1
          /\ Taken(p, t, q, lirs, free)
      BY <2>1, <2>4 DEF Stepped, HasTouched, HasStopped
    <3>2. /\ status' = "running"
          /\ Settled(t, q, p, mPageTable', Q') /\ Q' \in Seq(Page)
          /\ S' = ToHead(S, p) /\ S'[1] = p
          /\ StackOK(mPageTable', S', LIR_LRU_block_ptr', cur_lir_S_len')
          /\ num_LIR_pgs' = lirs /\ last_ref_pg' = p
      BY <2>4 DEF HasTouched
    <3>3. /\ BranchTable(t, p) /\ Ready(t, q, lirs, free, p)
          /\ lirs \in Nat /\ free \in 0 .. mCacheMaxLimit
          /\ free > HIR_block_portion_limit =>
               ~t[p].isHIR_block /\ \A x \in Range(S) : ~t[x].isHIR_block
      BY <3>1 DEF Taken
    <3>4. TypeOK'
      <4>1. mPageTable' \in [Page -> PageFields]
        BY <3>2 DEF Settled
      <4>2. /\ S' \in Seq(Page) /\ cur_lir_S_len' \in Nat
            /\ LIR_LRU_block_ptr' \in Page
        BY <3>2 DEF StackOK
      <4>3. mCacheMaxLimit \in MemSizes
        BY DEF IInv, TypeOK
      <4> QED BY <2>2, <3>1, <3>2, <3>3, <4>1, <4>2, <4>3 DEF TypeOK, PageFields
    <3>5. Accounted(mPageTable, Q, num_LIR_pgs, mFreeMemSize)'
      <4>1. Accounted(mPageTable', Q', lirs, free)
        BY <3>2, <3>3, SettledAccounted DEF BranchTable
      <4> QED BY <2>2, <3>1, <3>2, <4>1
              DEF Accounted, ResidentIn, LIRIn, LIRShare
    <3>6. \/ Fresh'
          \/ /\ StackOK(mPageTable, S, LIR_LRU_block_ptr, cur_lir_S_len)'
             /\ (last_ref_pg = S[1])'
      BY <3>2 DEF StackOK
    <3>7. mFreeMemSize' > HIR_block_portion_limit' =>
            \A x \in Range(S') : ~mPageTable'[x].isHIR_block
      <4> SUFFICES ASSUME free > HIR_block_portion_limit,
                          NEW x \in Range(S')
                   PROVE  ~mPageTable'[x].isHIR_block
        BY <2>2, <3>1
      <4>1. S \in Seq(Page) /\ IsInjective(S)
        BY DEF IInv, TypeOK, Fresh, StackOK, IsInjective
      <4>2. Range(S') \subseteq Range(S) \cup {p}
        BY <3>2, <4>1, ToHeadRange
      <4>3. x \in Page /\ ~t[x].isHIR_block
        BY <3>3, <4>1, <4>2 DEF Range
      <4>4. ~t[p].isHIR_block
        BY <3>3
      <4> QED BY <3>2, <4>3, <4>4 DEF Settled
    <3>8. StopsOnlyWithOneLIRFrame'
      BY <3>2 DEF StopsOnlyWithOneLIRFrame
    <3> QED BY <3>4, <3>5, <3>6, <3>7, <3>8 DEF IInv
  <2> QED BY <2>1, <2>3, <2>4 DEF Stepped
<1> QED BY <1>1, <1>2

(* It implies that the frames are accounted for.                           *)
LEMMA InvAccounted == IInv => FramesAccounted
<1> SUFFICES ASSUME IInv PROVE FramesAccounted
  OBVIOUS
<1>1. Resident = ResidentIn(mPageTable) /\ LIRs = LIRIn(mPageTable)
  BY DEF Resident, LIRs, ResidentIn, LIRIn
<1>2. Range(Q) = Resident \ LIRs
  <2>1. Range(Q) \subseteq Page
    BY InvFacts DEF Range
  <2> QED BY <2>1, InvFacts DEF Resident, LIRs
<1>3. LIRs \subseteq Resident
  BY InvFacts DEF Resident, LIRs
<1>4. Len(Q) = Cardinality(Range(Q))
  BY InvFacts, ListCardinality
<1>5. Cardinality(Resident) + mFreeMemSize = mCacheMaxLimit
  BY <1>1, InvFacts
<1>6. num_LIR_pgs = Cardinality(LIRs)
  BY <1>1, InvFacts
<1>7. mFreeMemSize <= HIR_block_portion_limit =>
        num_LIR_pgs = mCacheMaxLimit - HIR_block_portion_limit
  BY InvFacts DEF LIRShare
<1> QED BY <1>2, <1>3, <1>4, <1>5, <1>6, <1>7 DEF FramesAccounted

(* And that the marks, the pointer and the counter agree with the stack.   *)
LEMMA InvMarks == IInv => MarksMatchStack
<1> SUFFICES ASSUME IInv, S # <<>> PROVE MarksMatchStack
  BY DEF MarksMatchStack
<1> DEFINE n == cur_lir_S_len
           T == {i \in 1 .. Len(S) : S[i] \in LIRs}
           bottom == Pos(S, LIR_LRU_block_ptr)
<1>1. /\ S \in Seq(Page) /\ IsInjective(S) /\ Len(S) \in Nat
      /\ n \in 1 .. Len(S) /\ S[n] = LIR_LRU_block_ptr
      /\ ~mPageTable[LIR_LRU_block_ptr].isHIR_block
      /\ \A i \in 1 .. Len(S) : /\ mPageTable[S[i]].recency <=> i <= n
                                /\ ~mPageTable[S[i]].isHIR_block => i <= n
      /\ \A x \in Page : x \notin Range(S) => ~mPageTable[x].recency
  BY DEF IInv, Fresh, StackOK
<1>2. bottom = n
  BY <1>1, PosUnique
<1>3. n \in T /\ \A i \in T : i <= n
  BY <1>1 DEF LIRs
<1>4. Max(T) = n
  <2>1. T \subseteq 1 .. Len(S) /\ T # {}
    BY <1>3
  <2> HIDE DEF T
  <2>2. Max(T) \in T /\ \A x \in T : x <= Max(T)
    BY <1>1, <2>1, MaxExists
  <2> DEFINE x == Max(T)
  <2>3. x \in T /\ n <= x /\ x <= n
    BY <1>3, <2>2
  <2> HIDE DEF x
  <2>4. n \in Int /\ \A i \in 1 .. Len(S) : i \in Int
    BY <1>1
  <2>5. x \in Int
    BY <2>1, <2>3, <2>4
  <2> QED BY <2>3, <2>4, <2>5 DEF x
<1>5. {p \in Page : mPageTable[p].recency} = {S[i] : i \in 1 .. n}
  <2>1. ASSUME NEW p \in Page, mPageTable[p].recency
        PROVE  \E i \in 1 .. n : p = S[i]
    <3>1. PICK i \in 1 .. Len(S) : p = S[i]
      BY <1>1, <2>1 DEF Range
    <3> QED BY <1>1, <2>1, <3>1
  <2>2. \A i \in 1 .. n : S[i] \in Page /\ mPageTable[S[i]].recency
    BY <1>1
  <2> QED BY <2>1, <2>2
<1> HIDE DEF bottom, T
<1> QED BY <1>2, <1>4, <1>5 DEF MarksMatchStack, bottom, T

-----------------------------------------------------------------------------
(* The policy.                                                             *)

(* Cardinality is the same seen through the refinement mapping.            *)
LEMMA PolicyCardinality ==
  ASSUME NEW T PROVE Policy!Cardinality(T) = Cardinality(T)
BY DEF Cardinality, Policy!Cardinality

(* Its reading of the cache and its free frames is the engine's.           *)
LEMMA PolicyFree ==
  ASSUME IInv
  PROVE  /\ Policy!Cached = ResidentIn(mPageTable)
         /\ Policy!Free = mFreeMemSize
<1>1. Policy!Cached = ResidentIn(mPageTable)
  <2>1. Range(Q) \subseteq Page
    BY InvFacts DEF Range
  <2>2. LIRs \cup Range(Q) = ResidentIn(mPageTable)
    BY <2>1, InvFacts DEF LIRs, ResidentIn
  <2> QED BY <2>2 DEF Policy!Cached, Policy!Range, Range
<1>2. Cardinality(ResidentIn(mPageTable)) = mCacheMaxLimit - mFreeMemSize
  BY InvFacts
<1> QED BY <1>1, <1>2, InvFacts, PolicyCardinality DEF Policy!Free

(* The page its pointer is on is the LIR page referenced longest ago.      *)
LEMMA PolicyOldest ==
  ASSUME StackOK(mPageTable, S, LIR_LRU_block_ptr, cur_lir_S_len),
         LIR_LRU_block_ptr \in Page
  PROVE  Policy!Oldest = LIR_LRU_block_ptr
<1> DEFINE n == cur_lir_S_len
           b == LIR_LRU_block_ptr
<1>1. /\ S \in Seq(Page) /\ IsInjective(S) /\ Len(S) \in Nat
      /\ n \in 1 .. Len(S) /\ S[n] = b /\ b \in LIRs
      /\ \A i \in 1 .. Len(S) : S[i] \in LIRs => i <= n
      /\ \A x \in LIRs : \E i \in 1 .. Len(S) : S[i] = x
  BY DEF StackOK, LIRs, Range
<1> HIDE DEF n
<1>2. ASSUME NEW r \in LIRs \ {b} PROVE Policy!Before(r, b)
  <2>1. PICK i \in 1 .. Len(S) : S[i] = r
    BY <1>1
  <2>2. i < n
    BY <1>1, <1>2, <2>1
  <2> QED BY <1>1, <2>1, <2>2 DEF Policy!Before
<1>3. ASSUME NEW c \in LIRs, \A r \in LIRs \ {c} : Policy!Before(r, c)
      PROVE  c = b
  <2> SUFFICES ASSUME c # b PROVE FALSE
    OBVIOUS
  <2>1. Policy!Before(b, c)
    BY <1>1, <1>3
  <2>2. PICK i \in 1 .. Len(S), j \in 1 .. Len(S) : i < j /\ S[i] = b /\ S[j] = c
    BY <2>1 DEF Policy!Before
  <2>3. i = n
    BY <1>1, <2>2 DEF IsInjective
  <2> QED BY <1>1, <1>3, <2>2, <2>3
<1> HIDE DEF b
<1>4. b \in LIRs /\ \A r \in LIRs \ {b} : Policy!Before(r, b)
  BY <1>1, <1>2
<1>5. Policy!Oldest = b
  BY <1>3, <1>4 DEF Policy!Oldest
<1> QED BY <1>5 DEF b

(* An HIR page is marked exactly if the policy promotes it.                *)
LEMMA PolicyPromotable ==
  ASSUME StackOK(mPageTable, S, LIR_LRU_block_ptr, cur_lir_S_len),
         NEW p \in Page, mPageTable[p].isHIR_block, LIR_LRU_block_ptr \in Page
  PROVE  mPageTable[p].recency <=> Policy!Promotable(p)
<1> DEFINE n == cur_lir_S_len
<1>1. /\ S \in Seq(Page) /\ IsInjective(S) /\ Len(S) \in Nat
      /\ n \in 1 .. Len(S) /\ S[n] = LIR_LRU_block_ptr
      /\ LIR_LRU_block_ptr \in LIRs /\ p # LIR_LRU_block_ptr
      /\ \A i \in 1 .. Len(S) : S[i] \in LIRs => i <= n
      /\ \A i \in 1 .. Len(S) : mPageTable[S[i]].recency <=> i <= n
      /\ mPageTable[p].recency => \E i \in 1 .. Len(S) : S[i] = p
  BY DEF StackOK, LIRs, Range
<1> HIDE DEF n
<1>2. ASSUME mPageTable[p].recency PROVE Policy!Promotable(p)
  <2>1. PICK i \in 1 .. Len(S) : S[i] = p
    BY <1>1, <1>2
  <2>2. i < n
    BY <1>1, <1>2, <2>1
  <2>3. Policy!Before(p, LIR_LRU_block_ptr)
    BY <1>1, <2>1, <2>2 DEF Policy!Before
  <2> QED BY <1>1, <2>3 DEF Policy!Promotable
<1>3. ASSUME Policy!Promotable(p) PROVE mPageTable[p].recency
  <2>1. PICK b \in LIRs : Policy!Before(p, b)
    BY <1>3 DEF Policy!Promotable
  <2>2. PICK i \in 1 .. Len(S), j \in 1 .. Len(S) : i < j /\ S[i] = p /\ S[j] = b
    BY <2>1 DEF Policy!Before
  <2>3. j <= n
    BY <1>1, <2>1, <2>2
  <2>4. i <= n
    BY <1>1, <2>2, <2>3
  <2> QED BY <1>1, <2>2, <2>4
<1> QED BY <1>2, <1>3

(* The rest of the handler places the page as the policy does.             *)
LEMMA PolicyPlace ==
  ASSUME IInv, NEW p \in Page, NEW t, NEW q, NEW lirs, NEW free,
         Taken(p, t, q, lirs, free), HasTouched(p, t, q, lirs)
  PROVE  Policy!Place(p, LIRIn(t), q)
<1>1. /\ BranchTable(t, p) /\ t \in [Page -> PageFields]
      /\ Fresh => ~t[p].isHIR_block
  BY DEF Taken, BranchTable
<1>2. /\ S' = ToHead(S, p) /\ mPageTable' \in [Page -> PageFields]
      /\ Settled(t, q, p, mPageTable', Q')
  BY DEF HasTouched, Settled
<1>3. S' = Policy!Refresh(p)
  BY <1>2 DEF ToHead, RemovePage, Policy!Refresh, Policy!Without, Pos,
     Policy!Pos, Range, Policy!Range, RemoveAt, Policy!RemoveAt
<1>4. p \in LIRIn(t) <=> ~t[p].isHIR_block
  BY DEF LIRIn
<1>5. CASE /\ ~t[p].isHIR_block /\ Q' = q
           /\ \A x \in Page : mPageTable'[x].isHIR_block = t[x].isHIR_block
  <2>1. LIRs' = LIRIn(t)
    BY <1>5 DEF LIRs, LIRIn
  <2> QED BY <1>3, <1>4, <1>5, <2>1 DEF Policy!Place
<1>6. ASSUME t[p].isHIR_block
      PROVE  /\ mPageTable[p].recency <=> Policy!Promotable(p)
             /\ LIR_LRU_block_ptr \in Page => Policy!Oldest = LIR_LRU_block_ptr
  <2>1. /\ StackOK(mPageTable, S, LIR_LRU_block_ptr, cur_lir_S_len)
        /\ mPageTable[p].isHIR_block
    BY <1>1, <1>6 DEF IInv, BranchTable
  <2>2. LIR_LRU_block_ptr \in Page
    BY <2>1 DEF StackOK
  <2> QED BY <2>1, <2>2, PolicyPromotable, PolicyOldest
<1>7. CASE /\ t[p].isHIR_block /\ ~mPageTable[p].recency /\ Q' = <<p>> \o q
           /\ \A x \in Page : mPageTable'[x].isHIR_block = t[x].isHIR_block
  <2>1. LIRs' = LIRIn(t)
    BY <1>7 DEF LIRs, LIRIn
  <2> QED BY <1>3, <1>4, <1>6, <1>7, <2>1 DEF Policy!Place
<1>8. CASE /\ t[p].isHIR_block /\ mPageTable[p].recency
           /\ LIR_LRU_block_ptr \in Page /\ ~t[LIR_LRU_block_ptr].isHIR_block
           /\ Q' = <<LIR_LRU_block_ptr>> \o q
           /\ \A x \in Page : mPageTable'[x].isHIR_block <=>
                x = LIR_LRU_block_ptr \/ (x # p /\ t[x].isHIR_block)
  <2>1. LIRs' = (LIRIn(t) \ {LIR_LRU_block_ptr}) \cup {p}
    BY <1>8 DEF LIRs, LIRIn
  <2> QED BY <1>3, <1>4, <1>6, <1>8, <2>1 DEF Policy!Place
<1> QED BY <1>2, <1>5, <1>7, <1>8 DEF Settled

(* A miss is a fault of the policy.                                        *)
LEMMA PolicyFault ==
  ASSUME IInv, NEW p \in Page, Miss(p), mPageFaultNum' = Faulted
  PROVE  Policy!Fault(p)
BY PolicyFree DEF Policy!Fault, Miss, Faulted, ResidentIn

(* A page that is found is cached for the policy too.                      *)
LEMMA PolicyHit ==
  ASSUME IInv, NEW p \in Page, ~Miss(p),
         Policy!Place(p, LIRs, Policy!Without(Q, p)),
         mPageFaultNum' = mPageFaultNum
  PROVE  Policy!Hit(p)
BY PolicyFree DEF Policy!Hit, Miss, ResidentIn

(* A handler that goes through is a step of the policy.                    *)
LEMMA PolicyBranch ==
  ASSUME IInv, NEW p \in Page, p # last_ref_pg, status' = "running",
         MissEvict(p) \/ MissLoadLIR(p) \/ MissLoadHIR(p) \/ HitHIR(p) \/ HitLIR(p)
  PROVE  /\ \/ Policy!Hit(p) \/ Policy!LoadAsLIR(p)
            \/ Policy!Load(p) \/ Policy!Evict(p)
         /\ last_ref_pg' = p
<1>1. LIRs = LIRIn(mPageTable)
  BY DEF LIRs, LIRIn
<1>2. ASSUME NEW t, NEW q, NEW lirs, NEW free, Taken(p, t, q, lirs, free),
             Touch(p, Machine(t, q, lirs))
      PROVE  Policy!Place(p, LIRIn(t), q) /\ last_ref_pg' = p
  <2>1. /\ BranchTable(t, p) /\ q \in Seq(Page) /\ lirs \in Nat
        /\ Fresh => ~t[p].isHIR_block
        /\ t[p].isHIR_block /\ mPageTable[p].recency => LIRFramesTaken(lirs + 1)
    BY <1>2 DEF Taken
  <2>2. HasTouched(p, t, q, lirs)
    BY <1>2, <2>1, TouchFacts DEF HasStopped
  <2> QED BY <1>2, <2>2, PolicyPlace DEF HasTouched
<1>3. CASE MissEvict(p)
  <2> DEFINE t == [mPageTable EXCEPT ![Last(Q)].isResident = FALSE]
             q == Front(Q)
  <2>1. Q # <<>> /\ Taken(p, t, q, num_LIR_pgs, 0)
    BY <1>3, MissEvictTaken
  <2>2. /\ Touch(p, Machine(t, q, num_LIR_pgs)) /\ Miss(p) /\ mFreeMemSize = 0
        /\ mPageFaultNum' = Faulted
    BY <1>3, <2>1 DEF MissEvict, Evicted, Count, Stopped
  <2>3. LIRIn(t) = LIRs
    <3>1. mPageTable \in [Page -> PageFields] /\ Last(Q) \in Page
      BY <2>1, InvFacts DEF Last
    <3>2. \A x \in Page : t[x].isHIR_block = mPageTable[x].isHIR_block
      BY <3>1 DEF PageFields
    <3> HIDE DEF t
    <3> QED BY <3>2 DEF LIRIn, LIRs
  <2> HIDE DEF t
  <2>4. Policy!Place(p, LIRs, q) /\ last_ref_pg' = p
    <3> HIDE DEF q
    <3> QED BY <1>2, <2>1, <2>2, <2>3
  <2>5. Policy!Evict(p)
    BY <2>1, <2>2, <2>4, PolicyFault, PolicyFree
       DEF Policy!Evict, Front, Policy!Front
  <2> QED BY <2>4, <2>5
<1>4. CASE MissLoadLIR(p)
  <2> DEFINE t == [mPageTable EXCEPT ![p].isHIR_block = FALSE]
             lirs == num_LIR_pgs + 1
             free == mFreeMemSize - 1
  <2>1. Taken(p, t, Q, lirs, free)
    BY <1>4, MissLoadLIRTaken
  <2>2. /\ Touch(p, Machine(t, Q, lirs)) /\ Miss(p)
        /\ mFreeMemSize > HIR_block_portion_limit
        /\ mPageFaultNum' = Faulted
    BY <1>4 DEF MissLoadLIR, Count, Stopped
  <2>3. LIRIn(t) = LIRs \cup {p}
    <3>1. mPageTable \in [Page -> PageFields]
      BY InvFacts
    <3>2. \A x \in Page : ~t[x].isHIR_block <=>
                            x = p \/ ~mPageTable[x].isHIR_block
      BY <3>1 DEF PageFields
    <3> HIDE DEF t
    <3> QED BY <3>2 DEF LIRIn, LIRs
  <2> HIDE DEF t, lirs, free
  <2>4. Policy!Place(p, LIRs \cup {p}, Q) /\ last_ref_pg' = p
    BY <1>2, <2>1, <2>2, <2>3
  <2>5. Policy!LoadAsLIR(p)
    BY <2>2, <2>4, PolicyFault, PolicyFree DEF Policy!LoadAsLIR
  <2> QED BY <2>4, <2>5
<1>5. CASE MissLoadHIR(p)
  <2> DEFINE free == mFreeMemSize - 1
  <2>1. Taken(p, mPageTable, Q, num_LIR_pgs, free)
    BY <1>5, MissLoadHIRTaken
  <2>2. /\ Touch(p, Machine(mPageTable, Q, num_LIR_pgs)) /\ Miss(p)
        /\ mFreeMemSize \in 1 .. HIR_block_portion_limit
        /\ mPageFaultNum' = Faulted
    BY <1>5 DEF MissLoadHIR, Count, Stopped
  <2> HIDE DEF free
  <2>3. Policy!Place(p, LIRs, Q) /\ last_ref_pg' = p
    BY <1>1, <1>2, <2>1, <2>2
  <2>4. Policy!Load(p)
    BY <2>2, <2>3, PolicyFault, PolicyFree DEF Policy!Load
  <2> QED BY <2>3, <2>4
<1>6. CASE HitHIR(p)
  <2> DEFINE q == RemovePage(Q, p)
  <2>1. Taken(p, mPageTable, q, num_LIR_pgs, mFreeMemSize)
    BY <1>6, HitHIRTaken
  <2>2. /\ Touch(p, Machine(mPageTable, q, num_LIR_pgs)) /\ ~Miss(p)
        /\ mPageFaultNum' = mPageFaultNum
    BY <1>6 DEF HitHIR, Count, Stopped
  <2>3. q = Policy!Without(Q, p)
    BY DEF RemovePage, Policy!Without, Pos, Policy!Pos, Range, Policy!Range,
       RemoveAt, Policy!RemoveAt
  <2> HIDE DEF q
  <2>4. Policy!Place(p, LIRs, q) /\ last_ref_pg' = p
    BY <1>1, <1>2, <2>1, <2>2
  <2>5. Policy!Hit(p)
    BY <2>2, <2>3, <2>4, PolicyHit
  <2> QED BY <2>4, <2>5
<1>7. CASE HitLIR(p)
  <2>1. Taken(p, mPageTable, Q, num_LIR_pgs, mFreeMemSize)
    BY <1>7, HitLIRTaken
  <2>2. /\ Touch(p, Machine(mPageTable, Q, num_LIR_pgs)) /\ ~Miss(p)
        /\ mPageFaultNum' = mPageFaultNum /\ ~mPageTable[p].isHIR_block
    BY <1>7 DEF HitLIR, Count, Stopped
  <2>3. Q = Policy!Without(Q, p)
    <3>1. p \notin Range(Q)
      BY <2>2, InvFacts
    <3> QED BY <3>1 DEF Policy!Without, Range, Policy!Range
  <2>4. Policy!Place(p, LIRs, Q) /\ last_ref_pg' = p
    BY <1>1, <1>2, <2>1, <2>2
  <2>5. Policy!Hit(p)
    BY <2>2, <2>3, <2>4, PolicyHit
  <2> QED BY <2>4, <2>5
<1> QED BY <1>3, <1>4, <1>5, <1>6, <1>7

(* A step that ends the program is none of the policy.                     *)
LEMMA PolicyStopped ==
  ASSUME IInv, Next, status' # "running"
  PROVE  UNCHANGED Policy!vars
<1>1. PICK p \in Page :
        /\ p # last_ref_pg
        /\ MissEvict(p) \/ MissLoadLIR(p) \/ MissLoadHIR(p) \/ HitHIR(p) \/ HitLIR(p)
  BY DEF Next
<1>2. UNCHANGED <<mPageTable, S, Q, last_ref_pg>> /\ mPageFaultNum' = mPageFaultNum
  <2>1. ASSUME NEW m, Touch(p, m) PROVE UNCHANGED <<mPageTable, S, Q, last_ref_pg>>
    BY <2>1 DEF Touch
  <2>2. ASSUME NEW free, NEW faults, Count(free, faults)
        PROVE  mPageFaultNum' = mPageFaultNum
    BY <2>2 DEF Count, Stopped
  <2>3. \E m, free, faults : Touch(p, m) /\ Count(free, faults)
    BY <1>1, Zenon DEF MissEvict, MissLoadLIR, MissLoadHIR, HitHIR, HitLIR
  <2> QED BY <2>1, <2>2, <2>3
<1>3. mCacheMaxLimit' = mCacheMaxLimit
  BY DEF Next
<1> QED BY <1>2, <1>3 DEF Policy!vars, LIRs, HIR_block_portion_limit

(* Every step is a step of the policy or none.                             *)
LEMMA PolicyStep == IInv /\ [Next]_vars => [Policy!Next]_(Policy!vars)
<1> SUFFICES ASSUME IInv, [Next]_vars PROVE [Policy!Next]_(Policy!vars)
  OBVIOUS
<1>1. CASE UNCHANGED vars
  BY <1>1 DEF vars, Policy!vars, LIRs, HIR_block_portion_limit
<1>2. CASE Next /\ status' # "running"
  BY <1>2, PolicyStopped
<1>3. CASE Next /\ status' = "running"
  <2>1. PICK p \in Page :
          /\ p # last_ref_pg
          /\ MissEvict(p) \/ MissLoadLIR(p) \/ MissLoadHIR(p) \/ HitHIR(p) \/ HitLIR(p)
    BY <1>3 DEF Next
  <2>2. /\ \/ Policy!Hit(p) \/ Policy!LoadAsLIR(p)
           \/ Policy!Load(p) \/ Policy!Evict(p)
        /\ last_ref_pg' = p
    BY <1>3, <2>1, PolicyBranch
  <2>3. UNCHANGED <<mCacheMaxLimit, HIR_block_portion_limit>>
    BY <1>3 DEF Next, HIR_block_portion_limit
  <2> QED BY <2>1, <2>2, <2>3 DEF Policy!Next
<1> QED BY <1>1, <1>2, <1>3

-----------------------------------------------------------------------------
(* The results.                                                            *)

(* Whatever is referenced, the conjunction IInv of the facts below holds   *)
(* at the start of every iteration (replace_lirs_base.cc:190-271).         *)
THEOREM Invariant == Spec => []IInv
BY InitInv, StepInv, PTL DEF Spec

(* The engine's state has its type: no list operation of the handler is    *)
(* applied to a page that is not in the list.                              *)
THEOREM TypeCorrect == Spec => []TypeOK
<1>1. IInv => TypeOK
  BY DEF IInv
<1> QED BY <1>1, Invariant, PTL

(* In a cache of any size, every frame is accounted for after every        *)
(* reference: free, holding a LIR page, or holding a page that is in Q     *)
(* exactly once; past the warm-up the LIR pages fill their share (lines    *)
(* 217-267).                                                               *)
THEOREM FramesAlwaysAccounted == Spec => []FramesAccounted
BY InvAccounted, Invariant, PTL

(* The marks set and cleared at lines 105, 257 and 269 always tell which   *)
(* pages are in the stack proper, and LIR_LRU_block_ptr and cur_lir_S_len  *)
(* where it ends.                                                          *)
THEOREM MarksAlwaysMatchStack == Spec => []MarksMatchStack
BY InvMarks, Invariant, PTL

(* The walk of lines 104-108 finds a LIR page, and line 225 a victim,      *)
(* in every cache with frames for two LIR pages or more.                   *)
THEOREM StopsOnlyWithOneLIRFrameEver == Spec => []StopsOnlyWithOneLIRFrame
<1>1. IInv => StopsOnlyWithOneLIRFrame
  BY DEF IInv
<1> QED BY <1>1, Invariant, PTL

(* The engine implements the LIRS policy: what it promotes, demotes and    *)
(* evicts by marks, pointer and counter is what the recency order names.   *)
THEOREM LIRSImplementsPolicy == Spec => FollowsPolicy
<1>1. Init => Policy!Init
  BY DEF Init, Policy!Init, LIRs
<1> QED BY <1>1, PolicyStep, Invariant, PTL DEF Spec, FollowsPolicy, Policy!Spec
=============================================================================
