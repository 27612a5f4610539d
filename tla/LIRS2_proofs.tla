---------------------------- MODULE LIRS2_proofs ----------------------------
(***************************************************************************)
(* Proofs about LIRS2 for every page set, cache size and HIR share that    *)
(* leaves at least one frame to LIR pages.                                 *)
(*                                                                         *)
(* The first part is about the frames: which pages have nodes, where the   *)
(* resident pages are listed, what the counters count (IInv).  It does not *)
(* look at the order of the stack, and holds for every stack limit.        *)
(*                                                                         *)
(* The second part is about the order of the stack, for every stack limit  *)
(* that leaves room for the nodes of all LIR pages (StackDeepEnough).  It  *)
(* speaks of positions: Rmax1 stands at a, Rmax2 at b, Cursor at c, and    *)
(* Ordered says what lies above, between and below them.  One lemma per    *)
(* part of the handler says where the three are afterwards; put together   *)
(* (TouchOrder) they show that a reference keeps OrderOK.                  *)
(*                                                                         *)
(* The third part is the refinement of LIRS2Policy: what the pages of the  *)
(* stack and the queue become in a step is what the policy says, because   *)
(* the two invariants say where the pointers stand.                        *)
(***************************************************************************)
EXTENDS LIRS2, ListLemmas

-----------------------------------------------------------------------------
(* The machine a handler works on, and the shape every part of the handler *)
(* keeps: S without repetitions, the Rmax pointers on nodes of S, Cursor   *)
(* on a node of S or NULL.                                                 *)

Entries == [isResident : BOOLEAN, isHIR_block : BOOLEAN]
Pointer == Node \cup {NULL}

Machines == [table : [Page -> Entries], Q : Seq(Node), lirs : Nat,
             S : Seq(Node), inst : [Node -> InstanceFields],
             Rmax1 : Pointer, Rmax2 : Pointer, Cursor : Pointer,
             len : Int, segv : BOOLEAN]

Shape(m) == /\ m \in Machines
            /\ IsInjective(m.S)
            /\ m.Rmax1 \in Range(m.S)
            /\ m.Rmax2 \in Range(m.S)
            /\ m.Cursor \in Range(m.S) \cup {NULL}

(* The part of a machine the walks and the pruning leave alone.            *)
SameFrames(r, m) == r.table = m.table /\ r.Q = m.Q /\ r.lirs = m.lirs

SameNumbers(r, m) ==
  /\ Range(r.S) = Range(m.S)
  /\ \A n \in Node : r.inst[n].which_instance = m.inst[n].which_instance

(* Pos finds a member of a list.                                           *)
LEMMA PosFacts ==
  ASSUME NEW A, NEW s \in Seq(A), NEW a \in Range(s)
  PROVE  Pos(s, a) \in 1 .. Len(s) /\ s[Pos(s, a)] = a
BY DEF Pos, Range

(* Unlinking a node leaves a list of the others.                           *)
LEMMA RemoveNodeFacts ==
  ASSUME NEW A, NEW s \in Seq(A), NEW a \in Range(s), IsInjective(s)
  PROVE  /\ RemoveNode(s, a) \in Seq(A)
         /\ IsInjective(RemoveNode(s, a))
         /\ Range(RemoveNode(s, a)) = Range(s) \ {a}
         /\ Len(RemoveNode(s, a)) = Len(s) - 1
<1>1. Pos(s, a) \in 1 .. Len(s) /\ s[Pos(s, a)] = a
  BY PosFacts
<1> QED BY <1>1, RemoveAtFacts DEF RemoveNode

(* Linking a node below another adds just that node.                       *)
LEMMA InsertBelowFacts ==
  ASSUME NEW A, NEW s \in Seq(A), NEW a \in A, NEW b \in Range(s),
         IsInjective(s), a \notin Range(s)
  PROVE  /\ InsertBelow(s, a, b) \in Seq(A)
         /\ IsInjective(InsertBelow(s, a, b))
         /\ Range(InsertBelow(s, a, b)) = Range(s) \cup {a}
<1>1. Pos(s, b) + 1 \in 1 .. Len(s) + 1
  BY PosFacts
<1> QED BY <1>1, InsertAtFacts DEF InsertBelow

(* Where a walk ends: NULL, or a LIR node of the walk's number in S.       *)
LEMMA WalkEndFacts ==
  ASSUME NEW m, Shape(m), NEW n \in Range(m.S), NEW k \in {1, 2}
  PROVE  \/ WalkEnd(m, n, k) = NULL
         \/ /\ WalkEnd(m, n, k) \in Range(m.S)
            /\ IsLIR(m, WalkEnd(m, n, k))
<1> DEFINE found == {i \in 1 .. Pos(m.S, n) - 1 :
                       IsLIR(m, m.S[i]) /\ m.inst[m.S[i]].which_instance = k}
<1>1. m.S \in Seq(Node)
  BY DEF Shape, Machines
<1>2. Pos(m.S, n) \in 1 .. Len(m.S)
  BY <1>1, PosFacts
<1>3. CASE found = {}
  BY <1>3 DEF WalkEnd
<1>4. CASE found # {}
  <2>1. Max(found) \in found
    <3>1. found \subseteq 1 .. Pos(m.S, n) /\ Pos(m.S, n) \in Nat
      BY <1>2
    <3> HIDE DEF found
    <3> QED BY <3>1, <1>4, MaxExists
  <2>2. WalkEnd(m, n, k) = m.S[Max(found)]
    BY <1>4 DEF WalkEnd
  <2>3. Max(found) \in 1 .. Len(m.S) /\ IsLIR(m, m.S[Max(found)])
    <3>1. \A i \in found : i \in 1 .. Len(m.S) /\ IsLIR(m, m.S[i])
      BY <1>1, <1>2
    <3> HIDE DEF found
    <3> QED BY <3>1, <2>1
  <2>4. m.S[Max(found)] \in Range(m.S)
    <3> HIDE DEF found
    <3> QED BY <2>3, <1>1 DEF Range
  <2> QED BY <2>2, <2>3, <2>4
<1> QED BY <1>3, <1>4

(* The stack holds nodes, and NULL is not one.                             *)
LEMMA RangeIsNodes ==
  ASSUME NEW m, Shape(m)
  PROVE  Range(m.S) \subseteq Node /\ NULL \notin Range(m.S)
BY ConstantsAssumption DEF Shape, Machines, Range

(* The walk of the first cursor (lines 125-137) changes the cursor and the *)
(* marks only.                                                             *)
LEMMA findLastLirLru1Facts ==
  ASSUME NEW m, Shape(m)
  PROVE  LET r == findLastLirLru1(m)
         IN  /\ Shape(r) /\ SameFrames(r, m) /\ SameNumbers(r, m)
             /\ r.Rmax2 = m.Rmax2
<1> DEFINE to == WalkEnd(m, m.Rmax1, 1)
<1>1. to = NULL \/ (to \in Range(m.S) /\ IsLIR(m, to))
  BY WalkEndFacts DEF Shape
<1> HIDE DEF to
<1>2. CASE to = NULL
  BY <1>2 DEF findLastLirLru1, Shape, SameFrames, SameNumbers, Machines, to
<1>3. CASE to # NULL
  <2> DEFINE newInst == [n \in Node |->
                           IF n \in Passed(m, m.Rmax1, to)
                           THEN [m.inst[n] EXCEPT !.recency1 = FALSE]
                           ELSE m.inst[n]]
  <2>1. findLastLirLru1(m) = [m EXCEPT !.Rmax1 = to, !.inst = newInst]
    BY <1>3 DEF findLastLirLru1, to, Shape, Machines
  <2>2. /\ newInst \in [Node -> InstanceFields]
        /\ \A n \in Node : newInst[n].which_instance = m.inst[n].which_instance
    BY DEF Shape, Machines, InstanceFields
  <2>3. to \in Range(m.S) /\ to \in Pointer
    BY <1>1, <1>3, RangeIsNodes DEF Pointer
  <2> HIDE DEF newInst
  <2> QED BY <2>1, <2>2, <2>3 DEF Shape, SameFrames, SameNumbers, Machines
<1> QED BY <1>2, <1>3

(* The nodes between two nodes of the stack are finitely many.             *)
LEMMA PassedIsFinite ==
  ASSUME NEW m, Shape(m), NEW a \in Range(m.S), NEW b \in Range(m.S)
  PROVE  IsFiniteSet(Passed(m, a, b))
<1> DEFINE positions == Pos(m.S, b) + 1 .. Pos(m.S, a)
           walk == [i \in positions |-> m.S[i]]
<1>1. Pos(m.S, b) + 1 \in Int /\ Pos(m.S, a) \in Int
  BY PosFacts DEF Shape, Machines
<1>2. IsFiniteSet(positions)
  BY <1>1, FS_Interval
<1>3. walk \in Surjection(positions, Passed(m, a, b))
  BY DEF Surjection, Passed
<1> QED BY <1>2, <1>3, FS_Surjection

(* The walk of the second cursor (lines 138-161) ends at an instance of a  *)
(* LIR page, or past the end of the stack; a cursor already at a LIR page  *)
(* stays at one.                                                           *)
LEMMA findLastLirLru2Facts ==
  ASSUME NEW m, Shape(m)
  PROVE  LET r == findLastLirLru2(m)
         IN  /\ Shape(r) /\ SameFrames(r, m) /\ SameNumbers(r, m)
             /\ r.segv \/ IsLIR(r, r.Rmax2)
             /\ IsLIR(m, m.Rmax2) => IsLIR(r, r.Rmax2)
<1> DEFINE to == WalkEnd(m, m.Rmax2, 2)
           passed == Passed(m, m.Rmax2, to)
<1>1. to = NULL \/ (to \in Range(m.S) /\ IsLIR(m, to))
  BY WalkEndFacts DEF Shape
<1> HIDE DEF to
<1>2. CASE to = NULL
  BY <1>2 DEF findLastLirLru2, Shape, SameFrames, SameNumbers, Machines, to, IsLIR
<1>3. CASE to # NULL
  <2> DEFINE newInst == [n \in Node |->
                           IF n \in passed
                           THEN [m.inst[n] EXCEPT !.recency2 = FALSE]
                           ELSE m.inst[n]]
             newLen == m.len - Cardinality(passed)
  <2>1. findLastLirLru2(m) = [m EXCEPT !.Rmax2 = to, !.Cursor = to,
                                       !.len = newLen, !.inst = newInst]
    BY <1>3 DEF findLastLirLru2, to, Shape, Machines
  <2>2. /\ newInst \in [Node -> InstanceFields]
        /\ \A n \in Node : newInst[n].which_instance = m.inst[n].which_instance
    BY DEF Shape, Machines, InstanceFields
  <2>3. newLen \in Int
    BY PassedIsFinite, FS_CardinalityType, <1>1, <1>3 DEF Shape, Machines
  <2>4. to \in Range(m.S) /\ to \in Pointer /\ IsLIR(m, to)
    BY <1>1, <1>3, RangeIsNodes DEF Pointer
  <2> HIDE DEF newInst, newLen
  <2> QED BY <2>1, <2>2, <2>3, <2>4
          DEF Shape, SameFrames, SameNumbers, Machines, IsLIR
<1> QED BY <1>2, <1>3

(* The pruning moves HIR nodes of S and leaves the frames alone.           *)
LEMMA PruneOnceFacts ==
  ASSUME NEW m, Shape(m), m.segv \/ IsLIR(m, m.Rmax2)
  PROVE  LET r == PruneOnce(m)
         IN  /\ Shape(r) /\ SameFrames(r, m) /\ SameNumbers(r, m)
             /\ r.segv \/ IsLIR(r, r.Rmax2)
<1> DEFINE hir == IF m.Cursor = NULL THEN {}
                  ELSE {i \in 1 .. Pos(m.S, m.Cursor) : ~IsLIR(m, m.S[i])}
           n == m.S[Max(hir)]
<1>1. m.S \in Seq(Node)
  BY DEF Shape, Machines
<1>2. CASE m.segv \/ m.len <= MAX_S_LEN
  BY <1>2 DEF PruneOnce, SameFrames, SameNumbers
<1>3. CASE ~(m.segv \/ m.len <= MAX_S_LEN) /\ hir = {}
  <2>1. PruneOnce(m) = [m EXCEPT !.segv = TRUE]
    BY <1>3 DEF PruneOnce
  <2> QED BY <2>1 DEF Shape, SameFrames, SameNumbers, Machines
<1>4. CASE ~(m.segv \/ m.len <= MAX_S_LEN) /\ hir # {}
  <2>1. m.Cursor \in Range(m.S)
    BY <1>4 DEF Shape
  <2>2. Pos(m.S, m.Cursor) \in 1 .. Len(m.S)
    BY <2>1, <1>1, PosFacts
  <2>3. Max(hir) \in hir
    <3>1. hir \subseteq 1 .. Pos(m.S, m.Cursor) /\ Pos(m.S, m.Cursor) \in Nat
      BY <2>2, <1>1
    <3> HIDE DEF hir
    <3> QED BY <3>1, <1>4, MaxExists
  <2>4. Max(hir) \in 1 .. Len(m.S) /\ ~IsLIR(m, n)
    <3>1. \A i \in hir : i \in 1 .. Len(m.S) /\ ~IsLIR(m, m.S[i])
      BY <2>2, <1>1
    <3> HIDE DEF hir
    <3> QED BY <3>1, <2>3
  <2>5. n \in Range(m.S) /\ n \in Node
    <3> HIDE DEF hir
    <3> QED BY <2>4, <1>1 DEF Range
  <2>6. PruneOnce(m) =
          [m EXCEPT !.Cursor = Above(m.S, n), !.inst[n] = Unmark(@),
                    !.S = InsertBelow(RemoveNode(m.S, n), n, m.Rmax2),
                    !.len = m.len - 1]
    BY <1>4 DEF PruneOnce
  <2> HIDE DEF n
  <2>7. IsLIR(m, m.Rmax2) /\ m.Rmax2 # n
    BY <1>4, <2>4
  <2> DEFINE moved == InsertBelow(RemoveNode(m.S, n), n, m.Rmax2)
             marked == [m.inst EXCEPT ![n] = Unmark(@)]
  <2>8. moved \in Seq(Node) /\ IsInjective(moved) /\ Range(moved) = Range(m.S)
    <3>1. /\ RemoveNode(m.S, n) \in Seq(Node) /\ IsInjective(RemoveNode(m.S, n))
          /\ Range(RemoveNode(m.S, n)) = Range(m.S) \ {n}
      BY <1>1, <2>5, RemoveNodeFacts DEF Shape
    <3>2. m.Rmax2 \in Range(m.S) \ {n}
      BY <2>7 DEF Shape
    <3> DEFINE rest == RemoveNode(m.S, n)
    <3> HIDE DEF rest
    <3>3. n \notin Range(rest) /\ m.Rmax2 \in Range(rest)
      BY <3>1, <3>2 DEF rest
    <3>4. /\ InsertBelow(rest, n, m.Rmax2) \in Seq(Node)
          /\ IsInjective(InsertBelow(rest, n, m.Rmax2))
          /\ Range(InsertBelow(rest, n, m.Rmax2)) = Range(rest) \cup {n}
      BY <3>1, <3>3, <2>5, InsertBelowFacts DEF rest
    <3> QED BY <3>1, <3>4, <2>5 DEF rest
  <2>9. Above(m.S, n) \in Range(m.S) \cup {NULL}
    <3>1. Pos(m.S, n) \in 1 .. Len(m.S)
      BY <1>1, <2>5, PosFacts
    <3> QED BY <3>1, <1>1 DEF Above, Range
  <2>10. /\ marked \in [Node -> InstanceFields]
         /\ \A k \in Node : marked[k].which_instance = m.inst[k].which_instance
    BY <2>5 DEF Shape, Machines, InstanceFields, Unmark
  <2>11. Above(m.S, n) \in Pointer
    BY <2>9, RangeIsNodes DEF Pointer
  <2> HIDE DEF moved, marked
  <2>12. PruneOnce(m) = [m EXCEPT !.Cursor = Above(m.S, n), !.inst = marked,
                                  !.S = moved, !.len = m.len - 1]
    BY <2>6 DEF moved, marked, Shape, Machines
  <2> DEFINE r == PruneOnce(m)
  <2>13. /\ r.table = m.table /\ r.Q = m.Q /\ r.lirs = m.lirs
         /\ r.Rmax1 = m.Rmax1 /\ r.Rmax2 = m.Rmax2
         /\ r.S = moved /\ r.inst = marked /\ r.Cursor = Above(m.S, n)
    BY <2>12 DEF Shape, Machines
  <2>14. r \in Machines
    <3>1. m \in Machines /\ m.len - 1 \in Int
      BY DEF Shape, Machines
    <3>2. moved \in Seq(Node) /\ marked \in [Node -> InstanceFields]
      BY <2>8, <2>10
    <3> DEFINE c == Above(m.S, n)
               l == m.len - 1
    <3>3. c \in Pointer /\ l \in Int
      BY <2>11, <3>1
    <3>4. r = [m EXCEPT !.Cursor = c, !.inst = marked, !.S = moved, !.len = l]
      BY <2>12
    <3> HIDE DEF c, l, r
    <3> QED BY <3>1, <3>2, <3>3, <3>4 DEF Machines
  <2> HIDE DEF r
  <2>15. Shape(r)
    BY <2>8, <2>9, <2>13, <2>14 DEF Shape
  <2>16. SameFrames(r, m) /\ SameNumbers(r, m) /\ IsLIR(r, r.Rmax2)
    BY <2>7, <2>8, <2>10, <2>13 DEF SameFrames, SameNumbers, IsLIR
  <2> QED BY <2>15, <2>16 DEF r
<1> QED BY <1>2, <1>3, <1>4

(* pruneLIRSstack (lines 228-242) changes the cursors and the marks only,  *)
(* and leaves the second cursor at a LIR page unless it walks off the end. *)
LEMMA pruneLIRSstackFacts ==
  ASSUME NEW m, Shape(m), m.segv \/ IsLIR(m, m.Rmax2)
  PROVE  LET r == pruneLIRSstack(m)
         IN  /\ Shape(r) /\ SameFrames(r, m) /\ SameNumbers(r, m)
             /\ r.segv \/ IsLIR(r, r.Rmax2)
<1> DEFINE h == PruneOnce(m)
<1>1. /\ Shape(h) /\ SameFrames(h, m) /\ SameNumbers(h, m)
      /\ h.segv \/ IsLIR(h, h.Rmax2)
  BY PruneOnceFacts
<1> HIDE DEF h
<1>2. LET r == PruneOnce(h)
      IN  /\ Shape(r) /\ SameFrames(r, h) /\ SameNumbers(r, h)
          /\ r.segv \/ IsLIR(r, r.Rmax2)
  BY <1>1, PruneOnceFacts
<1>3. pruneLIRSstack(m) = PruneOnce(h)
  BY DEF pruneLIRSstack, h
<1> QED BY <1>1, <1>2, <1>3 DEF SameFrames, SameNumbers

-----------------------------------------------------------------------------
(* What one reference does to the frames.                                  *)

(* From table and queue, with p already out of the queue, a reference to p *)
(* goes one of three ways: p is LIR and stays it; p is HIR and enters the  *)
(* queue; p turns LIR and the page of node d, LIR until then, takes its    *)
(* place in the queue.                                                     *)
TouchedLIR(r, table, queue, p) ==
  /\ ~table[p].isHIR_block
  /\ r.table = [table EXCEPT ![p].isResident = TRUE] /\ r.Q = queue

TouchedHIR(r, table, queue, p) ==
  /\ table[p].isHIR_block
  /\ r.table = [table EXCEPT ![p].isResident = TRUE]
  /\ \E n \in Node : n[1] = p /\ r.Q = <<n>> \o queue

Promoted(r, table, queue, p) ==
  /\ table[p].isHIR_block
  /\ \E d \in Node :
       /\ ~table[d[1]].isHIR_block
       /\ r.Q = <<d>> \o queue
       /\ \A q \in Page :
            /\ r.table[q].isResident = (table[q].isResident \/ q = p)
            /\ r.table[q].isHIR_block =
                 ((table[q].isHIR_block /\ q # p) \/ q = d[1])

FramesTouched(r, table, queue, p) ==
  \/ TouchedLIR(r, table, queue, p)
  \/ TouchedHIR(r, table, queue, p)
  \/ Promoted(r, table, queue, p)

-----------------------------------------------------------------------------
(* The stack part of the handler.                                          *)

(* A page has two numbered nodes in S, or two unnumbered ones outside it.  *)
Numbered(i, list) ==
  \A p \in Page :
    LET a == i[<<p, 1>>].which_instance
        b == i[<<p, 2>>].which_instance
    IN  \/ /\ a = 0 /\ b = 0
           /\ <<p, 1>> \notin Range(list) /\ <<p, 2>> \notin Range(list)
        \/ /\ (a = 1 /\ b = 2) \/ (a = 2 /\ b = 1)
           /\ <<p, 1>> \in Range(list) /\ <<p, 2>> \in Range(list)

StackOK ==
  /\ S \in Seq(Node) /\ IsInjective(S)
  /\ inst \in [Node -> InstanceFields] /\ Numbered(inst, S)
  /\ cur_lir_S_len \in Int
  /\ IF S = <<>> THEN Rmax1 = NULL /\ Rmax2 = NULL /\ Cursor = NULL
     ELSE /\ Rmax1 \in Range(S) /\ Rmax2 \in Range(S)
          /\ Cursor \in Range(S) \cup {NULL}

(* An operation that keeps the stack's nodes and the instance numbers      *)
(* keeps every node's number.                                              *)
LEMMA NumberedSame ==
  ASSUME NEW r, NEW m, SameNumbers(r, m), Numbered(m.inst, m.S)
  PROVE  Numbered(r.inst, r.S)
BY DEF Numbered, SameNumbers, Node

(* The two pointers of a known page are its two nodes, both on the stack.  *)
LEMMA KnownNodes ==
  ASSUME StackOK, NEW p \in Page, Known(p)
  PROVE  LET ins1 == pointerInstance(p, 1)
             ins2 == pointerInstance(p, 2)
         IN  /\ ins1 \in Range(S) /\ ins2 \in Range(S)
             /\ ins1 \in Node /\ ins2 \in Node
             /\ ins1 # ins2 /\ ins1[1] = p /\ ins2[1] = p
             /\ \/ ins1 = <<p, 1>> /\ ins2 = <<p, 2>>
                \/ ins1 = <<p, 2>> /\ ins2 = <<p, 1>>
BY DEF StackOK, Known, pointerInstance, Numbered, Node

(* Neither node of an unknown page is on the stack.                        *)
LEMMA UnknownNodes ==
  ASSUME StackOK, NEW p \in Page, ~Known(p)
  PROVE  <<p, 1>> \notin Range(S) /\ <<p, 2>> \notin Range(S)
BY ConstantsAssumption DEF StackOK, Known, pointerInstance, Numbered, Node

(* Both nodes of a new page go on top of the list.                         *)
LEMMA PushBothFacts ==
  ASSUME NEW list \in Seq(Node), IsInjective(list), NEW p \in Page,
         <<p, 1>> \notin Range(list), <<p, 2>> \notin Range(list)
  PROVE  /\ PushBoth(list, p) \in Seq(Node) /\ IsInjective(PushBoth(list, p))
         /\ Range(PushBoth(list, p)) = Range(list) \cup {<<p, 1>>, <<p, 2>>}
<1> DEFINE n1 == <<p, 1>>
           n2 == <<p, 2>>
           l == <<n2>> \o list
<1>1. n1 \in Node /\ n2 \in Node /\ n1 # n2
  BY DEF Node
<1> HIDE DEF n1, n2
<1>2. l \in Seq(Node) /\ IsInjective(l) /\ Range(l) = Range(list) \cup {n2}
  BY <1>1, ConsFacts DEF n1, n2
<1>3. n1 \notin Range(l)
  BY <1>1, <1>2 DEF n1
<1> HIDE DEF l
<1>4. /\ <<n1>> \o l \in Seq(Node) /\ IsInjective(<<n1>> \o l)
      /\ Range(<<n1>> \o l) = Range(l) \cup {n1}
  BY <1>1, <1>2, <1>3, ConsFacts
<1>5. PushBoth(list, p) = <<n1>> \o l
  <2>1. <<n1, n2>> = <<n1>> \o <<n2>>
    <3>1. <<n1>> \o <<n2>> \in Seq(Node) /\ Len(<<n1>> \o <<n2>>) = 2
          /\ (<<n1>> \o <<n2>>)[1] = n1 /\ (<<n1>> \o <<n2>>)[2] = n2
      BY <1>1
    <3>2. <<n1, n2>> \in Seq(Node) /\ Len(<<n1, n2>>) = 2
      BY <1>1
    <3>3. <<n1, n2>>[1] = n1 /\ <<n1, n2>>[2] = n2
      OBVIOUS
    <3> DEFINE u == <<n1>> \o <<n2>>
               v == <<n1, n2>>
    <3>4. \A i \in 1 .. Len(u) : u[i] = v[i]
      BY <3>1, <3>3
    <3> HIDE DEF u, v
    <3> QED BY <3>1, <3>2, <3>4, SeqEqual DEF u, v
  <2>2. <<n1>> \in Seq(Node) /\ <<n2>> \in Seq(Node)
    BY <1>1
  <2>3. PushBoth(list, p) = <<n1, n2>> \o list
    BY DEF PushBoth, n1, n2
  <2> QED BY <2>1, <2>2, <2>3, ConcatAssociative DEF l
<1> QED BY <1>2, <1>4, <1>5 DEF n1, n2

(* The first reference to a page (lines 344-376) keeps the stack's shape   *)
(* and changes the frames as it should.                                    *)
LEMMA FirstTouchFacts ==
  ASSUME StackOK, NEW p \in Page, ~Known(p),
         NEW table \in [Page -> Entries], NEW queue \in Seq(Node),
         NEW lirs \in Nat,
         IF S = <<>> THEN ~table[p].isHIR_block ELSE ~table[Rmax2[1]].isHIR_block
  PROVE  LET r == FirstTouch(Machine(table, queue, lirs), p)
         IN  /\ Shape(r) /\ Numbered(r.inst, r.S) /\ r.lirs = lirs
             /\ IsLIR(r, r.Rmax2)
             /\ FramesTouched(r, table, queue, p)
<1> DEFINE m == Machine(table, queue, lirs)
           r == FirstTouch(m, p)
           n1 == <<p, 1>>
           n2 == <<p, 2>>
           i1 == [which_instance |-> 1, fake_ins |-> FALSE,
                  recency1 |-> TRUE, recency2 |-> TRUE]
           i2 == [which_instance |-> 2, fake_ins |-> TRUE,
                  recency1 |-> ~(Rmax2 = NULL), recency2 |-> TRUE]
           newInst == [inst EXCEPT ![n1] = i1, ![n2] = i2]
           newTable == [table EXCEPT ![p].isResident = TRUE]
           newQ == IF table[p].isHIR_block THEN <<n1>> \o queue ELSE queue
<1>1. n1 \in Node /\ n2 \in Node /\ n1 # n2 /\ n1[1] = p /\ n2[1] = p
  BY DEF Node
<1>2. /\ r.table = newTable /\ r.Q = newQ /\ r.lirs = lirs
      /\ r.S = PushBoth(S, p) /\ r.inst = newInst
      /\ r.Rmax1 = IF Rmax1 = NULL THEN n1 ELSE Rmax1
      /\ r.Rmax2 = IF Rmax2 = NULL THEN n2 ELSE Rmax2
      /\ r.Cursor = IF Rmax2 = NULL THEN n2 ELSE Cursor
      /\ r.len = cur_lir_S_len + 2
  BY DEF FirstTouch, Machine
<1>3. newInst \in [Node -> InstanceFields] /\ newInst[n1] = i1 /\ newInst[n2] = i2
  <2>1. i1 \in InstanceFields /\ i2 \in InstanceFields
    BY DEF InstanceFields
  <2> HIDE DEF i1, i2, n1, n2
  <2> QED BY <1>1, <2>1 DEF StackOK
<1>4. /\ newTable \in [Page -> Entries]
      /\ \A q \in Page : newTable[q].isHIR_block = table[q].isHIR_block
  BY DEF Entries
<1>5. newQ \in Seq(Node)
  BY <1>1
<1>6. /\ PushBoth(S, p) \in Seq(Node) /\ IsInjective(PushBoth(S, p))
      /\ Range(PushBoth(S, p)) = Range(S) \cup {n1, n2}
  BY UnknownNodes, PushBothFacts DEF StackOK
<1>7. /\ r.Rmax1 \in Range(S) \cup {n1} /\ r.Rmax2 \in Range(S) \cup {n2}
      /\ r.Cursor \in Range(S) \cup {NULL, n2}
  <2> HIDE DEF n1, n2, newInst, newTable, newQ
  <2> QED BY <1>2 DEF StackOK
<1>8. Range(S) \subseteq Node
  BY DEF StackOK, Range
<1>9. r \in Machines
  <2> DEFINE s == PushBoth(S, p)
             a == IF Rmax1 = NULL THEN n1 ELSE Rmax1
             b == IF Rmax2 = NULL THEN n2 ELSE Rmax2
             c == IF Rmax2 = NULL THEN n2 ELSE Cursor
             l == cur_lir_S_len + 2
  <2>1. a \in Pointer /\ b \in Pointer /\ c \in Pointer /\ l \in Int
    <3> HIDE DEF n1, n2, newInst, newTable, newQ, r
    <3> QED BY <1>8, <1>1 DEF Pointer, StackOK
  <2>2. m \in Machines
    BY <1>8 DEF Machine, Machines, StackOK, Pointer
  <2>3. m.S = S /\ m.inst = inst /\ m.Rmax1 = Rmax1 /\ m.Rmax2 = Rmax2
        /\ m.Cursor = Cursor /\ m.len = cur_lir_S_len /\ m.Q = queue
        /\ m.table = table
    BY DEF Machine
  <2> HIDE DEF m
  <2>4. r = [m EXCEPT !.S = s, !.inst = newInst, !.Rmax1 = a, !.Rmax2 = b,
                      !.Cursor = c, !.len = l, !.Q = newQ, !.table = newTable]
    BY <2>3 DEF FirstTouch
  <2> HIDE DEF s, a, b, c, l, newInst, newTable, newQ, r
  <2>5. s \in Seq(Node)
    BY <1>6 DEF s
  <2> QED BY <1>3, <1>4, <1>5, <2>1, <2>2, <2>4, <2>5 DEF Machines
<1>10. Shape(r)
  <2> HIDE DEF n1, n2, newInst, newTable, newQ, r
  <2>1. r.S = PushBoth(S, p)
    BY <1>2
  <2> QED BY <1>6, <1>7, <1>9, <2>1 DEF Shape
<1>11. IsLIR(r, r.Rmax2)
  <2>1. r.table = newTable /\ r.Rmax2 = IF Rmax2 = NULL THEN n2 ELSE Rmax2
    BY <1>2
  <2>2. Rmax2 = NULL <=> S = <<>>
    <3>1. NULL \notin Range(S)
      BY <1>8, ConstantsAssumption
    <3> QED BY <3>1 DEF StackOK
  <2>3. Rmax2 # NULL => Rmax2[1] \in Page
    BY <2>2, <1>8 DEF StackOK, Node
  <2> HIDE DEF r, newTable
  <2> QED BY <2>1, <2>2, <2>3, <1>1, <1>4 DEF IsLIR
<1>12. Numbered(r.inst, r.S)
  <2>1. r.inst = newInst /\ r.S = PushBoth(S, p)
    BY <1>2
  <2>2. newInst[n1].which_instance = 1 /\ newInst[n2].which_instance = 2
    BY <1>3
  <2>3. \A q \in Page, t \in {1, 2} : q # p =>
          /\ newInst[<<q, t>>] = inst[<<q, t>>]
          /\ <<q, t>> \in Range(PushBoth(S, p)) <=> <<q, t>> \in Range(S)
    BY <1>6 DEF Node, StackOK
  <2> HIDE DEF newInst, r
  <2> SUFFICES ASSUME NEW q \in Page
               PROVE  LET a == newInst[<<q, 1>>].which_instance
                          b == newInst[<<q, 2>>].which_instance
                          list == PushBoth(S, p)
                      IN  \/ /\ a = 0 /\ b = 0
                             /\ <<q, 1>> \notin Range(list)
                             /\ <<q, 2>> \notin Range(list)
                          \/ /\ (a = 1 /\ b = 2) \/ (a = 2 /\ b = 1)
                             /\ <<q, 1>> \in Range(list)
                             /\ <<q, 2>> \in Range(list)
    BY <2>1 DEF Numbered
  <2>4. CASE q = p
    BY <2>2, <2>4, <1>6
  <2>5. CASE q # p
    BY <2>3, <2>5 DEF StackOK, Numbered
  <2> QED BY <2>4, <2>5
<1>13. FramesTouched(r, table, queue, p)
  <2> HIDE DEF r, n1
  <2>1. CASE table[p].isHIR_block
    BY <1>1, <1>2, <2>1 DEF FramesTouched, TouchedHIR
  <2>2. CASE ~table[p].isHIR_block
    BY <1>2, <2>2 DEF FramesTouched, TouchedLIR
  <2> QED BY <2>1, <2>2
<1> QED BY <1>2, <1>10, <1>11, <1>12, <1>13

(* When a node leaves the region the first cursor's retreat changes the    *)
(* cursor, the counts and the marks only.                                  *)
LEMMA LeavesRegionFacts ==
  ASSUME NEW m, Shape(m), IsLIR(m, m.Rmax2), NEW n
  PROVE  LET r == LeavesRegion(m, n)
         IN  /\ Shape(r) /\ SameFrames(r, m) /\ SameNumbers(r, m)
             /\ IsLIR(r, r.Rmax2)
<1>1. CASE n = m.Rmax2
  BY <1>1, findLastLirLru2Facts DEF LeavesRegion
<1>2. CASE n # m.Rmax2
  <2>1. m.len - 1 \in Int
    BY DEF Shape, Machines
  <2> QED BY <1>2, <2>1
          DEF LeavesRegion, Shape, SameFrames, SameNumbers, Machines, IsLIR
<1> QED BY <1>1, <1>2

(* A later reference (lines 378-418) moves a node to the top, keeps the    *)
(* stack's shape and leaves the frames alone.                              *)
LEMMA MoveToTopFacts ==
  ASSUME StackOK, S # <<>>, NEW p \in Page, Known(p),
         NEW table \in [Page -> Entries], NEW queue \in Seq(Node),
         NEW lirs \in Nat, ~table[Rmax2[1]].isHIR_block
  PROVE  LET m == Machine(table, queue, lirs)
             r == MoveToTop(m, p)
         IN  /\ Shape(r) /\ SameFrames(r, m) /\ IsLIR(r, r.Rmax2)
             /\ Numbered(r.inst, r.S)
<1> DEFINE m == Machine(table, queue, lirs)
           r == MoveToTop(m, p)
           ins1 == pointerInstance(p, 1)
           ins2 == pointerInstance(p, 2)
           renumbered == [m.inst EXCEPT
                      ![ins1].which_instance = 2,
                      ![ins2] = [@ EXCEPT !.which_instance = 1, !.fake_ins = FALSE]]
           renamed == [m EXCEPT !.inst = renumbered]
           counted == LeavesRegion(renamed, ins2)
           newCursor == CursorGivesWay(counted, ins2)
           newS == <<ins2>> \o RemoveNode(counted.S, ins2)
           newLen == counted.len + 1
           moved == [counted EXCEPT !.Cursor = newCursor, !.S = newS,
                                    !.len = newLen]
<1>1. /\ ins1 \in Range(S) /\ ins2 \in Range(S)
      /\ ins1 \in Node /\ ins2 \in Node /\ ins1 # ins2
      /\ \/ ins1 = <<p, 1>> /\ ins2 = <<p, 2>>
         \/ ins1 = <<p, 2>> /\ ins2 = <<p, 1>>
  BY KnownNodes
<1>2. r = IF ins1 = m.Rmax1 THEN findLastLirLru1(moved) ELSE moved
  BY DEF MoveToTop
<1> HIDE DEF ins1, ins2, r
<1>3. Shape(m) /\ IsLIR(m, m.Rmax2) /\ Numbered(m.inst, m.S) /\ m.S = S
  <2>1. Range(S) \subseteq Node
    BY DEF StackOK, Range
  <2> QED BY <2>1 DEF Shape, Machines, Machine, StackOK, Pointer, IsLIR
<1> HIDE DEF m
<1>4. /\ renumbered \in [Node -> InstanceFields]
      /\ renumbered[ins1].which_instance = 2
      /\ renumbered[ins2].which_instance = 1
      /\ \A n \in Node \ {ins1, ins2} : renumbered[n] = m.inst[n]
  <2> DEFINE e1 == [m.inst[ins1] EXCEPT !.which_instance = 2]
             e2 == [m.inst[ins2] EXCEPT !.which_instance = 1, !.fake_ins = FALSE]
  <2>1. m.inst \in [Node -> InstanceFields]
    BY <1>3 DEF Shape, Machines
  <2>2. /\ e1 \in InstanceFields /\ e1.which_instance = 2
        /\ e2 \in InstanceFields /\ e2.which_instance = 1
    <3> DEFINE f1 == m.inst[ins1]
               f2 == m.inst[ins2]
    <3>1. f1 \in InstanceFields /\ f2 \in InstanceFields
      BY <2>1, <1>1
    <3> HIDE DEF f1, f2
    <3>2. [f1 EXCEPT !.which_instance = 2] \in InstanceFields
      BY <3>1 DEF InstanceFields
    <3>3. [f2 EXCEPT !.which_instance = 1, !.fake_ins = FALSE] \in InstanceFields
      <4> DEFINE g == [f2 EXCEPT !.which_instance = 1]
      <4>1. g \in InstanceFields
        BY <3>1 DEF InstanceFields
      <4>2. [f2 EXCEPT !.which_instance = 1, !.fake_ins = FALSE]
              = [g EXCEPT !.fake_ins = FALSE]
        BY <3>1 DEF InstanceFields
      <4> HIDE DEF g
      <4> QED BY <4>1, <4>2 DEF InstanceFields
    <3> QED BY <3>1, <3>2, <3>3 DEF f1, f2, InstanceFields
  <2>3. renumbered = [m.inst EXCEPT ![ins1] = e1, ![ins2] = e2]
    BY <2>1, <1>1
  <2> HIDE DEF e1, e2, renumbered
  <2> QED BY <2>1, <2>2, <2>3, <1>1
<1> HIDE DEF renumbered
<1>5. Shape(renamed) /\ SameFrames(renamed, m) /\ IsLIR(renamed, renamed.Rmax2)
      /\ renamed.S = S /\ renamed.inst = renumbered
  BY <1>3, <1>4 DEF Shape, Machines, SameFrames, IsLIR
<1> HIDE DEF renamed
<1>6. /\ Shape(counted) /\ SameFrames(counted, renamed)
      /\ SameNumbers(counted, renamed) /\ IsLIR(counted, counted.Rmax2)
  BY <1>5, LeavesRegionFacts
<1>7. Numbered(renumbered, S)
  <2> SUFFICES ASSUME NEW q \in Page
               PROVE  LET a == renumbered[<<q, 1>>].which_instance
                          b == renumbered[<<q, 2>>].which_instance
                      IN  \/ /\ a = 0 /\ b = 0
                             /\ <<q, 1>> \notin Range(S)
                             /\ <<q, 2>> \notin Range(S)
                          \/ /\ (a = 1 /\ b = 2) \/ (a = 2 /\ b = 1)
                             /\ <<q, 1>> \in Range(S) /\ <<q, 2>> \in Range(S)
    BY DEF Numbered
  <2>1. CASE q = p
    BY <1>1, <1>4, <2>1
  <2>2. CASE q # p
    <3>1. \A t \in {1, 2} : renumbered[<<q, t>>] = m.inst[<<q, t>>]
      BY <1>1, <1>4, <2>2 DEF Node
    <3> QED BY <3>1, <1>3 DEF Numbered
  <2> QED BY <2>1, <2>2
<1> HIDE DEF counted
<1>8. /\ newS \in Seq(Node) /\ IsInjective(newS)
      /\ Range(newS) = Range(counted.S) /\ ins2 \in Range(counted.S)
  <2> DEFINE rest == RemoveNode(counted.S, ins2)
  <2>1. /\ counted.S \in Seq(Node) /\ IsInjective(counted.S)
        /\ ins2 \in Range(counted.S)
    BY <1>1, <1>5, <1>6 DEF Shape, Machines, SameNumbers
  <2>2. /\ rest \in Seq(Node) /\ IsInjective(rest)
        /\ Range(rest) = Range(counted.S) \ {ins2}
    BY <2>1, RemoveNodeFacts
  <2> HIDE DEF rest
  <2>3. ins2 \notin Range(rest)
    BY <2>2
  <2>4. /\ <<ins2>> \o rest \in Seq(Node) /\ IsInjective(<<ins2>> \o rest)
        /\ Range(<<ins2>> \o rest) = Range(rest) \cup {ins2}
    BY <1>1, <2>2, <2>3, ConsFacts
  <2>5. newS = <<ins2>> \o rest
    BY DEF rest
  <2> QED BY <2>1, <2>2, <2>4, <2>5
<1>9. newCursor \in Range(counted.S) \cup {NULL}
  <2>1. counted.S \in Seq(Node)
    BY <1>6 DEF Shape, Machines
  <2>2. Above(counted.S, ins2) \in Range(counted.S) \cup {NULL}
    <3>1. Pos(counted.S, ins2) \in 1 .. Len(counted.S)
      BY <1>8, <2>1, PosFacts
    <3> QED BY <3>1, <2>1 DEF Above, Range
  <2> QED BY <2>2, <1>6 DEF CursorGivesWay, Shape
<1>10. newLen \in Int /\ newCursor \in Pointer
  <2>1. counted.len \in Int
    BY <1>6 DEF Shape, Machines
  <2>2. Range(counted.S) \subseteq Node
    BY <1>6, RangeIsNodes
  <2> HIDE DEF newCursor
  <2> QED BY <2>1, <2>2, <1>9 DEF Pointer
<1> HIDE DEF newS, newCursor, newLen
<1>11. moved \in Machines
  BY <1>6, <1>8, <1>10 DEF Shape, Machines
<1>12. /\ moved.S = newS /\ moved.Cursor = newCursor /\ moved.inst = counted.inst
       /\ moved.table = counted.table /\ moved.Q = counted.Q
       /\ moved.lirs = counted.lirs
       /\ moved.Rmax1 = counted.Rmax1 /\ moved.Rmax2 = counted.Rmax2
  BY <1>6 DEF Shape, Machines
<1> HIDE DEF moved
<1>13. Shape(moved) /\ SameFrames(moved, m) /\ IsLIR(moved, moved.Rmax2)
  BY <1>5, <1>6, <1>8, <1>9, <1>11, <1>12 DEF Shape, SameFrames, IsLIR
<1>14. Numbered(moved.inst, moved.S)
  <2>1. Range(moved.S) = Range(S)
    BY <1>5, <1>6, <1>8, <1>12 DEF SameNumbers
  <2>2. \A n \in Node : moved.inst[n].which_instance = renumbered[n].which_instance
    BY <1>5, <1>6, <1>12 DEF SameNumbers
  <2> QED BY <1>7, <2>1, <2>2 DEF Numbered, Node
<1>15. CASE ins1 = m.Rmax1
  <2>1. /\ Shape(r) /\ SameFrames(r, moved) /\ SameNumbers(r, moved)
        /\ r.Rmax2 = moved.Rmax2
    BY <1>2, <1>13, <1>15, findLastLirLru1Facts
  <2>2. Numbered(r.inst, r.S)
    BY <2>1, <1>14, NumberedSame
  <2> QED BY <2>1, <2>2, <1>13 DEF SameFrames, IsLIR, r, m
<1>16. CASE ins1 # m.Rmax1
  BY <1>2, <1>13, <1>14, <1>16 DEF r, m
<1> QED BY <1>15, <1>16

(* The first cursor giving way to the second changes no frame.             *)
LEMMA Rmax1GivesWayFacts ==
  ASSUME NEW m, Shape(m)
  PROVE  LET r == Rmax1GivesWay(m)
         IN  Shape(r) /\ SameFrames(r, m) /\ SameNumbers(r, m)
BY findLastLirLru1Facts DEF Rmax1GivesWay, SameFrames, SameNumbers

(* A promotion (lines 422-437) exchanges one HIR page and one LIR page:    *)
(* the demoted page is the second cursor's, and joins the queue.           *)
LEMMA PromoteFacts ==
  ASSUME NEW m, Shape(m), IsLIR(m, m.Rmax2), NEW p \in Page
  PROVE  LET r == Promote(m, p)
         IN  /\ Shape(r) /\ SameNumbers(r, m)
             /\ r.segv \/ IsLIR(r, r.Rmax2)
             /\ r.lirs = m.lirs /\ r.Q = <<m.Rmax2>> \o m.Q
             /\ r.table = [m.table EXCEPT ![p].isHIR_block = FALSE,
                                          ![m.Rmax2[1]].isHIR_block = TRUE]
<1> DEFINE demoted == m.Rmax2
           newTable == [m.table EXCEPT ![p].isHIR_block = FALSE,
                                       ![demoted[1]].isHIR_block = TRUE]
           unmarked == [m.inst EXCEPT ![demoted].recency2 = FALSE]
           newQ == <<demoted>> \o m.Q
           swapped == [m EXCEPT !.table = newTable, !.Q = newQ, !.inst = unmarked]
           given == Rmax1GivesWay(swapped)
<1>1. demoted \in Node /\ demoted[1] \in Page
  BY RangeIsNodes DEF Shape, Node
<1>2. newTable \in [Page -> Entries]
  <2>1. m.table \in [Page -> Entries]
    BY DEF Shape, Machines
  <2> QED BY <2>1, <1>1 DEF Entries
<1>3. newQ \in Seq(Node)
  BY <1>1 DEF Shape, Machines
<1>4. /\ unmarked \in [Node -> InstanceFields]
      /\ \A n \in Node : unmarked[n].which_instance = m.inst[n].which_instance
  BY <1>1 DEF Shape, Machines, InstanceFields
<1> HIDE DEF newTable, newQ, unmarked
<1>5. swapped \in Machines
  BY <1>2, <1>3, <1>4 DEF Shape, Machines
<1>6. /\ swapped.S = m.S /\ swapped.Rmax1 = m.Rmax1 /\ swapped.Rmax2 = m.Rmax2
      /\ swapped.Cursor = m.Cursor /\ swapped.lirs = m.lirs
      /\ swapped.table = newTable /\ swapped.Q = newQ /\ swapped.inst = unmarked
  BY DEF Shape, Machines
<1>7. Promote(m, p) = findLastLirLru2(given)
  BY DEF Promote, newTable, newQ, unmarked
<1> HIDE DEF swapped
<1>8. Shape(swapped) /\ SameNumbers(swapped, m)
  BY <1>4, <1>5, <1>6 DEF Shape, SameNumbers
<1>9. Shape(given) /\ SameFrames(given, swapped) /\ SameNumbers(given, swapped)
  BY <1>8, Rmax1GivesWayFacts
<1> HIDE DEF given
<1>10. LET r == findLastLirLru2(given)
       IN  /\ Shape(r) /\ SameFrames(r, given) /\ SameNumbers(r, given)
           /\ r.segv \/ IsLIR(r, r.Rmax2)
  BY <1>9, findLastLirLru2Facts
<1> QED BY <1>6, <1>7, <1>8, <1>9, <1>10
        DEF SameFrames, SameNumbers, newTable, newQ

(* Marking an instance keeps its number.                                   *)
LEMMA MarkFacts ==
  ASSUME NEW i \in InstanceFields
  PROVE  LET e == [i EXCEPT !.recency1 = TRUE, !.recency2 = TRUE]
         IN  e \in InstanceFields /\ e.which_instance = i.which_instance
<1> DEFINE g == [i EXCEPT !.recency1 = TRUE]
<1>1. g \in InstanceFields /\ g.which_instance = i.which_instance
  BY DEF InstanceFields
<1>2. [i EXCEPT !.recency1 = TRUE, !.recency2 = TRUE] = [g EXCEPT !.recency2 = TRUE]
  BY DEF InstanceFields
<1> HIDE DEF g
<1> QED BY <1>1, <1>2 DEF InstanceFields

(* A reference to a known page (lines 378-446) keeps the stack's shape and *)
(* changes the frames as it should.                                        *)
LEMMA RetouchFacts ==
  ASSUME StackOK, S # <<>>, NEW p \in Page, Known(p),
         NEW table \in [Page -> Entries], NEW queue \in Seq(Node),
         NEW lirs \in Nat, ~table[Rmax2[1]].isHIR_block
  PROVE  LET r == Retouch(Machine(table, queue, lirs), p)
         IN  /\ Shape(r) /\ Numbered(r.inst, r.S) /\ r.lirs = lirs
             /\ r.segv \/ IsLIR(r, r.Rmax2)
             /\ FramesTouched(r, table, queue, p)
<1> DEFINE m == Machine(table, queue, lirs)
           ins2 == pointerInstance(p, 2)
           moved == MoveToTop(m, p)
           placed == IF ~m.table[p].isHIR_block THEN moved
                     ELSE IF Promotable(p) THEN Promote(moved, p)
                     ELSE [moved EXCEPT !.Q = <<ins2>> \o moved.Q]
           marked == [placed.inst EXCEPT ![ins2] = [@ EXCEPT !.recency1 = TRUE,
                                                             !.recency2 = TRUE]]
           newTable == [placed.table EXCEPT ![p].isResident = TRUE]
           r == [placed EXCEPT !.table = newTable, !.inst = marked]
<1>1. ins2 \in Node /\ ins2[1] = p
  BY KnownNodes
<1>2. /\ Shape(moved) /\ SameFrames(moved, m) /\ IsLIR(moved, moved.Rmax2)
      /\ Numbered(moved.inst, moved.S)
  BY MoveToTopFacts
<1>3. m.table = table /\ m.Q = queue /\ m.lirs = lirs
  BY DEF Machine
<1>4. Retouch(m, p) = r
  BY DEF Retouch
<1> HIDE DEF m, ins2, moved
<1>5. moved.table = table /\ moved.Q = queue /\ moved.lirs = lirs
  BY <1>2, <1>3 DEF SameFrames
<1>6. /\ Shape(placed) /\ SameNumbers(placed, moved) /\ placed.lirs = lirs
      /\ placed.segv \/ IsLIR(placed, placed.Rmax2)
      /\ \/ /\ ~table[p].isHIR_block
            /\ placed.table = table /\ placed.Q = queue
         \/ /\ table[p].isHIR_block
            /\ placed.table = table /\ placed.Q = <<ins2>> \o queue
         \/ /\ table[p].isHIR_block
            /\ ~table[moved.Rmax2[1]].isHIR_block
            /\ placed.Q = <<moved.Rmax2>> \o queue
            /\ placed.table = [table EXCEPT ![p].isHIR_block = FALSE,
                                            ![moved.Rmax2[1]].isHIR_block = TRUE]
  <2>1. CASE ~table[p].isHIR_block
    BY <1>2, <1>3, <1>5, <2>1 DEF SameNumbers
  <2>2. CASE table[p].isHIR_block /\ Promotable(p)
    <3>1. placed = Promote(moved, p)
      BY <1>3, <2>2
    <3> HIDE DEF placed
    <3>2. /\ Shape(placed) /\ SameNumbers(placed, moved)
          /\ placed.segv \/ IsLIR(placed, placed.Rmax2)
          /\ placed.lirs = moved.lirs /\ placed.Q = <<moved.Rmax2>> \o moved.Q
          /\ placed.table = [moved.table EXCEPT ![p].isHIR_block = FALSE,
                                      ![moved.Rmax2[1]].isHIR_block = TRUE]
      BY <3>1, <1>2, PromoteFacts
    <3> QED BY <3>2, <2>2, <1>2, <1>5 DEF IsLIR
  <2>3. CASE table[p].isHIR_block /\ ~Promotable(p)
    <3> DEFINE newQ == <<ins2>> \o moved.Q
    <3>1. placed = [moved EXCEPT !.Q = newQ]
      BY <1>3, <2>3
    <3>2. newQ \in Seq(Node)
      BY <1>1, <1>5
    <3> HIDE DEF placed, newQ
    <3>3. placed \in Machines
      BY <1>2, <3>1, <3>2 DEF Shape, Machines
    <3>4. /\ placed.S = moved.S /\ placed.inst = moved.inst
          /\ placed.table = moved.table /\ placed.lirs = moved.lirs
          /\ placed.Rmax1 = moved.Rmax1 /\ placed.Rmax2 = moved.Rmax2
          /\ placed.Cursor = moved.Cursor /\ placed.Q = newQ
      BY <1>2, <3>1 DEF Shape, Machines
    <3>5. Shape(placed) /\ SameNumbers(placed, moved)
      BY <1>2, <3>3, <3>4 DEF Shape, SameNumbers
    <3> QED BY <3>4, <3>5, <2>3, <1>2, <1>5 DEF IsLIR, newQ
  <2> QED BY <2>1, <2>2, <2>3
<1> HIDE DEF placed
<1>7. /\ marked \in [Node -> InstanceFields]
      /\ \A n \in Node :
           marked[n].which_instance = placed.inst[n].which_instance
  <2> DEFINE e == [placed.inst[ins2] EXCEPT !.recency1 = TRUE, !.recency2 = TRUE]
  <2>1. placed.inst \in [Node -> InstanceFields]
    BY <1>6 DEF Shape, Machines
  <2>2. /\ e \in InstanceFields
        /\ e.which_instance = placed.inst[ins2].which_instance
    BY <2>1, <1>1, MarkFacts
  <2>3. marked = [placed.inst EXCEPT ![ins2] = e]
    BY <2>1, <1>1
  <2> HIDE DEF e, marked
  <2> QED BY <2>1, <2>2, <2>3, <1>1
<1>8. /\ newTable \in [Page -> Entries]
      /\ \A q \in Page : /\ newTable[q].isHIR_block = placed.table[q].isHIR_block
                         /\ newTable[q].isResident =
                              (placed.table[q].isResident \/ q = p)
  BY <1>6 DEF Shape, Machines, Entries
<1>9. newTable = [placed.table EXCEPT ![p].isResident = TRUE]
  OBVIOUS
<1> HIDE DEF marked, newTable
<1>10. r \in Machines
  BY <1>6, <1>7, <1>8 DEF Shape, Machines
<1>11. /\ r.S = placed.S /\ r.inst = marked /\ r.table = newTable
       /\ r.lirs = placed.lirs /\ r.Q = placed.Q /\ r.segv = placed.segv
       /\ r.Rmax1 = placed.Rmax1 /\ r.Rmax2 = placed.Rmax2
       /\ r.Cursor = placed.Cursor
  BY <1>6 DEF Shape, Machines
<1> HIDE DEF r
<1>12. Shape(r) /\ SameNumbers(r, moved) /\ r.lirs = lirs
  BY <1>6, <1>7, <1>10, <1>11 DEF Shape, SameNumbers
<1>13. r.segv \/ IsLIR(r, r.Rmax2)
  <2>1. placed.Rmax2[1] \in Page
    BY <1>6, RangeIsNodes DEF Shape, Node
  <2> QED BY <2>1, <1>6, <1>8, <1>11 DEF IsLIR
<1>14. FramesTouched(r, table, queue, p)
  <2>0. CASE ~table[p].isHIR_block /\ placed.table = table /\ placed.Q = queue
    BY <1>9, <1>11, <2>0 DEF FramesTouched, TouchedLIR
  <2>1. CASE table[p].isHIR_block /\ placed.table = table
             /\ placed.Q = <<ins2>> \o queue
    BY <1>1, <1>9, <1>11, <2>1 DEF FramesTouched, TouchedHIR
  <2>2. CASE /\ table[p].isHIR_block
             /\ ~table[moved.Rmax2[1]].isHIR_block
             /\ placed.Q = <<moved.Rmax2>> \o queue
             /\ placed.table = [table EXCEPT ![p].isHIR_block = FALSE,
                                       ![moved.Rmax2[1]].isHIR_block = TRUE]
    <3> DEFINE d == moved.Rmax2
    <3>1. d \in Node /\ d[1] \in Page
      BY <1>2, RangeIsNodes DEF Shape, Node
    <3> HIDE DEF d
    <3>2. \A q \in Page :
            /\ placed.table[q].isResident = table[q].isResident
            /\ placed.table[q].isHIR_block =
                 ((table[q].isHIR_block /\ q # p) \/ q = d[1])
      <4> SUFFICES ASSUME NEW q \in Page
                   PROVE  /\ placed.table[q].isResident = table[q].isResident
                          /\ placed.table[q].isHIR_block =
                               ((table[q].isHIR_block /\ q # p) \/ q = d[1])
        OBVIOUS
      <4> DEFINE t == [table EXCEPT ![p].isHIR_block = FALSE]
      <4>1. /\ t \in [Page -> Entries]
            /\ t[q].isResident = table[q].isResident
            /\ q # p => t[q] = table[q]
            /\ q = p => ~t[q].isHIR_block
        BY DEF Entries
      <4>0. placed.table = [t EXCEPT ![d[1]].isHIR_block = TRUE]
        BY <2>2, <3>1 DEF d
      <4>5. t[q] \in Entries /\ table[q] \in Entries
        BY <4>1
      <4> HIDE DEF t
      <4>2. CASE q = d[1]
        <5>1. placed.table[q] = [t[q] EXCEPT !.isHIR_block = TRUE]
          BY <4>0, <3>1, <4>1, <4>2
        <5> QED BY <5>1, <4>1, <4>2, <4>5 DEF Entries
      <4>3. CASE q # d[1] /\ q = p
        <5>1. placed.table[q] = t[q]
          BY <4>0, <3>1, <4>1, <4>3
        <5> QED BY <5>1, <4>1, <4>3, <4>5 DEF Entries
      <4>4. CASE q # d[1] /\ q # p
        <5>1. placed.table[q] = table[q]
          BY <4>0, <3>1, <4>1, <4>4
        <5> QED BY <5>1, <4>4, <4>5 DEF Entries
      <4> QED BY <4>2, <4>3, <4>4
    <3>3. \A q \in Page :
            /\ r.table[q].isResident = (table[q].isResident \/ q = p)
            /\ r.table[q].isHIR_block =
                 ((table[q].isHIR_block /\ q # p) \/ q = d[1])
      BY <3>2, <1>8, <1>11
    <3>4. r.Q = <<d>> \o queue /\ ~table[d[1]].isHIR_block
      BY <2>2, <1>11 DEF d
    <3>5. Promoted(r, table, queue, p)
      BY <2>2, <3>1, <3>3, <3>4 DEF Promoted
    <3> QED BY <3>5 DEF FramesTouched
  <2> QED BY <1>6, <2>0, <2>1, <2>2
<1>15. Numbered(r.inst, r.S)
  BY <1>2, <1>12, NumberedSame
<1> QED BY <1>4, <1>12, <1>13, <1>14, <1>15 DEF m

-----------------------------------------------------------------------------
(* The frame accounts.                                                     *)

RoomForLIR == HIR_block_portion_limit < mCacheMaxLimit

ResidentIn(t) == {p \in Page : t[p].isResident}
LIRIn(t)      == {p \in Page : ~t[p].isHIR_block}

(* Between two nodes of a queue there are two pages.                       *)
DistinctPages(q) ==
  /\ q \in Seq(Node)
  /\ \A i, j \in 1 .. Len(q) : q[i][1] = q[j][1] => i = j

PagesOf(q) == {q[i][1] : i \in 1 .. Len(q)}

(* LIR pages fill up to their share while frames are free, and keep it.    *)
LIRShare(lirs, free) ==
  lirs = mCacheMaxLimit - (IF free > HIR_block_portion_limit
                           THEN free ELSE HIR_block_portion_limit)

Accounted(t, q, lirs, free) ==
  /\ DistinctPages(q)
  /\ PagesOf(q) = ResidentIn(t) \ LIRIn(t)
  /\ LIRIn(t) \subseteq ResidentIn(t)
  /\ IsFiniteSet(ResidentIn(t))
  /\ Cardinality(ResidentIn(t)) + free = mCacheMaxLimit
  /\ lirs = Cardinality(LIRIn(t))
  /\ LIRShare(lirs, free)

(* The accounts when p has left the queue and not yet been touched.        *)
Ready(t, q, lirs, free, p) ==
  /\ DistinctPages(q)
  /\ PagesOf(q) = (ResidentIn(t) \ {p}) \ LIRIn(t)
  /\ LIRIn(t) \subseteq ResidentIn(t) \cup {p}
  /\ IsFiniteSet(ResidentIn(t))
  /\ Cardinality(ResidentIn(t) \cup {p}) + free = mCacheMaxLimit
  /\ lirs = Cardinality(LIRIn(t))
  /\ LIRShare(lirs, free)

(* A page that is not in the queue joins it at its head.                   *)
LEMMA QueueConsFacts ==
  ASSUME NEW q, DistinctPages(q), NEW n \in Node, n[1] \notin PagesOf(q)
  PROVE  /\ DistinctPages(<<n>> \o q)
         /\ PagesOf(<<n>> \o q) = PagesOf(q) \cup {n[1]}
<1> DEFINE r == <<n>> \o q
<1>1. /\ r \in Seq(Node) /\ Len(r) = Len(q) + 1 /\ r[1] = n
      /\ \A j \in 2 .. Len(q) + 1 : r[j] = q[j - 1]
  BY DEF DistinctPages
<1>2. Len(q) \in Nat
  BY DEF DistinctPages
<1> HIDE DEF r
<1>3. ASSUME NEW i \in 1 .. Len(r), NEW j \in 1 .. Len(r), i < j
      PROVE  r[i][1] # r[j][1]
  <2>1. r[j] = q[j - 1] /\ j - 1 \in 1 .. Len(q)
    BY <1>1, <1>2, <1>3
  <2>2. CASE i = 1
    BY <2>1, <2>2, <1>1 DEF PagesOf
  <2>3. CASE i > 1
    <3>1. r[i] = q[i - 1] /\ i - 1 \in 1 .. Len(q)
      BY <1>1, <1>2, <2>3
    <3> QED BY <2>1, <3>1, <1>3 DEF DistinctPages
  <2> QED BY <2>2, <2>3
<1>4. DistinctPages(r)
  <2> SUFFICES ASSUME NEW i \in 1 .. Len(r), NEW j \in 1 .. Len(r),
                      r[i][1] = r[j][1]
               PROVE  i = j
    BY <1>1 DEF DistinctPages
  <2>1. ~(i < j) /\ ~(j < i)
    BY <1>3
  <2> QED BY <2>1, <1>1, <1>2
<1>5. PagesOf(r) = PagesOf(q) \cup {n[1]}
  <2>1. ASSUME NEW i \in 1 .. Len(r) PROVE r[i][1] \in PagesOf(q) \cup {n[1]}
    <3>1. CASE i > 1
      <4>1. r[i] = q[i - 1] /\ i - 1 \in 1 .. Len(q)
        BY <1>1, <1>2, <3>1
      <4> QED BY <4>1 DEF PagesOf
    <3> QED BY <3>1, <1>1, <1>2
  <2>2. ASSUME NEW i \in 1 .. Len(q) PROVE q[i][1] \in PagesOf(r)
    <3>1. r[i + 1] = q[i] /\ i + 1 \in 1 .. Len(r)
      BY <1>1, <1>2
    <3> QED BY <3>1 DEF PagesOf
  <2>3. n[1] \in PagesOf(r)
    BY <1>1, <1>2 DEF PagesOf
  <2> QED BY <2>1, <2>2, <2>3 DEF PagesOf
<1> QED BY <1>4, <1>5 DEF r

(* Taking the node at position i out of the queue.                         *)
LEMMA QueueRemoveFacts ==
  ASSUME NEW q, DistinctPages(q), NEW i \in 1 .. Len(q)
  PROVE  /\ DistinctPages(RemoveAt(q, i))
         /\ PagesOf(RemoveAt(q, i)) = PagesOf(q) \ {q[i][1]}
<1> DEFINE r == RemoveAt(q, i)
<1>1. q \in Seq(Node) /\ IsInjective(q)
  BY DEF DistinctPages, IsInjective
<1>2. /\ r \in Seq(Node) /\ Len(r) = Len(q) - 1
      /\ \A j \in 1 .. Len(q) - 1 : r[j] = IF j < i THEN q[j] ELSE q[j + 1]
  BY <1>1, RemoveAtFacts
<1> HIDE DEF r
<1>3. DistinctPages(r)
  <2> SUFFICES ASSUME NEW j \in 1 .. Len(r), NEW k \in 1 .. Len(r),
                      r[j][1] = r[k][1]
               PROVE  j = k
    BY <1>2 DEF DistinctPages
  <2> DEFINE f(x) == IF x < i THEN x ELSE x + 1
  <2>1. /\ f(j) \in 1 .. Len(q) /\ r[j] = q[f(j)]
        /\ f(k) \in 1 .. Len(q) /\ r[k] = q[f(k)]
    BY <1>1, <1>2
  <2>2. f(j) = f(k)
    BY <2>1 DEF DistinctPages
  <2> QED BY <1>1, <1>2, <2>2
<1>4. ASSUME NEW j \in 1 .. Len(r)
      PROVE  r[j][1] \in PagesOf(q) \ {q[i][1]}
  <2>1. PICK k \in 1 .. Len(q) : k # i /\ r[j] = q[k]
    BY <1>1, <1>2
  <2> QED BY <2>1 DEF DistinctPages, PagesOf
<1>5. ASSUME NEW k \in 1 .. Len(q), k # i
      PROVE  q[k][1] \in PagesOf(r)
  <2>1. CASE k < i
    <3>1. k \in 1 .. Len(r) /\ r[k] = q[k]
      BY <1>1, <1>2, <2>1
    <3> QED BY <3>1 DEF PagesOf
  <2>2. CASE k > i
    <3>1. k - 1 \in 1 .. Len(r) /\ r[k - 1] = q[k]
      BY <1>1, <1>2, <2>2
    <3> QED BY <3>1 DEF PagesOf
  <2> QED BY <2>1, <2>2, <1>5, <1>1
<1>6. PagesOf(r) = PagesOf(q) \ {q[i][1]}
  <2>1. PagesOf(q) \ {q[i][1]} \subseteq PagesOf(r)
    BY <1>5 DEF PagesOf
  <2>2. PagesOf(r) \subseteq PagesOf(q) \ {q[i][1]}
    BY <1>4 DEF PagesOf
  <2> QED BY <2>1, <2>2
<1> QED BY <1>3, <1>6 DEF r

(* Each way a reference goes balances the accounts.                        *)
LEMMA TouchBalances ==
  ASSUME NEW p \in Page, NEW t \in [Page -> Entries], NEW q,
         NEW lirs, NEW free, NEW r, r.table \in [Page -> Entries],
         Ready(t, q, lirs, free, p), FramesTouched(r, t, q, p)
  PROVE  Accounted(r.table, r.Q, lirs, free)
<1> DEFINE u == r.table
<1>1. ResidentIn(u) = ResidentIn(t) \cup {p}
  <2>1. CASE Promoted(r, t, q, p)
    <3>1. \A x \in Page : u[x].isResident = (t[x].isResident \/ x = p)
      BY <2>1 DEF Promoted
    <3> QED BY <3>1 DEF ResidentIn
  <2>2. CASE ~Promoted(r, t, q, p)
    <3>1. u = [t EXCEPT ![p].isResident = TRUE]
      BY <2>2 DEF FramesTouched, TouchedLIR, TouchedHIR
    <3> QED BY <3>1 DEF ResidentIn, Entries
  <2> QED BY <2>1, <2>2
<1>2. IsFiniteSet(ResidentIn(u))
  BY <1>1, FS_AddElement DEF Ready
<1>3. CASE TouchedLIR(r, t, q, p)
  <2>1. LIRIn(u) = LIRIn(t) /\ p \in LIRIn(t)
    BY <1>3 DEF TouchedLIR, LIRIn, Entries
  <2> QED BY <1>1, <1>2, <1>3, <2>1 DEF TouchedLIR, Ready, Accounted
<1>4. CASE TouchedHIR(r, t, q, p)
  <2>1. LIRIn(u) = LIRIn(t) /\ p \notin LIRIn(t)
    BY <1>4 DEF TouchedHIR, LIRIn, Entries
  <2>2. p \notin PagesOf(q)
    BY DEF Ready
  <2>3. DistinctPages(r.Q) /\ PagesOf(r.Q) = PagesOf(q) \cup {p}
    BY <1>4, <2>2, QueueConsFacts DEF TouchedHIR, Ready
  <2> QED BY <1>1, <1>2, <2>1, <2>3 DEF Ready, Accounted
<1>5. CASE Promoted(r, t, q, p)
  <2>1. PICK d \in Node :
          /\ ~t[d[1]].isHIR_block /\ r.Q = <<d>> \o q
          /\ \A x \in Page : u[x].isHIR_block =
                 ((t[x].isHIR_block /\ x # p) \/ x = d[1])
    BY <1>5 DEF Promoted
  <2>2. d[1] \in Page /\ d[1] \in LIRIn(t) /\ p \notin LIRIn(t)
    BY <2>1, <1>5 DEF Node, LIRIn, Promoted
  <2>3. LIRIn(u) = (LIRIn(t) \cup {p}) \ {d[1]}
    BY <2>1, <2>2 DEF LIRIn
  <2>4. IsFiniteSet(LIRIn(t))
    BY <1>1, <1>2, FS_Subset DEF Ready
  <2>5. /\ IsFiniteSet(LIRIn(t) \cup {p})
        /\ Cardinality(LIRIn(t) \cup {p}) = Cardinality(LIRIn(t)) + 1
    BY <2>2, <2>4, FS_AddElement
  <2>6. Cardinality(LIRIn(u)) = Cardinality(LIRIn(t) \cup {p}) - 1
    BY <2>2, <2>3, <2>5, FS_RemoveElement
  <2>7. Cardinality(LIRIn(u)) = Cardinality(LIRIn(t))
    BY <2>4, <2>5, <2>6, FS_CardinalityType
  <2>8. d[1] \notin PagesOf(q)
    BY <2>2 DEF Ready
  <2>9. DistinctPages(r.Q) /\ PagesOf(r.Q) = PagesOf(q) \cup {d[1]}
    BY <2>1, <2>8, QueueConsFacts DEF Ready
  <2>10. /\ PagesOf(r.Q) = ResidentIn(u) \ LIRIn(u)
         /\ LIRIn(u) \subseteq ResidentIn(u)
    BY <1>1, <2>2, <2>3, <2>9 DEF Ready
  <2> QED BY <1>1, <1>2, <2>7, <2>9, <2>10 DEF Ready, Accounted
<1> QED BY <1>3, <1>4, <1>5 DEF FramesTouched

-----------------------------------------------------------------------------
(* The inductive invariant.  FramesAccounted alone is not inductive: that  *)
(* a promotion takes a LIR page away and not some other one rests on Rmax2 *)
(* standing on a node of a LIR page, and that in turn on the list S being  *)
(* well formed through every walk, move and pruning.                       *)

RunningOK ==
  /\ StackOK
  /\ Accounted(mPageTable, Q, num_LIR_pgs, mFreeMemSize)
  /\ IF S = <<>> THEN Resident = {} ELSE ~mPageTable[Rmax2[1]].isHIR_block

IInv == TypeOK /\ (Running => RunningOK)

(* The HIR portion is a positive number (lines 82-84).                     *)
LEMMA LimitFacts ==
  HIR_block_portion_limit \in Nat /\ HIR_block_portion_limit > 0
<1>1. HIR_RATE * mCacheMaxLimit \in Nat
  BY ConstantsAssumption
<1>2. (HIR_RATE * mCacheMaxLimit) \div 100 \in Nat
  BY <1>1
<1> QED BY <1>2, ConstantsAssumption DEF HIR_block_portion_limit

(* The constructor establishes the inductive invariant.                    *)
LEMMA InitInv == ASSUME RoomForLIR PROVE Init => IInv
<1> SUFFICES ASSUME Init PROVE IInv
  OBVIOUS
<1>1. ResidentIn(mPageTable) = {} /\ LIRIn(mPageTable) = {}
  BY DEF Init, ResidentIn, LIRIn
<1>2. IsFiniteSet({}) /\ Cardinality({}) = 0
  BY FS_EmptySet
<1>3. PagesOf(Q) = {} /\ DistinctPages(Q)
  BY DEF Init, PagesOf, DistinctPages
<1>4. LIRShare(num_LIR_pgs, mFreeMemSize)
  BY ConstantsAssumption DEF LIRShare, RoomForLIR, Init
<1>5. Accounted(mPageTable, Q, num_LIR_pgs, mFreeMemSize)
  <2>1. mFreeMemSize = mCacheMaxLimit /\ num_LIR_pgs = 0
    BY DEF Init
  <2> QED BY <1>1, <1>2, <1>3, <1>4, <2>1, ConstantsAssumption DEF Accounted
<1>6. TypeOK
  BY ConstantsAssumption DEF Init, TypeOK, InstanceFields
<1>7. StackOK
  BY <1>6 DEF Init, StackOK, Numbered, Node, IsInjective, TypeOK, Range
<1> QED BY <1>1, <1>5, <1>6, <1>7
        DEF IInv, RunningOK, Init, Resident, ResidentIn

(* Up to the touching of p an action leaves the stack alone; the accounts  *)
(* are ready for p, a page changes its kind only when it is loaded, and    *)
(* loses its frame only when none is free.                                 *)
Touching(p, table, queue, lirs) ==
  /\ table \in [Page -> Entries] /\ queue \in Seq(Node) /\ lirs \in Nat
  /\ IF S = <<>> THEN ~table[p].isHIR_block ELSE ~table[Rmax2[1]].isHIR_block
  /\ \A q \in Page :
       \/ table[q].isHIR_block = mPageTable[q].isHIR_block
       \/ q = p /\ mFreeMemSize > 0 /\ ~mPageTable[q].isResident
  /\ \A q \in Page :
       /\ table[q].isResident => mPageTable[q].isResident
       /\ mFreeMemSize' > 0 /\ mPageTable[q].isResident => table[q].isResident
  /\ mFreeMemSize' > 0 => mFreeMemSize > 0
  /\ Ready(table, queue, lirs, mFreeMemSize', p)
  /\ mFreeMemSize' \in 0 .. mCacheMaxLimit
  /\ mPageFaultNum' \in 0 .. UINT_MOD - 1 /\ last_ref_pg' = p
  /\ Touch(p, table, queue, lirs)

Touched(p) == \E table, queue, lirs : Touching(p, table, queue, lirs)

(* The tail of every action: from accounts that are ready for p, touching  *)
(* p re-establishes the invariant.                                         *)
LEMMA TouchInv ==
  ASSUME IInv, RunningOK, NEW p \in Page, Touched(p)
  PROVE  IInv'
<1>1. PICK table, queue, lirs : Touching(p, table, queue, lirs)
  BY DEF Touched
<1>2. /\ table \in [Page -> Entries] /\ queue \in Seq(Node) /\ lirs \in Nat
      /\ IF S = <<>> THEN ~table[p].isHIR_block
                     ELSE ~table[Rmax2[1]].isHIR_block
      /\ Touch(p, table, queue, lirs)
      /\ Ready(table, queue, lirs, mFreeMemSize', p)
      /\ mFreeMemSize' \in 0 .. mCacheMaxLimit
      /\ mPageFaultNum' \in 0 .. UINT_MOD - 1 /\ last_ref_pg' = p
  BY <1>1 DEF Touching
<1> DEFINE m == Machine(table, queue, lirs)
<1>3. PICK t : /\ Install(pruneLIRSstack(t))
               /\ Shape(t) /\ Numbered(t.inst, t.S) /\ t.lirs = lirs
               /\ t.segv \/ IsLIR(t, t.Rmax2)
               /\ FramesTouched(t, table, queue, p)
  <2>1. CASE ~Known(p)
    <3> DEFINE t == FirstTouch(m, p)
    <3>1. Install(pruneLIRSstack(t))
      BY <1>2, <2>1 DEF Touch
    <3>2. /\ Shape(t) /\ Numbered(t.inst, t.S) /\ t.lirs = lirs
          /\ IsLIR(t, t.Rmax2)
          /\ FramesTouched(t, table, queue, p)
      BY <1>2, <2>1, FirstTouchFacts DEF RunningOK
    <3> HIDE DEF t
    <3> QED BY <3>1, <3>2
  <2>2. CASE Known(p)
    <3> DEFINE t == Retouch(m, p)
    <3>1. Install(pruneLIRSstack(t))
      BY <1>2, <2>2 DEF Touch
    <3>2. S # <<>>
      BY <2>2, KnownNodes DEF RunningOK, Range
    <3>3. /\ Shape(t) /\ Numbered(t.inst, t.S) /\ t.lirs = lirs
          /\ t.segv \/ IsLIR(t, t.Rmax2)
          /\ FramesTouched(t, table, queue, p)
      BY <1>2, <2>2, <3>2, RetouchFacts DEF RunningOK
    <3> HIDE DEF t
    <3> QED BY <3>1, <3>3
  <2> QED BY <2>1, <2>2
<1> DEFINE r == pruneLIRSstack(t)
<1>4. /\ Shape(r) /\ SameFrames(r, t) /\ SameNumbers(r, t)
      /\ r.segv \/ IsLIR(r, r.Rmax2)
  BY <1>3, pruneLIRSstackFacts
<1>5. Install(r)
  BY <1>3
<1> HIDE DEF r
<1>6. t.table \in [Page -> Entries]
  BY <1>3 DEF Shape, Machines
<1>7. Accounted(r.table, r.Q, r.lirs, mFreeMemSize')
  <2>1. Accounted(t.table, t.Q, lirs, mFreeMemSize')
    BY <1>2, <1>3, <1>6, TouchBalances
  <2> QED BY <2>1, <1>3, <1>4 DEF SameFrames
<1>8. Numbered(r.inst, r.S)
  BY <1>3, <1>4, NumberedSame
<1>9. TypeOK'
  <2>1. r \in Machines
    BY <1>4 DEF Shape
  <2>2. /\ mPageTable' \in [Page -> Entries] /\ inst' \in [Node -> InstanceFields]
        /\ S' \in Seq(Node) /\ Q' \in Seq(Node)
        /\ Rmax1' \in Pointer /\ Rmax2' \in Pointer /\ Cursor' \in Pointer
        /\ cur_lir_S_len' \in Int /\ num_LIR_pgs' \in Nat
        /\ status' \in {"running", "segv"}
    BY <2>1, <1>5 DEF Install, Machines
  <2> QED BY <1>2, <2>2 DEF TypeOK, Entries, Pointer, InstanceFields
<1>10. ASSUME Running' PROVE RunningOK'
  <2>1. ~r.segv
    BY <1>5, <1>10 DEF Running, Install
  <2>2. S' = r.S /\ r.Rmax2 \in Range(r.S) /\ r.S # <<>>
    BY <1>4, <1>5 DEF Install, Shape, Range
  <2>3. StackOK'
    <3>1. S' = r.S /\ inst' = r.inst /\ Rmax1' = r.Rmax1 /\ Rmax2' = r.Rmax2
          /\ Cursor' = r.Cursor /\ cur_lir_S_len' = r.len
      BY <1>5 DEF Install
    <3>2. /\ r.S \in Seq(Node) /\ IsInjective(r.S)
          /\ r.inst \in [Node -> InstanceFields] /\ r.len \in Int
          /\ r.Rmax1 \in Range(r.S) /\ r.Rmax2 \in Range(r.S)
          /\ r.Cursor \in Range(r.S) \cup {NULL}
      BY <1>4 DEF Shape, Machines
    <3> QED BY <3>1, <3>2, <2>2, <1>8 DEF StackOK
  <2>4. ~mPageTable'[Rmax2'[1]].isHIR_block
    BY <1>4, <1>5, <2>1 DEF Install, IsLIR
  <2>5. Accounted(mPageTable, Q, num_LIR_pgs, mFreeMemSize)'
    BY <1>5, <1>7 DEF Install
  <2> QED BY <2>2, <2>3, <2>4, <2>5 DEF RunningOK
<1> QED BY <1>9, <1>10 DEF IInv

(* A miss that evicts takes the frame of the page at the tail of Q.        *)
LEMMA EvictTouches ==
  ASSUME RoomForLIR, IInv, NEW p \in Page, MissEvict(p), Q # <<>>
  PROVE  Touching(p, [mPageTable EXCEPT ![Last(Q)[1]].isResident = FALSE],
                  Front(Q), num_LIR_pgs)
<1> DEFINE v == Last(Q)[1]
           table == [mPageTable EXCEPT ![v].isResident = FALSE]
<1>0. RunningOK /\ TypeOK /\ p \notin Resident
  BY DEF IInv, MissEvict, Miss, Refer, Running, Resident
<1>1. /\ mPageFaultNum' \in 0 .. UINT_MOD - 1 /\ last_ref_pg' = p
      /\ mFreeMemSize' = 0 /\ mFreeMemSize = 0
  BY <1>0, ConstantsAssumption DEF MissEvict, Miss, Refer, TypeOK
<1>2. /\ Q \in Seq(Node) /\ Len(Q) \in Nat /\ Len(Q) \in 1 .. Len(Q)
      /\ DistinctPages(Q) /\ PagesOf(Q) = ResidentIn(mPageTable) \ LIRIn(mPageTable)
  BY <1>0 DEF TypeOK, RunningOK, Accounted
<1>3. Front(Q) = RemoveAt(Q, Len(Q))
  <2>1. SubSeq(Q, Len(Q) + 1, Len(Q)) = <<>>
    BY <1>2, SubSeqEmpty
  <2>2. SubSeq(Q, 1, Len(Q) - 1) \in Seq(Node)
    BY <1>2
  <2> QED BY <2>1, <2>2, ConcatEmptySeq DEF Front, RemoveAt
<1>4. DistinctPages(Front(Q)) /\ PagesOf(Front(Q)) = PagesOf(Q) \ {v}
  BY <1>2, <1>3, QueueRemoveFacts DEF Last
<1>5. v \in Page /\ v \in ResidentIn(mPageTable) /\ v \notin LIRIn(mPageTable)
  <2>1. Q[Len(Q)] \in Node /\ Q[Len(Q)][1] \in PagesOf(Q)
    BY <1>2 DEF PagesOf
  <2> QED BY <2>1, <1>2 DEF Last, Node
<1>6. /\ table \in [Page -> Entries]
      /\ ResidentIn(table) = ResidentIn(mPageTable) \ {v}
      /\ LIRIn(table) = LIRIn(mPageTable)
  BY <1>0, <1>5 DEF TypeOK, Entries, ResidentIn, LIRIn
<1>7. p \notin ResidentIn(mPageTable)
  BY <1>0 DEF Resident, ResidentIn
<1>8. /\ IsFiniteSet(ResidentIn(table) \cup {p})
      /\ IsFiniteSet(ResidentIn(table))
      /\ Cardinality(ResidentIn(table) \cup {p}) =
           Cardinality(ResidentIn(mPageTable))
  <2> DEFINE A == ResidentIn(mPageTable)
  <2>1. IsFiniteSet(A)
    BY <1>0 DEF RunningOK, Accounted
  <2> HIDE DEF A
  <2>2. IsFiniteSet(A \ {v}) /\ Cardinality(A \ {v}) = Cardinality(A) - 1
    BY <2>1, <1>5, FS_RemoveElement DEF A
  <2>3. /\ IsFiniteSet((A \ {v}) \cup {p})
        /\ Cardinality((A \ {v}) \cup {p}) = Cardinality(A \ {v}) + 1
    BY <2>2, <1>7, FS_AddElement DEF A
  <2>4. Cardinality(A) \in Nat
    BY <2>1, FS_CardinalityType
  <2> HIDE DEF table
  <2> QED BY <2>2, <2>3, <2>4, <1>6 DEF A
<1>9. Ready(table, Front(Q), num_LIR_pgs, mFreeMemSize', p)
  <2>1. PagesOf(Front(Q)) = (ResidentIn(table) \ {p}) \ LIRIn(table)
    BY <1>2, <1>4, <1>6, <1>7
  <2>2. LIRIn(table) \subseteq ResidentIn(table) \cup {p}
    BY <1>0, <1>5, <1>6 DEF RunningOK, Accounted
  <2>3. /\ num_LIR_pgs = Cardinality(LIRIn(table))
        /\ LIRShare(num_LIR_pgs, mFreeMemSize')
    BY <1>0, <1>1, <1>6 DEF RunningOK, Accounted
  <2>4. Cardinality(ResidentIn(table) \cup {p}) + mFreeMemSize' = mCacheMaxLimit
    BY <1>0, <1>1, <1>8 DEF RunningOK, Accounted
  <2> HIDE DEF table
  <2> QED BY <1>4, <1>8, <2>1, <2>2, <2>3, <2>4 DEF Ready
<1>10. S # <<>> /\ ~table[Rmax2[1]].isHIR_block
  <2>1. S # <<>>
    BY <1>0, <1>5 DEF RunningOK, Resident, ResidentIn
  <2>2. Rmax2[1] \in Page
    BY <1>0, <2>1 DEF RunningOK, StackOK, Range, Node
  <2> QED BY <1>0, <2>1, <2>2, <1>5 DEF RunningOK, TypeOK, Entries
<1>11. Touch(p, table, Front(Q), num_LIR_pgs)
  BY DEF MissEvict
<1>12. Front(Q) \in Seq(Node) /\ num_LIR_pgs \in Nat
  BY <1>0, <1>4 DEF DistinctPages, TypeOK
<1>13. \A q \in Page :
         /\ table[q].isHIR_block = mPageTable[q].isHIR_block
         /\ table[q].isResident => mPageTable[q].isResident
  BY <1>0, <1>5 DEF TypeOK, Entries
<1>14. 0 \in 0 .. mCacheMaxLimit
  BY ConstantsAssumption
<1> HIDE DEF table
<1>15. Touching(p, table, Front(Q), num_LIR_pgs)
  BY <1>1, <1>6, <1>9, <1>10, <1>11, <1>12, <1>13, <1>14 DEF Touching
<1> QED BY <1>15 DEF table

(* A miss that finds a free frame; the page may enter as LIR.              *)
LEMMA LoadTouches ==
  ASSUME RoomForLIR, IInv, NEW p \in Page, MissLoadLIR(p) \/ MissLoadHIR(p)
  PROVE  \/ /\ MissLoadLIR(p)
            /\ Touching(p, [mPageTable EXCEPT ![p].isHIR_block = FALSE], Q,
                        num_LIR_pgs + 1)
         \/ MissLoadHIR(p) /\ Touching(p, mPageTable, Q, num_LIR_pgs)
<1>0. /\ RunningOK /\ TypeOK /\ p \notin ResidentIn(mPageTable)
      /\ p \notin LIRIn(mPageTable)
  BY DEF IInv, MissLoadLIR, MissLoadHIR, Miss, Refer, Running, RunningOK,
         Accounted, ResidentIn
<1>1. /\ mPageFaultNum' \in 0 .. UINT_MOD - 1 /\ last_ref_pg' = p
      /\ mFreeMemSize' = mFreeMemSize - 1 /\ mFreeMemSize > 0
      /\ mFreeMemSize' \in 0 .. mCacheMaxLimit
  <2>1. /\ mPageFaultNum' = (mPageFaultNum + 1) % UINT_MOD /\ last_ref_pg' = p
        /\ mFreeMemSize' = mFreeMemSize - 1 /\ mFreeMemSize > 0
    BY <1>0, LimitFacts
       DEF MissLoadLIR, MissLoadHIR, Miss, Refer, TypeOK
  <2>2. mPageFaultNum \in Nat /\ mFreeMemSize \in 0 .. mCacheMaxLimit
    BY <1>0, ConstantsAssumption DEF TypeOK
  <2> QED BY <2>1, <2>2, ConstantsAssumption
<1>2. /\ IsFiniteSet(ResidentIn(mPageTable))
      /\ Cardinality(ResidentIn(mPageTable)) \in Nat
      /\ Cardinality(ResidentIn(mPageTable) \cup {p}) =
           Cardinality(ResidentIn(mPageTable)) + 1
  <2>1. IsFiniteSet(ResidentIn(mPageTable))
    BY <1>0 DEF RunningOK, Accounted
  <2> QED BY <2>1, <1>0, FS_AddElement, FS_CardinalityType
<1>3. Cardinality(ResidentIn(mPageTable) \cup {p}) + mFreeMemSize' = mCacheMaxLimit
  BY <1>0, <1>1, <1>2, ConstantsAssumption DEF RunningOK, Accounted, TypeOK
<1>4. DistinctPages(Q) /\ Q \in Seq(Node) /\ num_LIR_pgs \in Nat
  BY <1>0 DEF TypeOK, RunningOK, Accounted
<1>5. S # <<>> => Rmax2[1] \in Page /\ ~mPageTable[Rmax2[1]].isHIR_block
  BY <1>0 DEF RunningOK, StackOK, Range, Node
<1>6. CASE MissLoadLIR(p)
  <2> DEFINE table == [mPageTable EXCEPT ![p].isHIR_block = FALSE]
  <2>1. /\ table \in [Page -> Entries]
        /\ ResidentIn(table) = ResidentIn(mPageTable)
        /\ LIRIn(table) = LIRIn(mPageTable) \cup {p}
    BY <1>0 DEF TypeOK, Entries, ResidentIn, LIRIn
  <2>2. ~table[p].isHIR_block /\ (S # <<>> => ~table[Rmax2[1]].isHIR_block)
    BY <1>0, <1>5 DEF TypeOK, Entries
  <2>3. Touch(p, table, Q, num_LIR_pgs + 1)
    BY <1>6 DEF MissLoadLIR
  <2> HIDE DEF table
  <2>4. IsFiniteSet(LIRIn(mPageTable))
    BY <1>0, <1>2, FS_Subset DEF RunningOK, Accounted
  <2>5. num_LIR_pgs + 1 = Cardinality(LIRIn(table))
    BY <1>0, <2>1, <2>4, FS_AddElement DEF RunningOK, Accounted
  <2>6. LIRShare(num_LIR_pgs + 1, mFreeMemSize')
    <3>1. mFreeMemSize > HIR_block_portion_limit
      BY <1>6 DEF MissLoadLIR
    <3>2. /\ num_LIR_pgs = mCacheMaxLimit - mFreeMemSize
          /\ mFreeMemSize' = mFreeMemSize - 1 /\ mFreeMemSize \in Nat
      BY <1>0, <1>1, <3>1 DEF RunningOK, Accounted, LIRShare, TypeOK
    <3> QED BY <3>1, <3>2, LimitFacts, ConstantsAssumption DEF LIRShare
  <2>7. PagesOf(Q) = (ResidentIn(table) \ {p}) \ LIRIn(table)
    BY <1>0, <2>1 DEF RunningOK, Accounted
  <2>8. LIRIn(table) \subseteq ResidentIn(table) \cup {p}
    BY <1>0, <2>1 DEF RunningOK, Accounted
  <2>9. Ready(table, Q, num_LIR_pgs + 1, mFreeMemSize', p)
    BY <1>2, <1>3, <1>4, <2>1, <2>5, <2>6, <2>7, <2>8 DEF Ready
  <2>10. num_LIR_pgs + 1 \in Nat
    BY <1>4
  <2>11. \A q \in Page :
           /\ \/ table[q].isHIR_block = mPageTable[q].isHIR_block
              \/ q = p /\ mFreeMemSize > 0 /\ ~mPageTable[q].isResident
           /\ table[q].isResident = mPageTable[q].isResident
    BY <1>0, <1>1 DEF table, TypeOK, Entries, ResidentIn
  <2>12. Touching(p, table, Q, num_LIR_pgs + 1)
    BY <1>1, <1>4, <2>1, <2>2, <2>3, <2>9, <2>10, <2>11 DEF Touching
  <2> QED BY <1>6, <2>12 DEF table
<1>7. CASE MissLoadHIR(p)
  <2>1. mFreeMemSize <= HIR_block_portion_limit
    BY <1>7 DEF MissLoadHIR
  <2>2. S # <<>>
    <3>1. mFreeMemSize # mCacheMaxLimit
      BY <2>1, LimitFacts, ConstantsAssumption DEF RoomForLIR
    <3>2. ResidentIn(mPageTable) # {}
      <4>1. Cardinality(ResidentIn(mPageTable)) # 0
        BY <3>1, <1>0, ConstantsAssumption DEF RunningOK, Accounted, TypeOK
      <4> QED BY <4>1, FS_EmptySet
    <3> QED BY <3>2, <1>0 DEF RunningOK, Resident, ResidentIn
  <2>3. LIRShare(num_LIR_pgs, mFreeMemSize')
    BY <2>1, <1>0, <1>1, LimitFacts, ConstantsAssumption
       DEF RunningOK, Accounted, LIRShare, TypeOK
  <2>4. Ready(mPageTable, Q, num_LIR_pgs, mFreeMemSize', p)
    BY <1>0, <1>2, <1>3, <1>4, <2>3 DEF RunningOK, Accounted, Ready
  <2>5. Touch(p, mPageTable, Q, num_LIR_pgs)
    BY <1>7 DEF MissLoadHIR
  <2>6. mPageTable \in [Page -> Entries]
    BY <1>0 DEF TypeOK, Entries
  <2>7. Touching(p, mPageTable, Q, num_LIR_pgs)
    BY <1>1, <1>4, <1>5, <2>2, <2>4, <2>5, <2>6 DEF Touching
  <2> QED BY <1>7, <2>7
<1> QED BY <1>6, <1>7

(* The node found for a resident HIR page is its node in the queue.        *)
LEMMA findInstanceInQFacts ==
  ASSUME DistinctPages(Q), NEW p \in PagesOf(Q)
  PROVE  findInstanceInQ(p) \in Range(Q) /\ findInstanceInQ(p)[1] = p
<1>1. PICK i \in 1 .. Len(Q) : Q[i][1] = p
  BY DEF PagesOf
<1>2. Q[i] \in Node /\ Q[i] \in Range(Q) /\ Q \in Seq(Node)
  BY DEF DistinctPages, Range
<1>3. Q[i] = <<p, 1>> \/ Q[i] = <<p, 2>>
  BY <1>1, <1>2 DEF Node
<1>4. CASE Len(Q) > 1
  BY <1>2, <1>3, <1>4 DEF findInstanceInQ
<1>5. CASE ~(Len(Q) > 1)
  <2>1. Len(Q) = 1 /\ i = 1
    <3>1. Len(Q) \in Nat /\ i \in Nat /\ 1 <= i /\ i <= Len(Q)
      BY <1>2
    <3> DEFINE l == Len(Q)
    <3>2. ~(l > 1) /\ l \in Nat /\ 1 <= i /\ i <= l
      BY <3>1, <1>5
    <3> HIDE DEF l
    <3>3. l = 1 /\ i = 1
      BY <3>1, <3>2
    <3> QED BY <3>3 DEF l
  <2>2. findInstanceInQ(p) = Q[1]
    BY <2>1, <1>2, <1>5 DEF findInstanceInQ
  <2> QED BY <2>1, <2>2, <1>1, <1>2
<1> QED BY <1>4, <1>5

(* A hit, which takes a HIR page out of Q.                                 *)
LEMMA HitTouches ==
  ASSUME RoomForLIR, IInv, NEW p \in Page, HitHIR(p) \/ HitLIR(p)
  PROVE  \/ /\ HitHIR(p)
            /\ Touching(p, mPageTable, RemoveNode(Q, findInstanceInQ(p)),
                        num_LIR_pgs)
         \/ HitLIR(p) /\ Touching(p, mPageTable, Q, num_LIR_pgs)
<1>0. /\ RunningOK /\ TypeOK /\ p \in ResidentIn(mPageTable)
      /\ Accounted(mPageTable, Q, num_LIR_pgs, mFreeMemSize)
  BY DEF IInv, HitHIR, HitLIR, Refer, Running, RunningOK, ResidentIn
<1>1. /\ mPageFaultNum' \in 0 .. UINT_MOD - 1 /\ last_ref_pg' = p
      /\ mFreeMemSize' = mFreeMemSize /\ mFreeMemSize' \in 0 .. mCacheMaxLimit
  BY <1>0 DEF HitHIR, HitLIR, Refer, TypeOK
<1>2. S # <<>> /\ ~mPageTable[Rmax2[1]].isHIR_block
  BY <1>0 DEF RunningOK, Resident, ResidentIn
<1>3. ResidentIn(mPageTable) \cup {p} = ResidentIn(mPageTable)
  BY <1>0
<1>4. /\ mPageTable \in [Page -> Entries] /\ num_LIR_pgs \in Nat
      /\ Q \in Seq(Node)
  BY <1>0 DEF TypeOK, Entries
<1>5. CASE HitHIR(p)
  <2> DEFINE n == findInstanceInQ(p)
             rest == RemoveNode(Q, n)
  <2>1. p \in PagesOf(Q) /\ DistinctPages(Q)
    BY <1>0, <1>5 DEF HitHIR, Accounted, LIRIn
  <2>2. n \in Range(Q) /\ n[1] = p
    BY <2>1, findInstanceInQFacts
  <2>3. Pos(Q, n) \in 1 .. Len(Q) /\ Q[Pos(Q, n)] = n
    BY <2>2, <1>4, PosFacts
  <2>4. DistinctPages(rest) /\ PagesOf(rest) = PagesOf(Q) \ {p}
    BY <2>1, <2>2, <2>3, QueueRemoveFacts DEF RemoveNode
  <2>5. Touch(p, mPageTable, rest, num_LIR_pgs)
    BY <1>5 DEF HitHIR
  <2> HIDE DEF rest, n
  <2>6. Ready(mPageTable, rest, num_LIR_pgs, mFreeMemSize', p)
    BY <1>0, <1>1, <1>3, <2>4 DEF Accounted, Ready
  <2>7. rest \in Seq(Node)
    BY <2>4 DEF DistinctPages
  <2>8. Touching(p, mPageTable, rest, num_LIR_pgs)
    BY <1>0, <1>1, <1>2, <1>4, <2>5, <2>6, <2>7 DEF Touching
  <2> QED BY <1>5, <2>8 DEF rest, n
<1>6. CASE HitLIR(p)
  <2>1. p \in LIRIn(mPageTable)
    BY <1>6 DEF HitLIR, LIRIn
  <2>2. Ready(mPageTable, Q, num_LIR_pgs, mFreeMemSize', p)
    BY <1>0, <1>1, <1>3, <2>1 DEF Accounted, Ready
  <2>3. Touch(p, mPageTable, Q, num_LIR_pgs)
    BY <1>6 DEF HitLIR
  <2>4. Touching(p, mPageTable, Q, num_LIR_pgs)
    BY <1>0, <1>1, <1>2, <1>4, <2>2, <2>3 DEF Touching
  <2> QED BY <1>6, <2>4
<1> QED BY <1>5, <1>6

(* A step that changes nothing keeps it.                                   *)
LEMMA StutterInv == ASSUME IInv, UNCHANGED vars PROVE IInv'
BY DEF vars, IInv, TypeOK, Running, RunningOK, StackOK, Numbered, Resident,
       Accounted, DistinctPages, PagesOf, ResidentIn, LIRIn, LIRShare

(* Every step touches a page, or finds Q empty when it needs a frame.      *)
LEMMA StepTouches ==
  ASSUME RoomForLIR, IInv, Next
  PROVE  \E p \in Page : Touched(p) \/ (MissEvict(p) /\ Q = <<>>)
<1>1. ASSUME NEW p \in Page, MissEvict(p)
      PROVE  Touched(p) \/ (MissEvict(p) /\ Q = <<>>)
  BY <1>1, EvictTouches DEF Touched
<1>2. ASSUME NEW p \in Page, MissLoadLIR(p) PROVE Touched(p)
  BY <1>2, LoadTouches DEF Touched
<1>3. ASSUME NEW p \in Page, MissLoadHIR(p) PROVE Touched(p)
  BY <1>3, LoadTouches DEF Touched
<1>4. ASSUME NEW p \in Page, HitHIR(p) PROVE Touched(p)
  BY <1>4, HitTouches DEF Touched
<1>5. ASSUME NEW p \in Page, HitLIR(p) PROVE Touched(p)
  BY <1>5, HitTouches DEF Touched
<1> QED BY <1>1, <1>2, <1>3, <1>4, <1>5, Zenon DEF Next

(* Every step keeps the inductive invariant.                               *)
LEMMA NextInv == ASSUME RoomForLIR, IInv, [Next]_vars PROVE IInv'
<1>1. ASSUME NEW p \in Page, Next, Touched(p) PROVE IInv'
  <2>1. RunningOK
    BY <1>1 DEF Next, MissEvict, MissLoadLIR, MissLoadHIR, HitHIR, HitLIR,
                Miss, Refer, IInv, Running
  <2> QED BY <1>1, <2>1, TouchInv
<1>2. ASSUME NEW p \in Page, MissEvict(p), Q = <<>> PROVE IInv'
  <2>1. /\ mPageFaultNum' \in 0 .. UINT_MOD - 1 /\ last_ref_pg' = p
        /\ mFreeMemSize' = mFreeMemSize /\ status' = "segv"
    BY <1>2, ConstantsAssumption DEF MissEvict, Miss, Refer, IInv, TypeOK
  <2> QED BY <1>2, <2>1, ConstantsAssumption
          DEF MissEvict, IInv, TypeOK, Running
<1>3. ASSUME UNCHANGED vars PROVE IInv'
  BY <1>3, StutterInv
<1>4. CASE Next
  BY <1>1, <1>2, <1>4, StepTouches
<1> QED BY <1>3, <1>4

(* A queue of distinct pages is as long as it has pages.                   *)
LEMMA QueueLength ==
  ASSUME NEW q, DistinctPages(q)
  PROVE  Len(q) = Cardinality(PagesOf(q))
<1> DEFINE page == [i \in 1 .. Len(q) |-> q[i][1]]
<1>1. Len(q) \in Nat
  BY DEF DistinctPages
<1>2. page \in Bijection(1 .. Len(q), PagesOf(q))
  <2>1. page \in [1 .. Len(q) -> PagesOf(q)]
    BY DEF PagesOf
  <2>2. IsInjective(page)
    BY DEF IsInjective, DistinctPages
  <2>3. \A t \in PagesOf(q) : \E i \in 1 .. Len(q) : page[i] = t
    BY DEF PagesOf
  <2> HIDE DEF page
  <2> QED BY <2>1, <2>2, <2>3 DEF Bijection, Injection, Surjection
<1>3. IsFiniteSet(1 .. Len(q)) /\ Cardinality(1 .. Len(q)) = Len(q)
  <2> DEFINE n == Len(q)
  <2> HIDE DEF n
  <2>1. n \in Nat /\ 1 \in Int /\ n \in Int
    BY <1>1 DEF n
  <2>2. IsFiniteSet(1 .. n) /\ Cardinality(1 .. n) = IF 1 > n THEN 0 ELSE n - 1 + 1
    BY <2>1, FS_Interval
  <2>3. Cardinality(1 .. n) = n
    BY <2>1, <2>2
  <2> QED BY <2>2, <2>3 DEF n
<1> QED BY <1>2, <1>3, FS_Bijection DEF ExistsBijection

(* It implies that the frames are accounted for.                           *)
LEMMA InvImpliesFramesAccounted == IInv => FramesAccounted
<1> SUFFICES ASSUME IInv, Running PROVE FramesAccounted
  BY DEF FramesAccounted
<1>1. Accounted(mPageTable, Q, num_LIR_pgs, mFreeMemSize) /\ TypeOK
  BY DEF IInv, RunningOK
<1>2. Resident = ResidentIn(mPageTable) /\ LIRPages = LIRIn(mPageTable)
  BY DEF Resident, LIRPages, ResidentIn, LIRIn
<1>3. {n[1] : n \in Range(Q)} = PagesOf(Q)
  BY <1>1 DEF Range, PagesOf, TypeOK
<1>4. Len(Q) = Cardinality(PagesOf(Q))
  BY <1>1, QueueLength DEF Accounted
<1>5. mFreeMemSize = 0 =>
        num_LIR_pgs = mCacheMaxLimit - HIR_block_portion_limit
  BY <1>1, LimitFacts DEF Accounted, LIRShare
<1> QED BY <1>1, <1>2, <1>3, <1>4, <1>5 DEF FramesAccounted, Accounted

(* Whatever the trace, the engine's state has its type: no list operation  *)
(* of the handler is applied to a node that is not in the list             *)
(* (replace_lirs2.cc:293-452).                                             *)
THEOREM TypeCorrect == ASSUME RoomForLIR PROVE Spec => []TypeOK
<1>1. Init => IInv
  BY InitInv
<1>2. IInv /\ [Next]_vars => IInv'
  BY NextInv
<1>3. IInv => TypeOK
  BY DEF IInv
<1> QED BY <1>1, <1>2, <1>3, PTL DEF Spec

(* Whatever the trace, every frame is accounted for after every reference: *)
(* free, holding a LIR page, or holding a page that is in Q exactly once   *)
(* (replace_lirs2.cc:320-339, 422-441).                                    *)
THEOREM FramesAlwaysAccounted == ASSUME RoomForLIR PROVE Spec => []FramesAccounted
<1>1. Init => IInv
  BY InitInv
<1>2. IInv /\ [Next]_vars => IInv'
  BY NextInv
<1>3. IInv => FramesAccounted
  BY InvImpliesFramesAccounted
<1> QED BY <1>1, <1>2, <1>3, PTL DEF Spec

-----------------------------------------------------------------------------
(* The order of the stack.                                                 *)

(* A LIR page's node that carries number k.                                *)
LIRNumber(m, n, k) == IsLIR(m, n) /\ m.inst[n].which_instance = k

(* Position a holds the lowest of the LIR nodes numbered k.                *)
Lowest(m, a, k) ==
  /\ a \in 1 .. Len(m.S)
  /\ LIRNumber(m, m.S[a], k)
  /\ \A i \in a + 1 .. Len(m.S) : ~LIRNumber(m, m.S[i], k)

(* Of the two nodes of a page the one numbered 1 is the upper one.         *)
InOrder(m) ==
  \A i, j \in 1 .. Len(m.S) : i < j /\ m.S[i][1] = m.S[j][1] =>
    /\ m.inst[m.S[i]].which_instance = 1
    /\ m.inst[m.S[j]].which_instance = 2

(* Rmax2 stands at position b, Cursor at position c, with nothing to prune *)
(* in between, and len counts the nodes down to Rmax2.                     *)
Region(m, b, c) ==
  /\ Shape(m) /\ Numbered(m.inst, m.S) /\ ~m.segv
  /\ Lowest(m, b, 2) /\ m.Rmax2 = m.S[b]
  /\ c \in 1 .. b /\ m.Cursor = m.S[c]
  /\ \A i \in c + 1 .. b : IsLIR(m, m.S[i])
  /\ m.len = b

(* Rmax1 stands at position a.                                             *)
First(m, a) == Lowest(m, a, 1) /\ m.Rmax1 = m.S[a]

(* From position `from' on, recency2 marks the nodes down to position b.   *)
Marked(m, b, from) ==
  \A i \in from .. Len(m.S) : m.inst[m.S[i]].recency2 <=> i <= b

(* A node numbered 1 stands for a real reference.                          *)
RealFirst(m) ==
  \A n \in Node : m.inst[n].which_instance = 1 => ~m.inst[n].fake_ins

SameFakes(r, m) ==
  \A n \in Node : r.inst[n].fake_ins <=> m.inst[n].fake_ins

(* The element at position q moves to the head.                            *)
ToHead(s, q) == <<s[q]>> \o RemoveAt(s, q)

(* In a list without repetitions an element is found where it stands.      *)
LEMMA PosOf ==
  ASSUME NEW A, NEW s \in Seq(A), IsInjective(s), NEW i \in 1 .. Len(s)
  PROVE  Pos(s, s[i]) = i
<1>1. \A j \in 1 .. Len(s) : s[j] = s[i] => j = i
  BY DEF IsInjective
<1> QED BY <1>1 DEF Pos

(* Moving an element to the head shifts those that stood above it.         *)
LEMMA ToHeadFacts ==
  ASSUME NEW A, NEW s \in Seq(A), IsInjective(s), NEW q \in 1 .. Len(s)
  PROVE  /\ ToHead(s, q) \in Seq(A) /\ IsInjective(ToHead(s, q))
         /\ Range(ToHead(s, q)) = Range(s)
         /\ Len(ToHead(s, q)) = Len(s)
         /\ ToHead(s, q)[1] = s[q]
         /\ \A j \in 2 .. Len(s) :
              ToHead(s, q)[j] = IF j <= q THEN s[j - 1] ELSE s[j]
<1> DEFINE rest == RemoveAt(s, q)
           a == s[q]
           r == <<a>> \o rest
<1>1. /\ rest \in Seq(A) /\ IsInjective(rest) /\ Range(rest) = Range(s) \ {a}
      /\ Len(rest) = Len(s) - 1
      /\ \A j \in 1 .. Len(s) - 1 : rest[j] = IF j < q THEN s[j] ELSE s[j + 1]
  BY RemoveAtFacts
<1>2. a \in A /\ a \in Range(s)
  BY DEF Range
<1> HIDE DEF rest, a
<1>3. /\ r \in Seq(A) /\ IsInjective(r) /\ Range(r) = Range(rest) \cup {a}
      /\ Len(r) = Len(rest) + 1 /\ r[1] = a
      /\ \A j \in 2 .. Len(rest) + 1 : r[j] = rest[j - 1]
  BY <1>1, <1>2, ConsFacts
<1>4. ToHead(s, q) = r
  BY DEF ToHead, rest, a
<1> HIDE DEF r
<1>5. Len(r) = Len(s) /\ Range(r) = Range(s)
  BY <1>1, <1>2, <1>3
<1>6. ASSUME NEW j \in 2 .. Len(s)
      PROVE  r[j] = IF j <= q THEN s[j - 1] ELSE s[j]
  <2>1. j - 1 \in 1 .. Len(s) - 1
    OBVIOUS
  <2>2. r[j] = rest[j - 1]
    BY <1>1, <1>3
  <2> QED BY <1>1, <2>1, <2>2
<1> QED BY <1>3, <1>4, <1>5, <1>6 DEF a

-----------------------------------------------------------------------------
(* The walks towards the head.                                             *)

(* A walk that has a node to find ends at the first one above its start.   *)
LEMMA WalkFinds ==
  ASSUME NEW m, Shape(m), NEW k \in {1, 2}, NEW x \in 1 .. Len(m.S),
         NEW t \in 1 .. x - 1, LIRNumber(m, m.S[t], k)
  PROVE  \E u \in t .. x - 1 :
           /\ WalkEnd(m, m.S[x], k) = m.S[u]
           /\ LIRNumber(m, m.S[u], k)
           /\ \A i \in u + 1 .. x - 1 : ~LIRNumber(m, m.S[i], k)
<1> DEFINE found == {i \in 1 .. x - 1 : LIRNumber(m, m.S[i], k)}
<1>1. m.S \in Seq(Node) /\ IsInjective(m.S)
  BY DEF Shape, Machines
<1>2. Pos(m.S, m.S[x]) = x
  BY <1>1, PosOf
<1>3. t \in found
  OBVIOUS
<1>4. WalkEnd(m, m.S[x], k) = m.S[Max(found)]
  BY <1>2, <1>3 DEF WalkEnd, LIRNumber
<1>5. \A i \in 1 .. x - 1 : i \in found <=> LIRNumber(m, m.S[i], k)
  OBVIOUS
<1>6. found \subseteq 1 .. x - 1 /\ x - 1 \in Nat
  BY <1>1
<1> HIDE DEF found
<1>7. Max(found) \in found /\ \A i \in found : i <= Max(found)
  BY <1>3, <1>6, MaxExists
<1> DEFINE u == Max(found)
<1> HIDE DEF u
<1>8. u \in found /\ \A i \in found : i <= u
  BY <1>7 DEF u
<1>9. u \in t .. x - 1
  BY <1>3, <1>6, <1>8
<1>10. \A i \in u + 1 .. x - 1 : ~LIRNumber(m, m.S[i], k)
  <2> SUFFICES ASSUME NEW i \in u + 1 .. x - 1, LIRNumber(m, m.S[i], k)
               PROVE  FALSE
    OBVIOUS
  <2>1. i \in found
    BY <1>5, <1>9
  <2> QED BY <1>8, <1>9, <2>1
<1> QED BY <1>4, <1>5, <1>8, <1>9, <1>10 DEF u

(* It leaves behind the nodes from its start up to its end.                *)
LEMMA PassedBetween ==
  ASSUME NEW m, Shape(m), NEW x \in 1 .. Len(m.S), NEW u \in 1 .. x
  PROVE  LET passed == Passed(m, m.S[x], m.S[u])
         IN  /\ \A j \in 1 .. Len(m.S) : m.S[j] \in passed <=> j \in u + 1 .. x
             /\ Cardinality(passed) = x - u
<1> DEFINE passed == Passed(m, m.S[x], m.S[u])
           walk == [i \in u + 1 .. x |-> m.S[i]]
<1>1. m.S \in Seq(Node) /\ IsInjective(m.S)
  BY DEF Shape, Machines
<1>2. Pos(m.S, m.S[x]) = x /\ Pos(m.S, m.S[u]) = u
  BY <1>1, PosOf
<1>3. passed = {m.S[i] : i \in u + 1 .. x}
  BY <1>2 DEF Passed
<1>4. \A i, j \in 1 .. Len(m.S) : m.S[i] = m.S[j] => i = j
  BY <1>1 DEF IsInjective
<1>5. \A j \in 1 .. Len(m.S) : m.S[j] \in passed <=> j \in u + 1 .. x
  BY <1>1, <1>3, <1>4
<1>6. walk \in Bijection(u + 1 .. x, passed)
  <2>1. walk \in Injection(u + 1 .. x, passed)
    BY <1>1, <1>3, <1>4 DEF Injection, IsInjective
  <2>2. walk \in Surjection(u + 1 .. x, passed)
    BY <1>1, <1>3 DEF Surjection
  <2> QED BY <2>1, <2>2 DEF Bijection
<1> HIDE DEF walk
<1>7. IsFiniteSet(u + 1 .. x) /\ Cardinality(u + 1 .. x) = x - u
  <2>1. u + 1 \in Int /\ x \in Int
    BY <1>1
  <2>2. /\ IsFiniteSet(u + 1 .. x)
        /\ Cardinality(u + 1 .. x) =
             IF u + 1 > x THEN 0 ELSE x - (u + 1) + 1
    BY <2>1, FS_Interval
  <2> QED BY <2>1, <2>2
<1>8. Cardinality(passed) = Cardinality(u + 1 .. x)
  BY <1>6, <1>7, FS_Bijection DEF ExistsBijection
<1> QED BY <1>5, <1>7, <1>8

(* The part of a machine both walks leave alone.                           *)
SameStack(r, m) ==
  /\ r.S = m.S /\ r.table = m.table /\ r.Q = m.Q /\ r.lirs = m.lirs
  /\ r.segv <=> m.segv
  /\ \A n \in Node :
       r.inst[n].which_instance = m.inst[n].which_instance

(* Where the walk of findLastLirLru1 finds a node it moves Rmax1 there.    *)
Walked1(r, m, u, x) ==
  /\ SameStack(r, m) /\ SameFakes(r, m)
  /\ r.Rmax2 = m.Rmax2 /\ r.Cursor = m.Cursor /\ r.len = m.len
  /\ r.Rmax1 = m.S[u] /\ LIRNumber(m, m.S[u], 1)
  /\ \A i \in u + 1 .. x - 1 : ~LIRNumber(m, m.S[i], 1)
  /\ \A n \in Node : r.inst[n].recency2 <=> m.inst[n].recency2

(* That of findLastLirLru2 moves Rmax2 and Cursor, and the nodes it leaves *)
(* behind leave the region.                                                *)
Walked2(r, m, u, x) ==
  /\ SameStack(r, m) /\ SameFakes(r, m)
  /\ r.Rmax1 = m.Rmax1 /\ r.Rmax2 = m.S[u] /\ r.Cursor = m.S[u]
  /\ r.len = m.len - (x - u)
  /\ LIRNumber(m, m.S[u], 2)
  /\ \A i \in u + 1 .. x - 1 : ~LIRNumber(m, m.S[i], 2)
  /\ \A i \in 1 .. Len(m.S) :
       r.inst[m.S[i]].recency2 <=>
         (m.inst[m.S[i]].recency2 /\ i \notin u + 1 .. x)

(* A walk changes one mark of the nodes it passes.                         *)
LEMMA UnmarkedFacts ==
  ASSUME NEW i \in InstanceFields
  PROVE  LET e1 == [i EXCEPT !.recency1 = FALSE]
             e2 == [i EXCEPT !.recency2 = FALSE]
         IN  /\ e1 \in InstanceFields /\ e2 \in InstanceFields
             /\ e1.which_instance = i.which_instance
             /\ e2.which_instance = i.which_instance
             /\ e1.fake_ins = i.fake_ins /\ e2.fake_ins = i.fake_ins
             /\ e1.recency2 = i.recency2 /\ ~e2.recency2
BY DEF InstanceFields

(* The walk of findLastLirLru1 (lines 125-137).                            *)
LEMMA Walk1Effect ==
  ASSUME NEW m, Shape(m), NEW x \in 1 .. Len(m.S), m.Rmax1 = m.S[x],
         NEW t \in 1 .. x - 1, LIRNumber(m, m.S[t], 1)
  PROVE  \E u \in t .. x - 1 : Walked1(findLastLirLru1(m), m, u, x)
<1>1. PICK u \in t .. x - 1 :
        /\ WalkEnd(m, m.S[x], 1) = m.S[u]
        /\ LIRNumber(m, m.S[u], 1)
        /\ \A i \in u + 1 .. x - 1 : ~LIRNumber(m, m.S[i], 1)
  BY WalkFinds
<1> DEFINE to == m.S[u]
           passed == Passed(m, m.S[x], to)
           newInst == [n \in Node |-> IF n \in passed
                                      THEN [m.inst[n] EXCEPT !.recency1 = FALSE]
                                      ELSE m.inst[n]]
           r == findLastLirLru1(m)
<1>2. m.S \in Seq(Node) /\ m.inst \in [Node -> InstanceFields]
  BY DEF Shape, Machines
<1>3. to \in Node /\ to # NULL
  BY <1>2, ConstantsAssumption
<1>4. r = [m EXCEPT !.Rmax1 = to, !.inst = newInst]
  BY <1>1, <1>3 DEF findLastLirLru1
<1>5. \A n \in Node :
        /\ newInst[n].which_instance = m.inst[n].which_instance
        /\ newInst[n].fake_ins = m.inst[n].fake_ins
        /\ newInst[n].recency2 = m.inst[n].recency2
  BY <1>2, UnmarkedFacts
<1> HIDE DEF newInst, to
<1>6. /\ r.S = m.S /\ r.table = m.table /\ r.Q = m.Q /\ r.lirs = m.lirs
      /\ r.segv = m.segv /\ r.Rmax2 = m.Rmax2 /\ r.Cursor = m.Cursor
      /\ r.len = m.len /\ r.Rmax1 = to /\ r.inst = newInst
  BY <1>4 DEF Shape, Machines
<1> HIDE DEF r
<1>7. Walked1(r, m, u, x)
  BY <1>1, <1>5, <1>6 DEF Walked1, SameStack, SameFakes, to
<1> QED BY <1>7 DEF r

(* The walk of findLastLirLru2 (lines 138-161).                            *)
LEMMA Walk2Effect ==
  ASSUME NEW m, Shape(m), NEW x \in 1 .. Len(m.S), m.Rmax2 = m.S[x],
         NEW t \in 1 .. x - 1, LIRNumber(m, m.S[t], 2)
  PROVE  \E u \in t .. x - 1 : Walked2(findLastLirLru2(m), m, u, x)
<1>1. PICK u \in t .. x - 1 :
        /\ WalkEnd(m, m.S[x], 2) = m.S[u]
        /\ LIRNumber(m, m.S[u], 2)
        /\ \A i \in u + 1 .. x - 1 : ~LIRNumber(m, m.S[i], 2)
  BY WalkFinds
<1> DEFINE to == m.S[u]
           passed == Passed(m, m.S[x], to)
           newInst == [n \in Node |-> IF n \in passed
                                      THEN [m.inst[n] EXCEPT !.recency2 = FALSE]
                                      ELSE m.inst[n]]
           l == m.len - Cardinality(passed)
           r == findLastLirLru2(m)
<1>2. m.S \in Seq(Node) /\ m.inst \in [Node -> InstanceFields]
  BY DEF Shape, Machines
<1>3. to \in Node /\ to # NULL
  BY <1>2, ConstantsAssumption
<1>4. r = [m EXCEPT !.Rmax2 = to, !.Cursor = to, !.len = l, !.inst = newInst]
  BY <1>1, <1>3 DEF findLastLirLru2
<1>5. \A n \in Node :
        /\ newInst[n].which_instance = m.inst[n].which_instance
        /\ newInst[n].fake_ins = m.inst[n].fake_ins
        /\ newInst[n].recency2 <=> (m.inst[n].recency2 /\ n \notin passed)
  BY <1>2, UnmarkedFacts
<1>6. /\ \A j \in 1 .. Len(m.S) : m.S[j] \in passed <=> j \in u + 1 .. x
      /\ Cardinality(passed) = x - u
  <2>1. u \in 1 .. x
    BY <1>2
  <2> QED BY <2>1, PassedBetween DEF to
<1>7. \A j \in 1 .. Len(m.S) : m.S[j] \in Node
  BY <1>2
<1> HIDE DEF newInst, passed, to
<1>8. l = m.len - (x - u)
  BY <1>6
<1> HIDE DEF l
<1>9. /\ r.S = m.S /\ r.table = m.table /\ r.Q = m.Q /\ r.lirs = m.lirs
      /\ r.segv = m.segv /\ r.Rmax2 = to /\ r.Cursor = to
      /\ r.len = l /\ r.Rmax1 = m.Rmax1 /\ r.inst = newInst
  BY <1>4 DEF Shape, Machines
<1> HIDE DEF r
<1>10. Walked2(r, m, u, x)
  <2>1. \A i \in 1 .. Len(m.S) :
          r.inst[m.S[i]].recency2 <=>
            (m.inst[m.S[i]].recency2 /\ i \notin u + 1 .. x)
    BY <1>5, <1>6, <1>7, <1>9
  <2>2. SameStack(r, m) /\ SameFakes(r, m)
    BY <1>5, <1>9 DEF SameStack, SameFakes
  <2> QED BY <1>1, <1>8, <1>9, <2>1, <2>2 DEF Walked2, to
<1> QED BY <1>10 DEF r

-----------------------------------------------------------------------------
(* What the order of the stack says between two parts of the handler.      *)

(* The stack is in order: each page's nodes are, and both Rmax pointers,   *)
(* Cursor, the marks and the length agree with where they stand.           *)
Ordered(m) ==
  /\ InOrder(m)
  /\ \E a, b, c \in 1 .. Len(m.S) :
       First(m, a) /\ Region(m, b, c) /\ Marked(m, b, 1)

(* Both nodes of a new page stand above all others.                        *)
LEMMA PushBothPositions ==
  ASSUME NEW list \in Seq(Node), NEW p \in Page
  PROVE  /\ Len(PushBoth(list, p)) = Len(list) + 2
         /\ PushBoth(list, p)[1] = <<p, 1>>
         /\ PushBoth(list, p)[2] = <<p, 2>>
         /\ \A j \in 3 .. Len(list) + 2 : PushBoth(list, p)[j] = list[j - 2]
<1> DEFINE n1 == <<p, 1>>
           n2 == <<p, 2>>
           top == <<n1, n2>>
<1>1. n1 \in Node /\ n2 \in Node
  BY DEF Node
<1> HIDE DEF n1, n2
<1>2. top \in Seq(Node) /\ Len(top) = 2 /\ top[1] = n1 /\ top[2] = n2
  BY <1>1
<1>3. PushBoth(list, p) = top \o list
  BY DEF PushBoth, n1, n2
<1> HIDE DEF top
<1>4. /\ Len(top \o list) = Len(top) + Len(list)
      /\ \A j \in 1 .. Len(top) + Len(list) :
           (top \o list)[j] = IF j <= Len(top) THEN top[j]
                              ELSE list[j - Len(top)]
  BY <1>2, ConcatProperties
<1> DEFINE s == top \o list
<1>5. s = top \o list
  OBVIOUS
<1> HIDE DEF s
<1>6. /\ Len(s) = Len(list) + 2 /\ s[1] = n1 /\ s[2] = n2
      /\ \A j \in 3 .. Len(list) + 2 : s[j] = list[j - 2]
  BY <1>2, <1>4, <1>5
<1> QED BY <1>3, <1>5, <1>6 DEF n1, n2

(* What the first reference to a page sets (lines 344-376).                *)
Entered(r, p, table, queue) ==
  LET n1 == <<p, 1>>
      n2 == <<p, 2>>
  IN  /\ r.S = PushBoth(S, p)
      /\ r.table = [table EXCEPT ![p].isResident = TRUE]
      /\ r.Q = IF table[p].isHIR_block THEN <<n1>> \o queue ELSE queue
      /\ r.Rmax1 = IF Rmax1 = NULL THEN n1 ELSE Rmax1
      /\ r.Rmax2 = IF Rmax2 = NULL THEN n2 ELSE Rmax2
      /\ r.Cursor = IF Rmax2 = NULL THEN n2 ELSE Cursor
      /\ r.len = cur_lir_S_len + 2 /\ ~r.segv
      /\ r.inst[n1].which_instance = 1 /\ ~r.inst[n1].fake_ins
      /\ r.inst[n2].which_instance = 2 /\ r.inst[n2].fake_ins
      /\ r.inst[n1].recency2 /\ r.inst[n2].recency2
      /\ \A n \in Node \ {n1, n2} : r.inst[n] = inst[n]

(* It sets just that.                                                      *)
LEMMA FirstTouchEffect ==
  ASSUME StackOK, NEW p \in Page, ~Known(p), NEW table, NEW queue, NEW lirs
  PROVE  Entered(FirstTouch(Machine(table, queue, lirs), p), p, table, queue)
<1> DEFINE m == Machine(table, queue, lirs)
           r == FirstTouch(m, p)
           n1 == <<p, 1>>
           n2 == <<p, 2>>
           i1 == [which_instance |-> 1, fake_ins |-> FALSE,
                  recency1 |-> TRUE, recency2 |-> TRUE]
           i2 == [which_instance |-> 2, fake_ins |-> TRUE,
                  recency1 |-> ~(Rmax2 = NULL), recency2 |-> TRUE]
           newInst == [inst EXCEPT ![n1] = i1, ![n2] = i2]
<1>1. n1 \in Node /\ n2 \in Node /\ n1 # n2
  BY DEF Node
<1>2. /\ r.table = [table EXCEPT ![p].isResident = TRUE]
      /\ r.Q = IF table[p].isHIR_block THEN <<n1>> \o queue ELSE queue
      /\ r.S = PushBoth(S, p) /\ r.inst = newInst
      /\ r.Rmax1 = IF Rmax1 = NULL THEN n1 ELSE Rmax1
      /\ r.Rmax2 = IF Rmax2 = NULL THEN n2 ELSE Rmax2
      /\ r.Cursor = IF Rmax2 = NULL THEN n2 ELSE Cursor
      /\ r.len = cur_lir_S_len + 2 /\ ~r.segv
  BY DEF FirstTouch, Machine
<1>3. /\ newInst[n1] = i1 /\ newInst[n2] = i2
      /\ \A n \in Node \ {n1, n2} : newInst[n] = inst[n]
  <2>1. inst \in [Node -> InstanceFields]
    BY DEF StackOK
  <2> HIDE DEF n1, n2, i1, i2
  <2> QED BY <1>1, <2>1
<1> HIDE DEF r, newInst
<1>4. Entered(r, p, table, queue)
  BY <1>2, <1>3 DEF Entered
<1> QED BY <1>4 DEF r, m

(* Once the first reference has put a page on an empty stack, or on a      *)
(* stack in order, the stack is in order and two nodes longer.             *)
LEMMA FirstTouchOrder ==
  ASSUME StackOK, NEW p \in Page, ~Known(p),
         NEW table \in [Page -> Entries], NEW queue \in Seq(Node),
         NEW lirs \in Nat,
         IF S = <<>> THEN ~table[p].isHIR_block /\ cur_lir_S_len = 0
                     ELSE Ordered(Machine(table, queue, lirs))
  PROVE  LET r == FirstTouch(Machine(table, queue, lirs), p)
         IN  Ordered(r) /\ r.len = cur_lir_S_len + 2
<1> DEFINE m == Machine(table, queue, lirs)
           r == FirstTouch(m, p)
           n1 == <<p, 1>>
           n2 == <<p, 2>>
           s == PushBoth(S, p)
<1>1. /\ m.S = S /\ m.inst = inst /\ m.table = table /\ m.Rmax1 = Rmax1
      /\ m.Rmax2 = Rmax2 /\ m.Cursor = Cursor /\ m.len = cur_lir_S_len
  BY DEF Machine
<1>2. IF S = <<>> THEN ~table[p].isHIR_block ELSE ~table[Rmax2[1]].isHIR_block
  BY <1>1 DEF Ordered, Region, Lowest, LIRNumber, IsLIR
<1>3. Shape(r) /\ Numbered(r.inst, r.S)
  BY <1>2, FirstTouchFacts
<1>4. /\ r.S = s /\ ~r.segv
      /\ r.table = [table EXCEPT ![p].isResident = TRUE]
      /\ r.Rmax1 = IF Rmax1 = NULL THEN n1 ELSE Rmax1
      /\ r.Rmax2 = IF Rmax2 = NULL THEN n2 ELSE Rmax2
      /\ r.Cursor = IF Rmax2 = NULL THEN n2 ELSE Cursor
      /\ r.len = cur_lir_S_len + 2
      /\ r.inst[n1].which_instance = 1 /\ r.inst[n2].which_instance = 2
      /\ r.inst[n1].recency2 /\ r.inst[n2].recency2
      /\ \A n \in Node \ {n1, n2} : r.inst[n] = inst[n]
  <2>1. Entered(r, p, table, queue)
    BY FirstTouchEffect
  <2> HIDE DEF r
  <2> QED BY <2>1 DEF Entered
<1>5. /\ n1 \in Node /\ n2 \in Node /\ n1[1] = p /\ n2[1] = p
      /\ n1 \notin Range(S) /\ n2 \notin Range(S)
  BY UnknownNodes DEF Node
<1>6. S \in Seq(Node) /\ Len(S) \in Nat
  BY DEF StackOK
<1>7. /\ Len(s) = Len(S) + 2 /\ s[1] = n1 /\ s[2] = n2
      /\ \A j \in 3 .. Len(S) + 2 : s[j] = S[j - 2]
  BY <1>6, PushBothPositions
<1>14. ASSUME NEW j \in 1 .. Len(S)
       PROVE  j + 2 \in 1 .. Len(s) /\ s[j + 2] = S[j]
  <2>1. j + 2 \in 3 .. Len(S) + 2 /\ (j + 2) - 2 = j
    BY <1>6
  <2>2. s[j + 2] = S[(j + 2) - 2]
    BY <1>7, <2>1
  <2> HIDE DEF s
  <2> QED BY <1>6, <1>7, <2>1, <2>2
<1>8. \A j \in 1 .. Len(S) : /\ S[j] \in Node \ {n1, n2} /\ S[j] # NULL
                             /\ S[j][1] \in Page \ {p}
  <2> SUFFICES ASSUME NEW j \in 1 .. Len(S)
               PROVE  /\ S[j] \in Node \ {n1, n2} /\ S[j] # NULL
                      /\ S[j][1] \in Page \ {p}
    OBVIOUS
  <2>1. S[j] \in Range(S) /\ S[j] \in Node
    BY <1>6 DEF Range
  <2>2. PICK q \in Page, t \in {1, 2} : S[j] = <<q, t>>
    BY <2>1 DEF Node
  <2>3. q # p
    BY <1>5, <2>1, <2>2
  <2>4. S[j] # NULL
    BY <2>1, ConstantsAssumption
  <2>5. S[j] # n1 /\ S[j] # n2
    BY <1>5, <2>1
  <2> QED BY <2>1, <2>2, <2>3, <2>4, <2>5
<1>9. \A q \in Page : r.table[q].isHIR_block = table[q].isHIR_block
  BY <1>4 DEF Entries
<1> HIDE DEF r, m, n1, n2, s
<1>10. \A k \in {1, 2}, j \in 1 .. Len(S) :
         LIRNumber(r, S[j], k) <=> LIRNumber(m, S[j], k)
  BY <1>1, <1>4, <1>8, <1>9 DEF LIRNumber, IsLIR
<1>11. ASSUME NEW j \in 3 .. Len(s)
       PROVE  j - 2 \in 1 .. Len(S) /\ s[j] = S[j - 2]
  BY <1>6, <1>7
<1>12. CASE S = <<>>
  <2>1. Len(s) = 2 /\ Rmax1 = NULL /\ Rmax2 = NULL
    BY <1>7, <1>12 DEF StackOK
  <2>2. IsLIR(r, n1) /\ IsLIR(r, n2)
    BY <1>2, <1>5, <1>9, <1>12 DEF IsLIR
  <2>3. First(r, 1) /\ Lowest(r, 2, 2) /\ InOrder(r) /\ Marked(r, 2, 1)
    <3>1. \A j \in 1 .. Len(r.S) : j = 1 \/ j = 2
      BY <1>4, <2>1
    <3> QED BY <1>4, <1>7, <2>1, <2>2, <3>1
            DEF First, Lowest, LIRNumber, InOrder, Marked
  <2>5. Region(r, 2, 2)
    BY <1>3, <1>4, <1>7, <1>12, <2>1, <2>3 DEF Region
  <2>6. 1 \in 1 .. Len(r.S) /\ 2 \in 1 .. Len(r.S)
    BY <1>4, <2>1
  <2> QED BY <2>3, <2>5, <2>6, <1>4 DEF Ordered, r, m
<1>13. CASE S # <<>>
  <2>1. PICK a, b, c \in 1 .. Len(S) :
          First(m, a) /\ Region(m, b, c) /\ Marked(m, b, 1)
    BY <1>1, <1>13 DEF Ordered, m
  <2>2. InOrder(m)
    BY <1>13 DEF Ordered, m
  <2>3. /\ Rmax1 = S[a] /\ Rmax2 = S[b] /\ Cursor = S[c] /\ cur_lir_S_len = b
        /\ c \in 1 .. b
    BY <1>1, <2>1 DEF First, Region
  <2>4. /\ a + 2 \in 1 .. Len(s) /\ b + 2 \in 1 .. Len(s)
        /\ c + 2 \in 1 .. Len(s) /\ c + 2 \in 1 .. b + 2
        /\ s[a + 2] = S[a] /\ s[b + 2] = S[b] /\ s[c + 2] = S[c]
    BY <1>6, <1>14, <2>3
  <2>5. r.Rmax1 = s[a + 2] /\ r.Rmax2 = s[b + 2] /\ r.Cursor = s[c + 2]
    BY <1>4, <1>8, <2>3, <2>4
  <2>6. ASSUME NEW k \in {1, 2}, NEW x \in 1 .. Len(S), Lowest(m, x, k)
        PROVE  Lowest(r, x + 2, k)
    <3>1. x + 2 \in 1 .. Len(s) /\ s[x + 2] = S[x]
      BY <1>14
    <3>2. LIRNumber(r, s[x + 2], k)
      BY <1>1, <1>10, <2>6, <3>1 DEF Lowest
    <3>3. ASSUME NEW i \in x + 3 .. Len(s) PROVE ~LIRNumber(r, s[i], k)
      <4>1. /\ i - 2 \in x + 1 .. Len(S) /\ i - 2 \in 1 .. Len(S)
            /\ s[i] = S[i - 2]
        BY <1>6, <1>7
      <4> QED BY <1>1, <1>10, <2>6, <4>1 DEF Lowest
    <3> QED BY <1>4, <1>6, <3>1, <3>2, <3>3 DEF Lowest
  <2>7. First(r, a + 2) /\ Lowest(r, b + 2, 2)
    BY <1>4, <2>1, <2>5, <2>6 DEF First, Region
  <2>8. \A i \in c + 3 .. b + 2 : IsLIR(r, s[i])
    <3> SUFFICES ASSUME NEW i \in c + 3 .. b + 2 PROVE IsLIR(r, s[i])
      OBVIOUS
    <3>1. i - 2 \in c + 1 .. b /\ i - 2 \in 1 .. Len(S) /\ s[i] = S[i - 2]
      BY <1>6, <1>7
    <3>2. IsLIR(m, S[i - 2])
      BY <1>1, <2>1, <3>1 DEF Region
    <3> QED BY <1>1, <1>8, <1>9, <3>1, <3>2 DEF IsLIR
  <2>9. Region(r, b + 2, c + 2)
    <3>1. (c + 2) + 1 = c + 3
      BY <1>6
    <3>2. \A i \in (c + 2) + 1 .. b + 2 : IsLIR(r, s[i])
      BY <2>8, <3>1
    <3> QED BY <1>3, <1>4, <2>3, <2>4, <2>5, <2>7, <3>2 DEF Region
  <2>10. Marked(r, b + 2, 1)
    <3> SUFFICES ASSUME NEW i \in 1 .. Len(s)
                 PROVE  r.inst[s[i]].recency2 <=> i <= b + 2
      BY <1>4 DEF Marked
    <3>1. CASE i \in 1 .. 2
      BY <1>4, <1>6, <1>7, <3>1
    <3>2. CASE i \in 3 .. Len(s)
      <4>1. i - 2 \in 1 .. Len(S) /\ s[i] = S[i - 2]
        BY <1>11, <3>2
      <4>2. inst[S[i - 2]].recency2 <=> i - 2 <= b
        BY <1>1, <2>1, <4>1 DEF Marked
      <4> QED BY <1>4, <1>6, <1>8, <4>1, <4>2
    <3> QED BY <1>6, <1>7, <3>1, <3>2
  <2>11. InOrder(r)
    <3> SUFFICES ASSUME NEW i \in 1 .. Len(s), NEW j \in 1 .. Len(s),
                        i < j, s[i][1] = s[j][1]
                 PROVE  /\ r.inst[s[i]].which_instance = 1
                        /\ r.inst[s[j]].which_instance = 2
      BY <1>4 DEF InOrder
    <3>1. CASE j \in 1 .. 2
      <4>1. i = 1 /\ j = 2
        BY <1>6, <3>1
      <4> QED BY <1>4, <1>7, <4>1
    <3>2. CASE i \in 1 .. 2 /\ j \in 3 .. Len(s)
      <4>1. s[i][1] = p
        BY <1>5, <1>7, <3>2
      <4>2. s[j][1] # p
        BY <1>8, <1>11, <3>2
      <4> QED BY <4>1, <4>2
    <3>3. CASE i \in 3 .. Len(s) /\ j \in 3 .. Len(s)
      <4>1. /\ i - 2 \in 1 .. Len(S) /\ s[i] = S[i - 2]
            /\ j - 2 \in 1 .. Len(S) /\ s[j] = S[j - 2]
        BY <1>11, <3>3
      <4>2. i - 2 < j - 2
        BY <1>6
      <4>3. /\ inst[S[i - 2]].which_instance = 1
            /\ inst[S[j - 2]].which_instance = 2
        BY <1>1, <2>2, <4>1, <4>2 DEF InOrder
      <4>4. S[i - 2] \in Node \ {n1, n2} /\ S[j - 2] \in Node \ {n1, n2}
        BY <1>8, <4>1
      <4>5. r.inst[S[i - 2]] = inst[S[i - 2]] /\ r.inst[S[j - 2]] = inst[S[j - 2]]
        BY <1>4, <4>4
      <4> QED BY <4>1, <4>3, <4>5
    <3> QED BY <1>6, <1>7, <3>1, <3>2, <3>3
  <2>12. /\ a + 2 \in 1 .. Len(r.S) /\ b + 2 \in 1 .. Len(r.S)
         /\ c + 2 \in 1 .. Len(r.S)
    BY <1>4, <2>4
  <2>13. Ordered(r)
    BY <2>7, <2>9, <2>10, <2>11, <2>12 DEF Ordered
  <2> QED BY <2>13, <1>4 DEF r, m
<1> QED BY <1>12, <1>13

-----------------------------------------------------------------------------
(* When the node at q moves to the head, the node at position i comes from *)
(* Origin(q, i) and the one at v goes to Target(q, v).                     *)
Origin(q, i) == IF i <= q THEN i - 1 ELSE i
Target(q, v) == IF v < q THEN v + 1 ELSE v

(* A node moves to the head: the places of the other nodes before and      *)
(* after it.                                                               *)
LEMMA MovedPositions ==
  ASSUME NEW A, NEW s \in Seq(A), IsInjective(s), NEW q \in 1 .. Len(s)
  PROVE  LET t == ToHead(s, q)
         IN  /\ \A i \in 2 .. Len(s) :
                  /\ Origin(q, i) \in 1 .. Len(s) /\ Origin(q, i) # q
                  /\ t[i] = s[Origin(q, i)]
             /\ \A v \in 1 .. Len(s) : v # q =>
                  Target(q, v) \in 2 .. Len(s) /\ t[Target(q, v)] = s[v]
             /\ \A v \in 1 .. Len(s), i \in 2 .. Len(s) : v # q =>
                  (i <= Target(q, v) <=> Origin(q, i) <= v)
             /\ \A i, j \in 2 .. Len(s) :
                  i < j => Origin(q, i) < Origin(q, j)
<1> DEFINE t == ToHead(s, q)
<1>1. \A j \in 2 .. Len(s) : t[j] = IF j <= q THEN s[j - 1] ELSE s[j]
  BY ToHeadFacts
<1> HIDE DEF t
<1>2. \A i \in 2 .. Len(s) :
        /\ Origin(q, i) \in 1 .. Len(s) /\ Origin(q, i) # q
        /\ t[i] = s[Origin(q, i)]
  BY <1>1 DEF Origin
<1>3. ASSUME NEW v \in 1 .. Len(s), v # q
      PROVE  Target(q, v) \in 2 .. Len(s) /\ t[Target(q, v)] = s[v]
  <2>1. CASE v < q
    <3>1. /\ v + 1 \in 2 .. Len(s) /\ v + 1 <= q /\ (v + 1) - 1 = v
          /\ Target(q, v) = v + 1
      BY <2>1 DEF Target
    <3> QED BY <1>1, <3>1
  <2>2. CASE v > q
    <3>1. v \in 2 .. Len(s) /\ ~(v <= q) /\ Target(q, v) = v
      BY <2>2 DEF Target
    <3> QED BY <1>1, <3>1
  <2> QED BY <1>3, <2>1, <2>2
<1>4. \A v \in 1 .. Len(s), i \in 2 .. Len(s) : v # q =>
        (i <= Target(q, v) <=> Origin(q, i) <= v)
  BY DEF Origin, Target
<1>5. \A i, j \in 2 .. Len(s) : i < j => Origin(q, i) < Origin(q, j)
  BY DEF Origin
<1> QED BY <1>2, <1>3, <1>4, <1>5 DEF t

-----------------------------------------------------------------------------
(* A later reference, part by part.                                        *)

(* The nodes of p numbered 1 and 2 stand at positions h and q.             *)
TwoNodes(m, p, h, q) ==
  /\ h \in 1 .. Len(m.S) /\ q \in 1 .. Len(m.S) /\ h < q
  /\ m.S[h][1] = p /\ m.S[q][1] = p
  /\ m.inst[m.S[h]].which_instance = 1
  /\ m.inst[m.S[q]].which_instance = 2
  /\ \A i \in 1 .. Len(m.S) : m.S[i][1] = p => i = h \/ i = q

(* Everything but the numbers and marks of the nodes.                      *)
SameButNodes(r, m) ==
  /\ r.S = m.S /\ r.table = m.table /\ r.Q = m.Q /\ r.lirs = m.lirs
  /\ r.Rmax1 = m.Rmax1 /\ r.Rmax2 = m.Rmax2 /\ r.Cursor = m.Cursor
  /\ r.len = m.len /\ (r.segv <=> m.segv)

(* The two nodes at positions h and q swap numbers.                        *)
Swapped(r, m, h, q) ==
  /\ r.inst[m.S[h]].which_instance = 2
  /\ r.inst[m.S[q]].which_instance = 1
  /\ \A n \in Node \ {m.S[h], m.S[q]} :
       r.inst[n].which_instance = m.inst[n].which_instance
  /\ \A n \in Node :
       r.inst[n].fake_ins <=> m.inst[n].fake_ins /\ n # m.S[q]

Renumbered(m, n1, n2) ==
  [m EXCEPT !.inst = [m.inst EXCEPT
     ![n1].which_instance = 2,
     ![n2] = [@ EXCEPT !.which_instance = 1, !.fake_ins = FALSE]]]

MovedUp(m, n) ==
  [m EXCEPT !.Cursor = CursorGivesWay(m, n),
            !.S = <<n>> \o RemoveNode(m.S, n),
            !.len = m.len + 1]

(* The parts of MoveToTop.                                                 *)
LEMMA MoveToTopParts ==
  ASSUME NEW m, NEW p
  PROVE  LET n1 == pointerInstance(p, 1)
             n2 == pointerInstance(p, 2)
             moved == MovedUp(LeavesRegion(Renumbered(m, n1, n2), n2), n2)
         IN  MoveToTop(m, p) = IF n1 = m.Rmax1 THEN findLastLirLru1(moved)
                               ELSE moved
BY DEF MoveToTop, Renumbered, MovedUp

(* The two nodes of a page swap numbers (lines 384-388).                   *)
LEMMA RenumberedFacts ==
  ASSUME NEW m, Shape(m), Numbered(m.inst, m.S), NEW p \in Page,
         NEW h, NEW q, TwoNodes(m, p, h, q)
  PROVE  LET r == Renumbered(m, m.S[h], m.S[q])
         IN  /\ Shape(r) /\ Numbered(r.inst, r.S)
             /\ SameButNodes(r, m) /\ Swapped(r, m, h, q)
             /\ \A n \in Node : r.inst[n].recency2 <=> m.inst[n].recency2
<1> DEFINE n1 == m.S[h]
           n2 == m.S[q]
           e1 == [m.inst[n1] EXCEPT !.which_instance = 2]
           e2 == [m.inst[n2] EXCEPT !.which_instance = 1, !.fake_ins = FALSE]
           newInst == [m.inst EXCEPT ![n1] = e1, ![n2] = e2]
           r == Renumbered(m, n1, n2)
<1>1. /\ m \in Machines /\ m.S \in Seq(Node)
      /\ m.inst \in [Node -> InstanceFields] /\ IsInjective(m.S)
  BY DEF Shape, Machines
<1>2. /\ n1 \in Node /\ n2 \in Node /\ n1 # n2
      /\ n1 \in Range(m.S) /\ n2 \in Range(m.S)
      /\ n1[1] = p /\ n2[1] = p
  BY <1>1 DEF TwoNodes, IsInjective, Range
<1>3. {n1, n2} = {<<p, 1>>, <<p, 2>>}
  BY <1>2 DEF Node
<1> HIDE DEF n1, n2
<1>4. /\ e1 \in InstanceFields /\ e1.which_instance = 2
      /\ e1.fake_ins = m.inst[n1].fake_ins
      /\ e1.recency2 = m.inst[n1].recency2
      /\ e2 \in InstanceFields /\ e2.which_instance = 1 /\ ~e2.fake_ins
      /\ e2.recency2 = m.inst[n2].recency2
  <2> DEFINE f1 == m.inst[n1]
             f2 == m.inst[n2]
             g2 == [f2 EXCEPT !.which_instance = 1]
  <2>1. f1 \in InstanceFields /\ f2 \in InstanceFields
    BY <1>1, <1>2
  <2> HIDE DEF f1, f2
  <2>2. /\ [f1 EXCEPT !.which_instance = 2] \in InstanceFields
        /\ [f1 EXCEPT !.which_instance = 2].which_instance = 2
        /\ [f1 EXCEPT !.which_instance = 2].fake_ins = f1.fake_ins
        /\ [f1 EXCEPT !.which_instance = 2].recency2 = f1.recency2
    BY <2>1 DEF InstanceFields
  <2>3. /\ g2 \in InstanceFields /\ g2.which_instance = 1
        /\ g2.recency2 = f2.recency2
    BY <2>1 DEF InstanceFields
  <2>4. [f2 EXCEPT !.which_instance = 1, !.fake_ins = FALSE]
          = [g2 EXCEPT !.fake_ins = FALSE]
    BY <2>1 DEF InstanceFields
  <2> HIDE DEF g2
  <2>5. /\ [g2 EXCEPT !.fake_ins = FALSE] \in InstanceFields
        /\ [g2 EXCEPT !.fake_ins = FALSE].which_instance = 1
        /\ ~[g2 EXCEPT !.fake_ins = FALSE].fake_ins
        /\ [g2 EXCEPT !.fake_ins = FALSE].recency2 = f2.recency2
    BY <2>3 DEF InstanceFields
  <2> QED BY <2>2, <2>4, <2>5 DEF f1, f2
<1>5. r = [m EXCEPT !.inst = newInst]
  <2>1. newInst = [m.inst EXCEPT
          ![n1].which_instance = 2,
          ![n2] = [@ EXCEPT !.which_instance = 1, !.fake_ins = FALSE]]
    BY <1>1, <1>2
  <2> QED BY <2>1 DEF Renumbered
<1> HIDE DEF e1, e2
<1>6. /\ newInst \in [Node -> InstanceFields]
      /\ newInst[n1] = e1 /\ newInst[n2] = e2
      /\ \A n \in Node \ {n1, n2} : newInst[n] = m.inst[n]
  BY <1>1, <1>2, <1>4
<1> HIDE DEF newInst
<1>7. SameButNodes(r, m) /\ r.inst = newInst
  BY <1>1, <1>5 DEF Machines, SameButNodes
<1>8. r \in Machines
  BY <1>1, <1>5, <1>6 DEF Machines
<1> HIDE DEF r
<1>9. Shape(r)
  BY <1>7, <1>8 DEF Shape, SameButNodes
<1>10. Swapped(r, m, h, q)
  <2>1. ASSUME NEW n \in Node
        PROVE  newInst[n].fake_ins <=> m.inst[n].fake_ins /\ n # n2
    BY <1>2, <1>4, <1>6
  <2> QED BY <1>4, <1>6, <1>7, <2>1 DEF Swapped, n1, n2
<1>11. \A n \in Node : r.inst[n].recency2 <=> m.inst[n].recency2
  BY <1>4, <1>6, <1>7
<1>12. Numbered(r.inst, r.S)
  <2> SUFFICES ASSUME NEW x \in Page
               PROVE  LET a == newInst[<<x, 1>>].which_instance
                          b == newInst[<<x, 2>>].which_instance
                      IN  \/ /\ a = 0 /\ b = 0
                             /\ <<x, 1>> \notin Range(m.S)
                             /\ <<x, 2>> \notin Range(m.S)
                          \/ /\ (a = 1 /\ b = 2) \/ (a = 2 /\ b = 1)
                             /\ <<x, 1>> \in Range(m.S)
                             /\ <<x, 2>> \in Range(m.S)
    BY <1>7 DEF Numbered, SameButNodes
  <2>1. CASE x = p
    BY <1>2, <1>3, <1>4, <1>6, <2>1
  <2>2. CASE x # p
    <3>1. \A t \in {1, 2} : newInst[<<x, t>>] = m.inst[<<x, t>>]
      BY <1>3, <1>6, <2>2 DEF Node
    <3> QED BY <3>1 DEF Numbered
  <2> QED BY <2>1, <2>2
<1> QED BY <1>7, <1>9, <1>10, <1>11, <1>12 DEF r, n1, n2

(* Walks and counts change no number and no page's kind.                   *)
LEMMA SameStackFacts ==
  ASSUME NEW r, NEW m, SameStack(r, m)
  PROVE  \A n \in Node, k \in {1, 2} : /\ IsLIR(r, n) <=> IsLIR(m, n)
                                       /\ LIRNumber(r, n, k) <=> LIRNumber(m, n, k)
BY DEF SameStack, LIRNumber, IsLIR

(* The nodes have swapped numbers and the one at position q, about to move *)
(* to the top, no longer counts: Rmax2 stands at x, Cursor at y.           *)
Counted(k, r, q, x, y) ==
  /\ Shape(k) /\ SameStack(k, r) /\ SameFakes(k, r) /\ k.Rmax1 = r.Rmax1
  /\ x # q /\ Lowest(k, x, 2) /\ k.Rmax2 = k.S[x]
  /\ y \in 1 .. x /\ k.Cursor = k.S[y]
  /\ \A i \in y + 1 .. x : IsLIR(k, k.S[i])
  /\ k.len = IF q < x THEN x - 1 ELSE x
  /\ \A i \in 1 .. Len(k.S) :
       i # q => (k.inst[k.S[i]].recency2 <=> i <= x)

(* What the swap does to a stack in order.                                 *)
LEMMA SwappedFacts ==
  ASSUME NEW m, Shape(m), NEW p \in Page, NEW h, NEW q, TwoNodes(m, p, h, q),
         NEW r, SameButNodes(r, m), Swapped(r, m, h, q)
  PROVE  /\ \A i \in 1 .. Len(m.S) : IsLIR(r, m.S[i]) <=> IsLIR(m, m.S[i])
         /\ \A i \in 1 .. Len(m.S), k \in {1, 2} : i # h /\ i # q =>
              (LIRNumber(r, m.S[i], k) <=> LIRNumber(m, m.S[i], k))
         /\ ~LIRNumber(r, m.S[h], 1) /\ ~LIRNumber(r, m.S[q], 2)
         /\ LIRNumber(r, m.S[h], 2) <=> IsLIR(m, m.S[q])
         /\ LIRNumber(r, m.S[q], 1) <=> IsLIR(m, m.S[q])
<1>1. m.S \in Seq(Node) /\ IsInjective(m.S)
  BY DEF Shape, Machines
<1>2. r.table = m.table
  BY DEF SameButNodes
<1>3. \A i \in 1 .. Len(m.S) : i # h /\ i # q =>
        r.inst[m.S[i]].which_instance = m.inst[m.S[i]].which_instance
  <2> SUFFICES ASSUME NEW i \in 1 .. Len(m.S), i # h, i # q
               PROVE  r.inst[m.S[i]].which_instance
                        = m.inst[m.S[i]].which_instance
    OBVIOUS
  <2>1. m.S[i] \in Node \ {m.S[h], m.S[q]}
    BY <1>1 DEF IsInjective, TwoNodes
  <2> QED BY <2>1 DEF Swapped
<1>4. m.S[h][1] = p /\ m.S[q][1] = p
  BY DEF TwoNodes
<1>5. /\ r.inst[m.S[h]].which_instance = 2
      /\ r.inst[m.S[q]].which_instance = 1
  BY DEF Swapped
<1> QED BY <1>2, <1>3, <1>4, <1>5 DEF LIRNumber, IsLIR

(* The node about to move leaves the region, and when it is the lowest one *)
(* Rmax2 finds the next (lines 389-397).                                   *)
LEMMA LeavesRegionOrder ==
  ASSUME NEW m, NEW b, NEW c, Region(m, b, c), Marked(m, b, 1),
         NEW p \in Page, NEW h, NEW q, TwoNodes(m, p, h, q),
         NEW r, Shape(r), SameButNodes(r, m), Swapped(r, m, h, q),
         \A n \in Node : r.inst[n].recency2 <=> m.inst[n].recency2
  PROVE  \E x, y \in 1 .. Len(m.S) :
           /\ Counted(LeavesRegion(r, m.S[q]), r, q, x, y)
           /\ x <= b /\ (q < b => x = b) /\ (q = b => x < b)
<1> DEFINE k == LeavesRegion(r, m.S[q])
<1>1. /\ Shape(m) /\ m.S \in Seq(Node) /\ IsInjective(m.S)
      /\ Lowest(m, b, 2) /\ m.Rmax2 = m.S[b] /\ m.len = b
      /\ b \in 1 .. Len(m.S) /\ c \in 1 .. b /\ m.Cursor = m.S[c]
      /\ \A i \in c + 1 .. b : IsLIR(m, m.S[i])
  BY DEF Region, Lowest, Shape, Machines
<1>2. /\ r.S = m.S /\ r.Rmax2 = m.S[b] /\ r.Cursor = m.S[c] /\ r.len = b
      /\ r.Rmax1 = m.Rmax1
  BY <1>1 DEF SameButNodes
<1>3. /\ h \in 1 .. Len(m.S) /\ q \in 1 .. Len(m.S) /\ h < q
  BY DEF TwoNodes
<1>4. \A i \in 1 .. Len(m.S) :
        m.S[i] \in Node /\ (r.inst[m.S[i]].recency2 <=> i <= b)
  BY <1>1 DEF Marked
<1>5. /\ \A i \in 1 .. Len(m.S) : IsLIR(r, m.S[i]) <=> IsLIR(m, m.S[i])
      /\ \A i \in 1 .. Len(m.S) : i # h /\ i # q =>
           (LIRNumber(r, m.S[i], 2) <=> LIRNumber(m, m.S[i], 2))
      /\ ~LIRNumber(r, m.S[q], 2)
      /\ LIRNumber(r, m.S[h], 2) <=> IsLIR(m, m.S[q])
  BY <1>1, SwappedFacts
<1>6. \A i \in b + 1 .. Len(m.S) : ~LIRNumber(m, m.S[i], 2)
  BY <1>1 DEF Lowest
<1>7. IsLIR(m, m.S[b]) /\ LIRNumber(m, m.S[b], 2)
  BY <1>1 DEF Lowest, LIRNumber
<1>8. CASE q = b
  <2>1. LIRNumber(r, r.S[h], 2) /\ h \in 1 .. b - 1 /\ b \in 1 .. Len(r.S)
    BY <1>1, <1>2, <1>3, <1>5, <1>7, <1>8
  <2>2. PICK u \in h .. b - 1 : Walked2(findLastLirLru2(r), r, u, b)
    BY <1>2, <2>1, Walk2Effect
  <2>3. k = findLastLirLru2(r)
    BY <1>2, <1>8 DEF LeavesRegion
  <2>4. Shape(k)
    BY <2>3, findLastLirLru2Facts
  <2> HIDE DEF k
  <2>5. Walked2(k, r, u, b)
    BY <2>2, <2>3
  <2>6. /\ SameStack(k, r) /\ SameFakes(k, r) /\ k.Rmax1 = r.Rmax1
        /\ k.Rmax2 = m.S[u] /\ k.Cursor = m.S[u] /\ k.len = b - (b - u)
        /\ LIRNumber(r, m.S[u], 2)
        /\ \A i \in u + 1 .. b - 1 : ~LIRNumber(r, m.S[i], 2)
        /\ \A i \in 1 .. Len(m.S) :
             k.inst[m.S[i]].recency2 <=>
               (r.inst[m.S[i]].recency2 /\ i \notin u + 1 .. b)
    BY <1>2, <2>5 DEF Walked2
  <2>7. u \in 1 .. Len(m.S) /\ u < b /\ u \in Int /\ b \in Int
    BY <1>1, <1>3
  <2>8. k.S = m.S
    BY <1>2, <2>6 DEF SameStack
  <2>9. \A n \in Node : LIRNumber(k, n, 2) <=> LIRNumber(r, n, 2)
    BY <2>6, SameStackFacts
  <2>10. \A i \in u + 1 .. Len(m.S) : ~LIRNumber(r, m.S[i], 2)
    <3> SUFFICES ASSUME NEW i \in u + 1 .. Len(m.S)
                 PROVE  ~LIRNumber(r, m.S[i], 2)
      OBVIOUS
    <3>1. CASE i \in u + 1 .. b - 1
      BY <2>6, <3>1
    <3>2. CASE i = b
      BY <1>5, <1>8, <3>2
    <3>3. CASE i \in b + 1 .. Len(m.S)
      <4>1. i # h /\ i # q /\ i \in 1 .. Len(m.S)
        BY <1>1, <1>3, <1>8, <3>3
      <4> QED BY <1>5, <1>6, <3>3, <4>1
    <3> QED BY <1>1, <2>7, <3>1, <3>2, <3>3
  <2>11. Lowest(k, u, 2)
    <3>1. \A i \in u + 1 .. Len(m.S) : m.S[i] \in Node
      BY <1>1, <2>7
    <3>2. \A i \in u + 1 .. Len(m.S) : ~LIRNumber(k, m.S[i], 2)
      BY <2>9, <2>10, <3>1
    <3>3. LIRNumber(k, m.S[u], 2)
      BY <1>4, <2>6, <2>7, <2>9
    <3> QED BY <2>7, <2>8, <3>2, <3>3 DEF Lowest
  <2>12. \A i \in 1 .. Len(m.S) : i # q => (k.inst[m.S[i]].recency2 <=> i <= u)
    BY <1>4, <1>8, <2>6, <2>7
  <2>13. k.len = u /\ ~(q < u) /\ u # q /\ u \in 1 .. u
    BY <1>8, <2>6, <2>7
  <2>14. \A i \in u + 1 .. u : IsLIR(k, k.S[i])
    BY <2>7
  <2>15. Counted(k, r, q, u, u)
    BY <2>4, <2>6, <2>8, <2>11, <2>12, <2>13, <2>14 DEF Counted
  <2> QED BY <1>8, <2>7, <2>15 DEF k
<1>9. CASE q # b
  <2>0. m.S[q] # r.Rmax2
    BY <1>1, <1>2, <1>3, <1>9 DEF IsInjective
  <2>1. r.inst[m.S[q]].recency2 <=> q < b
    BY <1>1, <1>3, <1>4, <1>9
  <2> DEFINE l == IF q < b THEN b - 1 ELSE b
  <2>2. k = [r EXCEPT !.len = l]
    <3>1. r = [r EXCEPT !.len = r.len]
      BY DEF Shape, Machines
    <3> QED BY <1>2, <2>0, <2>1, <3>1 DEF LeavesRegion
  <2>3. l \in Int
    BY <1>1
  <2> HIDE DEF l, k
  <2>4. /\ k.S = r.S /\ k.table = r.table /\ k.Q = r.Q /\ k.lirs = r.lirs
        /\ k.segv = r.segv /\ k.inst = r.inst /\ k.Rmax1 = r.Rmax1
        /\ k.Rmax2 = r.Rmax2 /\ k.Cursor = r.Cursor /\ k.len = l
        /\ k \in Machines
    BY <2>2, <2>3 DEF Shape, Machines
  <2>5. Shape(k) /\ SameStack(k, r) /\ SameFakes(k, r)
    BY <2>4 DEF Shape, SameStack, SameFakes
  <2>6. \A n \in Node, t \in {1, 2} : /\ IsLIR(k, n) <=> IsLIR(r, n)
                                      /\ LIRNumber(k, n, t) <=> LIRNumber(r, n, t)
    BY <2>5, SameStackFacts
  <2>7. h # b
    BY <1>7 DEF TwoNodes, LIRNumber
  <2>8. LIRNumber(k, m.S[b], 2)
    BY <1>1, <1>4, <1>5, <1>7, <1>9, <2>6, <2>7
  <2>9. ASSUME NEW i \in b + 1 .. Len(m.S) PROVE ~LIRNumber(k, m.S[i], 2)
    <3>1. i \in 1 .. Len(m.S) /\ m.S[i] \in Node
      BY <1>1
    <3>2. CASE i = h
      <4>1. ASSUME IsLIR(m, m.S[q]) PROVE FALSE
        <5>1. LIRNumber(m, m.S[q], 2)
          BY <4>1 DEF TwoNodes, LIRNumber
        <5>2. q \in b + 1 .. Len(m.S)
          BY <1>1, <1>3, <3>2
        <5> QED BY <1>6, <5>1, <5>2
      <4> QED BY <1>5, <2>6, <3>1, <3>2, <4>1
    <3>3. CASE i = q
      BY <1>5, <2>6, <3>1, <3>3
    <3>4. CASE i # h /\ i # q
      BY <1>5, <1>6, <2>6, <3>1, <3>4
    <3> QED BY <3>2, <3>3, <3>4
  <2>10. Lowest(k, b, 2)
    BY <1>1, <1>2, <2>4, <2>8, <2>9 DEF Lowest
  <2>11. \A i \in c + 1 .. b : IsLIR(k, m.S[i])
    <3> SUFFICES ASSUME NEW i \in c + 1 .. b PROVE IsLIR(k, m.S[i])
      OBVIOUS
    <3>1. i \in 1 .. Len(m.S) /\ m.S[i] \in Node /\ IsLIR(m, m.S[i])
      BY <1>1
    <3> QED BY <1>5, <2>6, <3>1
  <2>12. k.len = IF q < b THEN b - 1 ELSE b
    BY <2>4 DEF l
  <2>13. Counted(k, r, q, b, c)
    BY <1>1, <1>2, <1>4, <1>9, <2>4, <2>5, <2>10, <2>11, <2>12 DEF Counted
  <2>14. c \in 1 .. Len(m.S)
    BY <1>1
  <2> QED BY <1>1, <1>9, <2>13, <2>14 DEF k
<1> QED BY <1>8, <1>9

(* The node moves to the top, and Cursor gives way (lines 399-418).        *)
LEMMA MovedUpOrder ==
  ASSUME NEW k, NEW r, NEW q, NEW x, NEW y, Counted(k, r, q, x, y),
         ~k.segv, Numbered(k.inst, k.S), q \in 2 .. Len(k.S)
  PROVE  LET w == MovedUp(k, k.S[q])
         IN  /\ \E z \in 1 .. Len(k.S) : Region(w, Target(q, x), z)
             /\ Target(q, x) \in 1 .. Len(k.S)
             /\ Marked(w, Target(q, x), 2)
             /\ w.S = ToHead(k.S, q) /\ w.table = k.table /\ w.Q = k.Q
             /\ w.lirs = k.lirs /\ w.inst = k.inst /\ w.Rmax1 = k.Rmax1
             /\ Shape(w)
<1> DEFINE w == MovedUp(k, k.S[q])
           s == ToHead(k.S, q)
           b == Target(q, x)
           v == IF y = q THEN q - 1 ELSE y
           z == Target(q, v)
           newLen == k.len + 1
           newCursor == CursorGivesWay(k, k.S[q])
<1>1. /\ Shape(k) /\ k \in Machines /\ k.S \in Seq(Node) /\ IsInjective(k.S)
      /\ k.len \in Int /\ k.Rmax1 \in Range(k.S) /\ k.Rmax2 \in Range(k.S)
  BY DEF Counted, Shape, Machines
<1>2. /\ x # q /\ Lowest(k, x, 2) /\ k.Rmax2 = k.S[x]
      /\ y \in 1 .. x /\ k.Cursor = k.S[y]
      /\ \A i \in y + 1 .. x : IsLIR(k, k.S[i])
      /\ k.len = IF q < x THEN x - 1 ELSE x
      /\ \A i \in 1 .. Len(k.S) :
           i # q => (k.inst[k.S[i]].recency2 <=> i <= x)
  BY DEF Counted
<1>3. /\ x \in 1 .. Len(k.S) /\ LIRNumber(k, k.S[x], 2)
      /\ \A i \in x + 1 .. Len(k.S) : ~LIRNumber(k, k.S[i], 2)
  BY <1>2 DEF Lowest
<1>4. q \in 1 .. Len(k.S) /\ q \in Int /\ x \in Int /\ y \in Int
      /\ Len(k.S) \in Nat
  BY <1>1, <1>2, <1>3
<1>5. v \in 1 .. x /\ v # q /\ v \in 1 .. Len(k.S)
  BY <1>2, <1>3, <1>4
<1>6. newCursor = k.S[v]
  <2>1. k.Cursor = k.S[q] <=> y = q
    BY <1>1, <1>2, <1>3, <1>4 DEF IsInjective
  <2>2. CASE y = q
    <3>1. Above(k.S, k.S[q]) = k.S[q - 1]
      <4>1. Pos(k.S, k.S[q]) = q
        BY <1>1, <1>4, PosOf
      <4> QED BY <1>4, <4>1 DEF Above
    <3> QED BY <2>1, <2>2, <3>1 DEF CursorGivesWay
  <2>3. CASE y # q
    BY <1>2, <2>1, <2>3 DEF CursorGivesWay
  <2> QED BY <2>2, <2>3
<1>7. \A i \in v + 1 .. x : i # q => IsLIR(k, k.S[i])
  BY <1>2, <1>4
<1>8. /\ s \in Seq(Node) /\ IsInjective(s) /\ Range(s) = Range(k.S)
      /\ Len(s) = Len(k.S)
  BY <1>1, <1>4, ToHeadFacts
<1>9. /\ \A i \in 2 .. Len(k.S) :
           /\ Origin(q, i) \in 1 .. Len(k.S) /\ Origin(q, i) # q
           /\ s[i] = k.S[Origin(q, i)]
      /\ \A e \in 1 .. Len(k.S) : e # q =>
           Target(q, e) \in 2 .. Len(k.S) /\ s[Target(q, e)] = k.S[e]
      /\ \A e \in 1 .. Len(k.S), i \in 2 .. Len(k.S) : e # q =>
           (i <= Target(q, e) <=> Origin(q, i) <= e)
  BY <1>1, <1>4, MovedPositions
<1>10. <<k.S[q]>> \o RemoveNode(k.S, k.S[q]) = s
  <2>1. Pos(k.S, k.S[q]) = q
    BY <1>1, <1>4, PosOf
  <2> QED BY <2>1 DEF RemoveNode, ToHead
<1>11. /\ b \in 2 .. Len(k.S) /\ s[b] = k.S[x]
       /\ z \in 2 .. Len(k.S) /\ s[z] = k.S[v]
  BY <1>2, <1>3, <1>5, <1>9
<1>12. z \in 1 .. b /\ newLen = b
  BY <1>2, <1>4, <1>5 DEF Target
<1> HIDE DEF b, z, v, s, newLen
<1>13. w = [k EXCEPT !.Cursor = newCursor, !.S = s, !.len = newLen]
  BY <1>10 DEF MovedUp, newLen
<1> HIDE DEF newCursor
<1>14. newCursor \in Node /\ newCursor \in Range(k.S) /\ newLen \in Int
  BY <1>1, <1>4, <1>5, <1>6, <1>12, <1>11 DEF Range
<1>15. /\ w.S = s /\ w.table = k.table /\ w.Q = k.Q
       /\ w.lirs = k.lirs /\ w.inst = k.inst /\ w.Rmax1 = k.Rmax1
       /\ w.Rmax2 = k.Rmax2 /\ w.Cursor = newCursor /\ w.len = newLen
       /\ w.segv = k.segv
  BY <1>1, <1>13 DEF Machines
<1>16. w \in Machines
  BY <1>1, <1>8, <1>13, <1>14 DEF Machines, Pointer
<1> HIDE DEF w
<1>17. Shape(w) /\ Numbered(w.inst, w.S)
  BY <1>1, <1>8, <1>14, <1>15, <1>16 DEF Shape, Numbered
<1>18. \A n \in Node, t \in {1, 2} : /\ IsLIR(w, n) <=> IsLIR(k, n)
                                     /\ LIRNumber(w, n, t) <=> LIRNumber(k, n, t)
  BY <1>15 DEF IsLIR, LIRNumber
<1>19. Lowest(w, b, 2)
  <2>1. LIRNumber(w, s[b], 2)
    BY <1>1, <1>3, <1>11, <1>18
  <2>2. ASSUME NEW i \in b + 1 .. Len(s) PROVE ~LIRNumber(w, s[i], 2)
    <3>1. i \in 2 .. Len(k.S) /\ ~(i <= b)
      BY <1>4, <1>8, <1>11
    <3>2. Origin(q, i) \in 1 .. Len(k.S) /\ ~(Origin(q, i) <= x)
          /\ s[i] = k.S[Origin(q, i)]
      BY <1>2, <1>3, <1>9, <3>1 DEF b
    <3>3. Origin(q, i) \in x + 1 .. Len(k.S)
      BY <1>4, <3>2
    <3> QED BY <1>1, <1>3, <1>18, <3>2, <3>3
  <2>3. b \in 1 .. Len(s)
    BY <1>8, <1>11
  <2> QED BY <1>15, <2>1, <2>2, <2>3 DEF Lowest
<1>20. ASSUME NEW i \in z + 1 .. b PROVE IsLIR(w, s[i])
  <2>1. i \in 2 .. Len(k.S) /\ i <= b /\ ~(i <= z)
    BY <1>4, <1>11, <1>12
  <2>2. /\ Origin(q, i) \in 1 .. Len(k.S) /\ Origin(q, i) # q
        /\ s[i] = k.S[Origin(q, i)]
        /\ Origin(q, i) <= x /\ ~(Origin(q, i) <= v)
    BY <1>2, <1>3, <1>5, <1>9, <2>1 DEF b, z
  <2>3. Origin(q, i) \in v + 1 .. x
    BY <1>4, <1>5, <2>2
  <2> QED BY <1>1, <1>7, <1>18, <2>2, <2>3
<1>21. Region(w, b, z)
  BY <1>2, <1>6, <1>11, <1>12, <1>15, <1>17, <1>19, <1>20 DEF Region
<1>22. Marked(w, b, 2)
  <2> SUFFICES ASSUME NEW i \in 2 .. Len(s)
               PROVE  w.inst[s[i]].recency2 <=> i <= b
    BY <1>15 DEF Marked
  <2>1. /\ Origin(q, i) \in 1 .. Len(k.S) /\ Origin(q, i) # q
        /\ s[i] = k.S[Origin(q, i)]
        /\ i <= b <=> Origin(q, i) <= x
    BY <1>2, <1>3, <1>8, <1>9 DEF b
  <2> QED BY <1>2, <1>15, <2>1
<1>23. z \in 1 .. Len(k.S) /\ b \in 1 .. Len(k.S)
  BY <1>4, <1>11
<1> QED BY <1>15, <1>17, <1>21, <1>22, <1>23 DEF w, s, b

(* What an operation that keeps the list, the numbers and the pages' kinds *)
(* keeps.                                                                  *)
LEMMA SameStackKeeps ==
  ASSUME NEW m, NEW r, Shape(m), SameStack(r, m)
  PROVE  /\ \A x : \A k \in {1, 2} : Lowest(m, x, k) => Lowest(r, x, k)
         /\ InOrder(m) => InOrder(r)
         /\ Numbered(m.inst, m.S) => Numbered(r.inst, r.S)
<1>1. /\ r.S = m.S /\ m.S \in Seq(Node)
      /\ \A n \in Node :
           r.inst[n].which_instance = m.inst[n].which_instance
  BY DEF SameStack, Shape, Machines
<1>2. \A n \in Node, k \in {1, 2} : LIRNumber(r, n, k) <=> LIRNumber(m, n, k)
  BY SameStackFacts
<1>3. ASSUME NEW x, NEW k \in {1, 2}, Lowest(m, x, k) PROVE Lowest(r, x, k)
  <2>1. /\ x \in 1 .. Len(m.S) /\ LIRNumber(m, m.S[x], k)
        /\ \A i \in x + 1 .. Len(m.S) : ~LIRNumber(m, m.S[i], k)
    BY <1>3 DEF Lowest
  <2>2. \A i \in x + 1 .. Len(m.S) : m.S[i] \in Node
    BY <1>1, <2>1
  <2>3. m.S[x] \in Node
    BY <1>1, <2>1
  <2> QED BY <1>1, <1>2, <2>1, <2>2, <2>3 DEF Lowest
<1>4. InOrder(m) => InOrder(r)
  <2>1. \A i \in 1 .. Len(m.S) : m.S[i] \in Node
    BY <1>1
  <2> QED BY <1>1, <2>1 DEF InOrder
<1>5. Numbered(m.inst, m.S) => Numbered(r.inst, r.S)
  BY <1>1 DEF Numbered, Node
<1> QED BY <1>3, <1>4, <1>5

(* The pointers and the length stay too.                                   *)
LEMMA RegionKept ==
  ASSUME NEW m, NEW b, NEW c, Region(m, b, c), NEW r, Shape(r),
         SameStack(r, m), r.Rmax2 = m.Rmax2, r.Cursor = m.Cursor,
         r.len = m.len
  PROVE  Region(r, b, c)
<1>1. Shape(m)
  BY DEF Region
<1>2. Lowest(r, b, 2) /\ Numbered(r.inst, r.S)
  BY <1>1, SameStackKeeps DEF Region
<1>3. /\ r.S = m.S /\ (r.segv <=> m.segv)
      /\ \A n : IsLIR(r, n) <=> IsLIR(m, n)
  BY DEF SameStack, IsLIR
<1> QED BY <1>2, <1>3 DEF Region

(* Rmax1 left behind finds the lowest LIR node numbered 1 (lines 125-137). *)
LEMMA Rmax1Finds ==
  ASSUME NEW m, Shape(m),
         NEW x \in 1 .. Len(m.S), m.Rmax1 = m.S[x],
         \A i \in x .. Len(m.S) : ~LIRNumber(m, m.S[i], 1),
         NEW t \in 1 .. x - 1, LIRNumber(m, m.S[t], 1)
  PROVE  LET r == findLastLirLru1(m)
         IN  /\ Shape(r) /\ \E u \in 1 .. Len(m.S) : First(r, u)
             /\ SameStack(r, m) /\ SameFakes(r, m) /\ r.Rmax2 = m.Rmax2
             /\ r.Cursor = m.Cursor /\ r.len = m.len
             /\ \A n \in Node : r.inst[n].recency2 <=> m.inst[n].recency2
<1> DEFINE r == findLastLirLru1(m)
<1>1. m.S \in Seq(Node)
  BY DEF Shape, Machines
<1>2. PICK u \in t .. x - 1 : Walked1(r, m, u, x)
  BY Walk1Effect
<1>3. Shape(r)
  BY findLastLirLru1Facts
<1> HIDE DEF r
<1>4. /\ SameStack(r, m) /\ SameFakes(r, m)
      /\ r.Rmax2 = m.Rmax2 /\ r.Cursor = m.Cursor /\ r.len = m.len
      /\ r.Rmax1 = m.S[u] /\ LIRNumber(m, m.S[u], 1)
      /\ \A i \in u + 1 .. x - 1 : ~LIRNumber(m, m.S[i], 1)
      /\ \A n \in Node : r.inst[n].recency2 <=> m.inst[n].recency2
  BY <1>2 DEF Walked1
<1>5. r.S = m.S
  BY <1>4 DEF SameStack
<1>6. u \in 1 .. Len(m.S) /\ u < x /\ x \in Int
  BY <1>1
<1>7. Lowest(m, u, 1)
  <2>1. ASSUME NEW i \in u + 1 .. Len(m.S) PROVE ~LIRNumber(m, m.S[i], 1)
    <3>1. i \in u + 1 .. x - 1 \/ i \in x .. Len(m.S)
      BY <1>1, <1>6
    <3> QED BY <1>4, <3>1
  <2> QED BY <1>4, <1>6, <2>1 DEF Lowest
<1>8. First(r, u)
  BY <1>4, <1>5, <1>7, SameStackKeeps DEF First
<1> QED BY <1>3, <1>4, <1>6, <1>8 DEF r

(* A later reference moves the older node of p to the top of a stack in    *)
(* order and leaves a stack in order, but for the mark of that node, which *)
(* is set last (lines 378-418).                                            *)
LEMMA MoveToTopOrder ==
  ASSUME NEW m, NEW a, NEW b, NEW c, First(m, a), Region(m, b, c),
         Marked(m, b, 1), InOrder(m),
         NEW p \in Page, NEW h, NEW q, TwoNodes(m, p, h, q),
         pointerInstance(p, 1) = m.S[h], pointerInstance(p, 2) = m.S[q]
  PROVE  LET r == MoveToTop(m, p)
         IN  /\ \E a2, b2, c2 \in 1 .. Len(m.S) :
                  /\ First(r, a2) /\ Region(r, b2, c2) /\ Marked(r, b2, 2)
                  /\ b2 <= b + 1 /\ (q < b => h + 1 < b2)
             /\ InOrder(r) /\ r.S = ToHead(m.S, q) /\ Swapped(r, m, h, q)
             /\ r.table = m.table /\ r.Q = m.Q /\ r.lirs = m.lirs
<1> DEFINE r == MoveToTop(m, p)
           d == Renumbered(m, m.S[h], m.S[q])
           k == LeavesRegion(d, m.S[q])
           w == MovedUp(k, m.S[q])
           s == ToHead(m.S, q)
<1>1. /\ Shape(m) /\ m.S \in Seq(Node) /\ IsInjective(m.S) /\ Len(m.S) \in Nat
      /\ Numbered(m.inst, m.S) /\ b \in 1 .. Len(m.S) /\ ~m.segv
  BY DEF Region, Lowest, Shape, Machines
<1>2. /\ h \in 1 .. Len(m.S) /\ q \in 2 .. Len(m.S) /\ h < q
      /\ q \in 1 .. Len(m.S)
      /\ m.S[h][1] = p /\ m.S[q][1] = p
      /\ \A i \in 1 .. Len(m.S) : m.S[i][1] = p => i = h \/ i = q
  BY <1>1 DEF TwoNodes
<1>3. r = IF m.S[h] = m.Rmax1 THEN findLastLirLru1(w) ELSE w
  BY MoveToTopParts
<1>4. /\ Shape(d) /\ Numbered(d.inst, d.S)
      /\ SameButNodes(d, m) /\ Swapped(d, m, h, q)
      /\ \A n \in Node : d.inst[n].recency2 <=> m.inst[n].recency2
  BY <1>1, RenumberedFacts
<1> HIDE DEF d
<1>5. PICK x, y \in 1 .. Len(m.S) :
        /\ Counted(k, d, q, x, y)
        /\ x <= b /\ (q < b => x = b)
  BY <1>4, LeavesRegionOrder
<1> HIDE DEF k
<1>6. /\ d.S = m.S /\ d.table = m.table /\ d.Q = m.Q /\ d.lirs = m.lirs
      /\ d.Rmax1 = m.Rmax1 /\ (d.segv <=> m.segv)
  BY <1>4 DEF SameButNodes
<1>7. /\ SameStack(k, d) /\ SameFakes(k, d) /\ k.Rmax1 = m.Rmax1 /\ x # q
  BY <1>5, <1>6 DEF Counted
<1>8. /\ k.S = m.S /\ k.table = m.table /\ k.Q = m.Q /\ k.lirs = m.lirs
      /\ (k.segv <=> m.segv) /\ Numbered(k.inst, k.S)
      /\ \A n \in Node : k.inst[n].which_instance = d.inst[n].which_instance
  BY <1>4, <1>6, <1>7, SameStackKeeps DEF SameStack
<1> DEFINE b2 == Target(q, x)
<1>9. /\ \E z \in 1 .. Len(k.S) : Region(w, b2, z)
      /\ b2 \in 1 .. Len(k.S) /\ Marked(w, b2, 2)
      /\ w.S = ToHead(k.S, q) /\ w.table = k.table /\ w.Q = k.Q
      /\ w.lirs = k.lirs /\ w.inst = k.inst /\ w.Rmax1 = k.Rmax1
      /\ Shape(w)
  <2>1. w = MovedUp(k, k.S[q]) /\ ~k.segv /\ q \in 2 .. Len(k.S)
    BY <1>1, <1>2, <1>8
  <2> HIDE DEF w
  <2> QED BY <1>5, <1>8, <2>1, MovedUpOrder
<1>10. b2 <= b + 1 /\ (q < b => h + 1 < b2)
  BY <1>1, <1>2, <1>5 DEF Target
<1> HIDE DEF b2, w
<1>11. PICK z \in 1 .. Len(m.S) : Region(w, b2, z)
  BY <1>8, <1>9
<1>12. /\ w.S = s /\ w.table = m.table /\ w.Q = m.Q /\ w.lirs = m.lirs
       /\ w.Rmax1 = m.Rmax1 /\ b2 \in 1 .. Len(m.S)
  <2>1. k.S = m.S /\ k.table = m.table /\ k.Q = m.Q /\ k.lirs = m.lirs
    BY <1>8
  <2>2. /\ w.S = ToHead(k.S, q) /\ w.table = k.table /\ w.Q = k.Q
        /\ w.lirs = k.lirs /\ w.Rmax1 = k.Rmax1 /\ b2 \in 1 .. Len(k.S)
    BY <1>9
  <2>3. w.S = s
    BY <2>1, <2>2
  <2> HIDE DEF s
  <2> QED BY <1>7, <2>1, <2>2, <2>3
<1>13. Swapped(w, m, h, q)
  <2>1. m.S[h] \in Node /\ m.S[q] \in Node
    BY <1>1, <1>2
  <2>2. \A n \in Node : w.inst[n].fake_ins <=> d.inst[n].fake_ins
    BY <1>7, <1>9 DEF SameFakes
  <2> QED BY <1>4, <1>8, <1>9, <2>1, <2>2 DEF Swapped
<1>14. /\ Len(s) = Len(m.S) /\ s[1] = m.S[q] /\ s \in Seq(Node)
       /\ \A i \in 2 .. Len(m.S) :
            /\ Origin(q, i) \in 1 .. Len(m.S) /\ Origin(q, i) # q
            /\ s[i] = m.S[Origin(q, i)]
       /\ \A e \in 1 .. Len(m.S) : e # q =>
            Target(q, e) \in 2 .. Len(m.S) /\ s[Target(q, e)] = m.S[e]
       /\ \A e \in 1 .. Len(m.S), i \in 2 .. Len(m.S) : e # q =>
            (i <= Target(q, e) <=> Origin(q, i) <= e)
       /\ \A i, j \in 2 .. Len(m.S) : i < j => Origin(q, i) < Origin(q, j)
  <2>1. Len(s) = Len(m.S) /\ s[1] = m.S[q] /\ s \in Seq(Node)
    BY <1>1, <1>2, ToHeadFacts
  <2> QED BY <1>1, <1>2, <2>1, MovedPositions
<1> HIDE DEF s
<1>15. \A e \in 1 .. Len(m.S) : e # h /\ e # q =>
         w.inst[m.S[e]].which_instance = m.inst[m.S[e]].which_instance
  <2> SUFFICES ASSUME NEW e \in 1 .. Len(m.S), e # h, e # q
               PROVE  w.inst[m.S[e]].which_instance
                        = m.inst[m.S[e]].which_instance
    OBVIOUS
  <2>1. m.S[e] \in Node \ {m.S[h], m.S[q]}
    BY <1>1, <1>2 DEF IsInjective
  <2> QED BY <1>13, <2>1 DEF Swapped
<1>16. /\ w.inst[m.S[h]].which_instance = 2
       /\ w.inst[m.S[q]].which_instance = 1
  BY <1>13 DEF Swapped
<1>17. InOrder(w)
  <2> SUFFICES ASSUME NEW i \in 1 .. Len(s), NEW j \in 1 .. Len(s),
                      i < j, s[i][1] = s[j][1]
               PROVE  /\ w.inst[s[i]].which_instance = 1
                      /\ w.inst[s[j]].which_instance = 2
    BY <1>12 DEF InOrder
  <2> DEFINE g == Origin(q, j)
             f == Origin(q, i)
  <2>1. j \in 2 .. Len(m.S) /\ i \in 1 .. Len(m.S)
    BY <1>1, <1>14
  <2>2. g \in 1 .. Len(m.S) /\ g # q /\ s[j] = m.S[g]
    BY <1>14, <2>1
  <2>3. CASE i = 1
    <3>1. m.S[g][1] = p /\ s[i] = m.S[q]
      BY <1>2, <1>14, <2>2, <2>3
    <3>2. g = h
      BY <1>2, <2>2, <3>1
    <3> HIDE DEF g
    <3> QED BY <1>16, <2>2, <3>1, <3>2
  <2>4. CASE i # 1
    <3>1. i \in 2 .. Len(m.S)
      BY <1>1, <2>1, <2>4
    <3>2. f \in 1 .. Len(m.S) /\ f # q /\ s[i] = m.S[f] /\ f < g
      BY <1>14, <2>1, <3>1
    <3> HIDE DEF f, g
    <3>3. m.S[f][1] = m.S[g][1]
      BY <2>2, <3>2
    <3>4. f # h /\ g # h
      <4>1. f = h \/ g = h => f \in {h, q} /\ g \in {h, q}
        BY <1>2, <2>2, <3>2, <3>3
      <4> QED BY <2>2, <3>2, <4>1
    <3>5. /\ m.inst[m.S[f]].which_instance = 1
          /\ m.inst[m.S[g]].which_instance = 2
      BY <2>2, <3>2, <3>3 DEF InOrder
    <3> QED BY <1>15, <2>2, <3>2, <3>4, <3>5
  <2> QED BY <2>3, <2>4
<1>18. /\ a \in 1 .. Len(m.S) /\ LIRNumber(m, m.S[a], 1) /\ m.Rmax1 = m.S[a]
       /\ \A i \in a + 1 .. Len(m.S) : ~LIRNumber(m, m.S[i], 1)
  BY DEF First, Lowest
<1>19. \A e \in 1 .. Len(m.S) : e # h /\ e # q =>
         (LIRNumber(w, m.S[e], 1) <=> LIRNumber(m, m.S[e], 1))
  BY <1>12, <1>15 DEF LIRNumber, IsLIR
<1>20. ~LIRNumber(w, m.S[h], 1)
  BY <1>16 DEF LIRNumber
<1>21. CASE h = a
  <2>1. r = findLastLirLru1(w)
    BY <1>3, <1>18, <1>21
  <2> HIDE DEF r
  <2>2. /\ Target(q, h) = h + 1 /\ h + 1 \in 2 .. Len(m.S)
        /\ s[h + 1] = m.S[h]
    <3>1. Target(q, h) = h + 1
      BY <1>2 DEF Target
    <3> QED BY <1>2, <1>14, <3>1
  <2>3. LIRNumber(w, s[1], 1)
    BY <1>2, <1>12, <1>14, <1>16, <1>18, <1>21 DEF LIRNumber, IsLIR
  <2>4. ASSUME NEW i \in h + 1 .. Len(s) PROVE ~LIRNumber(w, s[i], 1)
    <3>1. i \in 2 .. Len(m.S)
      BY <1>1, <1>2, <1>14
    <3>2. /\ Origin(q, i) \in 1 .. Len(m.S) /\ Origin(q, i) # q
          /\ s[i] = m.S[Origin(q, i)]
      BY <1>14, <3>1
    <3>3. CASE Origin(q, i) = h
      BY <1>20, <3>2, <3>3
    <3>4. CASE Origin(q, i) # h
      <4>1. Origin(q, i) \in h + 1 .. Len(m.S)
        <5>1. Origin(q, i) >= h
          BY <1>1, <1>2 DEF Origin
        <5> QED BY <1>1, <1>2, <3>2, <3>4, <5>1
      <4>2. ~LIRNumber(m, m.S[Origin(q, i)], 1)
        BY <1>18, <1>21, <4>1
      <4> QED BY <1>19, <3>2, <3>4, <4>2
    <3> QED BY <3>3, <3>4
  <2>5. h + 1 \in 1 .. Len(w.S) /\ 1 \in 1 .. (h + 1) - 1
        /\ w.Rmax1 = w.S[h + 1]
    BY <1>1, <1>2, <1>12, <1>14, <1>18, <1>21, <2>2
  <2>6. /\ Region(r, b2, z) /\ \E u \in 1 .. Len(w.S) : First(r, u)
        /\ SameStack(r, w) /\ SameFakes(r, w)
        /\ \A n \in Node : r.inst[n].recency2 <=> w.inst[n].recency2
    <3>1. \A i \in h + 1 .. Len(w.S) : ~LIRNumber(w, w.S[i], 1)
      BY <1>12, <2>4
    <3>2. LIRNumber(w, w.S[1], 1)
      BY <1>12, <2>3
    <3>3. /\ Shape(r) /\ \E u \in 1 .. Len(w.S) : First(r, u)
          /\ SameStack(r, w) /\ SameFakes(r, w) /\ r.Rmax2 = w.Rmax2
          /\ r.Cursor = w.Cursor /\ r.len = w.len
          /\ \A n \in Node : r.inst[n].recency2 <=> w.inst[n].recency2
      BY <1>9, <2>1, <2>5, <3>1, <3>2, Rmax1Finds
    <3> QED BY <1>11, <3>3, RegionKept
  <2>7. /\ r.S = s /\ r.table = m.table /\ r.Q = m.Q /\ r.lirs = m.lirs
        /\ \A n \in Node :
             r.inst[n].which_instance = w.inst[n].which_instance
    BY <1>12, <2>6 DEF SameStack
  <2>8. InOrder(r)
    BY <1>9, <1>17, <2>6, SameStackKeeps
  <2>9. Marked(r, b2, 2)
    <3>1. \A i \in 2 .. Len(s) : s[i] \in Node
      BY <1>14
    <3> QED BY <1>9, <1>12, <2>6, <2>7, <3>1 DEF Marked
  <2>10. Swapped(r, m, h, q)
    <3>1. m.S[h] \in Node /\ m.S[q] \in Node
      BY <1>1, <1>2
    <3> QED BY <1>13, <2>6, <2>7, <3>1 DEF Swapped, SameFakes
  <2>11. \E u \in 1 .. Len(m.S) : First(r, u)
    BY <1>12, <1>14, <2>6
  <2> QED BY <1>10, <1>12, <2>6, <2>7, <2>8, <2>9, <2>10, <2>11 DEF r, s
<1>22. CASE h # a
  <2>1. m.S[h] # m.Rmax1
    BY <1>1, <1>2, <1>18, <1>22 DEF IsInjective
  <2>2. r = w
    BY <1>3, <2>1
  <2> HIDE DEF r
  <2>3. a # q
    BY <1>18 DEF TwoNodes, LIRNumber
  <2> DEFINE a2 == Target(q, a)
  <2>4. a2 \in 2 .. Len(m.S) /\ s[a2] = m.S[a]
    BY <1>14, <1>18, <2>3
  <2>5. LIRNumber(w, s[a2], 1)
    BY <1>18, <1>19, <1>22, <2>3, <2>4
  <2>6. ASSUME NEW i \in a2 + 1 .. Len(s) PROVE ~LIRNumber(w, s[i], 1)
    <3>1. i \in 2 .. Len(m.S) /\ ~(i <= a2)
      BY <1>1, <1>14, <2>4
    <3>2. /\ Origin(q, i) \in 1 .. Len(m.S) /\ Origin(q, i) # q
          /\ s[i] = m.S[Origin(q, i)] /\ ~(Origin(q, i) <= a)
      BY <1>14, <1>18, <2>3, <3>1
    <3>3. CASE Origin(q, i) = h
      BY <1>20, <3>2, <3>3
    <3>4. CASE Origin(q, i) # h
      <4>1. Origin(q, i) \in a + 1 .. Len(m.S)
        BY <1>1, <1>18, <3>2
      <4>2. ~LIRNumber(m, m.S[Origin(q, i)], 1)
        BY <1>18, <4>1
      <4> QED BY <1>19, <3>2, <3>4, <4>2
    <3> QED BY <3>3, <3>4
  <2> HIDE DEF a2
  <2>7. First(w, a2) /\ a2 \in 1 .. Len(m.S)
    BY <1>1, <1>12, <1>14, <1>18, <2>4, <2>5, <2>6 DEF First, Lowest
  <2> QED BY <1>9, <1>10, <1>11, <1>12, <1>13, <1>17, <2>2, <2>7 DEF r, s
<1> QED BY <1>21, <1>22

(* The HIR page p has its two nodes at the head and at position g, above b. *)
OnTop(m, p, g, b) ==
  /\ m.table[p].isHIR_block
  /\ g \in 2 .. b - 1 /\ m.S[1][1] = p /\ m.S[g][1] = p
  /\ m.inst[m.S[1]].which_instance = 1 /\ m.inst[m.S[g]].which_instance = 2
  /\ \A i \in 1 .. Len(m.S) : m.S[i][1] = p => i = 1 \/ i = g

(* Below the head the stack of r is in order, Rmax2 no lower than b, and   *)
(* differs from that of m in the kinds and marks of the pages only.        *)
OrderKeptTo(r, m, b) ==
  /\ \E a2, b2, c2 \in 1 .. Len(m.S) :
       /\ First(r, a2) /\ Region(r, b2, c2) /\ Marked(r, b2, 2)
       /\ b2 <= b
  /\ InOrder(r) /\ r.S = m.S /\ SameFakes(r, m)
  /\ \A n \in Node :
       r.inst[n].which_instance = m.inst[n].which_instance

(* A promotion (lines 422-437) leaves a stack in order: both Rmax pointers *)
(* find the next LIR node above when they stand on the demoted page.       *)
LEMMA PromoteOrder ==
  ASSUME NEW m, NEW a, NEW b, NEW c, First(m, a), Region(m, b, c),
         Marked(m, b, 2), InOrder(m), NEW p \in Page, NEW g, OnTop(m, p, g, b)
  PROVE  OrderKeptTo(Promote(m, p), m, b)
<1> DEFINE d == m.S[b]
           table == [m.table EXCEPT ![p].isHIR_block = FALSE,
                                    ![d[1]].isHIR_block = TRUE]
           unmarked == [m.inst EXCEPT ![d].recency2 = FALSE]
           queue == <<d>> \o m.Q
           w == [m EXCEPT !.table = table, !.Q = queue, !.inst = unmarked]
           v == Rmax1GivesWay(w)
           r == Promote(m, p)
<1>0. /\ m.table[p].isHIR_block
      /\ g \in 2 .. b - 1 /\ m.S[1][1] = p /\ m.S[g][1] = p
      /\ m.inst[m.S[1]].which_instance = 1 /\ m.inst[m.S[g]].which_instance = 2
      /\ \A i \in 1 .. Len(m.S) : m.S[i][1] = p => i = 1 \/ i = g
  BY DEF OnTop
<1>1. /\ Shape(m) /\ m \in Machines /\ m.S \in Seq(Node) /\ IsInjective(m.S)
      /\ m.inst \in [Node -> InstanceFields] /\ m.table \in [Page -> Entries]
      /\ Len(m.S) \in Nat /\ ~m.segv
  BY DEF Region, Shape, Machines
<1>2. /\ m.Rmax2 = m.S[b] /\ b \in 1 .. Len(m.S) /\ m.len = b
      /\ LIRNumber(m, m.S[b], 2)
      /\ \A i \in b + 1 .. Len(m.S) : ~LIRNumber(m, m.S[i], 2)
  BY DEF Region, Lowest
<1>3. /\ m.Rmax1 = m.S[a] /\ a \in 1 .. Len(m.S) /\ LIRNumber(m, m.S[a], 1)
      /\ \A i \in a + 1 .. Len(m.S) : ~LIRNumber(m, m.S[i], 1)
  BY DEF First, Lowest
<1>4. d \in Node /\ d[1] \in Page /\ d[1] # p
  BY <1>0, <1>1, <1>2 DEF LIRNumber, IsLIR, Node
<1>5. r = findLastLirLru2(v)
  BY <1>2 DEF Promote
<1>6. /\ table \in [Page -> Entries]
      /\ \A x \in Page : ~table[x].isHIR_block <=>
            (~m.table[x].isHIR_block \/ x = p) /\ x # d[1]
  <2> DEFINE t == [m.table EXCEPT ![p].isHIR_block = FALSE]
  <2>1. /\ t \in [Page -> Entries]
        /\ \A x \in Page : ~t[x].isHIR_block <=> ~m.table[x].isHIR_block \/ x = p
    BY <1>1 DEF Entries
  <2>2. table = [t EXCEPT ![d[1]].isHIR_block = TRUE]
    BY <1>1, <1>4
  <2> HIDE DEF t, table, d
  <2> QED BY <1>4, <2>1, <2>2 DEF Entries
<1>7. /\ unmarked \in [Node -> InstanceFields]
      /\ \A n \in Node :
           /\ unmarked[n].which_instance = m.inst[n].which_instance
           /\ unmarked[n].fake_ins = m.inst[n].fake_ins
           /\ unmarked[n].recency2 <=> m.inst[n].recency2 /\ n # d
  <2> DEFINE e == [m.inst[d] EXCEPT !.recency2 = FALSE]
  <2>1. /\ e \in InstanceFields
        /\ e.which_instance = m.inst[d].which_instance
        /\ e.fake_ins = m.inst[d].fake_ins /\ ~e.recency2
    BY <1>1, <1>4, UnmarkedFacts
  <2>2. unmarked = [m.inst EXCEPT ![d] = e]
    BY <1>1, <1>4
  <2> HIDE DEF e, unmarked, d
  <2> QED BY <1>1, <1>4, <2>1, <2>2
<1>8. queue \in Seq(Node)
  BY <1>1, <1>4 DEF Machines
<1> HIDE DEF table, unmarked, queue, r, v
<1>9. /\ w.S = m.S /\ w.Rmax1 = m.Rmax1 /\ w.Rmax2 = m.Rmax2 /\ w.len = m.len
      /\ w.Cursor = m.Cursor /\ w.lirs = m.lirs /\ (w.segv <=> m.segv)
      /\ w.table = table /\ w.inst = unmarked /\ w.Q = queue
  BY <1>1 DEF Machines
<1>10. w \in Machines
  BY <1>1, <1>6, <1>7, <1>8 DEF Machines
<1> HIDE DEF w
<1>11. Shape(w)
  BY <1>1, <1>9, <1>10 DEF Shape
<1>12. \A i \in 1 .. Len(m.S) :
         /\ m.S[i] \in Node /\ m.S[i][1] \in Page
         /\ IsLIR(w, m.S[i]) <=>
              (IsLIR(m, m.S[i]) \/ m.S[i][1] = p) /\ m.S[i][1] # d[1]
  <2> SUFFICES ASSUME NEW i \in 1 .. Len(m.S)
               PROVE  /\ m.S[i] \in Node /\ m.S[i][1] \in Page
                      /\ IsLIR(w, m.S[i]) <=>
                           /\ IsLIR(m, m.S[i]) \/ m.S[i][1] = p
                           /\ m.S[i][1] # d[1]
    OBVIOUS
  <2>1. m.S[i] \in Node /\ m.S[i][1] \in Page
    BY <1>1 DEF Node
  <2> HIDE DEF d
  <2> QED BY <1>6, <1>9, <2>1 DEF IsLIR
<1>13. \A i \in 1 .. Len(m.S) :
         w.inst[m.S[i]].which_instance = m.inst[m.S[i]].which_instance
  BY <1>7, <1>9, <1>12
<1>14. ASSUME NEW k \in {1, 2}, NEW i \in 1 .. Len(m.S), i # 1, i # g
       PROVE  LIRNumber(w, m.S[i], k) => LIRNumber(m, m.S[i], k)
  <2>1. m.S[i][1] # p
    BY <1>0, <1>14
  <2>2. IsLIR(w, m.S[i]) => IsLIR(m, m.S[i])
    BY <1>12, <2>1
  <2>3. w.inst[m.S[i]].which_instance = m.inst[m.S[i]].which_instance
    BY <1>13
  <2> QED BY <2>2, <2>3 DEF LIRNumber
<1>15. LIRNumber(w, m.S[1], 1) /\ LIRNumber(w, m.S[g], 2)
       /\ ~LIRNumber(w, m.S[1], 2) /\ ~LIRNumber(w, m.S[g], 1)
       /\ 1 \in 1 .. Len(m.S) /\ g \in 1 .. Len(m.S)
  <2>1. 1 \in 1 .. Len(m.S) /\ g \in 1 .. Len(m.S)
    BY <1>0, <1>1, <1>2
  <2> QED BY <1>0, <1>4, <1>12, <1>13, <2>1 DEF LIRNumber
<1>16. \A i \in a + 1 .. Len(m.S) : ~LIRNumber(w, m.S[i], 1)
  <2> SUFFICES ASSUME NEW i \in a + 1 .. Len(m.S)
               PROVE  ~LIRNumber(w, m.S[i], 1)
    OBVIOUS
  <2>1. i \in 1 .. Len(m.S) /\ i # 1
    BY <1>1, <1>3
  <2>2. CASE i = g
    BY <1>15, <2>2
  <2>3. CASE i # g
    BY <1>3, <1>14, <2>1, <2>3
  <2> QED BY <2>2, <2>3
<1>17. /\ Shape(v) /\ \E u \in 1 .. Len(m.S) : First(v, u)
       /\ SameStack(v, w) /\ SameFakes(v, w) /\ v.Rmax2 = w.Rmax2
       /\ v.Cursor = w.Cursor /\ v.len = w.len
       /\ \A n \in Node : v.inst[n].recency2 <=> w.inst[n].recency2
  <2>1. CASE IsLIR(w, m.S[a])
    <3>1. v = w
      BY <1>3, <1>9, <2>1 DEF v, Rmax1GivesWay
    <3>2. LIRNumber(w, m.S[a], 1)
      BY <1>3, <1>13, <2>1 DEF LIRNumber
    <3>3. First(w, a)
      BY <1>3, <1>9, <1>16, <3>2 DEF First, Lowest
    <3> QED BY <1>3, <1>11, <3>1, <3>3 DEF SameStack, SameFakes
  <2>2. CASE ~IsLIR(w, m.S[a])
    <3>1. v = findLastLirLru1(w)
      BY <1>3, <1>9, <2>2 DEF v, Rmax1GivesWay
    <3>2. a # 1
      BY <1>15, <2>2 DEF LIRNumber
    <3>3. ASSUME NEW i \in a .. Len(m.S) PROVE ~LIRNumber(w, m.S[i], 1)
      <4>1. i = a \/ i \in a + 1 .. Len(m.S)
        BY <1>1, <1>3
      <4> QED BY <1>16, <2>2, <4>1 DEF LIRNumber
    <3>4. a \in 1 .. Len(w.S) /\ w.Rmax1 = w.S[a] /\ 1 \in 1 .. a - 1
      BY <1>1, <1>3, <1>9, <3>2
    <3>5. /\ LIRNumber(w, w.S[1], 1)
          /\ \A i \in a .. Len(w.S) : ~LIRNumber(w, w.S[i], 1)
      BY <1>9, <1>15, <3>3
    <3>6. Len(w.S) = Len(m.S)
      BY <1>9
    <3> QED BY <1>11, <3>1, <3>4, <3>5, <3>6, Rmax1Finds
  <2> QED BY <2>1, <2>2
<1>18. /\ v.S = m.S /\ v.Rmax2 = m.S[b] /\ v.len = b /\ ~v.segv
       /\ \A n \in Node :
            v.inst[n].which_instance = w.inst[n].which_instance
  BY <1>1, <1>2, <1>9, <1>17 DEF SameStack
<1>19. \A i \in 1 .. Len(m.S) :
         LIRNumber(v, m.S[i], 2) <=> LIRNumber(w, m.S[i], 2)
  BY <1>12, <1>17, SameStackFacts
<1>20. PICK u \in g .. b - 1 : Walked2(r, v, u, b)
  <2>1. b \in 1 .. Len(v.S) /\ v.Rmax2 = v.S[b] /\ g \in 1 .. b - 1
        /\ LIRNumber(v, v.S[g], 2)
    BY <1>0, <1>2, <1>15, <1>18, <1>19
  <2> QED BY <1>5, <1>17, <2>1, Walk2Effect
<1>21. Shape(r)
  BY <1>5, <1>17, findLastLirLru2Facts
<1>22. /\ SameStack(r, v) /\ SameFakes(r, v) /\ r.Rmax1 = v.Rmax1
       /\ r.Rmax2 = m.S[u] /\ r.Cursor = m.S[u] /\ r.len = b - (b - u)
       /\ LIRNumber(v, m.S[u], 2)
       /\ \A i \in u + 1 .. b - 1 : ~LIRNumber(v, m.S[i], 2)
       /\ \A i \in 1 .. Len(m.S) :
            r.inst[m.S[i]].recency2 <=>
              (v.inst[m.S[i]].recency2 /\ i \notin u + 1 .. b)
  BY <1>18, <1>20 DEF Walked2
<1>23. /\ r.S = m.S /\ ~r.segv
       /\ \A n \in Node :
            r.inst[n].which_instance = v.inst[n].which_instance
  BY <1>18, <1>22 DEF SameStack
<1>24. u \in 1 .. Len(m.S) /\ u < b /\ u \in Int /\ b \in Int /\ u >= g
  BY <1>0, <1>1, <1>2
<1>25. \A i \in u + 1 .. Len(m.S) : ~LIRNumber(v, m.S[i], 2)
  <2> SUFFICES ASSUME NEW i \in u + 1 .. Len(m.S)
               PROVE  ~LIRNumber(v, m.S[i], 2)
    OBVIOUS
  <2>1. i \in 1 .. Len(m.S) /\ i # 1 /\ i # g
    BY <1>1, <1>2, <1>24
  <2>2. CASE i \in u + 1 .. b - 1
    BY <1>22, <2>2
  <2>3. CASE i = b
    BY <1>12, <1>19, <2>1, <2>3 DEF LIRNumber
  <2>4. CASE i \in b + 1 .. Len(m.S)
    BY <1>2, <1>14, <1>19, <2>1, <2>4
  <2> QED BY <1>1, <1>24, <2>2, <2>3, <2>4
<1>26. Lowest(v, u, 2)
  BY <1>18, <1>22, <1>24, <1>25 DEF Lowest
<1>27. Lowest(r, u, 2)
  BY <1>17, <1>22, <1>26, SameStackKeeps
<1>28. \A n \in Node :
         r.inst[n].which_instance = m.inst[n].which_instance
  BY <1>7, <1>9, <1>18, <1>23
<1>29. SameFakes(r, m)
  BY <1>7, <1>9, <1>17, <1>22 DEF SameFakes
<1>30. Numbered(r.inst, r.S) /\ InOrder(r)
  <2>1. Numbered(m.inst, m.S)
    BY DEF Region
  <2>2. Numbered(r.inst, r.S)
    BY <1>23, <1>28, <2>1 DEF Numbered, Node
  <2>3. \A i \in 1 .. Len(m.S) :
          r.inst[m.S[i]].which_instance = m.inst[m.S[i]].which_instance
    BY <1>12, <1>28
  <2>4. InOrder(r)
    BY <1>23, <2>3 DEF InOrder
  <2> QED BY <2>2, <2>4
<1>31. Region(r, u, u)
  <2>1. r.len = u /\ u \in 1 .. u
    BY <1>22, <1>24
  <2>2. \A i \in u + 1 .. u : IsLIR(r, m.S[i])
    BY <1>24
  <2> QED BY <1>21, <1>22, <1>23, <1>27, <1>30, <2>1, <2>2 DEF Region
<1>32. Marked(r, u, 2)
  <2> SUFFICES ASSUME NEW i \in 2 .. Len(m.S)
               PROVE  r.inst[m.S[i]].recency2 <=> i <= u
    BY <1>23 DEF Marked
  <2>1. i \in 1 .. Len(m.S) /\ (m.inst[m.S[i]].recency2 <=> i <= b)
    BY <1>1 DEF Marked
  <2>2. v.inst[m.S[i]].recency2 <=> m.inst[m.S[i]].recency2 /\ m.S[i] # d
    BY <1>7, <1>9, <1>12, <1>17, <2>1
  <2>3. m.S[i] = d <=> i = b
    BY <1>1, <1>2, <2>1 DEF IsInjective
  <2> QED BY <1>1, <1>22, <1>24, <2>1, <2>2, <2>3
<1>33. \E x \in 1 .. Len(m.S) : First(r, x)
  <2>1. PICK x \in 1 .. Len(m.S) : First(v, x)
    BY <1>17
  <2>2. First(r, x)
    BY <1>17, <1>18, <1>22, <1>23, <2>1, SameStackKeeps DEF First
  <2> QED BY <2>2
<1>34. u <= b
  BY <1>24
<1>35. OrderKeptTo(r, m, b)
  BY <1>23, <1>24, <1>28, <1>29, <1>30, <1>31, <1>32, <1>33, <1>34
     DEF OrderKeptTo
<1> QED BY <1>35 DEF r

(* Two machines agree on the list, the pointers, the numbers and the       *)
(* pages' kinds.                                                           *)
SameOrder(r, m) ==
  /\ r.S = m.S /\ r.Rmax1 = m.Rmax1 /\ r.Rmax2 = m.Rmax2
  /\ r.Cursor = m.Cursor /\ r.len = m.len /\ (r.segv <=> m.segv)
  /\ \A n \in Node : /\ r.inst[n].which_instance = m.inst[n].which_instance
                     /\ IsLIR(r, n) <=> IsLIR(m, n)

(* The order of the stack depends on nothing else.                         *)
LEMMA OrderKept ==
  ASSUME NEW m, NEW a, NEW b, NEW c, First(m, a), Region(m, b, c),
         NEW r, Shape(r), SameOrder(r, m)
  PROVE  /\ First(r, a) /\ Region(r, b, c)
         /\ InOrder(m) => InOrder(r)
<1>1. /\ m.S \in Seq(Node) /\ Len(m.S) \in Nat /\ b \in 1 .. Len(m.S)
      /\ Numbered(m.inst, m.S) /\ c \in 1 .. b
  BY DEF Region, Lowest, Shape, Machines
<1>2. \A i \in 1 .. Len(m.S) :
        /\ m.S[i] \in Node
        /\ r.inst[m.S[i]].which_instance = m.inst[m.S[i]].which_instance
        /\ IsLIR(r, m.S[i]) <=> IsLIR(m, m.S[i])
  BY <1>1 DEF SameOrder
<1>3. /\ r.S = m.S /\ r.Rmax1 = m.Rmax1 /\ r.Rmax2 = m.Rmax2
      /\ r.Cursor = m.Cursor /\ r.len = m.len /\ (r.segv <=> m.segv)
  BY DEF SameOrder
<1>4. ASSUME NEW x, NEW k \in {1, 2}, Lowest(m, x, k) PROVE Lowest(r, x, k)
  <2>1. /\ x \in 1 .. Len(m.S) /\ LIRNumber(m, m.S[x], k)
        /\ \A i \in x + 1 .. Len(m.S) : ~LIRNumber(m, m.S[i], k)
    BY <1>4 DEF Lowest
  <2>2. \A i \in x + 1 .. Len(m.S) : i \in 1 .. Len(m.S)
    BY <1>1, <2>1
  <2>3. \A i \in 1 .. Len(m.S) :
          LIRNumber(r, m.S[i], k) <=> LIRNumber(m, m.S[i], k)
    BY <1>2 DEF LIRNumber
  <2> QED BY <1>3, <2>1, <2>2, <2>3 DEF Lowest
<1>5. First(r, a)
  BY <1>3, <1>4 DEF First
<1>6. Numbered(r.inst, r.S)
  BY <1>1, <1>3 DEF Numbered, SameOrder, Node
<1>7. \A i \in c + 1 .. b : IsLIR(r, m.S[i])
  <2>1. \A i \in c + 1 .. b : i \in 1 .. Len(m.S)
    BY <1>1
  <2> QED BY <1>2, <2>1 DEF Region
<1>8. Region(r, b, c)
  BY <1>3, <1>4, <1>6, <1>7 DEF Region
<1>9. InOrder(m) => InOrder(r)
  BY <1>2, <1>3 DEF InOrder
<1> QED BY <1>5, <1>8, <1>9

(* The nodes of a known page stand in the stack, the one numbered 1 above. *)
LEMMA KnownTwoNodes ==
  ASSUME StackOK, NEW p \in Page, Known(p),
         NEW m, m.S = S, m.inst = inst, InOrder(m)
  PROVE  \E h, q \in 1 .. Len(S) :
           /\ TwoNodes(m, p, h, q)
           /\ pointerInstance(p, 1) = S[h] /\ pointerInstance(p, 2) = S[q]
<1> DEFINE n1 == pointerInstance(p, 1)
           n2 == pointerInstance(p, 2)
<1>1. /\ n1 \in Range(S) /\ n2 \in Range(S) /\ n1 \in Node /\ n2 \in Node
      /\ n1 # n2 /\ n1[1] = p /\ n2[1] = p
      /\ {n1, n2} = {<<p, 1>>, <<p, 2>>}
  BY KnownNodes
<1>2. inst[n1].which_instance = 1 /\ inst[n2].which_instance = 2
  BY <1>1, ConstantsAssumption DEF pointerInstance
<1> HIDE DEF n1, n2
<1>3. S \in Seq(Node) /\ IsInjective(S) /\ Len(S) \in Nat
  BY DEF StackOK
<1>4. PICK h \in 1 .. Len(S) : S[h] = n1
  BY <1>1, <1>3 DEF Range
<1>5. PICK q \in 1 .. Len(S) : S[q] = n2
  BY <1>1, <1>3 DEF Range
<1>6. h < q
  <2>1. h # q
    BY <1>1, <1>4, <1>5
  <2>2. ~(q < h)
    BY <1>1, <1>2, <1>4, <1>5 DEF InOrder
  <2> QED BY <1>3, <2>1, <2>2
<1>7. ASSUME NEW i \in 1 .. Len(S), S[i][1] = p PROVE i = h \/ i = q
  <2>1. S[i] \in Node
    BY <1>3
  <2>2. S[i] = <<p, 1>> \/ S[i] = <<p, 2>>
    BY <1>7, <2>1 DEF Node
  <2>3. S[i] = n1 \/ S[i] = n2
    BY <1>1, <2>2
  <2> QED BY <1>3, <1>4, <1>5, <2>3 DEF IsInjective
<1>8. TwoNodes(m, p, h, q)
  BY <1>1, <1>2, <1>4, <1>5, <1>6, <1>7 DEF TwoNodes
<1> QED BY <1>4, <1>5, <1>8 DEF n1, n2

(* The last part of a later reference: p is resident, and its upper node   *)
(* stands in both regions (lines 442-446).                                 *)
Finish(m, p, n) ==
  [m EXCEPT !.table = [m.table EXCEPT ![p].isResident = TRUE],
            !.inst = [m.inst EXCEPT ![n] = [@ EXCEPT !.recency1 = TRUE,
                                                     !.recency2 = TRUE]]]

Finished(r, m, n) ==
  /\ SameOrder(r, m) /\ SameFakes(r, m)
  /\ \A e \in Node : r.inst[e].recency2 <=> m.inst[e].recency2 \/ e = n

(* It leaves the order of the stack alone and marks that node.             *)
LEMMA FinishFacts ==
  ASSUME NEW m, Shape(m), NEW p \in Page, NEW n \in Node
  PROVE  Finished(Finish(m, p, n), m, n)
<1> DEFINE t == [m.table EXCEPT ![p].isResident = TRUE]
           e == [m.inst[n] EXCEPT !.recency1 = TRUE, !.recency2 = TRUE]
           i == [m.inst EXCEPT ![n] = e]
           r == Finish(m, p, n)
<1>1. /\ m \in Machines /\ m.inst \in [Node -> InstanceFields]
      /\ m.table \in [Page -> Entries]
  BY DEF Shape, Machines
<1>2. \A q \in Page : t[q].isHIR_block = m.table[q].isHIR_block
  BY <1>1 DEF Entries
<1>3. /\ e.which_instance = m.inst[n].which_instance /\ e.recency2
      /\ e.fake_ins = m.inst[n].fake_ins
  <2> DEFINE f == m.inst[n]
             g == [f EXCEPT !.recency1 = TRUE]
  <2>1. f \in InstanceFields
    BY <1>1
  <2> HIDE DEF f
  <2>2. /\ g \in InstanceFields /\ g.which_instance = f.which_instance
        /\ g.fake_ins = f.fake_ins
    BY <2>1 DEF InstanceFields
  <2>3. [f EXCEPT !.recency1 = TRUE, !.recency2 = TRUE]
          = [g EXCEPT !.recency2 = TRUE]
    BY <2>1 DEF InstanceFields
  <2> HIDE DEF g
  <2>4. /\ [g EXCEPT !.recency2 = TRUE].which_instance = g.which_instance
        /\ [g EXCEPT !.recency2 = TRUE].fake_ins = g.fake_ins
        /\ [g EXCEPT !.recency2 = TRUE].recency2
    BY <2>2 DEF InstanceFields
  <2> QED BY <2>2, <2>3, <2>4 DEF f
<1> HIDE DEF e
<1>4. /\ i[n] = e /\ \A x \in Node \ {n} : i[x] = m.inst[x]
  BY <1>1
<1>5. r = [m EXCEPT !.table = t, !.inst = i]
  BY <1>1 DEF Finish, e
<1> HIDE DEF t, i
<1>6. /\ r.S = m.S /\ r.Rmax1 = m.Rmax1 /\ r.Rmax2 = m.Rmax2
      /\ r.Cursor = m.Cursor /\ r.len = m.len /\ r.segv = m.segv
      /\ r.table = t /\ r.inst = i
  BY <1>1, <1>5 DEF Machines
<1> HIDE DEF r
<1>7. \A x \in Node : /\ i[x].which_instance = m.inst[x].which_instance
                      /\ i[x].fake_ins <=> m.inst[x].fake_ins
                      /\ i[x].recency2 <=> m.inst[x].recency2 \/ x = n
  BY <1>3, <1>4
<1>8. \A x \in Node : IsLIR(r, x) <=> IsLIR(m, x)
  BY <1>2, <1>6 DEF IsLIR, Node
<1>9. Finished(r, m, n)
  BY <1>6, <1>7, <1>8 DEF Finished, SameOrder, SameFakes
<1> QED BY <1>9 DEF r

(* A later reference to a page leaves a stack in order, at most one node   *)
(* longer above Rmax2 (lines 378-446).                                     *)
LEMMA RetouchOrder ==
  ASSUME StackOK, NEW p \in Page, Known(p),
         NEW table \in [Page -> Entries], NEW queue \in Seq(Node),
         NEW lirs \in Nat, Ordered(Machine(table, queue, lirs)),
         NEW h, NEW q, TwoNodes(Machine(table, queue, lirs), p, h, q),
         pointerInstance(p, 1) = S[h], pointerInstance(p, 2) = S[q]
  PROVE  LET m == Machine(table, queue, lirs)
             r == Retouch(m, p)
         IN  /\ Ordered(r) /\ r.len <= cur_lir_S_len + 1
             /\ r.S = ToHead(S, q) /\ Swapped(r, m, h, q)
<1> DEFINE m == Machine(table, queue, lirs)
           n2 == pointerInstance(p, 2)
           moved == MoveToTop(m, p)
           promoted == m.table[p].isHIR_block /\ Promotable(p)
           base == IF promoted THEN Promote(moved, p) ELSE moved
           placed == IF ~m.table[p].isHIR_block THEN moved
                     ELSE IF Promotable(p) THEN Promote(moved, p)
                     ELSE [moved EXCEPT !.Q = <<n2>> \o moved.Q]
           r == Retouch(m, p)
           s == ToHead(S, q)
<1>1. /\ m.S = S /\ m.inst = inst /\ m.table = table /\ m.Rmax1 = Rmax1
      /\ m.Rmax2 = Rmax2 /\ m.Cursor = Cursor /\ m.len = cur_lir_S_len
  BY DEF Machine
<1>2. PICK a, b, c \in 1 .. Len(m.S) :
        First(m, a) /\ Region(m, b, c) /\ Marked(m, b, 1)
  BY DEF Ordered
<1>3. InOrder(m)
  BY DEF Ordered
<1> HIDE DEF m
<1>4. /\ b \in 1 .. Len(S) /\ S \in Seq(Node) /\ IsInjective(S)
      /\ Len(S) \in Nat /\ b = cur_lir_S_len /\ IsLIR(m, S[b])
      /\ Rmax2 = S[b]
  BY <1>1, <1>2 DEF Region, Lowest, LIRNumber, Shape, Machines
<1>5. /\ h \in 1 .. Len(S) /\ q \in 1 .. Len(S) /\ h < q
      /\ S[h][1] = p /\ S[q][1] = p
      /\ \A i \in 1 .. Len(S) : S[i][1] = p => i = h \/ i = q
      /\ TwoNodes(m, p, h, q)
  BY <1>1 DEF TwoNodes, m
<1>6. r = Finish(placed, p, n2)
  BY DEF Retouch, Finish
<1>7. n2 = S[q] /\ n2 \in Node
  BY <1>4, <1>5
<1>30. /\ \E a2, b2, c2 \in 1 .. Len(m.S) :
             /\ First(moved, a2) /\ Region(moved, b2, c2) /\ Marked(moved, b2, 2)
             /\ b2 <= b + 1 /\ (q < b => h + 1 < b2)
       /\ InOrder(moved) /\ moved.S = ToHead(m.S, q) /\ Swapped(moved, m, h, q)
       /\ moved.table = m.table /\ moved.Q = m.Q /\ moved.lirs = m.lirs
  <2>1. pointerInstance(p, 1) = m.S[h] /\ pointerInstance(p, 2) = m.S[q]
    BY <1>1
  <2> HIDE DEF moved, n2
  <2> QED BY <1>2, <1>3, <1>5, <2>1, MoveToTopOrder DEF moved
<1>8. PICK a2, b2, c2 \in 1 .. Len(S) :
        /\ First(moved, a2) /\ Region(moved, b2, c2) /\ Marked(moved, b2, 2)
        /\ b2 <= b + 1 /\ (q < b => h + 1 < b2)
  BY <1>1, <1>30
<1>9. /\ InOrder(moved) /\ moved.S = s /\ Swapped(moved, m, h, q)
      /\ moved.table = table /\ moved.Q = queue /\ moved.lirs = lirs
  <2>1. m.Q = queue /\ m.lirs = lirs
    BY DEF m, Machine
  <2> QED BY <1>1, <1>30, <2>1
<1> HIDE DEF n2, moved, r
<1>10. /\ Len(s) = Len(S) /\ s[1] = S[q] /\ s \in Seq(Node) /\ IsInjective(s)
       /\ \A i \in 2 .. Len(S) : s[i] = IF i <= q THEN S[i - 1] ELSE S[i]
  <2>1. S \in Seq(Node) /\ IsInjective(S) /\ q \in 1 .. Len(S)
    BY <1>4, <1>5
  <2> QED BY <2>1, ToHeadFacts
<1> HIDE DEF s
<1>11. \E a3, b3, c3 \in 1 .. Len(S) :
         /\ First(base, a3) /\ Region(base, b3, c3) /\ Marked(base, b3, 2)
         /\ b3 <= b + 1
         /\ InOrder(base) /\ base.S = s /\ SameFakes(base, moved)
         /\ \A n \in Node :
              base.inst[n].which_instance = moved.inst[n].which_instance
  <2>1. CASE ~promoted
    <3>1. base = moved
      BY <2>1
    <3> HIDE DEF base
    <3> QED BY <1>8, <1>9, <3>1 DEF SameFakes
  <2>2. CASE promoted
    <3>1. base = Promote(moved, p)
      BY <2>2
    <3>2. table[p].isHIR_block /\ inst[S[q]].recency2
      BY <1>1, <1>7, <2>2 DEF Promotable, n2
    <3> HIDE DEF base, promoted
    <3>3. q < b
      <4>1. q <= b
        BY <1>1, <1>2, <1>5, <3>2 DEF Marked
      <4>2. q # b
        BY <1>1, <1>4, <1>5, <3>2 DEF IsLIR
      <4> QED BY <1>4, <1>5, <4>1, <4>2
    <3>4. h + 1 \in 2 .. b2 - 1 /\ h + 1 \in 2 .. Len(S) /\ h + 1 <= q
      BY <1>4, <1>5, <1>8, <3>3
    <3>5. s[h + 1] = S[h]
      <4>1. (h + 1) - 1 = h
        BY <1>5
      <4> QED BY <1>10, <3>4, <4>1
    <3>6. ASSUME NEW i \in 1 .. Len(s), s[i][1] = p
          PROVE  i = 1 \/ i = h + 1
      <4>1. CASE i # 1
        <5>1. i \in 2 .. Len(S)
          BY <1>4, <1>10, <4>1
        <5>2. CASE i <= q
          <6>1. i - 1 \in 1 .. Len(S) /\ S[i - 1][1] = p /\ i - 1 # q
            BY <1>4, <1>5, <1>10, <3>6, <5>1, <5>2
          <6> QED BY <1>5, <5>1, <6>1
        <5>3. CASE ~(i <= q)
          <6>1. i \in 1 .. Len(S) /\ S[i][1] = p
            BY <1>4, <1>10, <3>6, <5>1, <5>3
          <6> QED BY <1>4, <1>5, <5>1, <5>3, <6>1
        <5> QED BY <5>2, <5>3
      <4> QED BY <4>1
    <3>7. /\ moved.inst[s[1]].which_instance = 1
          /\ moved.inst[s[h + 1]].which_instance = 2
      BY <1>1, <1>9, <1>10, <3>5 DEF Swapped
    <3>8. s[1][1] = p /\ s[h + 1][1] = p
      BY <1>5, <1>10, <3>5
    <3> DEFINE g == h + 1
               done == Promote(moved, p)
    <3>9. OnTop(moved, p, g, b2)
      BY <1>9, <3>2, <3>4, <3>6, <3>7, <3>8 DEF OnTop
    <3>10. OrderKeptTo(done, moved, b2)
      BY <1>8, <1>9, <3>9, PromoteOrder
    <3> HIDE DEF done
    <3>11. base = done
      BY <3>1 DEF done
    <3>12. PICK a3, b3, c3 \in 1 .. Len(moved.S) :
            /\ First(base, a3) /\ Region(base, b3, c3) /\ Marked(base, b3, 2)
            /\ b3 <= b2
      BY <3>10, <3>11 DEF OrderKeptTo
    <3>13. /\ a3 \in 1 .. Len(S) /\ b3 \in 1 .. Len(S) /\ c3 \in 1 .. Len(S)
           /\ b3 <= b + 1
      BY <1>4, <1>8, <1>9, <1>10, <3>12
    <3> QED BY <1>9, <3>10, <3>11, <3>12, <3>13 DEF OrderKeptTo
  <2> QED BY <2>1, <2>2
<1>12. PICK a3, b3, c3 \in 1 .. Len(S) :
         /\ First(base, a3) /\ Region(base, b3, c3) /\ Marked(base, b3, 2)
         /\ b3 <= b + 1
         /\ InOrder(base) /\ base.S = s /\ SameFakes(base, moved)
         /\ \A n \in Node :
              base.inst[n].which_instance = moved.inst[n].which_instance
  BY <1>11
<1>13. Shape(base) /\ Shape(moved)
  BY <1>8, <1>12 DEF Region
<1>14. /\ SameOrder(placed, base) /\ placed.inst = base.inst /\ Shape(placed)
  <2>1. CASE ~table[p].isHIR_block \/ Promotable(p)
    <3>1. placed = base
      BY <1>1, <2>1
    <3> HIDE DEF placed, base
    <3> QED BY <1>13, <3>1 DEF SameOrder
  <2>2. CASE table[p].isHIR_block /\ ~Promotable(p)
    <3> DEFINE newQ == <<n2>> \o moved.Q
    <3>1. placed = [moved EXCEPT !.Q = newQ] /\ base = moved
      BY <1>1, <2>2
    <3>2. newQ \in Seq(Node)
      BY <1>7, <1>9
    <3> HIDE DEF placed, newQ, base
    <3>3. placed \in Machines
      BY <1>13, <3>1, <3>2 DEF Shape, Machines
    <3>4. /\ placed.S = moved.S /\ placed.inst = moved.inst
          /\ placed.table = moved.table /\ placed.Rmax1 = moved.Rmax1
          /\ placed.Rmax2 = moved.Rmax2 /\ placed.Cursor = moved.Cursor
          /\ placed.len = moved.len /\ placed.segv = moved.segv
      BY <1>13, <3>1 DEF Shape, Machines
    <3> QED BY <1>13, <3>1, <3>3, <3>4 DEF Shape, SameOrder, IsLIR
  <2> QED BY <2>1, <2>2
<1> HIDE DEF placed, base
<1>15. Finished(r, placed, n2)
  BY <1>6, <1>7, <1>14, FinishFacts
<1>16. /\ SameOrder(r, base) /\ SameFakes(r, base)
       /\ \A e \in Node : r.inst[e].recency2 <=> base.inst[e].recency2 \/ e = n2
  <2>1. SameOrder(r, placed) /\ SameFakes(r, placed)
    BY <1>15 DEF Finished
  <2>2. SameOrder(r, base)
    BY <1>14, <2>1 DEF SameOrder
  <2> QED BY <1>14, <1>15, <2>1, <2>2 DEF Finished, SameFakes
<1>17. Shape(r)
  <2>1. ~table[Rmax2[1]].isHIR_block /\ S # <<>>
    BY <1>1, <1>4 DEF IsLIR
  <2>2. Shape(Retouch(Machine(table, queue, lirs), p))
    BY <2>1, RetouchFacts
  <2> QED BY <2>2 DEF r, m
<1>18. First(r, a3) /\ Region(r, b3, c3) /\ InOrder(r)
  BY <1>12, <1>16, <1>17, OrderKept
<1>19. r.S = s
  BY <1>12, <1>16 DEF SameOrder
<1>20. Marked(r, b3, 1)
  <2> SUFFICES ASSUME NEW i \in 1 .. Len(s)
               PROVE  r.inst[s[i]].recency2 <=> i <= b3
    BY <1>19 DEF Marked
  <2>1. s[i] \in Node
    BY <1>10
  <2>2. CASE i = 1
    BY <1>7, <1>10, <1>16, <2>1, <2>2
  <2>3. CASE i # 1
    <3>1. i \in 2 .. Len(s)
      BY <1>4, <1>10, <2>3
    <3>2. base.inst[s[i]].recency2 <=> i <= b3
      BY <1>12, <3>1 DEF Marked
    <3>4. 1 \in 1 .. Len(s) /\ i # 1 /\ IsInjective(s)
      BY <1>4, <1>10, <2>3, <3>1
    <3>5. s[1] = n2
      BY <1>7, <1>10
    <3>3. s[i] # s[1]
      <4>1. i \in DOMAIN s /\ 1 \in DOMAIN s
        BY <1>10, <3>1, <3>4
      <4> QED BY <3>4, <4>1 DEF IsInjective
    <3> QED BY <1>16, <2>1, <3>2, <3>3, <3>5
  <2> QED BY <2>2, <2>3
<1>21. r.len <= cur_lir_S_len + 1
  <2>1. r.len = b3
    BY <1>18 DEF Region
  <2>2. b3 <= b + 1
    BY <1>12
  <2>3. b = cur_lir_S_len
    BY <1>4
  <2> QED BY <2>1, <2>2, <2>3
<1>22. Swapped(r, m, h, q)
  <2>3. S[h] \in Node /\ S[q] \in Node
    BY <1>4, <1>5, ElementOfSeq
  <2>1. m.S[h] \in Node /\ m.S[q] \in Node
    BY <1>1, <2>3
  <2>2. \A n \in Node :
          /\ r.inst[n].which_instance = moved.inst[n].which_instance
          /\ r.inst[n].fake_ins <=> moved.inst[n].fake_ins
    BY <1>12, <1>16 DEF SameOrder, SameFakes
  <2> QED BY <1>9, <2>1, <2>2 DEF Swapped
<1>23. Ordered(r)
  <2>1. a3 \in 1 .. Len(r.S) /\ b3 \in 1 .. Len(r.S) /\ c3 \in 1 .. Len(r.S)
    BY <1>10, <1>12, <1>19
  <2> QED BY <1>18, <1>20, <2>1 DEF Ordered
<1> QED BY <1>19, <1>21, <1>22, <1>23 DEF r, m, s

-----------------------------------------------------------------------------
(* The pruning.                                                            *)

(* Nodes of LIR pages that follow each other in the stack are at most two  *)
(* for each LIR page.                                                      *)
LEMMA LIRRunShort ==
  ASSUME NEW m, Shape(m), IsFiniteSet(LIRIn(m.table)),
         NEW x \in Nat \ {0}, NEW y \in 1 .. Len(m.S),
         \A i \in x .. y : IsLIR(m, m.S[i])
  PROVE  y - x + 1 <= 2 * Cardinality(LIRIn(m.table))
<1> DEFINE lir == LIRIn(m.table)
           nodes == lir \X (1 .. 2)
           run == [i \in x .. y |-> m.S[i]]
<1>1. m.S \in Seq(Node) /\ IsInjective(m.S) /\ Len(m.S) \in Nat
  BY DEF Shape, Machines
<1>2. run \in Injection(x .. y, nodes)
  <2>1. ASSUME NEW i \in x .. y PROVE m.S[i] \in nodes
    <3>1. i \in 1 .. Len(m.S)
      BY <1>1
    <3>2. m.S[i] \in Page \X {1, 2}
      BY <1>1, <3>1 DEF Node
    <3>3. m.S[i][1] \in lir
      BY <3>2 DEF IsLIR, LIRIn
    <3>4. m.S[i] = <<m.S[i][1], m.S[i][2]>> /\ m.S[i][2] \in 1 .. 2
      BY <3>2
    <3> QED BY <3>3, <3>4
  <2>2. \A i, j \in x .. y : m.S[i] = m.S[j] => i = j
    <3>1. \A i \in x .. y : i \in 1 .. Len(m.S)
      BY <1>1
    <3> QED BY <1>1, <3>1 DEF IsInjective
  <2> HIDE DEF nodes
  <2> QED BY <2>1, <2>2 DEF Injection, IsInjective
<1>3. IsFiniteSet(1 .. 2) /\ Cardinality(1 .. 2) = 2
  <2> DEFINE two == 2
  <2>1. two \in Int /\ 1 \in Int /\ two = 2
    OBVIOUS
  <2> HIDE DEF two
  <2>2. /\ IsFiniteSet(1 .. two)
        /\ Cardinality(1 .. two) = IF 1 > two THEN 0 ELSE two - 1 + 1
    BY <2>1, FS_Interval
  <2> QED BY <2>1, <2>2
<1>4. IsFiniteSet(nodes) /\ Cardinality(nodes) = Cardinality(lir) * 2
  BY <1>3, FS_Product
<1> HIDE DEF run, nodes
<1>5. Cardinality(x .. y) <= Cardinality(nodes)
  BY <1>2, <1>4, FS_Injection
<1>6. Cardinality(x .. y) = IF x > y THEN 0 ELSE y - x + 1
  BY <1>1, FS_Interval
<1>7. Cardinality(lir) \in Nat
  BY FS_CardinalityType
<1> HIDE DEF lir
<1>8. y - x + 1 <= Cardinality(lir) * 2
  BY <1>1, <1>4, <1>5, <1>6, <1>7
<1>9. Cardinality(lir) * 2 = 2 * Cardinality(lir)
  BY <1>7
<1> QED BY <1>8, <1>9 DEF lir

(* The element at position k moves down to position b.                     *)
Sunk(r, s, k, b) ==
  /\ Len(r) = Len(s)
  /\ \A j \in 1 .. Len(s) :
       r[j] = IF j < k THEN s[j]
              ELSE IF j < b THEN s[j + 1]
              ELSE IF j = b THEN s[k] ELSE s[j]

(* Unlinking an element and linking it below a lower one does that.        *)
LEMMA SinkFacts ==
  ASSUME NEW A, NEW s \in Seq(A), IsInjective(s), NEW k \in 1 .. Len(s),
         NEW b \in k + 1 .. Len(s)
  PROVE  Sunk(InsertBelow(RemoveNode(s, s[k]), s[k], s[b]), s, k, b)
<1> DEFINE rest == RemoveAt(s, k)
           a == s[k]
<1>1. /\ rest \in Seq(A) /\ IsInjective(rest) /\ Range(rest) = Range(s) \ {a}
      /\ Len(rest) = Len(s) - 1
      /\ \A j \in 1 .. Len(s) - 1 : rest[j] = IF j < k THEN s[j] ELSE s[j + 1]
  BY RemoveAtFacts
<1>2. a \in A /\ a = s[k] /\ Len(s) \in Nat
  OBVIOUS
<1>3. RemoveNode(s, a) = rest
  BY PosOf DEF RemoveNode
<1> HIDE DEF rest, a
<1>4. b - 1 \in 1 .. Len(rest) /\ rest[b - 1] = s[b]
  <2>1. b - 1 \in 1 .. Len(s) - 1 /\ ~(b - 1 < k) /\ (b - 1) + 1 = b
    BY <1>2
  <2> QED BY <1>1, <2>1
<1>5. Pos(rest, s[b]) = b - 1
  BY <1>1, <1>4, PosOf
<1>6. InsertBelow(rest, a, s[b]) = InsertAt(rest, b, a)
  BY <1>5, <1>2 DEF InsertBelow
<1> DEFINE r == InsertAt(rest, b, a)
<1>7. /\ Len(r) = Len(rest) + 1
      /\ \A j \in 1 .. Len(rest) + 1 :
           r[j] = IF j < b THEN rest[j] ELSE IF j = b THEN a ELSE rest[j - 1]
  <2>1. b \in 1 .. Len(rest) + 1 /\ a \notin Range(rest)
    BY <1>1, <1>2
  <2> QED BY <1>1, <1>2, <2>1, InsertAtFacts
<1> HIDE DEF r
<1>8. Len(r) = Len(s)
  BY <1>1, <1>2, <1>7
<1>9. ASSUME NEW j \in 1 .. Len(s)
      PROVE  r[j] = IF j < k THEN s[j]
                    ELSE IF j < b THEN s[j + 1]
                    ELSE IF j = b THEN s[k] ELSE s[j]
  <2>1. r[j] = IF j < b THEN rest[j] ELSE IF j = b THEN a ELSE rest[j - 1]
    BY <1>1, <1>2, <1>7
  <2>2. CASE j < b
    <3>1. j \in 1 .. Len(s) - 1
      BY <1>2, <2>2
    <3> QED BY <1>1, <2>1, <2>2, <3>1
  <2>3. CASE j = b
    BY <1>2, <2>1, <2>3
  <2>4. CASE j > b
    <3>1. j - 1 \in 1 .. Len(s) - 1 /\ ~(j - 1 < k) /\ (j - 1) + 1 = j
      BY <1>2, <2>4
    <3> QED BY <1>1, <2>1, <2>4, <3>1
  <2> QED BY <1>2, <2>2, <2>3, <2>4
<1>10. Sunk(r, s, k, b)
  BY <1>8, <1>9 DEF Sunk
<1> QED BY <1>3, <1>6, <1>10 DEF r, a

(* What one turn of the pruning does, the HIR node to prune at position k. *)
Pruned(r, m, k, b) ==
  /\ r.table = m.table /\ r.Q = m.Q /\ r.lirs = m.lirs
  /\ r.Rmax1 = m.Rmax1 /\ r.Rmax2 = m.Rmax2 /\ r.Cursor = m.S[k - 1]
  /\ r.len = m.len - 1 /\ (r.segv <=> m.segv)
  /\ Sunk(r.S, m.S, k, b) /\ SameFakes(r, m)
  /\ \A n \in Node :
       /\ r.inst[n].which_instance = m.inst[n].which_instance
       /\ r.inst[n].recency2 <=> m.inst[n].recency2 /\ n # m.S[k]

(* The nodes above Rmax2 are more than LIR pages can have: the pruning     *)
(* finds a HIR node below the head (lines 230-240).                        *)
LEMMA PruneOnceEffect ==
  ASSUME NEW m, NEW b, NEW c, Region(m, b, c), m.len > MAX_S_LEN,
         IsFiniteSet(LIRIn(m.table)),
         MAX_S_LEN > 2 * Cardinality(LIRIn(m.table))
  PROVE  \E k \in 2 .. c :
           /\ ~IsLIR(m, m.S[k]) /\ \A i \in k + 1 .. b : IsLIR(m, m.S[i])
           /\ Pruned(PruneOnce(m), m, k, b)
<1> DEFINE hir == {i \in 1 .. c : ~IsLIR(m, m.S[i])}
           k == Max(hir)
           n == m.S[k]
           above == Above(m.S, n)
           unmarked == [m.inst EXCEPT ![n] = Unmark(@)]
           sunk == InsertBelow(RemoveNode(m.S, n), n, m.Rmax2)
           r == PruneOnce(m)
<1>1. /\ Shape(m) /\ m \in Machines /\ m.S \in Seq(Node) /\ IsInjective(m.S)
      /\ m.inst \in [Node -> InstanceFields] /\ Len(m.S) \in Nat
      /\ ~m.segv /\ m.len = b
  BY DEF Region, Shape, Machines
<1>2. /\ b \in 1 .. Len(m.S) /\ c \in 1 .. b /\ m.Rmax2 = m.S[b]
      /\ m.Cursor = m.S[c] /\ \A i \in c + 1 .. b : IsLIR(m, m.S[i])
      /\ IsLIR(m, m.S[b])
  BY DEF Region, Lowest, LIRNumber
<1>3. \E i \in 2 .. c : ~IsLIR(m, m.S[i])
  <2> SUFFICES ASSUME \A i \in 2 .. c : IsLIR(m, m.S[i]) PROVE FALSE
    OBVIOUS
  <2>1. \A i \in 2 .. b : IsLIR(m, m.S[i])
    BY <1>1, <1>2
  <2>2. b - 2 + 1 <= 2 * Cardinality(LIRIn(m.table))
    <3> DEFINE x == 2
    <3>1. x \in Nat \ {0} /\ \A i \in x .. b : IsLIR(m, m.S[i])
      BY <2>1
    <3> HIDE DEF x
    <3>2. b - x + 1 <= 2 * Cardinality(LIRIn(m.table))
      BY <1>1, <1>2, <3>1, LIRRunShort
    <3> QED BY <3>2 DEF x
  <2>3. Cardinality(LIRIn(m.table)) \in Nat
    BY FS_CardinalityType
  <2> HIDE DEF hir
  <2> QED BY <1>1, <1>2, <2>2, <2>3, ConstantsAssumption
<1>4. hir \subseteq 1 .. c /\ c \in Nat /\ hir # {}
  <2>1. PICK i \in 2 .. c : ~IsLIR(m, m.S[i])
    BY <1>3
  <2>2. i \in hir
    BY <1>1, <1>2, <2>1
  <2> QED BY <1>1, <1>2, <2>2
<1>5. k \in hir /\ \A i \in hir : i <= k
  <2> HIDE DEF hir
  <2> QED BY <1>4, MaxExists
<1>6. k \in 2 .. c /\ ~IsLIR(m, n)
  <2>1. PICK i \in 2 .. c : ~IsLIR(m, m.S[i])
    BY <1>3
  <2>2. i \in hir /\ i <= k
    BY <1>1, <1>2, <1>5, <2>1
  <2>3. k \in 1 .. c /\ ~IsLIR(m, m.S[k])
    BY <1>5
  <2> HIDE DEF k
  <2> QED BY <1>1, <1>2, <2>1, <2>2, <2>3
<1>7. \A i \in k + 1 .. b : IsLIR(m, m.S[i])
  <2> SUFFICES ASSUME NEW i \in k + 1 .. b, ~IsLIR(m, m.S[i]) PROVE FALSE
    OBVIOUS
  <2>1. i \in 1 .. c
    BY <1>1, <1>2, <1>6
  <2>2. i \in hir
    BY <2>1
  <2>3. i <= k
    BY <1>5, <2>2
  <2> HIDE DEF k
  <2> QED BY <1>2, <1>6, <2>1, <2>3
<1>8. m.Cursor # NULL /\ Pos(m.S, m.Cursor) = c
  <2>1. m.S[c] \in Node /\ c \in 1 .. Len(m.S)
    BY <1>1, <1>2
  <2> QED BY <1>1, <1>2, <2>1, PosOf, ConstantsAssumption
<1>9. r = [m EXCEPT !.Cursor = above, !.inst[n] = Unmark(@), !.S = sunk,
                    !.len = m.len - 1]
  BY <1>1, <1>4, <1>8, <1>2, ConstantsAssumption DEF PruneOnce
<1> HIDE DEF hir, k
<1>10. k \in 1 .. Len(m.S) /\ b \in k + 1 .. Len(m.S) /\ n \in Node
  <2>1. k # b
    BY <1>2, <1>6
  <2> QED BY <1>1, <1>2, <1>6, <2>1
<1>11. above = m.S[k - 1]
  <2>1. Pos(m.S, n) = k /\ k # 1
    BY <1>1, <1>6, <1>10, PosOf
  <2> QED BY <2>1 DEF Above
<1>12. Sunk(sunk, m.S, k, b)
  BY <1>1, <1>2, <1>10, SinkFacts
<1>13. r = [m EXCEPT !.Cursor = above, !.inst = unmarked, !.S = sunk,
                     !.len = m.len - 1]
  BY <1>1, <1>9 DEF Machines
<1>14. \A e \in Node :
         /\ unmarked[e].which_instance = m.inst[e].which_instance
         /\ unmarked[e].fake_ins <=> m.inst[e].fake_ins
         /\ unmarked[e].recency2 <=> m.inst[e].recency2 /\ e # n
  <2> HIDE DEF n
  <2> QED BY <1>1, <1>10 DEF InstanceFields, Unmark
<1> HIDE DEF above, unmarked, sunk
<1>15. /\ r.table = m.table /\ r.Q = m.Q /\ r.lirs = m.lirs
       /\ r.Rmax1 = m.Rmax1 /\ r.Rmax2 = m.Rmax2 /\ r.Cursor = above
       /\ r.len = m.len - 1 /\ r.segv = m.segv
       /\ r.S = sunk /\ r.inst = unmarked
  BY <1>1, <1>13 DEF Machines
<1> HIDE DEF r
<1>16. Pruned(r, m, k, b)
  BY <1>11, <1>12, <1>14, <1>15 DEF Pruned, SameFakes
<1> QED BY <1>6, <1>7, <1>16 DEF r

(* One turn of the pruning leaves a stack in order, one node shorter above *)
(* Rmax2.                                                                  *)
LEMMA PruneOnceOrder ==
  ASSUME NEW m, Ordered(m), m.len > MAX_S_LEN,
         IsFiniteSet(LIRIn(m.table)),
         MAX_S_LEN > 2 * Cardinality(LIRIn(m.table))
  PROVE  LET r == PruneOnce(m)
         IN  /\ Ordered(r) /\ r.len = m.len - 1
             /\ SameFrames(r, m) /\ SameNumbers(r, m) /\ SameFakes(r, m)
<1> DEFINE r == PruneOnce(m)
<1>1. PICK a, b, c \in 1 .. Len(m.S) :
        First(m, a) /\ Region(m, b, c) /\ Marked(m, b, 1)
  BY DEF Ordered
<1>2. InOrder(m)
  BY DEF Ordered
<1>3. /\ Shape(m) /\ m.S \in Seq(Node) /\ IsInjective(m.S) /\ Len(m.S) \in Nat
      /\ ~m.segv /\ m.len = b /\ Numbered(m.inst, m.S)
      /\ m.Rmax2 = m.S[b] /\ LIRNumber(m, m.S[b], 2)
      /\ \A i \in b + 1 .. Len(m.S) : ~LIRNumber(m, m.S[i], 2)
  BY <1>1 DEF Region, Lowest, Shape, Machines
<1>4. /\ m.Rmax1 = m.S[a] /\ LIRNumber(m, m.S[a], 1)
      /\ \A i \in a + 1 .. Len(m.S) : ~LIRNumber(m, m.S[i], 1)
  BY <1>1 DEF First, Lowest
<1>5. IsLIR(m, m.Rmax2)
  BY <1>3 DEF LIRNumber
<1>6. /\ Shape(r) /\ SameFrames(r, m) /\ SameNumbers(r, m)
  BY <1>3, <1>5, PruneOnceFacts
<1>7. PICK k \in 2 .. c :
        /\ ~IsLIR(m, m.S[k]) /\ \A i \in k + 1 .. b : IsLIR(m, m.S[i])
        /\ Pruned(r, m, k, b)
  BY <1>1, PruneOnceEffect
<1> HIDE DEF r
<1>8. /\ k \in 1 .. Len(m.S) /\ k < b /\ k - 1 \in 1 .. b - 1
  <2>1. c <= b
    BY <1>1 DEF Region
  <2>2. k # b
    BY <1>3, <1>7 DEF LIRNumber
  <2> QED BY <1>1, <1>3, <1>7, <2>1, <2>2
<1>9. /\ Len(r.S) = Len(m.S)
      /\ \A j \in 1 .. Len(m.S) :
           r.S[j] = IF j < k THEN m.S[j]
                    ELSE IF j < b THEN m.S[j + 1]
                    ELSE IF j = b THEN m.S[k] ELSE m.S[j]
  BY <1>7 DEF Pruned, Sunk
<1>10. /\ r.Rmax1 = m.Rmax1 /\ r.Rmax2 = m.Rmax2 /\ r.Cursor = m.S[k - 1]
       /\ r.len = m.len - 1 /\ ~r.segv /\ SameFakes(r, m)
       /\ \A n \in Node :
            /\ r.inst[n].which_instance = m.inst[n].which_instance
            /\ r.inst[n].recency2 <=> m.inst[n].recency2 /\ n # m.S[k]
  BY <1>3, <1>7 DEF Pruned
<1>11. \A n \in Node, e \in {1, 2} :
         /\ IsLIR(r, n) <=> IsLIR(m, n)
         /\ LIRNumber(r, n, e) <=> LIRNumber(m, n, e)
  BY <1>6, <1>10 DEF SameFrames, IsLIR, LIRNumber
<1>12. \A i \in 1 .. Len(m.S) : m.S[i] \in Node
  BY <1>3
(* Which position of m's stack position j of r's holds.                    *)
<1> DEFINE from(j) == IF j < k THEN j ELSE IF j < b THEN j + 1
                      ELSE IF j = b THEN k ELSE j
<1>13. \A j \in 1 .. Len(m.S) : from(j) \in 1 .. Len(m.S) /\ r.S[j] = m.S[from(j)]
  BY <1>1, <1>3, <1>8, <1>9
<1>14. \A i, j \in 1 .. Len(m.S) :
         i < j => from(i) < from(j) \/ (j = b /\ i \in k .. b - 1)
  BY <1>1, <1>3, <1>8
<1>15. \A j \in 1 .. Len(m.S) :
         /\ j < b <=> from(j) <= b /\ from(j) # k
         /\ from(j) = b <=> j = b - 1
         /\ from(j) = k <=> j = b
         /\ j > b => from(j) = j
         /\ j \in k .. b - 1 => from(j) \in k + 1 .. b
  BY <1>1, <1>3, <1>8
<1>16. from(b - 1) = b
  BY <1>8, <1>1, <1>3
<1>17. \E x \in 1 .. Len(m.S) : from(x) = a
  <2>1. a # k
    BY <1>4, <1>7 DEF LIRNumber
  <2>2. CASE a < k
    BY <2>2, <1>8, <1>1
  <2>3. CASE k < a /\ a <= b
    <3>1. a - 1 \in 1 .. Len(m.S) /\ from(a - 1) = a
      BY <2>3, <1>8, <1>1, <1>3
    <3> QED BY <3>1
  <2>4. CASE b < a
    <3>1. from(a) = a
      BY <2>4, <1>8, <1>1, <1>3
    <3> QED BY <3>1
  <2> QED BY <2>1, <2>2, <2>3, <2>4, <1>1, <1>8
<1> HIDE DEF from
<1>18. \A j \in 1 .. Len(m.S), e \in {1, 2} :
         LIRNumber(r, r.S[j], e) <=> LIRNumber(m, m.S[from(j)], e)
  <2> TAKE j \in 1 .. Len(m.S), e \in {1, 2}
  <2>1. r.S[j] = m.S[from(j)] /\ m.S[from(j)] \in Node
    BY <1>12, <1>13
  <2> QED BY <1>11, <2>1
<1>19. ~LIRNumber(m, m.S[k], 1) /\ ~LIRNumber(m, m.S[k], 2)
  BY <1>7 DEF LIRNumber
<1>20. \E x \in 1 .. Len(m.S) : First(r, x)
  <2>1. PICK x \in 1 .. Len(m.S) : from(x) = a
    BY <1>17
  <2>2. ASSUME NEW i \in x + 1 .. Len(m.S) PROVE ~LIRNumber(r, r.S[i], 1)
    <3>1. i \in 1 .. Len(m.S) /\ x < i
      BY <1>3
    <3>2. from(x) < from(i) \/ i = b
      BY <1>14, <3>1
    <3>3. CASE i = b
      BY <1>15, <1>18, <1>19, <3>1, <3>3
    <3>4. CASE from(x) < from(i)
      <4>1. from(i) \in a + 1 .. Len(m.S)
        BY <1>3, <1>13, <2>1, <3>1, <3>4
      <4> QED BY <1>4, <1>18, <3>1, <4>1
    <3> QED BY <3>2, <3>3, <3>4
  <2>3. LIRNumber(r, r.S[x], 1) /\ r.Rmax1 = r.S[x]
    BY <1>4, <1>10, <1>13, <1>18, <2>1
  <2> QED BY <1>9, <2>2, <2>3 DEF First, Lowest
<1>21. Lowest(r, b - 1, 2) /\ r.Rmax2 = r.S[b - 1]
  <2>1. b - 1 \in 1 .. Len(m.S)
    BY <1>1, <1>3, <1>8
  <2>2. LIRNumber(r, r.S[b - 1], 2) /\ r.Rmax2 = r.S[b - 1]
    BY <1>3, <1>10, <1>13, <1>16, <1>18, <2>1
  <2>3. ASSUME NEW i \in (b - 1) + 1 .. Len(m.S) PROVE ~LIRNumber(r, r.S[i], 2)
    <3>1. i \in 1 .. Len(m.S) /\ (i = b \/ i > b)
      BY <1>1, <1>3
    <3>2. CASE i = b
      BY <1>15, <1>18, <1>19, <3>1, <3>2
    <3>3. CASE i > b
      <4>1. from(i) = i /\ i \in b + 1 .. Len(m.S)
        BY <1>1, <1>3, <1>15, <3>1, <3>3
      <4> QED BY <1>3, <1>18, <3>1, <4>1
    <3> QED BY <3>1, <3>2, <3>3
  <2> QED BY <1>9, <2>1, <2>2, <2>3 DEF Lowest
<1>22. \A i \in (k - 1) + 1 .. b - 1 : IsLIR(r, r.S[i])
  <2> SUFFICES ASSUME NEW i \in (k - 1) + 1 .. b - 1 PROVE IsLIR(r, r.S[i])
    OBVIOUS
  <2>1. i \in k .. b - 1 /\ i \in 1 .. Len(m.S)
    BY <1>1, <1>3, <1>8
  <2>2. from(i) \in k + 1 .. b
    BY <1>15, <2>1
  <2>3. r.S[i] = m.S[from(i)] /\ m.S[from(i)] \in Node
    BY <1>12, <1>13, <2>1
  <2>4. IsLIR(m, m.S[from(i)])
    BY <1>7, <2>2
  <2> QED BY <1>11, <2>3, <2>4
<1>23. r.Cursor = r.S[k - 1]
  <2>1. k - 1 \in 1 .. Len(m.S) /\ k - 1 < k
    BY <1>8
  <2> QED BY <1>9, <1>10, <2>1
<1>24. Numbered(r.inst, r.S)
  BY <1>3, <1>6, NumberedSame
<1>25. Region(r, b - 1, k - 1)
  BY <1>3, <1>6, <1>8, <1>10, <1>21, <1>22, <1>23, <1>24 DEF Region
<1>26. Marked(r, b - 1, 1)
  <2> SUFFICES ASSUME NEW i \in 1 .. Len(m.S)
               PROVE  r.inst[r.S[i]].recency2 <=> i <= b - 1
    BY <1>9 DEF Marked
  <2>1. r.inst[r.S[i]].recency2 <=>
          m.inst[m.S[from(i)]].recency2 /\ m.S[from(i)] # m.S[k]
    BY <1>10, <1>12, <1>13
  <2>2. m.S[from(i)] # m.S[k] <=> from(i) # k
    <3> DEFINE f == from(i)
    <3>1. f \in 1 .. Len(m.S)
      BY <1>13
    <3> HIDE DEF f
    <3>2. m.S[f] = m.S[k] => f = k
      BY <1>3, <1>8, <3>1 DEF IsInjective
    <3> QED BY <3>2 DEF f
  <2>3. m.inst[m.S[from(i)]].recency2 <=> from(i) <= b
    BY <1>1, <1>13 DEF Marked
  <2>4. i < b <=> i <= b - 1
    BY <1>1, <1>3
  <2> QED BY <1>15, <2>1, <2>2, <2>3, <2>4
<1>27. InOrder(r)
  <2> SUFFICES ASSUME NEW i \in 1 .. Len(m.S), NEW j \in 1 .. Len(m.S),
                      i < j, r.S[i][1] = r.S[j][1]
               PROVE  /\ r.inst[r.S[i]].which_instance = 1
                      /\ r.inst[r.S[j]].which_instance = 2
    BY <1>9 DEF InOrder
  <2>1. from(i) < from(j)
    <3>1. ~(j = b /\ i \in k .. b - 1)
      <4> SUFFICES ASSUME j = b, i \in k .. b - 1 PROVE FALSE
        OBVIOUS
      <4>1. from(j) = k /\ from(i) \in k + 1 .. b
        BY <1>15
      <4>2. IsLIR(m, m.S[from(i)]) /\ ~IsLIR(m, m.S[from(j)])
        BY <1>7, <4>1
      <4> QED BY <1>13, <4>2 DEF IsLIR
    <3> QED BY <1>14, <3>1
  <2>2. m.S[from(i)][1] = m.S[from(j)][1]
    BY <1>13
  <2>3. /\ m.inst[m.S[from(i)]].which_instance = 1
        /\ m.inst[m.S[from(j)]].which_instance = 2
    BY <1>2, <1>13, <2>1, <2>2 DEF InOrder
  <2>4. r.S[i] = m.S[from(i)] /\ m.S[from(i)] \in Node
    BY <1>12, <1>13
  <2>5. r.S[j] = m.S[from(j)] /\ m.S[from(j)] \in Node
    BY <1>12, <1>13
  <2> QED BY <1>10, <2>3, <2>4, <2>5
<1>28. Ordered(r)
  <2>1. b - 1 \in 1 .. Len(r.S) /\ k - 1 \in 1 .. Len(r.S)
    BY <1>1, <1>3, <1>8, <1>9
  <2>2. PICK x \in 1 .. Len(r.S) : First(r, x)
    BY <1>9, <1>20
  <2> QED BY <1>25, <1>26, <1>27, <2>1, <2>2 DEF Ordered
<1> QED BY <1>6, <1>10, <1>28 DEF r

(* The pruning brings a stack in order back within its limit.              *)
LEMMA pruneLIRSstackOrder ==
  ASSUME NEW m, Ordered(m), m.len <= MAX_S_LEN + 2,
         IsFiniteSet(LIRIn(m.table)),
         MAX_S_LEN > 2 * Cardinality(LIRIn(m.table))
  PROVE  LET r == pruneLIRSstack(m)
         IN  /\ Ordered(r) /\ r.len <= MAX_S_LEN
             /\ SameFrames(r, m) /\ SameNumbers(r, m) /\ SameFakes(r, m)
<1>1. m.len \in Int /\ ~m.segv
  BY DEF Ordered, Region, Shape, Machines
<1> DEFINE h == PruneOnce(m)
<1>2. /\ Ordered(h) /\ h.len <= MAX_S_LEN + 1
      /\ SameFrames(h, m) /\ SameNumbers(h, m) /\ SameFakes(h, m)
  <2>1. CASE m.len <= MAX_S_LEN
    <3>1. h = m
      BY <2>1 DEF PruneOnce
    <3> HIDE DEF h
    <3> QED BY <1>1, <2>1, <3>1, ConstantsAssumption
            DEF SameFrames, SameNumbers, SameFakes
  <2>2. CASE m.len > MAX_S_LEN
    <3>1. /\ Ordered(h) /\ h.len = m.len - 1
          /\ SameFrames(h, m) /\ SameNumbers(h, m) /\ SameFakes(h, m)
      BY <2>2, PruneOnceOrder
    <3> HIDE DEF h
    <3> QED BY <1>1, <2>2, <3>1, ConstantsAssumption
  <2> QED BY <1>1, <2>1, <2>2, ConstantsAssumption
<1> DEFINE r == PruneOnce(h)
<1>3. pruneLIRSstack(m) = r
  BY DEF pruneLIRSstack
<1> HIDE DEF h
<1>4. h.len \in Int /\ ~h.segv /\ h.table = m.table
  BY <1>2 DEF Ordered, Region, Shape, Machines, SameFrames
<1>5. /\ Ordered(r) /\ r.len <= MAX_S_LEN
      /\ SameFrames(r, h) /\ SameNumbers(r, h) /\ SameFakes(r, h)
  <2>1. CASE h.len <= MAX_S_LEN
    <3>1. r = h
      BY <2>1 DEF PruneOnce
    <3> HIDE DEF r
    <3> QED BY <1>2, <1>4, <2>1, <3>1 DEF SameFrames, SameNumbers, SameFakes
  <2>2. CASE h.len > MAX_S_LEN
    <3>1. /\ Ordered(r) /\ r.len = h.len - 1
          /\ SameFrames(r, h) /\ SameNumbers(r, h) /\ SameFakes(r, h)
      BY <1>2, <1>4, <2>2, PruneOnceOrder
    <3> HIDE DEF r
    <3> QED BY <1>2, <1>4, <2>2, <3>1, ConstantsAssumption
  <2> QED BY <1>4, <2>1, <2>2, ConstantsAssumption
<1> HIDE DEF r
<1>6. SameFrames(r, m) /\ SameNumbers(r, m) /\ SameFakes(r, m)
  BY <1>2, <1>5 DEF SameFrames, SameNumbers, SameFakes
<1> QED BY <1>3, <1>5, <1>6

-----------------------------------------------------------------------------
(* The inductive invariant of the stack's order: the engine runs, and its  *)
(* stack is in order and within its limit.  A page that is not known has   *)
(* no frame, and as long as a frame is free a known page has one: so a     *)
(* page that is loaded as LIR enters the stack anew.                       *)

(* The state between two references, as a handler would find it.           *)
Now == Machine(mPageTable, Q, num_LIR_pgs)

OrderOK ==
  /\ Running
  /\ \A q \in Page : mPageTable[q].isResident => Known(q)
  /\ mFreeMemSize > 0 => \A q \in Page : Known(q) => mPageTable[q].isResident
  /\ RealFirst(Now)
  /\ IF S = <<>> THEN cur_lir_S_len = 0
     ELSE Ordered(Now) /\ cur_lir_S_len <= MAX_S_LEN

(* The stack limit leaves room for the nodes of all LIR pages; in the code *)
(* MAX_S_LEN is 8 * mem_size.                                              *)
StackDeepEnough == MAX_S_LEN > 2 * (mCacheMaxLimit - HIR_block_portion_limit)

(* The limit of the constructor (line 59) is deep enough in every cache.   *)
LEMMA CodeLimitDeepEnough ==
  ASSUME MAX_S_LEN = mCacheMaxLimit * 8
  PROVE  StackDeepEnough
BY LimitFacts, ConstantsAssumption DEF StackDeepEnough

(* The known pages are those whose nodes have a number.                    *)
LEMMA KnownIsNumbered ==
  ASSUME StackOK, NEW q \in Page
  PROVE  Known(q) <=> inst[<<q, 1>>].which_instance # 0
<1>1. <<q, 1>> # NULL /\ <<q, 2>> # NULL
  BY ConstantsAssumption DEF Node
<1> QED BY <1>1 DEF StackOK, Numbered, Known, pointerInstance

(* A reference gives a frame to its page only.                             *)
LEMMA TouchedShares ==
  ASSUME NEW p \in Page, NEW t \in [Page -> Entries], NEW queue, NEW r,
         FramesTouched(r, t, queue, p)
  PROVE  \A x \in Page : r.table[x].isResident <=> t[x].isResident \/ x = p
<1>1. CASE Promoted(r, t, queue, p)
  BY <1>1 DEF Promoted
<1>2. CASE ~Promoted(r, t, queue, p)
  <2>1. r.table = [t EXCEPT ![p].isResident = TRUE]
    BY <1>2 DEF FramesTouched, TouchedLIR, TouchedHIR
  <2> QED BY <2>1 DEF Entries
<1> QED BY <1>1, <1>2

(* The order of the stack rests on the kinds of the pages it holds only.   *)
LEMMA SameKindsOrdered ==
  ASSUME Ordered(Now), NEW table \in [Page -> Entries], NEW queue \in Seq(Node),
         NEW lirs \in Nat,
         \A i \in 1 .. Len(S) :
           table[S[i][1]].isHIR_block = mPageTable[S[i][1]].isHIR_block
  PROVE  Ordered(Machine(table, queue, lirs))
<1> DEFINE m == Machine(table, queue, lirs)
           n == Now
<1>1. /\ m.S = S /\ m.inst = inst /\ m.Rmax1 = Rmax1 /\ m.Rmax2 = Rmax2
      /\ m.Cursor = Cursor /\ m.len = cur_lir_S_len /\ m.table = table
      /\ m.Q = queue /\ m.lirs = lirs /\ m.segv = FALSE
      /\ n.S = S /\ n.inst = inst /\ n.Rmax1 = Rmax1 /\ n.Rmax2 = Rmax2
      /\ n.Cursor = Cursor /\ n.len = cur_lir_S_len /\ n.table = mPageTable
      /\ n.segv = FALSE
  BY DEF Now, Machine
<1>2. m = [table |-> table, Q |-> queue, lirs |-> lirs, S |-> S, inst |-> inst,
           Rmax1 |-> Rmax1, Rmax2 |-> Rmax2, Cursor |-> Cursor,
           len |-> cur_lir_S_len, segv |-> FALSE]
  BY DEF Machine
<1> HIDE DEF m, n
<1>3. PICK a, b, c \in 1 .. Len(S) :
        First(n, a) /\ Region(n, b, c) /\ Marked(n, b, 1)
  BY <1>1 DEF Ordered, n
<1>4. InOrder(n)
  BY DEF Ordered, n
<1>5. Shape(n) /\ n \in Machines
  BY <1>3 DEF Region, Shape
<1>6. Shape(m)
  <2>1. /\ S \in Seq(Node) /\ inst \in [Node -> InstanceFields]
        /\ Rmax1 \in Pointer /\ Rmax2 \in Pointer /\ Cursor \in Pointer
        /\ cur_lir_S_len \in Int
    BY <1>1, <1>5 DEF Machines
  <2>2. m \in Machines
    BY <1>2, <2>1 DEF Machines
  <2> QED BY <1>1, <1>5, <2>2 DEF Shape
<1>7. \A i \in 1 .. Len(S), k \in {1, 2} :
        /\ IsLIR(m, S[i]) <=> IsLIR(n, S[i])
        /\ LIRNumber(m, S[i], k) <=> LIRNumber(n, S[i], k)
  BY <1>1 DEF IsLIR, LIRNumber
<1>8. Len(S) \in Nat
  BY <1>1, <1>5 DEF Machines
<1>9. First(m, a)
  BY <1>1, <1>3, <1>7, <1>8 DEF First, Lowest
<1>10. Region(m, b, c)
  <2>1. Lowest(m, b, 2)
    BY <1>1, <1>3, <1>7, <1>8 DEF Region, Lowest
  <2>2. \A i \in c + 1 .. b : IsLIR(m, S[i])
    BY <1>1, <1>3, <1>7, <1>8 DEF Region
  <2> QED BY <1>1, <1>3, <1>6, <2>1, <2>2 DEF Region
<1>11. Marked(m, b, 1) /\ InOrder(m)
  BY <1>1, <1>3, <1>4 DEF Marked, InOrder
<1>12. Ordered(m)
  BY <1>1, <1>3, <1>9, <1>10, <1>11 DEF Ordered
<1> QED BY <1>12 DEF m

(* What touching page p makes of the stack, before it is pruned.           *)
Placed(t, p, table, queue) ==
  /\ Ordered(t) /\ t.len <= cur_lir_S_len + 2
  /\ FramesTouched(t, table, queue, p)
  /\ RealFirst(t)
  /\ \A q \in Page :
       t.inst[<<q, 1>>].which_instance # 0 <=> Known(q) \/ q = p

(* The first reference to p.                                               *)
LEMMA FirstTouchPlaces ==
  ASSUME RunningOK, OrderOK, NEW p \in Page, ~Known(p),
         NEW table \in [Page -> Entries], NEW queue \in Seq(Node),
         NEW lirs \in Nat,
         IF S = <<>> THEN ~table[p].isHIR_block
                     ELSE Ordered(Machine(table, queue, lirs))
  PROVE  LET t == FirstTouch(Machine(table, queue, lirs), p)
         IN  Placed(t, p, table, queue) /\ t.lirs = lirs
<1> DEFINE t == FirstTouch(Machine(table, queue, lirs), p)
           n1 == <<p, 1>>
           n2 == <<p, 2>>
<1>1. StackOK
  BY DEF RunningOK
<1>2. IF S = <<>> THEN ~table[p].isHIR_block /\ cur_lir_S_len = 0
                  ELSE Ordered(Machine(table, queue, lirs))
  BY DEF OrderOK
<1>3. Ordered(t) /\ t.len = cur_lir_S_len + 2
  BY <1>1, <1>2, FirstTouchOrder
<1>4. IF S = <<>> THEN ~table[p].isHIR_block ELSE ~table[Rmax2[1]].isHIR_block
  <2>1. CASE S = <<>>
    BY <2>1
  <2>2. CASE S # <<>>
    BY <2>2 DEF Ordered, Region, Lowest, LIRNumber, IsLIR, Machine
  <2> QED BY <2>1, <2>2
<1>5. FramesTouched(t, table, queue, p) /\ t.lirs = lirs
  BY <1>1, <1>4, FirstTouchFacts
<1>6. Entered(t, p, table, queue)
  BY <1>1, FirstTouchEffect
<1> HIDE DEF t
<1>7. /\ t.inst[n1].which_instance = 1 /\ ~t.inst[n1].fake_ins
      /\ t.inst[n2].which_instance = 2
      /\ \A n \in Node \ {n1, n2} : t.inst[n] = inst[n]
  BY <1>6 DEF Entered
<1>8. RealFirst(t)
  <2>1. \A n \in Node : inst[n].which_instance = 1 => ~inst[n].fake_ins
    BY DEF OrderOK, RealFirst, Now, Machine
  <2> HIDE DEF n1, n2
  <2> QED BY <1>7, <2>1 DEF RealFirst
<1>9. ASSUME NEW q \in Page
      PROVE  t.inst[<<q, 1>>].which_instance # 0 <=> Known(q) \/ q = p
  <2>1. CASE q = p
    BY <1>7, <2>1
  <2>2. CASE q # p
    <3>1. <<q, 1>> \in Node \ {n1, n2}
      BY <2>2 DEF Node
    <3> QED BY <1>1, <1>7, <2>2, <3>1, KnownIsNumbered
  <2> QED BY <2>1, <2>2
<1>10. t.len <= cur_lir_S_len + 2
  BY <1>1, <1>3 DEF StackOK
<1> QED BY <1>3, <1>5, <1>8, <1>9, <1>10 DEF Placed, t

(* A later one.                                                            *)
LEMMA RetouchPlaces ==
  ASSUME RunningOK, OrderOK, NEW p \in Page, Known(p),
         NEW table \in [Page -> Entries], NEW queue \in Seq(Node),
         NEW lirs \in Nat, Ordered(Machine(table, queue, lirs))
  PROVE  LET t == Retouch(Machine(table, queue, lirs), p)
         IN  Placed(t, p, table, queue) /\ t.lirs = lirs
<1> DEFINE m == Machine(table, queue, lirs)
           t == Retouch(m, p)
<1>1. StackOK /\ cur_lir_S_len \in Int /\ S \in Seq(Node)
  BY DEF RunningOK, StackOK
<1>2. /\ m.S = S /\ m.inst = inst /\ InOrder(m)
      /\ S # <<>> /\ ~table[Rmax2[1]].isHIR_block
  BY DEF Ordered, Region, Lowest, LIRNumber, IsLIR, Machine
<1>3. PICK h, q \in 1 .. Len(S) :
        /\ TwoNodes(m, p, h, q)
        /\ pointerInstance(p, 1) = S[h] /\ pointerInstance(p, 2) = S[q]
  BY <1>1, <1>2, KnownTwoNodes
<1>4. /\ Ordered(t) /\ t.len <= cur_lir_S_len + 1 /\ Swapped(t, m, h, q)
  BY <1>1, <1>3, RetouchOrder
<1>5. FramesTouched(t, table, queue, p) /\ t.lirs = lirs
  BY <1>1, <1>2, RetouchFacts
<1> HIDE DEF t
<1>6. /\ S[h] \in Node /\ S[q] \in Node /\ S[h][1] = p /\ S[q][1] = p
      /\ t.inst[S[h]].which_instance = 2 /\ t.inst[S[q]].which_instance = 1
      /\ \A n \in Node \ {S[h], S[q]} :
           t.inst[n].which_instance = inst[n].which_instance
      /\ \A n \in Node :
           t.inst[n].fake_ins <=> inst[n].fake_ins /\ n # S[q]
  BY <1>1, <1>2, <1>3, <1>4 DEF Swapped, TwoNodes
<1> HIDE DEF m
<1>7. RealFirst(t)
  <2>1. \A n \in Node : inst[n].which_instance = 1 => ~inst[n].fake_ins
    BY DEF OrderOK, RealFirst, Now, Machine
  <2> QED BY <1>6, <2>1 DEF RealFirst
<1>8. ASSUME NEW x \in Page
      PROVE  t.inst[<<x, 1>>].which_instance # 0 <=> Known(x) \/ x = p
  <2>1. <<x, 1>> \in Node
    BY DEF Node
  <2>2. CASE x = p
    <3>1. <<p, 1>> = S[h] \/ <<p, 1>> = S[q]
      BY <1>1, <1>3, KnownNodes
    <3>2. t.inst[<<p, 1>>].which_instance \in {1, 2}
      BY <1>6, <3>1
    <3> QED BY <2>2, <3>2
  <2>3. CASE x # p
    <3>1. <<x, 1>> \in Node \ {S[h], S[q]}
      BY <1>6, <2>1, <2>3
    <3> QED BY <1>1, <1>6, <2>3, <3>1, KnownIsNumbered
  <2> QED BY <2>2, <2>3
<1>9. t.len \in Int
  BY <1>4 DEF Ordered, Region, Shape, Machines
<1>10. t.len <= cur_lir_S_len + 2
  BY <1>1, <1>4, <1>9
<1> QED BY <1>4, <1>5, <1>7, <1>8, <1>10 DEF Placed, t, m

(* With the accounts in balance the LIR pages are no more than their       *)
(* share.                                                                  *)
LEMMA LIRShareBounds ==
  ASSUME NEW t, NEW q, NEW lirs, NEW free \in Nat, Accounted(t, q, lirs, free)
  PROVE  /\ IsFiniteSet(LIRIn(t))
         /\ Cardinality(LIRIn(t)) <= mCacheMaxLimit - HIR_block_portion_limit
<1>1. IsFiniteSet(LIRIn(t))
  BY FS_Subset DEF Accounted
<1>2. Cardinality(LIRIn(t)) = lirs
  BY DEF Accounted
<1>3. lirs <= mCacheMaxLimit - HIR_block_portion_limit
  BY LimitFacts, ConstantsAssumption DEF Accounted, LIRShare
<1> QED BY <1>1, <1>2, <1>3

(* The handler has touched p, before it prunes.                            *)
TouchedAs(t, p, table, queue, lirs) ==
  /\ \/ ~Known(p) /\ t = FirstTouch(Machine(table, queue, lirs), p)
     \/ /\ Known(p) /\ Ordered(Machine(table, queue, lirs))
        /\ t = Retouch(Machine(table, queue, lirs), p)
  /\ t.lirs = lirs /\ Placed(t, p, table, queue)

(* It leaves so few LIR pages that the pruning succeeds.                   *)
Prunable(t) == /\ t.len <= MAX_S_LEN + 2
               /\ IsFiniteSet(LIRIn(t.table))
               /\ MAX_S_LEN > 2 * Cardinality(LIRIn(t.table))

(* Every action touches a page this way.                                   *)
LEMMA TouchPlaces ==
  ASSUME StackDeepEnough, IInv, OrderOK, NEW p \in Page, NEW table, NEW queue,
         NEW lirs, Touching(p, table, queue, lirs)
  PROVE  \E t : /\ Install(pruneLIRSstack(t))
                /\ TouchedAs(t, p, table, queue, lirs) /\ Prunable(t)
<1>1. RunningOK /\ StackOK /\ TypeOK
  BY DEF IInv, OrderOK, RunningOK
<1>3. /\ table \in [Page -> Entries] /\ queue \in Seq(Node) /\ lirs \in Nat
      /\ IF S = <<>> THEN ~table[p].isHIR_block
                     ELSE ~table[Rmax2[1]].isHIR_block
      /\ Ready(table, queue, lirs, mFreeMemSize', p)
      /\ mFreeMemSize' \in 0 .. mCacheMaxLimit
      /\ Touch(p, table, queue, lirs)
  BY DEF Touching
<1>4. \A q \in Page :
        /\ \/ table[q].isHIR_block = mPageTable[q].isHIR_block
           \/ q = p /\ mFreeMemSize > 0 /\ ~mPageTable[q].isResident
        /\ table[q].isResident => mPageTable[q].isResident
        /\ mFreeMemSize' > 0 /\ mPageTable[q].isResident => table[q].isResident
        /\ mFreeMemSize' > 0 => mFreeMemSize > 0
  BY DEF Touching
<1>5. \A q \in Page : /\ mPageTable[q].isResident => Known(q)
                      /\ mFreeMemSize > 0 /\ Known(q) => mPageTable[q].isResident
  BY DEF OrderOK
<1>6. ASSUME NEW i \in 1 .. Len(S)
      PROVE  table[S[i][1]].isHIR_block = mPageTable[S[i][1]].isHIR_block
  <2> DEFINE q == S[i][1]
  <2>1. S[i] \in Node /\ S[i] \in Range(S) /\ q \in Page
    BY <1>1 DEF StackOK, Range, Node
  <2>2. S[i] = <<q, 1>> \/ S[i] = <<q, 2>>
    BY <2>1 DEF Node
  <2> HIDE DEF q
  <2>3. inst[<<q, 1>>].which_instance # 0
    <3>1. <<q, 1>> \in Range(S) \/ <<q, 2>> \in Range(S)
      BY <2>1, <2>2
    <3> QED BY <1>1, <2>1, <3>1 DEF StackOK, Numbered
  <2>4. Known(q)
    BY <1>1, <2>1, <2>3, KnownIsNumbered
  <2> QED BY <1>4, <1>5, <2>1, <2>4 DEF q
<1>7. S # <<>> => Ordered(Machine(table, queue, lirs))
  BY <1>3, <1>6, SameKindsOrdered DEF OrderOK
<1>8. \E t : Install(pruneLIRSstack(t)) /\ TouchedAs(t, p, table, queue, lirs)
  <2>1. CASE ~Known(p)
    <3> DEFINE t == FirstTouch(Machine(table, queue, lirs), p)
    <3>1. Install(pruneLIRSstack(t))
      BY <1>3, <2>1 DEF Touch
    <3>2. Placed(t, p, table, queue) /\ t.lirs = lirs
      BY <1>1, <1>3, <1>7, <2>1, FirstTouchPlaces
    <3>3. TouchedAs(t, p, table, queue, lirs)
      BY <2>1, <3>2 DEF TouchedAs
    <3> HIDE DEF t
    <3> QED BY <3>1, <3>3
  <2>2. CASE Known(p)
    <3> DEFINE t == Retouch(Machine(table, queue, lirs), p)
    <3>1. Install(pruneLIRSstack(t))
      BY <1>3, <2>2 DEF Touch
    <3>2. S # <<>>
      BY <1>1, <2>2, KnownNodes DEF Range
    <3>3. Placed(t, p, table, queue) /\ t.lirs = lirs
      BY <1>1, <1>3, <1>7, <2>2, <3>2, RetouchPlaces
    <3>4. TouchedAs(t, p, table, queue, lirs)
      BY <1>7, <2>2, <3>2, <3>3 DEF TouchedAs
    <3> HIDE DEF t
    <3> QED BY <3>1, <3>4
  <2> QED BY <2>1, <2>2
<1>9. PICK t : Install(pruneLIRSstack(t)) /\ TouchedAs(t, p, table, queue, lirs)
  BY <1>8
<1>10. /\ Ordered(t) /\ t.len <= cur_lir_S_len + 2
       /\ FramesTouched(t, table, queue, p) /\ RealFirst(t)
       /\ \A q \in Page :
            t.inst[<<q, 1>>].which_instance # 0 <=> Known(q) \/ q = p
  BY <1>9 DEF Placed, TouchedAs
<1>11. t \in Machines /\ t.table \in [Page -> Entries] /\ t.len \in Int
  BY <1>10 DEF Ordered, Region, Shape, Machines
<1>12. t.len <= MAX_S_LEN + 2
  <2>1. cur_lir_S_len <= MAX_S_LEN /\ cur_lir_S_len \in Int
    BY <1>1, ConstantsAssumption DEF OrderOK, TypeOK
  <2> QED BY <1>10, <1>11, <2>1, ConstantsAssumption
<1>13. /\ IsFiniteSet(LIRIn(t.table))
       /\ MAX_S_LEN > 2 * Cardinality(LIRIn(t.table))
  <2>1. Accounted(t.table, t.Q, lirs, mFreeMemSize')
    BY <1>3, <1>10, <1>11, TouchBalances
  <2>2. mFreeMemSize' \in Nat
    BY <1>3, ConstantsAssumption
  <2>3. /\ IsFiniteSet(LIRIn(t.table))
        /\ Cardinality(LIRIn(t.table)) <=
             mCacheMaxLimit - HIR_block_portion_limit
    BY <2>1, <2>2, LIRShareBounds
  <2>4. Cardinality(LIRIn(t.table)) \in Nat
    BY <2>3, FS_CardinalityType
  <2> DEFINE card == Cardinality(LIRIn(t.table))
  <2> HIDE DEF card
  <2>5. MAX_S_LEN > 2 * card
    BY <2>3, <2>4, LimitFacts, ConstantsAssumption DEF StackDeepEnough, card
  <2> QED BY <2>3, <2>5 DEF card
<1> QED BY <1>9, <1>12, <1>13 DEF Prunable

(* Touching a page keeps the stack in order, and ends within its limit.    *)
LEMMA TouchOrder ==
  ASSUME StackDeepEnough, IInv, IInv', OrderOK, NEW p \in Page, Touched(p)
  PROVE  OrderOK'
<1>1. RunningOK /\ StackOK /\ TypeOK
  BY DEF IInv, OrderOK, RunningOK
<1>2. PICK table, queue, lirs : Touching(p, table, queue, lirs)
  BY DEF Touched
<1>3. table \in [Page -> Entries]
  BY <1>2 DEF Touching
<1>4. \A q \in Page :
        /\ table[q].isResident => mPageTable[q].isResident
        /\ mFreeMemSize' > 0 /\ mPageTable[q].isResident => table[q].isResident
        /\ mFreeMemSize' > 0 => mFreeMemSize > 0
  BY <1>2 DEF Touching
<1>5. \A q \in Page : /\ mPageTable[q].isResident => Known(q)
                      /\ mFreeMemSize > 0 /\ Known(q) => mPageTable[q].isResident
  BY DEF OrderOK
<1>9. PICK t : /\ Install(pruneLIRSstack(t))
               /\ TouchedAs(t, p, table, queue, lirs) /\ Prunable(t)
  BY <1>2, TouchPlaces
<1>10. /\ Ordered(t) /\ FramesTouched(t, table, queue, p) /\ RealFirst(t)
       /\ \A q \in Page :
            t.inst[<<q, 1>>].which_instance # 0 <=> Known(q) \/ q = p
  BY <1>9 DEF Placed, TouchedAs
<1> DEFINE r == pruneLIRSstack(t)
<1>14. /\ Ordered(r) /\ r.len <= MAX_S_LEN
       /\ SameFrames(r, t) /\ SameNumbers(r, t) /\ SameFakes(r, t)
  BY <1>9, <1>10, pruneLIRSstackOrder DEF Prunable
<1>15. Install(r)
  BY <1>9
<1> HIDE DEF r
<1>16. /\ r \in Machines /\ ~r.segv /\ r.segv \in BOOLEAN /\ r.S # <<>>
  BY <1>14 DEF Ordered, Region, Shape, Machines
<1>17. Running'
  BY <1>15, <1>16 DEF Install, Running
<1>18. RunningOK' /\ StackOK'
  BY <1>17 DEF IInv, RunningOK
<1>19. \A x \in Page : mPageTable'[x].isResident <=> table[x].isResident \/ x = p
  <2>1. mPageTable' = t.table
    BY <1>14, <1>15 DEF Install, SameFrames
  <2> QED BY <1>3, <1>10, <2>1, TouchedShares
<1>20. \A x \in Page : Known(x)' <=> Known(x) \/ x = p
  <2> TAKE x \in Page
  <2>1. Known(x)' <=> inst'[<<x, 1>>].which_instance # 0
    <3>1. <<x, 1>> # NULL /\ <<x, 2>> # NULL
      BY ConstantsAssumption DEF Node
    <3> QED BY <1>18, <3>1 DEF StackOK, Numbered, Known, pointerInstance
  <2>2. inst' = r.inst /\ <<x, 1>> \in Node
    BY <1>15 DEF Install, Node
  <2>3. inst'[<<x, 1>>].which_instance = t.inst[<<x, 1>>].which_instance
    BY <1>14, <2>2 DEF SameNumbers
  <2> QED BY <1>10, <2>1, <2>3
<1>21. \A x \in Page : mPageTable'[x].isResident => Known(x)'
  BY <1>4, <1>5, <1>19, <1>20
<1>22. mFreeMemSize' > 0 => \A x \in Page : Known(x)' => mPageTable'[x].isResident
  BY <1>4, <1>5, <1>19, <1>20
<1>23. RealFirst(Now)'
  <2>1. Now'.inst = r.inst
    BY <1>15 DEF Now, Machine, Install
  <2>2. RealFirst(r)
    BY <1>10, <1>14 DEF RealFirst, SameNumbers, SameFakes
  <2> QED BY <2>1, <2>2 DEF RealFirst
<1>24. Now' = r
  BY <1>15, <1>16 DEF Now, Machine, Install, Machines
<1>25. S' # <<>> /\ Ordered(Now') /\ cur_lir_S_len' <= MAX_S_LEN
  <2>1. S' = r.S /\ cur_lir_S_len' = r.len
    BY <1>15 DEF Install
  <2> QED BY <1>14, <1>16, <1>24, <2>1
<1> QED BY <1>17, <1>21, <1>22, <1>23, <1>25 DEF OrderOK

(* The first state is in order.                                            *)
LEMMA InitOrder == Init => OrderOK
BY DEF Init, OrderOK, Running, Known, pointerInstance, RealFirst, Now, Machine,
       Node

(* The queue has a page when a frame is needed: the LIR pages leave frames *)
(* to the others (line 327).                                               *)
LEMMA QueueHasTail ==
  ASSUME IInv, Running, mFreeMemSize = 0
  PROVE  Q # <<>>
<1> SUFFICES ASSUME Q = <<>> PROVE FALSE
  OBVIOUS
<1>1. Accounted(mPageTable, Q, num_LIR_pgs, mFreeMemSize)
  BY DEF IInv, RunningOK
<1>2. PagesOf(Q) = {}
  BY DEF PagesOf
<1>3. ResidentIn(mPageTable) = LIRIn(mPageTable)
  BY <1>1, <1>2 DEF Accounted
<1>4. num_LIR_pgs = mCacheMaxLimit
  BY <1>1, <1>3, ConstantsAssumption, FS_CardinalityType DEF Accounted
<1>5. num_LIR_pgs = mCacheMaxLimit - HIR_block_portion_limit
  BY <1>1, LimitFacts DEF Accounted, LIRShare
<1> QED BY <1>4, <1>5, LimitFacts, ConstantsAssumption

(* Every step keeps the order.                                             *)
LEMMA NextOrder ==
  ASSUME RoomForLIR, StackDeepEnough, IInv, OrderOK, [Next]_vars
  PROVE  OrderOK'
<1>1. IInv'
  BY NextInv
<1>2. CASE Next
  <2>1. PICK p \in Page : Touched(p) \/ (MissEvict(p) /\ Q = <<>>)
    BY <1>2, StepTouches
  <2>2. ~(MissEvict(p) /\ Q = <<>>)
    BY QueueHasTail DEF OrderOK, MissEvict
  <2> QED BY <1>1, <2>1, <2>2, TouchOrder
<1>3. CASE UNCHANGED vars
  <2>1. /\ Running' <=> Running
        /\ \A q \in Page : Known(q)' <=> Known(q)
        /\ Now' = Now /\ mPageTable' = mPageTable /\ S' = S
        /\ mFreeMemSize' = mFreeMemSize /\ cur_lir_S_len' = cur_lir_S_len
    BY <1>3 DEF vars, Running, Known, pointerInstance, Now, Machine
  <2> QED BY <2>1 DEF OrderOK
<1> QED BY <1>2, <1>3

-----------------------------------------------------------------------------
(* What the order says about the properties that runs check.               *)

OInv == IInv /\ OrderOK

(* Every node of the stack is a node of a known page.                      *)
LEMMA StackKnown ==
  ASSUME StackOK, NEW n \in Range(S)
  PROVE  n \in Node /\ Known(n[1])
<1>1. n \in Node
  BY DEF StackOK, Range
<1>2. n[1] \in Page /\ (n = <<n[1], 1>> \/ n = <<n[1], 2>>)
  BY <1>1 DEF Node
<1> DEFINE q == n[1]
<1>3. <<q, 1>> \in Range(S) \/ <<q, 2>> \in Range(S)
  BY <1>2
<1>4. q \in Page
  BY <1>2
<1> HIDE DEF q
<1>5. inst[<<q, 1>>].which_instance # 0
  BY <1>3, <1>4 DEF StackOK, Numbered
<1>6. Known(q)
  BY <1>4, <1>5, KnownIsNumbered
<1> QED BY <1>1, <1>6 DEF q

(* The positions the stack's order speaks of, in the state's own terms.    *)
LEMMA OrderPositions ==
  ASSUME OInv, S # <<>>
  PROVE  \E a, b, c \in 1 .. Len(S) :
           /\ Rmax1 = S[a] /\ Rmax2 = S[b] /\ Cursor = S[c] /\ c <= b
           /\ At(Rmax1) = a /\ At(Rmax2) = b /\ At(Cursor) = c
           /\ cur_lir_S_len = b /\ cur_lir_S_len <= MAX_S_LEN
           /\ Cursor # NULL
           /\ ~mPageTable[S[a][1]].isHIR_block
           /\ ~mPageTable[S[b][1]].isHIR_block
           /\ inst[S[a]].which_instance = 1 /\ inst[S[b]].which_instance = 2
           /\ \A i \in 1 .. Len(S) :
                /\ i > a => ~LIRNumber(Now, S[i], 1)
                /\ i > b => ~LIRNumber(Now, S[i], 2)
                /\ inst[S[i]].recency2 <=> i <= b
                /\ i > c /\ i <= b => ~mPageTable[S[i][1]].isHIR_block
<1>1. Ordered(Now) /\ cur_lir_S_len <= MAX_S_LEN
  BY DEF OInv, OrderOK
<1>2. /\ Now.S = S /\ Now.inst = inst /\ Now.Rmax1 = Rmax1
      /\ Now.Rmax2 = Rmax2 /\ Now.Cursor = Cursor
      /\ Now.len = cur_lir_S_len /\ Now.table = mPageTable
  BY DEF Now, Machine
<1>3. S \in Seq(Node) /\ IsInjective(S) /\ Len(S) \in Nat
  BY DEF OInv, OrderOK, IInv, RunningOK, StackOK
<1>4. PICK a, b, c \in 1 .. Len(S) :
        First(Now, a) /\ Region(Now, b, c) /\ Marked(Now, b, 1)
  BY <1>1, <1>2 DEF Ordered
<1>5. /\ Rmax1 = S[a] /\ LIRNumber(Now, S[a], 1)
      /\ \A i \in a + 1 .. Len(S) : ~LIRNumber(Now, S[i], 1)
  BY <1>2, <1>4 DEF First, Lowest
<1>6. /\ Rmax2 = S[b] /\ LIRNumber(Now, S[b], 2)
      /\ \A i \in b + 1 .. Len(S) : ~LIRNumber(Now, S[i], 2)
      /\ c \in 1 .. b /\ Cursor = S[c] /\ cur_lir_S_len = b
      /\ \A i \in c + 1 .. b : IsLIR(Now, S[i])
  BY <1>2, <1>4 DEF Region, Lowest
<1>7. At(Rmax1) = a /\ At(Rmax2) = b /\ At(Cursor) = c /\ Cursor # NULL
  BY <1>3, <1>5, <1>6, PosOf, ConstantsAssumption DEF At
<1>8. \A i \in 1 .. Len(S) : inst[S[i]].recency2 <=> i <= b
  BY <1>2, <1>4 DEF Marked
<1>9. ASSUME NEW i \in 1 .. Len(S)
      PROVE  /\ i > a => ~LIRNumber(Now, S[i], 1)
             /\ i > b => ~LIRNumber(Now, S[i], 2)
             /\ i > c /\ i <= b => IsLIR(Now, S[i])
  BY <1>3, <1>5, <1>6
<1>10. \A i \in 1 .. Len(S) :
         i > c /\ i <= b => ~mPageTable[S[i][1]].isHIR_block
  BY <1>2, <1>9 DEF IsLIR
<1>11. /\ ~mPageTable[S[a][1]].isHIR_block
       /\ ~mPageTable[S[b][1]].isHIR_block
       /\ inst[S[a]].which_instance = 1 /\ inst[S[b]].which_instance = 2
  BY <1>2, <1>5, <1>6 DEF LIRNumber, IsLIR
<1>12. c <= b
  BY <1>3, <1>6
<1> QED BY <1>1, <1>5, <1>6, <1>7, <1>8, <1>9, <1>10, <1>11, <1>12

(* Both nodes of a known page are on the stack, the one numbered 1 above.  *)
LEMMA InvImpliesInstancesPaired == OInv => InstancesPaired
<1> SUFFICES ASSUME OInv PROVE InstancesPaired
  OBVIOUS
<1>1. StackOK
  BY DEF OInv, OrderOK, IInv, RunningOK
<1>2. IsInjective(S) /\ S \in Seq(Node)
  BY <1>1 DEF StackOK
<1>3. ASSUME NEW p \in Page, Known(p)
      PROVE  LET ins1 == pointerInstance(p, 1)
                 ins2 == pointerInstance(p, 2)
             IN  /\ {ins1, ins2} = {<<p, 1>>, <<p, 2>>}
                 /\ InStack(ins1) /\ InStack(ins2)
                 /\ At(ins1) < At(ins2)
  <2> DEFINE ins1 == pointerInstance(p, 1)
             ins2 == pointerInstance(p, 2)
  <2>1. /\ ins1 \in Range(S) /\ ins2 \in Range(S)
        /\ \/ ins1 = <<p, 1>> /\ ins2 = <<p, 2>>
           \/ ins1 = <<p, 2>> /\ ins2 = <<p, 1>>
    BY <1>1, <1>3, KnownNodes
  <2>2. S # <<>>
    BY <2>1 DEF Range
  <2>3. InOrder(Now) /\ Now.S = S /\ Now.inst = inst
    BY <2>2 DEF OInv, OrderOK, Ordered, Now, Machine
  <2>4. PICK h, q \in 1 .. Len(S) :
          TwoNodes(Now, p, h, q) /\ ins1 = S[h] /\ ins2 = S[q]
    BY <1>1, <1>3, <2>3, KnownTwoNodes
  <2> HIDE DEF ins1, ins2
  <2>5. At(ins1) = h /\ At(ins2) = q /\ h < q
    BY <1>2, <2>4, PosOf DEF At, TwoNodes
  <2>6. {ins1, ins2} = {<<p, 1>>, <<p, 2>>}
    BY <2>1
  <2>7. InStack(ins1) /\ InStack(ins2)
    BY <2>1 DEF InStack
  <2> QED BY <2>5, <2>6, <2>7 DEF ins1, ins2
<1>4. \A n \in Range(S) : Known(n[1])
  BY <1>1, StackKnown
<1> QED BY <1>2, <1>3, <1>4 DEF InstancesPaired

(* The other properties of the stack.                                      *)
LEMMA InvImpliesStackProperties ==
  ASSUME OInv
  PROVE  /\ RmaxIsLowest /\ MarksMatchStack /\ StackBounded
         /\ CursorSkipsOnlyLIR
<1>1. S \in Seq(Node)
  BY DEF OInv, OrderOK, IInv, RunningOK, StackOK
<1>2. CASE S = <<>>
  <2>1. Range(S) = {}
    BY <1>2 DEF Range
  <2> QED BY <1>2, <2>1
          DEF RmaxIsLowest, MarksMatchStack, StackBounded, CursorSkipsOnlyLIR
<1>3. CASE S # <<>>
  <2>1. PICK a, b, c \in 1 .. Len(S) :
          /\ Rmax1 = S[a] /\ Rmax2 = S[b] /\ Cursor = S[c] /\ c <= b
          /\ At(Rmax1) = a /\ At(Rmax2) = b /\ At(Cursor) = c
          /\ cur_lir_S_len = b /\ cur_lir_S_len <= MAX_S_LEN
          /\ Cursor # NULL
          /\ ~mPageTable[S[a][1]].isHIR_block
          /\ ~mPageTable[S[b][1]].isHIR_block
          /\ inst[S[a]].which_instance = 1 /\ inst[S[b]].which_instance = 2
          /\ \A i \in 1 .. Len(S) :
               /\ i > a => ~LIRNumber(Now, S[i], 1)
               /\ i > b => ~LIRNumber(Now, S[i], 2)
               /\ inst[S[i]].recency2 <=> i <= b
               /\ i > c /\ i <= b => ~mPageTable[S[i][1]].isHIR_block
    BY <1>3, OrderPositions
  <2>2. ASSUME NEW n \in Range(S)
        PROVE  n \in Node /\ At(n) \in 1 .. Len(S) /\ S[At(n)] = n
    BY <1>1, PosFacts DEF At, Range
  <2>3. \A n \in Node, k \in {1, 2} :
          LIRNumber(Now, n, k) <=>
            ~mPageTable[n[1]].isHIR_block /\ inst[n].which_instance = k
    BY DEF LIRNumber, IsLIR, Now, Machine
  <2>4. Rmax1 \in Range(S) /\ Rmax2 \in Range(S)
    BY <1>1, <2>1 DEF Range
  <2>5. RmaxIsLowest
    <3> SUFFICES ASSUME NEW k \in {1, 2}
                 PROVE  LET rmax == IF k = 1 THEN Rmax1 ELSE Rmax2
                            lirNodes == {n \in Range(S) :
                                           /\ ~mPageTable[n[1]].isHIR_block
                                           /\ inst[n].which_instance = k}
                        IN  /\ rmax \in lirNodes
                            /\ \A n \in lirNodes : At(n) <= At(rmax)
      BY DEF RmaxIsLowest
    <3>1. ASSUME NEW n \in Range(S), ~mPageTable[n[1]].isHIR_block,
                 inst[n].which_instance = k
          PROVE  At(n) <= At(IF k = 1 THEN Rmax1 ELSE Rmax2)
      <4> DEFINE i == At(n)
      <4>1. i \in 1 .. Len(S) /\ S[i] = n /\ LIRNumber(Now, S[i], k)
        BY <2>2, <2>3, <3>1
      <4> HIDE DEF i
      <4>2. CASE k = 1
        <5>1. ~(i > a)
          BY <2>1, <4>1, <4>2
        <5> QED BY <2>1, <4>1, <4>2, <5>1 DEF i
      <4>3. CASE k = 2
        <5>1. ~(i > b)
          BY <2>1, <4>1, <4>3
        <5> QED BY <2>1, <4>1, <4>3, <5>1 DEF i
      <4> QED BY <4>2, <4>3
    <3> QED BY <2>1, <2>4, <3>1
  <2>6. MarksMatchStack
    <3> SUFFICES ASSUME NEW n \in Range(S)
                 PROVE  inst[n].recency2 <=> At(n) <= At(Rmax2)
      BY DEF MarksMatchStack
    <3> DEFINE i == At(n)
    <3>1. i \in 1 .. Len(S) /\ S[i] = n
      BY <2>2
    <3> HIDE DEF i
    <3>2. inst[n].recency2 <=> i <= b
      BY <2>1, <3>1
    <3> QED BY <2>1, <3>2 DEF i
  <2>7. StackBounded
    BY <2>1 DEF StackBounded
  <2>8. CursorSkipsOnlyLIR
    <3> SUFFICES ASSUME NEW i \in 1 .. At(Rmax2), Cursor = NULL \/ At(Cursor) < i
                 PROVE  ~mPageTable[S[i][1]].isHIR_block
      BY DEF CursorSkipsOnlyLIR
    <3>1. i \in 1 .. Len(S) /\ i > c /\ i <= b
      BY <1>1, <2>1
    <3> QED BY <2>1, <3>1
  <2> QED BY <2>5, <2>6, <2>7, <2>8
<1> QED BY <1>2, <1>3

(* The asserts of the source.                                              *)
LEMMA InvImpliesAssertionsHold == OInv => AssertionsHold
<1> SUFFICES ASSUME OInv PROVE AssertionsHold
  OBVIOUS
<1>1. /\ RunningOK /\ TypeOK /\ StackOK
      /\ Accounted(mPageTable, Q, num_LIR_pgs, mFreeMemSize)
      /\ Resident = ResidentIn(mPageTable) /\ LIRPages = LIRIn(mPageTable)
  BY DEF OInv, OrderOK, IInv, RunningOK, Resident, LIRPages, ResidentIn, LIRIn
<1>2. ASSUME NEW p \in Page PROVE PromotionCounted(p)
  <2> SUFFICES ASSUME Known(p), p \notin LIRPages,
                      ~(p \notin Resident /\ mFreeMemSize > HIR_block_portion_limit)
               PROVE  num_LIR_pgs + 1 >
                        (mCacheMaxLimit - HIR_block_portion_limit) % UINT_MOD
    BY DEF PromotionCounted
  <2> DEFINE share == mCacheMaxLimit - HIR_block_portion_limit
  <2>1. mFreeMemSize <= HIR_block_portion_limit
    <3> SUFFICES ASSUME mFreeMemSize > HIR_block_portion_limit PROVE FALSE
      BY <1>1, LimitFacts, ConstantsAssumption DEF TypeOK
    <3>1. num_LIR_pgs = mCacheMaxLimit - mFreeMemSize
      BY <1>1 DEF Accounted, LIRShare
    <3>2. /\ IsFiniteSet(ResidentIn(mPageTable))
          /\ Cardinality(LIRIn(mPageTable)) = Cardinality(ResidentIn(mPageTable))
          /\ LIRIn(mPageTable) \in SUBSET ResidentIn(mPageTable)
      <4>1. /\ IsFiniteSet(ResidentIn(mPageTable))
            /\ Cardinality(ResidentIn(mPageTable)) + mFreeMemSize = mCacheMaxLimit
            /\ num_LIR_pgs = Cardinality(LIRIn(mPageTable))
            /\ LIRIn(mPageTable) \subseteq ResidentIn(mPageTable)
        BY <1>1 DEF Accounted
      <4>2. Cardinality(ResidentIn(mPageTable)) \in Nat /\ mFreeMemSize \in Int
        BY <1>1, <4>1, FS_CardinalityType, ConstantsAssumption DEF TypeOK
      <4> QED BY <3>1, <4>1, <4>2, ConstantsAssumption
    <3>3. LIRIn(mPageTable) = ResidentIn(mPageTable)
      BY <3>2, FS_Subset
    <3> QED BY <1>1, <3>3
  <2>2. num_LIR_pgs = share
    <3>1. ~(mFreeMemSize > HIR_block_portion_limit)
      BY <1>1, <2>1, LimitFacts, ConstantsAssumption DEF TypeOK
    <3> QED BY <1>1, <3>1 DEF Accounted, LIRShare
  <2>3. share \in Nat
    BY <1>1, <2>2 DEF TypeOK
  <2> HIDE DEF share
  <2>4. share % UINT_MOD <= share
    <3>1. CASE share < UINT_MOD
      <4>1. share % UINT_MOD = share
        BY <2>3, <3>1, ConstantsAssumption
      <4> QED BY <2>3, <4>1
    <3>2. CASE ~(share < UINT_MOD)
      <4>1. share % UINT_MOD \in 0 .. UINT_MOD - 1
        BY <2>3, ConstantsAssumption
      <4> QED BY <2>3, <3>2, <4>1, ConstantsAssumption
    <3> QED BY <3>1, <3>2
  <2>5. share % UINT_MOD \in Nat
    BY <2>3, ConstantsAssumption
  <2>6. share + 1 > share % UINT_MOD
    BY <2>3, <2>4, <2>5
  <2> QED BY <2>2, <2>6 DEF share
<1>3. ASSUME NEW p \in Page, p \in Resident \ LIRPages
      PROVE  /\ ~({<<p, 1>>, <<p, 2>>} \subseteq Range(Q) /\ Len(Q) > 1)
             /\ findInstanceInQ(p)[1] = p
  <2>1. DistinctPages(Q) /\ p \in PagesOf(Q)
    BY <1>1, <1>3 DEF Accounted
  <2>2. findInstanceInQ(p)[1] = p
    BY <2>1, findInstanceInQFacts
  <2>3. ~({<<p, 1>>, <<p, 2>>} \subseteq Range(Q))
    <3> SUFFICES ASSUME <<p, 1>> \in Range(Q), <<p, 2>> \in Range(Q)
                 PROVE  FALSE
      OBVIOUS
    <3>1. PICK i \in 1 .. Len(Q) : Q[i] = <<p, 1>>
      BY <2>1 DEF Range, DistinctPages
    <3>2. PICK j \in 1 .. Len(Q) : Q[j] = <<p, 2>>
      BY <2>1 DEF Range, DistinctPages
    <3>3. i = j
      BY <2>1, <3>1, <3>2 DEF DistinctPages
    <3>4. <<p, 1>> # <<p, 2>>
      OBVIOUS
    <3> QED BY <3>1, <3>2, <3>3, <3>4
  <2> QED BY <2>2, <2>3
<1>4. ASSUME NEW p \in Page, Known(p)
      PROVE  pointerInstance(p, 1) # NULL /\ pointerInstance(p, 2) # NULL
  BY <1>1, <1>4, KnownNodes, ConstantsAssumption
<1> QED BY <1>2, <1>3, <1>4 DEF AssertionsHold, LIRCountAssertion

-----------------------------------------------------------------------------
(* The theorems about the stack.                                           *)

(* The inductive invariant of the stack's order.                           *)
LEMMA OInvHolds == ASSUME RoomForLIR, StackDeepEnough PROVE Spec => []OInv
<1>1. Init => OInv
  BY InitInv, InitOrder DEF OInv
<1>2. OInv /\ [Next]_vars => OInv'
  BY NextInv, NextOrder DEF OInv
<1> QED BY <1>1, <1>2, PTL DEF Spec

(* Whatever the trace, no walk of the two cursors and no pruning runs off  *)
(* the stack, and the queue has a page to evict when a frame is needed: no *)
(* reference follows a NULL pointer (replace_lirs2.cc:125-161, 228-242,    *)
(* 327).                                                                   *)
THEOREM NeverCrashing ==
  ASSUME RoomForLIR, StackDeepEnough PROVE Spec => []NeverCrashes
<1>1. OInv => NeverCrashes
  BY DEF OInv, OrderOK, NeverCrashes
<1> QED BY <1>1, OInvHolds, PTL

(* Both nodes of a page, once pushed, stay on the stack, the one numbered  *)
(* 1 above the other (replace_lirs2.cc:341-355, 384-406, 237-238).         *)
THEOREM InstancesAlwaysPaired ==
  ASSUME RoomForLIR, StackDeepEnough PROVE Spec => []InstancesPaired
BY InvImpliesInstancesPaired, OInvHolds, PTL

(* The two Rmax pointers stand on the lowest LIR node of their number,     *)
(* although no step looks below them (replace_lirs2.cc:125-161, 391-411,   *)
(* 428-437).                                                               *)
THEOREM RmaxAlwaysLowest ==
  ASSUME RoomForLIR, StackDeepEnough PROVE Spec => []RmaxIsLowest
<1>1. OInv => RmaxIsLowest
  BY InvImpliesStackProperties
<1> QED BY <1>1, OInvHolds, PTL

(* The marks that decide a promotion agree with the order of the stack     *)
(* (replace_lirs2.cc:422).                                                 *)
THEOREM MarksAlwaysMatchStack ==
  ASSUME RoomForLIR, StackDeepEnough PROVE Spec => []MarksMatchStack
<1>1. OInv => MarksMatchStack
  BY InvImpliesStackProperties
<1> QED BY <1>1, OInvHolds, PTL

(* cur_lir_S_len counts the nodes at or above Rmax2, and is within its     *)
(* limit after every reference (replace_lirs2.cc:149, 230-240, 396, 418).  *)
THEOREM StackAlwaysBounded ==
  ASSUME RoomForLIR, StackDeepEnough PROVE Spec => []StackBounded
<1>1. OInv => StackBounded
  BY InvImpliesStackProperties
<1> QED BY <1>1, OInvHolds, PTL

(* The pruning misses no HIR node by starting at Cursor                    *)
(* (replace_lirs2.cc:153, 231-234, 362, 403).                              *)
THEOREM CursorAlwaysSkipsOnlyLIR ==
  ASSUME RoomForLIR, StackDeepEnough PROVE Spec => []CursorSkipsOnlyLIR
<1>1. OInv => CursorSkipsOnlyLIR
  BY InvImpliesStackProperties
<1> QED BY <1>1, OInvHolds, PTL

(* No assert of the source fails (replace_lirs2.cc:258-284, 378, 427).     *)
THEOREM AssertionsAlwaysHold ==
  ASSUME RoomForLIR, StackDeepEnough PROVE Spec => []AssertionsHold
BY InvImpliesAssertionsHold, OInvHolds, PTL

-----------------------------------------------------------------------------
(* The policy: the history is the pages of the stack, the queue those of   *)
(* the queue.                                                              *)

(* Its operators on lists and sets are the engine's.                       *)
LEMMA PolicyOperators ==
  /\ \A T : Policy!Max(T) = Max(T) /\ Policy!Cardinality(T) = Cardinality(T)
  /\ \A s : Policy!Range(s) = Range(s) /\ Policy!Front(s) = Front(s)
  /\ \A s, i : Policy!RemoveAt(s, i) = RemoveAt(s, i)
  /\ \A s, i, x : Policy!InsertAt(s, i, x) = InsertAt(s, i, x)
BY DEF Max, Policy!Max, Cardinality, Policy!Cardinality, Range, Policy!Range,
       Front, Policy!Front, RemoveAt, Policy!RemoveAt, InsertAt,
       Policy!InsertAt

(* The pages of a list of nodes.                                           *)
LEMMA PageListFacts ==
  ASSUME NEW s \in Seq(Node)
  PROVE  /\ PageList(s) \in Seq(Page) /\ Len(PageList(s)) = Len(s)
         /\ \A i \in 1 .. Len(s) : /\ PageList(s)[i] = s[i][1]
                                   /\ s[i][1] \in Page
<1>1. \A i \in 1 .. Len(s) : s[i] \in Node /\ s[i][1] \in Page
  BY DEF Node
<1>2. Len(s) \in Nat
  OBVIOUS
<1> QED BY <1>1, <1>2 DEF PageList

(* A number that is the largest of a set is its Max.                       *)
LEMMA MaxIs ==
  ASSUME NEW n \in Nat, NEW T, T \subseteq 1 .. n, NEW x \in T,
         \A y \in T : y <= x
  PROVE  Max(T) = x
<1>1. T # {}
  OBVIOUS
<1>3. Max(T) \in T /\ \A y \in T : y <= Max(T)
  BY <1>1, MaxExists, Zenon
<1> DEFINE u == Max(T)
<1>2. u \in T /\ x <= u /\ u <= x
  BY <1>3
<1> HIDE DEF u
<1>4. u \in Int /\ x \in Int
  BY <1>2
<1>5. u = x
  BY <1>2, <1>4
<1> QED BY <1>5 DEF u

(* The older entry of a page is the lowest node it has.                    *)
LEMMA PolicyOlder ==
  ASSUME NEW s \in Seq(Node), NEW q \in 1 .. Len(s),
         \A i \in 1 .. Len(s) : s[i][1] = s[q][1] => i <= q
  PROVE  Policy!Older(PageList(s), s[q][1]) = q
<1> DEFINE h == PageList(s)
           T == {i \in 1 .. Len(h) : h[i] = s[q][1]}
<1>1. Len(h) = Len(s) /\ Len(s) \in Nat /\ \A i \in 1 .. Len(s) : h[i] = s[i][1]
  BY PageListFacts
<1> HIDE DEF h
<1>2. T \subseteq 1 .. Len(s) /\ q \in T /\ \A y \in T : y <= q
  BY <1>1
<1> HIDE DEF T
<1>3. Max(T) = q
  BY <1>1, <1>2, MaxIs
<1> QED BY <1>3, PolicyOperators DEF Policy!Older, T, h

(* A LIR page stands in the stack.                                         *)
Stacked(m) ==
  \A x \in Page : ~m.table[x].isHIR_block =>
    m.inst[<<x, 1>>].which_instance # 0

(* The bottom of the policy's stack is where Rmax2 stands.                 *)
LEMMA PolicyBottom ==
  ASSUME NEW m, NEW b, NEW c, Region(m, b, c), InOrder(m), Stacked(m)
  PROVE  /\ Policy!Bottom(PageList(m.S), LIRIn(m.table)) = b
         /\ m.S[b][1] \in LIRIn(m.table)
<1> DEFINE h == PageList(m.S)
           l == LIRIn(m.table)
           T == {Policy!Older(h, p) : p \in l}
<1>1. /\ m.S \in Seq(Node) /\ Len(m.S) \in Nat /\ Numbered(m.inst, m.S)
      /\ b \in 1 .. Len(m.S) /\ LIRNumber(m, m.S[b], 2)
      /\ \A i \in b + 1 .. Len(m.S) : ~LIRNumber(m, m.S[i], 2)
  BY DEF Region, Lowest, Shape, Machines
<1>2. \A i \in 1 .. Len(m.S) :
        /\ m.S[i] \in Node /\ m.S[i][1] \in Page
        /\ m.S[i] = <<m.S[i][1], 1>> \/ m.S[i] = <<m.S[i][1], 2>>
  BY <1>1 DEF Node
<1>3. ASSUME NEW q \in 1 .. Len(m.S), m.inst[m.S[q]].which_instance = 2
      PROVE  Policy!Older(h, m.S[q][1]) = q
  <2>1. ASSUME NEW i \in 1 .. Len(m.S), m.S[i][1] = m.S[q][1] PROVE i <= q
    <3>1. ~(q < i)
      BY <1>3, <2>1 DEF InOrder
    <3> QED BY <1>1, <3>1
  <2> QED BY <1>1, <2>1, PolicyOlder
<1>4. ASSUME NEW p \in l
      PROVE  \E q \in 1 .. b : Policy!Older(h, p) = q
  <2>1. p \in Page /\ m.inst[<<p, 1>>].which_instance # 0
    BY <1>4 DEF LIRIn, Stacked
  <2>2. PICK k \in {1, 2} : /\ <<p, k>> \in Range(m.S)
                            /\ m.inst[<<p, k>>].which_instance = 2
    BY <1>1, <2>1 DEF Numbered
  <2>3. PICK q \in 1 .. Len(m.S) : m.S[q] = <<p, k>>
    BY <1>1, <2>2 DEF Range
  <2>4. m.S[q][1] = p
    BY <2>3
  <2>5. LIRNumber(m, m.S[q], 2)
    BY <1>4, <2>2, <2>3, <2>4 DEF LIRNumber, IsLIR, LIRIn
  <2>6. q \in 1 .. b
    BY <1>1, <2>5
  <2> QED BY <1>3, <2>2, <2>3, <2>4, <2>6
<1>5. m.S[b][1] \in l /\ Policy!Older(h, m.S[b][1]) = b
  BY <1>1, <1>2, <1>3 DEF LIRNumber, IsLIR, LIRIn
<1> HIDE DEF h, l
<1>6. T \subseteq 1 .. b /\ b \in T /\ b \in Nat /\ l # {}
  BY <1>1, <1>4, <1>5
<1>7. \A y \in T : y <= b
  BY <1>6
<1> HIDE DEF T
<1>8. Max(T) = b
  BY <1>6, <1>7, MaxIs
<1>9. Policy!Bottom(h, l) = b
  BY <1>6, <1>8, PolicyOperators DEF Policy!Bottom, T
<1> QED BY <1>5, <1>9 DEF h, l

(* A turn of the pruning loop is a Sink of the history.                    *)
LEMMA PolicySink ==
  ASSUME NEW m, Ordered(m), Stacked(m), IsFiniteSet(LIRIn(m.table)),
         MAX_S_LEN > 2 * Cardinality(LIRIn(m.table))
  PROVE  Policy!Sink(PageList(m.S), LIRIn(m.table)) = PageList(PruneOnce(m).S)
<1> DEFINE h == PageList(m.S)
           l == LIRIn(m.table)
           r == PruneOnce(m)
<1>1. PICK b, c \in 1 .. Len(m.S) : Region(m, b, c)
  BY DEF Ordered
<1>2. InOrder(m)
  BY DEF Ordered
<1>3. /\ m.S \in Seq(Node) /\ IsInjective(m.S) /\ Len(m.S) \in Nat
      /\ m.len = b /\ ~m.segv
  BY <1>1 DEF Region, Shape, Machines
<1>4. Policy!Bottom(h, l) = b
  BY <1>1, <1>2, PolicyBottom
<1>5. /\ h \in Seq(Page) /\ Len(h) = Len(m.S)
      /\ \A i \in 1 .. Len(m.S) : h[i] = m.S[i][1] /\ h[i] \in Page
  BY <1>3, PageListFacts
<1>6. CASE b <= MAX_S_LEN
  <2>1. r = m
    BY <1>3, <1>6 DEF PruneOnce
  <2>2. Policy!Sink(h, l) = h
    <3> HIDE DEF h, l
    <3> QED BY <1>4, <1>6 DEF Policy!Sink
  <2> HIDE DEF r
  <2> QED BY <2>1, <2>2 DEF r
<1>7. CASE ~(b <= MAX_S_LEN)
  <2>1. m.len > MAX_S_LEN
    BY <1>3, <1>7, ConstantsAssumption
  <2>2. PICK k \in 2 .. c :
          /\ ~IsLIR(m, m.S[k]) /\ \A i \in k + 1 .. b : IsLIR(m, m.S[i])
          /\ Pruned(r, m, k, b)
    BY <1>1, <2>1, PruneOnceEffect
  <2>3. Sunk(r.S, m.S, k, b)
    BY <2>2 DEF Pruned
  <2>4. c \in 1 .. b
    BY <1>1 DEF Region
  <2>5. k \in 2 .. b /\ k # b /\ k \in 1 .. Len(m.S)
    <3>1. k # b
      BY <1>1, <2>2 DEF Region, Lowest, LIRNumber
    <3> QED BY <1>3, <2>4, <3>1
  <2> DEFINE T == {j \in 1 .. b : h[j] \notin l}
  <2>6. \A i \in 1 .. Len(m.S) : h[i] \in l <=> IsLIR(m, m.S[i])
    BY <1>5 DEF LIRIn, IsLIR
  <2> HIDE DEF h, l, r
  <2>7. T \subseteq 1 .. b /\ k \in T /\ \A y \in T : y <= k
    BY <1>3, <2>2, <2>5, <2>6
  <2> HIDE DEF T
  <2>8. Max(T) = k
    <3>1. b \in Nat
      BY <1>3
    <3> QED BY <2>7, <3>1, MaxIs
  <2> DEFINE g == InsertAt(h, b + 1, h[k])
             f == RemoveAt(g, k)
  <2>9. Policy!Sink(h, l) = f
    BY <1>4, <1>7, <2>8, PolicyOperators DEF Policy!Sink, T
  <2>10. /\ g \in Seq(Page) /\ Len(g) = Len(h) + 1
         /\ \A j \in 1 .. Len(h) + 1 :
              g[j] = IF j < b + 1 THEN h[j]
                     ELSE IF j = b + 1 THEN h[k] ELSE h[j - 1]
    <3>1. b + 1 \in 1 .. Len(h) + 1 /\ h[k] \in Page
      BY <1>3, <1>5, <2>5
    <3> DEFINE z == b + 1
               a == h[k]
    <3>2. h \in Seq(Page) /\ z \in 1 .. Len(h) + 1 /\ a \in Page
      BY <1>5, <3>1
    <3> HIDE DEF z, a
    <3>3. /\ InsertAt(h, z, a) \in Seq(Page)
          /\ Len(InsertAt(h, z, a)) = Len(h) + 1
          /\ \A j \in 1 .. Len(h) + 1 :
               InsertAt(h, z, a)[j] =
                 IF j < z THEN h[j] ELSE IF j = z THEN a ELSE h[j - 1]
      BY <3>2, InsertAtPositions, SMTT(60)
    <3>4. g = InsertAt(h, z, a)
      BY DEF z, a
    <3> HIDE DEF g
    <3>5. /\ g \in Seq(Page) /\ Len(g) = Len(h) + 1
          /\ \A j \in 1 .. Len(h) + 1 :
               g[j] = IF j < z THEN h[j] ELSE IF j = z THEN a ELSE h[j - 1]
      BY <3>3, <3>4
    <3> QED BY <3>5 DEF z, a
  <2> HIDE DEF g
  <2>11. /\ f \in Seq(Page) /\ Len(f) = Len(g) - 1
         /\ \A j \in 1 .. Len(g) - 1 : f[j] = IF j < k THEN g[j] ELSE g[j + 1]
    <3>1. k \in 1 .. Len(g)
      BY <1>3, <1>5, <2>5, <2>10
    <3> QED BY <2>10, <3>1, RemoveAtPositions
  <2> HIDE DEF f
  <2>17. \A i \in 1 .. b : g[i] = h[i]
    <3>1. \A i \in 1 .. b : i \in 1 .. Len(h) + 1 /\ i < b + 1
      BY <1>3, <1>5
    <3> QED BY <2>10, <3>1
  <2>12. Len(f) = Len(m.S)
    BY <1>3, <1>5, <2>10, <2>11
  <2>13. ASSUME NEW j \in 1 .. Len(m.S) PROVE f[j] = r.S[j][1]
    <3>0. j \in 1 .. Len(g) - 1
      BY <1>3, <1>5, <2>10
    <3>1. f[j] = IF j < k THEN g[j] ELSE g[j + 1]
      BY <2>11, <3>0
    <3>2. CASE j < k
      <4>3. j \in 1 .. b
        BY <1>3, <2>5, <3>2
      <4>1. g[j] = h[j]
        BY <2>17, <4>3
      <4>2. r.S[j] = m.S[j]
        BY <2>3, <3>2 DEF Sunk
      <4> QED BY <1>5, <3>1, <3>2, <4>1, <4>2
    <3>3. CASE ~(j < k) /\ j < b
      <4>3. /\ j + 1 \in 1 .. Len(m.S) /\ j + 1 \in 1 .. Len(h) + 1
            /\ j + 1 < b + 1
        BY <1>3, <1>5, <3>3
      <4>1. g[j + 1] = h[j + 1] /\ j + 1 \in 1 .. Len(m.S)
        BY <2>10, <4>3
      <4>2. r.S[j] = m.S[j + 1]
        BY <2>3, <3>3 DEF Sunk
      <4> QED BY <1>5, <3>1, <3>3, <4>1, <4>2
    <3>4. CASE j = b
      <4>1. g[j + 1] = h[k] /\ ~(j < k)
        BY <1>3, <1>5, <2>5, <2>10, <3>4
      <4>2. r.S[j] = m.S[k]
        BY <2>3, <2>5, <3>4, <4>1 DEF Sunk
      <4> QED BY <1>5, <2>5, <3>1, <4>1, <4>2
    <3>5. CASE j > b
      <4>1. j + 1 \in 1 .. Len(h) + 1 /\ j + 1 > b + 1 /\ (j + 1) - 1 = j
        BY <1>3, <1>5, <3>5
      <4>2. g[j + 1] = h[j] /\ ~(j < k)
        BY <1>3, <1>5, <2>5, <2>10, <3>5, <4>1
      <4>3. r.S[j] = m.S[j]
        BY <2>3, <2>5, <3>5, <4>2 DEF Sunk
      <4> QED BY <1>5, <3>1, <4>2, <4>3
    <3> QED BY <1>3, <3>2, <3>3, <3>4, <3>5
  <2>14. Len(r.S) = Len(m.S)
    BY <2>3 DEF Sunk
  <2>15. PageList(r.S) = [i \in 1 .. Len(f) |-> f[i]]
    BY <2>12, <2>13, <2>14 DEF PageList
  <2>16. f = [i \in 1 .. Len(f) |-> f[i]]
    BY <2>11
  <2> QED BY <2>9, <2>15, <2>16 DEF h, l, r
<1> QED BY <1>6, <1>7

(* The pruning is the Trim of the history.                                 *)
LEMMA PolicyTrim ==
  ASSUME NEW m, Ordered(m), Stacked(m), m.len <= MAX_S_LEN + 2,
         IsFiniteSet(LIRIn(m.table)),
         MAX_S_LEN > 2 * Cardinality(LIRIn(m.table))
  PROVE  Policy!Trim(PageList(m.S), LIRIn(m.table)) =
           PageList(pruneLIRSstack(m).S)
<1> DEFINE r == PruneOnce(m)
<1>1. Policy!Sink(PageList(m.S), LIRIn(m.table)) = PageList(r.S)
  BY PolicySink
<1>2. Ordered(r) /\ SameFrames(r, m) /\ SameNumbers(r, m)
  <2>1. CASE m.len <= MAX_S_LEN
    <3>1. r = m
      BY <2>1 DEF PruneOnce
    <3> HIDE DEF r
    <3> QED BY <3>1 DEF SameFrames, SameNumbers
  <2>2. CASE ~(m.len <= MAX_S_LEN)
    <3>1. m.len > MAX_S_LEN
      BY <2>2, ConstantsAssumption DEF Ordered, Region, Shape, Machines
    <3> QED BY <3>1, PruneOnceOrder
  <2> QED BY <2>1, <2>2
<1>3. pruneLIRSstack(m) = PruneOnce(r)
  BY DEF pruneLIRSstack
<1> HIDE DEF r
<1>4. r.table = m.table /\ Stacked(r)
  BY <1>2 DEF SameFrames, SameNumbers, Stacked, Node
<1>5. Policy!Sink(PageList(r.S), LIRIn(m.table)) = PageList(PruneOnce(r).S)
  BY <1>2, <1>4, PolicySink
<1> QED BY <1>1, <1>3, <1>5 DEF Policy!Trim

(* A first reference puts its page on top of the history twice.            *)
LEMMA PolicyRefreshNew ==
  ASSUME StackOK, NEW p \in Page, ~Known(p)
  PROVE  /\ p \notin Policy!Range(PageList(S))
         /\ Policy!Refresh(PageList(S), p) = PageList(PushBoth(S, p))
<1> DEFINE h == PageList(S)
           t == PushBoth(S, p)
           f == <<p, p>> \o h
<1>1. /\ S \in Seq(Node) /\ Len(S) \in Nat
      /\ <<p, 1>> \notin Range(S) /\ <<p, 2>> \notin Range(S)
  BY UnknownNodes DEF StackOK
<1>2. /\ h \in Seq(Page) /\ Len(h) = Len(S)
      /\ \A i \in 1 .. Len(S) : h[i] = S[i][1] /\ h[i] \in Page
  BY <1>1, PageListFacts
<1>3. /\ Len(t) = Len(S) + 2 /\ t[1] = <<p, 1>> /\ t[2] = <<p, 2>>
      /\ \A j \in 3 .. Len(S) + 2 : t[j] = S[j - 2]
  BY <1>1, PushBothPositions
<1> HIDE DEF h, t
<1>4. p \notin Range(h)
  <2>1. ASSUME NEW i \in 1 .. Len(S), h[i] = p PROVE FALSE
    <3>1. S[i] \in Node /\ S[i] \in Range(S) /\ S[i][1] = p
      BY <1>1, <1>2, <2>1 DEF Range
    <3>2. S[i] = <<p, 1>> \/ S[i] = <<p, 2>>
      BY <3>1 DEF Node
    <3> QED BY <1>1, <3>1, <3>2
  <2> QED BY <1>2, <2>1 DEF Range
<1>5. /\ f \in Seq(Page) /\ Len(f) = Len(S) + 2 /\ f[1] = p /\ f[2] = p
      /\ \A j \in 3 .. Len(S) + 2 : f[j] = h[j - 2]
  BY <1>1, <1>2
<1> HIDE DEF f
<1>6. ASSUME NEW j \in 1 .. Len(f) PROVE f[j] = t[j][1]
  <2>1. CASE j = 1 \/ j = 2
    BY <1>3, <1>5, <2>1
  <2>2. CASE j \in 3 .. Len(S) + 2
    <3>1. j - 2 \in 1 .. Len(S)
      BY <1>1, <2>2
    <3> QED BY <1>2, <1>3, <1>5, <2>2, <3>1
  <2> QED BY <1>1, <1>5, <2>1, <2>2
<1>7. PageList(t) = f
  BY <1>3, <1>5, <1>6 DEF PageList
<1> QED BY <1>4, <1>7, PolicyOperators DEF Policy!Refresh, h, t, f

(* A later one moves its older entry to the top.                           *)
LEMMA PolicyRefreshKnown ==
  ASSUME StackOK, NEW p \in Page, NEW h, NEW q,
         NEW m, m.S = S, TwoNodes(m, p, h, q)
  PROVE  /\ p \in Policy!Range(PageList(S))
         /\ Policy!Older(PageList(S), p) = q
         /\ Policy!Refresh(PageList(S), p) = PageList(ToHead(S, q))
<1> DEFINE e == PageList(S)
           t == ToHead(S, q)
           g == RemoveAt(e, q)
           f == <<p>> \o g
<1>1. S \in Seq(Node) /\ IsInjective(S) /\ Len(S) \in Nat
  BY DEF StackOK
<1>2. /\ q \in 1 .. Len(S) /\ h \in 1 .. Len(S) /\ h < q /\ S[q][1] = p
      /\ \A i \in 1 .. Len(S) : S[i][1] = p => i = h \/ i = q
  BY DEF TwoNodes
<1>3. \A i \in 1 .. Len(S) : S[i][1] = S[q][1] => i <= q
  BY <1>1, <1>2
<1>4. Policy!Older(e, p) = q
  BY <1>1, <1>2, <1>3, PolicyOlder
<1>5. /\ e \in Seq(Page) /\ Len(e) = Len(S)
      /\ \A i \in 1 .. Len(S) : e[i] = S[i][1] /\ e[i] \in Page
  BY <1>1, PageListFacts
<1>6. /\ Len(t) = Len(S) /\ t[1] = S[q]
      /\ \A j \in 2 .. Len(S) : t[j] = IF j <= q THEN S[j - 1] ELSE S[j]
  <2>1. q \in 1 .. Len(S)
    BY <1>2
  <2> QED BY <1>1, <2>1, ToHeadFacts
<1> HIDE DEF e, t
<1>7. p \in Range(e)
  BY <1>2, <1>5 DEF Range
<1>8. /\ g \in Seq(Page) /\ Len(g) = Len(S) - 1
      /\ \A j \in 1 .. Len(S) - 1 : g[j] = IF j < q THEN e[j] ELSE e[j + 1]
  <2>1. q \in 1 .. Len(e)
    BY <1>2, <1>5
  <2>2. /\ RemoveAt(e, q) \in Seq(Page)
        /\ Len(RemoveAt(e, q)) = Len(e) - 1
        /\ \A j \in 1 .. Len(e) - 1 :
             RemoveAt(e, q)[j] = IF j < q THEN e[j] ELSE e[j + 1]
    BY <1>5, <2>1, RemoveAtPositions
  <2> QED BY <1>5, <2>2
<1> HIDE DEF g
<1>9. /\ f \in Seq(Page) /\ Len(f) = Len(S) /\ f[1] = p
      /\ \A j \in 2 .. Len(S) : f[j] = g[j - 1]
  BY <1>1, <1>2, <1>8
<1> HIDE DEF f
<1>10. ASSUME NEW j \in 1 .. Len(f) PROVE f[j] = t[j][1]
  <2>1. CASE j = 1
    BY <1>2, <1>6, <1>9, <2>1
  <2>2. CASE j # 1
    <3>1. j \in 2 .. Len(S) /\ j - 1 \in 1 .. Len(S) - 1 /\ (j - 1) + 1 = j
      BY <1>1, <1>9, <2>2
    <3>2. f[j] = IF j - 1 < q THEN e[j - 1] ELSE e[j]
      BY <1>8, <1>9, <3>1
    <3>3. j - 1 < q <=> j <= q
      BY <1>1, <1>2, <3>1
    <3> QED BY <1>1, <1>2, <1>5, <1>6, <3>1, <3>2, <3>3
  <2> QED BY <2>1, <2>2
<1>11. PageList(t) = f
  BY <1>6, <1>9, <1>10 DEF PageList
<1> QED BY <1>4, <1>7, <1>11, PolicyOperators
        DEF Policy!Refresh, e, t, f, g

(* A node in front of a list puts its page in front of the pages.          *)
LEMMA PageListCons ==
  ASSUME NEW s \in Seq(Node), NEW d \in Node
  PROVE  PageList(<<d>> \o s) = <<d[1]>> \o PageList(s)
<1> DEFINE t == <<d>> \o s
           e == PageList(s)
           f == <<d[1]>> \o e
<1>1. /\ t \in Seq(Node) /\ Len(t) = Len(s) + 1 /\ t[1] = d
      /\ \A j \in 2 .. Len(s) + 1 : t[j] = s[j - 1]
  OBVIOUS
<1>2. /\ e \in Seq(Page) /\ Len(e) = Len(s) /\ Len(s) \in Nat
      /\ \A i \in 1 .. Len(s) : e[i] = s[i][1]
  BY PageListFacts
<1>3. d[1] \in Page
  BY DEF Node
<1> HIDE DEF e, t
<1>4. /\ f \in Seq(Page) /\ Len(f) = Len(s) + 1 /\ f[1] = d[1]
      /\ \A j \in 2 .. Len(s) + 1 : f[j] = e[j - 1]
  BY <1>2, <1>3
<1> HIDE DEF f
<1>5. ASSUME NEW j \in 1 .. Len(s) + 1 PROVE f[j] = t[j][1]
  <2>1. CASE j = 1
    BY <1>1, <1>4, <2>1
  <2>2. CASE j # 1
    <3>1. j \in 2 .. Len(s) + 1 /\ j - 1 \in 1 .. Len(s)
      BY <1>2, <2>2
    <3> QED BY <1>1, <1>2, <1>4, <3>1
  <2> QED BY <2>1, <2>2
<1>6. PageList(t) = f
  BY <1>1, <1>4, <1>5 DEF PageList
<1> QED BY <1>6 DEF t, e, f

(* Node d is put in front of the queue, page x changes places with p.      *)
Joins(r, queue, d) == r.Q = <<d>> \o queue

KindsSwap(r, table, p, x) ==
  LIRIn(r.table) = IF x = p THEN LIRIn(table)
                   ELSE (LIRIn(table) \ {x}) \cup {p}

(* A HIR page that is touched is promoted exactly if another page joins    *)
(* the queue, the LIR page it takes the place of.                          *)
LEMMA TouchedKinds ==
  ASSUME NEW p \in Page, NEW table \in [Page -> Entries],
         NEW queue \in Seq(Node), NEW r, NEW d \in Node,
         FramesTouched(r, table, queue, p), p \notin LIRIn(table),
         Joins(r, queue, d)
  PROVE  KindsSwap(r, table, p, d[1])
<1>1. ASSUME NEW n \in Node, r.Q = <<n>> \o queue PROVE n = d
  <2>1. (<<n>> \o queue)[1] = n /\ (<<d>> \o queue)[1] = d
    OBVIOUS
  <2> QED BY <1>1, <2>1 DEF Joins
<1>4. table[p].isHIR_block
  BY DEF LIRIn
<1>2. CASE TouchedHIR(r, table, queue, p)
  <2>1. d[1] = p
    BY <1>1, <1>2 DEF TouchedHIR
  <2>2. \A x \in Page : r.table[x].isHIR_block = table[x].isHIR_block
    BY <1>2 DEF TouchedHIR, Entries
  <2> QED BY <2>1, <2>2 DEF LIRIn, KindsSwap
<1>3. CASE Promoted(r, table, queue, p)
  <2>1. /\ ~table[d[1]].isHIR_block
        /\ \A x \in Page : r.table[x].isHIR_block =
                             ((table[x].isHIR_block /\ x # p) \/ x = d[1])
    BY <1>1, <1>3 DEF Promoted
  <2>2. \A x \in Page : table[x].isHIR_block \in BOOLEAN
    BY DEF Entries
  <2>3. d[1] # p
    BY <1>4, <2>1
  <2>4. \A x \in Page : ~r.table[x].isHIR_block <=>
                          (~table[x].isHIR_block /\ x # d[1]) \/ x = p
    BY <2>1, <2>2, <2>3
  <2> QED BY <2>3, <2>4 DEF LIRIn, KindsSwap
<1> QED BY <1>2, <1>3, <1>4 DEF FramesTouched, TouchedLIR

(* LIR pages that are touched keep queue and kinds.                        *)
LEMMA TouchedLIRKinds ==
  ASSUME NEW p \in Page, NEW table \in [Page -> Entries], NEW queue, NEW r,
         FramesTouched(r, table, queue, p), ~table[p].isHIR_block
  PROVE  r.Q = queue /\ LIRIn(r.table) = LIRIn(table)
<1>1. TouchedLIR(r, table, queue, p)
  BY DEF FramesTouched, TouchedHIR, Promoted
<1>2. \A x \in Page : r.table[x].isHIR_block = table[x].isHIR_block
  BY <1>1 DEF TouchedLIR, Entries
<1> QED BY <1>1, <1>2 DEF TouchedLIR, LIRIn

(* What the policy makes of a reference to p before it trims the history.  *)
AsPolicy(t, p, table, queue) ==
  LET h == Policy!Refresh(PageList(S), p)
      l == LIRIn(table)
      bottomPage == h[Policy!Bottom(h, l)]
  IN  /\ PageList(t.S) = h
      /\ LIRIn(t.table) =
           IF p \in l THEN l
           ELSE IF Policy!Promotable(p) THEN (l \ {bottomPage}) \cup {p} ELSE l
      /\ PageList(t.Q) =
           IF p \in l THEN PageList(queue)
           ELSE IF Policy!Promotable(p) THEN <<bottomPage>> \o PageList(queue)
           ELSE <<p>> \o PageList(queue)

(* The first reference to p.                                               *)
LEMMA PolicyFirstTouch ==
  ASSUME StackOK, NEW p \in Page, ~Known(p),
         NEW table \in [Page -> Entries], NEW queue \in Seq(Node), NEW t,
         Entered(t, p, table, queue), FramesTouched(t, table, queue, p)
  PROVE  AsPolicy(t, p, table, queue)
<1>1. /\ p \notin Policy!Range(PageList(S))
      /\ PageList(t.S) = Policy!Refresh(PageList(S), p)
  BY PolicyRefreshNew DEF Entered
<1>2. ~Policy!Promotable(p)
  BY <1>1 DEF Policy!Promotable
<1>3. p \in LIRIn(table) <=> ~table[p].isHIR_block
  BY DEF LIRIn
<1>4. CASE ~table[p].isHIR_block
  <2>1. t.Q = queue /\ LIRIn(t.table) = LIRIn(table)
    BY <1>4, TouchedLIRKinds
  <2> QED BY <1>1, <1>3, <1>4, <2>1 DEF AsPolicy
<1>5. CASE table[p].isHIR_block
  <2> DEFINE d == <<p, 1>>
  <2>1. d \in Node /\ d[1] = p
    BY DEF Node
  <2>2. t.Q = <<d>> \o queue
    BY <1>5 DEF Entered
  <2> HIDE DEF d
  <2>5. Joins(t, queue, d) /\ p \notin LIRIn(table)
    BY <1>3, <1>5, <2>2 DEF Joins
  <2>6. KindsSwap(t, table, p, d[1])
    BY <2>1, <2>5, TouchedKinds
  <2>3. LIRIn(t.table) = LIRIn(table)
    BY <2>1, <2>6 DEF KindsSwap
  <2>4. PageList(t.Q) = <<p>> \o PageList(queue)
    BY <2>1, <2>2, PageListCons
  <2> QED BY <1>1, <1>2, <1>3, <1>5, <2>3, <2>4 DEF AsPolicy
<1> QED BY <1>4, <1>5

(* The recency mark and the fake flag of its older node tell whether the   *)
(* policy promotes a HIR page (line 422).                                  *)
LEMMA PolicyPromotable ==
  ASSUME StackOK, Ordered(Now), Stacked(Now), NEW p \in Page, Known(p),
         p \notin LIRPages, NEW h, NEW q, TwoNodes(Now, p, h, q),
         pointerInstance(p, 2) = S[q]
  PROVE  Promotable(p) <=> Policy!Promotable(p)
<1>1. /\ Now.S = S /\ Now.inst = inst /\ Now.table = mPageTable
  BY DEF Now, Machine
<1>2. PICK b, c \in 1 .. Len(S) : Region(Now, b, c) /\ Marked(Now, b, 1)
  BY <1>1 DEF Ordered
<1>3. InOrder(Now)
  BY DEF Ordered
<1>4. LIRIn(mPageTable) = LIRPages
  BY DEF LIRIn, LIRPages
<1>5. Policy!Bottom(PageList(S), LIRPages) = b /\ S[b][1] \in LIRPages
  BY <1>1, <1>2, <1>3, <1>4, PolicyBottom
<1>6. /\ p \in Policy!Range(PageList(S))
      /\ Policy!Older(PageList(S), p) = q
  BY <1>1, PolicyRefreshKnown
<1>7. q \in 1 .. Len(S) /\ S[q][1] = p /\ Len(S) \in Nat
  BY <1>1 DEF TwoNodes, StackOK
<1>8. q # b
  BY <1>5, <1>7
<1>9. inst[S[q]].recency2 <=> q <= b
  BY <1>1, <1>2, <1>7 DEF Marked
<1>10. q <= b <=> q < b
  BY <1>7, <1>8
<1>11. p \in SeenOnce <=> inst[S[q]].fake_ins
  BY DEF SeenOnce
<1> QED BY <1>5, <1>6, <1>9, <1>10, <1>11 DEF Promotable, Policy!Promotable

(* A later one: the page that makes room is the one Rmax2 stands on.       *)
LEMMA PolicyRetouch ==
  ASSUME StackOK, Ordered(Now), Stacked(Now), NEW p \in Page, Known(p),
         NEW table \in [Page -> Entries], NEW queue \in Seq(Node),
         NEW lirs \in Nat,
         Ordered(Machine(table, queue, lirs)), Stacked(Machine(table, queue, lirs)),
         table[p].isHIR_block = mPageTable[p].isHIR_block,
         NEW h, NEW q, TwoNodes(Now, p, h, q),
         pointerInstance(p, 1) = S[h], pointerInstance(p, 2) = S[q]
  PROVE  AsPolicy(Retouch(Machine(table, queue, lirs), p), p, table, queue)
<1> DEFINE m == Machine(table, queue, lirs)
           r == Retouch(m, p)
           moved == MoveToTop(m, p)
           n2 == pointerInstance(p, 2)
           e == Policy!Refresh(PageList(S), p)
           l == LIRIn(table)
<1>1. /\ m.S = S /\ m.inst = inst /\ m.table = table /\ m.Q = queue
      /\ m.Rmax2 = Rmax2 /\ Now.S = S /\ Now.inst = inst
  BY DEF Machine, Now
<1>2. TwoNodes(m, p, h, q)
  BY <1>1 DEF TwoNodes
<1>3. /\ S # <<>> /\ ~table[Rmax2[1]].isHIR_block
  BY <1>1 DEF Ordered, Region, Lowest, LIRNumber, IsLIR
<1>4. r.S = ToHead(S, q) /\ FramesTouched(r, table, queue, p)
  BY <1>2, <1>3, RetouchOrder, RetouchFacts
<1>5. PICK a, b, c \in 1 .. Len(m.S) :
        First(m, a) /\ Region(m, b, c) /\ Marked(m, b, 1)
  BY DEF Ordered
<1>6. InOrder(m)
  BY DEF Ordered
<1>7. /\ \E a2, b2, c2 \in 1 .. Len(m.S) :
            /\ First(moved, a2) /\ Region(moved, b2, c2) /\ Marked(moved, b2, 2)
            /\ b2 <= b + 1 /\ (q < b => h + 1 < b2)
      /\ InOrder(moved) /\ moved.S = ToHead(m.S, q) /\ Swapped(moved, m, h, q)
      /\ moved.table = m.table /\ moved.Q = m.Q /\ moved.lirs = m.lirs
  <2>1. pointerInstance(p, 1) = m.S[h] /\ pointerInstance(p, 2) = m.S[q]
    BY <1>1
  <2> HIDE DEF moved, m
  <2> QED BY <1>2, <1>5, <1>6, <2>1, MoveToTopOrder DEF moved
<1>8. PICK b2, c2 \in 1 .. Len(m.S) : Region(moved, b2, c2)
  BY <1>7
<1>9. PageList(r.S) = e /\ moved.S = r.S /\ PageList(moved.S) = e
  <2> HIDE DEF r, moved, m
  <2>1. e = PageList(ToHead(S, q))
    BY <1>1, PolicyRefreshKnown
  <2> QED BY <1>1, <1>4, <1>7, <2>1
<1>10. Stacked(moved)
  <2> HIDE DEF moved, m
  <2>1. moved.table = m.table /\ Swapped(moved, m, h, q)
    BY <1>7
  <2>2. \A x \in Page : <<x, 1>> \in Node
    BY DEF Node
  <2>3. Stacked(m)
    BY DEF m
  <2> SUFFICES ASSUME NEW x \in Page, ~moved.table[x].isHIR_block
               PROVE  moved.inst[<<x, 1>>].which_instance # 0
    BY DEF Stacked
  <2> DEFINE n == <<x, 1>>
  <2>4. n \in Node /\ m.inst[n].which_instance # 0
    BY <2>1, <2>2, <2>3 DEF Stacked
  <2> HIDE DEF n
  <2> DEFINE sh == m.S[h]
             sq == m.S[q]
  <2>6. /\ moved.inst[sh].which_instance = 2
        /\ moved.inst[sq].which_instance = 1
        /\ \A y \in Node \ {sh, sq} :
             moved.inst[y].which_instance = m.inst[y].which_instance
    BY <2>1 DEF Swapped
  <2> HIDE DEF sh, sq
  <2>5. moved.inst[n].which_instance # 0
    <3>1. CASE n = sh \/ n = sq
      BY <2>6, <3>1
    <3>2. CASE n \in Node \ {sh, sq}
      BY <2>4, <2>6, <3>2
    <3> QED BY <2>4, <3>1, <3>2
  <2> QED BY <2>5 DEF n
<1>11. p \in l <=> p \in LIRPages
  BY DEF LIRIn, LIRPages
<1>12. p \in l <=> ~table[p].isHIR_block
  BY DEF LIRIn
<1>13. CASE ~table[p].isHIR_block
  <2> HIDE DEF r, m, moved
  <2>1. r.Q = queue /\ LIRIn(r.table) = l
    BY <1>4, <1>13, TouchedLIRKinds
  <2> HIDE DEF l, e
  <2> QED BY <1>9, <1>12, <1>13, <2>1 DEF AsPolicy, l, e, r, m
<1>14. CASE table[p].isHIR_block
  <2>1. Promotable(p) <=> Policy!Promotable(p)
    BY <1>11, <1>12, <1>14, PolicyPromotable
  <2>2. Policy!Bottom(e, l) = b2 /\ moved.S[b2][1] \in l
    <3> HIDE DEF moved, m, r, e
    <3>1. moved.table = table
      BY <1>1, <1>7
    <3> QED BY <1>7, <1>8, <1>9, <1>10, <3>1, PolicyBottom
  <2>3. /\ moved.Rmax2 = moved.S[b2] /\ Shape(moved) /\ IsLIR(moved, moved.Rmax2)
        /\ b2 \in 1 .. Len(moved.S)
    <3> HIDE DEF moved
    <3> QED BY <1>8 DEF Region, Lowest, LIRNumber
  <2>4. e[b2] = moved.S[b2][1] /\ moved.S[b2] \in Node
    <3> HIDE DEF moved, e, r, m
    <3>1. moved.S \in Seq(Node)
      BY <2>3 DEF Shape, Machines
    <3> QED BY <1>9, <2>3, <3>1, PageListFacts
  <2>5. CASE Promotable(p)
    <3> DEFINE d == moved.Rmax2
    <3>1. r.Q = <<d>> \o queue
      <4> DEFINE placed == Promote(moved, p)
      <4>1. r = Finish(placed, p, n2)
        BY <1>1, <1>14, <2>5 DEF Retouch, Finish
      <4>2. Shape(placed) /\ placed.Q = <<d>> \o queue
        <5> HIDE DEF moved, m
        <5>1. Shape(Promote(moved, p))
          BY <2>3, PromoteFacts
        <5>2. Promote(moved, p).Q = <<moved.Rmax2>> \o moved.Q
          BY <2>3, PromoteFacts
        <5> QED BY <1>1, <1>7, <5>1, <5>2
      <4> HIDE DEF placed, moved, r
      <4> QED BY <4>1, <4>2 DEF Finish, Shape, Machines
    <3> HIDE DEF r, moved, m
    <3>2. d \in Node /\ d[1] = e[b2] /\ d[1] # p
      BY <1>12, <1>14, <2>2, <2>3, <2>4
    <3> HIDE DEF d
    <3>5. Joins(r, queue, d) /\ p \notin LIRIn(table)
      BY <1>12, <1>14, <3>1 DEF Joins, l
    <3>6. KindsSwap(r, table, p, d[1])
      BY <1>4, <3>2, <3>5, TouchedKinds
    <3>3. LIRIn(r.table) = (l \ {d[1]}) \cup {p}
      BY <3>2, <3>6 DEF KindsSwap
    <3>4. PageList(r.Q) = <<d[1]>> \o PageList(queue)
      BY <3>1, <3>2, PageListCons
    <3> HIDE DEF l, e
    <3> QED BY <1>9, <1>12, <1>14, <2>1, <2>2, <2>5, <3>2, <3>3, <3>4
            DEF AsPolicy, l, e, r, m
  <2>6. CASE ~Promotable(p)
    <3>0. n2 \in Node /\ n2[1] = p
      BY KnownNodes
    <3>1. r.Q = <<n2>> \o queue
      <4> DEFINE placed == [moved EXCEPT !.Q = <<n2>> \o moved.Q]
      <4>1. r = Finish(placed, p, n2)
        BY <1>1, <1>14, <2>6 DEF Retouch, Finish
      <4>2. moved.Q = queue /\ moved \in Machines
        BY <1>1, <1>7, <2>3 DEF Shape
      <4> HIDE DEF moved, r, m, n2
      <4>3. r.Q = placed.Q
        BY <4>1, <4>2 DEF Finish, Machines
      <4>4. placed.Q = <<n2>> \o queue
        BY <4>2 DEF Machines
      <4> QED BY <4>3, <4>4
    <3> HIDE DEF r, moved, m, n2
    <3>4. Joins(r, queue, n2) /\ p \notin LIRIn(table)
      BY <1>12, <1>14, <3>1 DEF Joins, l
    <3>5. KindsSwap(r, table, p, n2[1])
      BY <1>4, <3>0, <3>4, TouchedKinds
    <3>2. LIRIn(r.table) = l
      BY <3>0, <3>5 DEF KindsSwap
    <3>3. PageList(r.Q) = <<p>> \o PageList(queue)
      BY <3>0, <3>1, PageListCons
    <3> HIDE DEF l, e
    <3> QED BY <1>9, <1>12, <1>14, <2>1, <2>6, <3>0, <3>2, <3>3
            DEF AsPolicy, l, e, r, m
  <2> QED BY <2>5, <2>6
<1> QED BY <1>13, <1>14

(* The known pages with a fake node have been seen once.                   *)
FakeIn(i) == {x \in Page : /\ i[<<x, 1>>].which_instance # 0
                           /\ i[<<x, 1>>].fake_ins \/ i[<<x, 2>>].fake_ins}

(* The fake node of a page is its older one.                               *)
LEMMA SeenOnceIs == StackOK /\ RealFirst(Now) => SeenOnce = FakeIn(inst)
<1> SUFFICES ASSUME StackOK, RealFirst(Now), NEW x \in Page
             PROVE  x \in SeenOnce <=> x \in FakeIn(inst)
  BY DEF SeenOnce, FakeIn
<1> DEFINE n1 == <<x, 1>>
           n2 == <<x, 2>>
<1>1. n1 \in Node /\ n2 \in Node /\ n1 # NULL /\ n2 # NULL
  BY ConstantsAssumption DEF Node
<1>2. Known(x) <=> inst[n1].which_instance # 0
  BY KnownIsNumbered
<1>3. \/ inst[n1].which_instance = 0
      \/ inst[n1].which_instance = 1 /\ inst[n2].which_instance = 2
      \/ inst[n1].which_instance = 2 /\ inst[n2].which_instance = 1
  BY DEF StackOK, Numbered
<1>4. \A n \in Node : inst[n].which_instance = 1 => ~inst[n].fake_ins
  BY DEF RealFirst, Now, Machine
<1>5. pointerInstance(x, 2) = IF inst[n1].which_instance = 2 THEN n1
                              ELSE IF inst[n2].which_instance = 2 THEN n2
                              ELSE NULL
  BY DEF pointerInstance
<1>6. x \in SeenOnce <=> Known(x) /\ inst[pointerInstance(x, 2)].fake_ins
  BY DEF SeenOnce
<1>7. x \in FakeIn(inst) <=> /\ inst[n1].which_instance # 0
                             /\ inst[n1].fake_ins \/ inst[n2].fake_ins
  BY DEF FakeIn
<1> HIDE DEF n1, n2
<1>8. CASE inst[n1].which_instance = 0
  BY <1>2, <1>6, <1>7, <1>8
<1>9. CASE inst[n1].which_instance = 1 /\ inst[n2].which_instance = 2
  <2>1. pointerInstance(x, 2) = n2 /\ ~inst[n1].fake_ins
    BY <1>1, <1>4, <1>5, <1>9
  <2> QED BY <1>2, <1>6, <1>7, <1>9, <2>1
<1>10. CASE inst[n1].which_instance = 2 /\ inst[n2].which_instance = 1
  <2>1. pointerInstance(x, 2) = n1 /\ ~inst[n2].fake_ins
    BY <1>1, <1>4, <1>5, <1>10
  <2> QED BY <1>2, <1>6, <1>7, <1>10, <2>1
<1> QED BY <1>3, <1>8, <1>9, <1>10

(* A first reference adds its page to those seen once.                     *)
LEMMA FakesEntered ==
  ASSUME NEW p \in Page, NEW table, NEW queue, NEW t,
         Entered(t, p, table, queue)
  PROVE  FakeIn(t.inst) = FakeIn(inst) \cup {p}
<1> DEFINE n1 == <<p, 1>>
           n2 == <<p, 2>>
<1>1. /\ t.inst[n1].which_instance = 1 /\ t.inst[n2].fake_ins
      /\ \A n \in Node \ {n1, n2} : t.inst[n] = inst[n]
  BY DEF Entered
<1>2. p \in FakeIn(t.inst)
  BY <1>1 DEF FakeIn
<1>3. ASSUME NEW x \in Page, x # p
      PROVE  x \in FakeIn(t.inst) <=> x \in FakeIn(inst)
  <2> DEFINE a == <<x, 1>>
             b == <<x, 2>>
  <2>1. a \in Node \ {n1, n2} /\ b \in Node \ {n1, n2}
    BY <1>3 DEF Node
  <2>2. x \in FakeIn(t.inst) <=> /\ t.inst[a].which_instance # 0
                                 /\ t.inst[a].fake_ins \/ t.inst[b].fake_ins
    BY DEF FakeIn
  <2>3. x \in FakeIn(inst) <=> /\ inst[a].which_instance # 0
                               /\ inst[a].fake_ins \/ inst[b].fake_ins
    BY DEF FakeIn
  <2> HIDE DEF a, b, n1, n2
  <2>4. t.inst[a] = inst[a] /\ t.inst[b] = inst[b]
    BY <1>1, <2>1
  <2> QED BY <2>2, <2>3, <2>4
<1>4. FakeIn(t.inst) \subseteq Page /\ FakeIn(inst) \subseteq Page
  BY DEF FakeIn
<1> QED BY <1>2, <1>3, <1>4

(* A later one takes it away.                                              *)
LEMMA FakesSwapped ==
  ASSUME StackOK, RealFirst(Now), NEW p \in Page, Known(p), NEW m, m.S = S,
         m.inst = inst, NEW h, NEW q, TwoNodes(m, p, h, q),
         pointerInstance(p, 1) = S[h], pointerInstance(p, 2) = S[q],
         NEW t, Swapped(t, m, h, q)
  PROVE  FakeIn(t.inst) = FakeIn(inst) \ {p}
<1> DEFINE n1 == <<p, 1>>
           n2 == <<p, 2>>
           sh == S[h]
           sq == S[q]
<1>1. /\ \A n \in Node \ {sh, sq} :
           t.inst[n].which_instance = inst[n].which_instance
      /\ \A n \in Node : t.inst[n].fake_ins <=> inst[n].fake_ins /\ n # sq
      /\ inst[sh].which_instance = 1
  BY DEF Swapped, TwoNodes
<1>2. \A n \in Node : inst[n].which_instance = 1 => ~inst[n].fake_ins
  BY DEF RealFirst, Now, Machine
<1>3. /\ sh \in Node /\ sq \in Node
      /\ (sh = n1 /\ sq = n2) \/ (sh = n2 /\ sq = n1)
  BY KnownNodes
<1>4. p \notin FakeIn(t.inst)
  <2>1. p \in FakeIn(t.inst) => t.inst[n1].fake_ins \/ t.inst[n2].fake_ins
    BY DEF FakeIn
  <2> HIDE DEF n1, n2, sh, sq
  <2>2. ~t.inst[sh].fake_ins /\ ~t.inst[sq].fake_ins
    BY <1>1, <1>2, <1>3
  <2> QED BY <1>3, <2>1, <2>2
<1>5. ASSUME NEW x \in Page, x # p
      PROVE  x \in FakeIn(t.inst) <=> x \in FakeIn(inst)
  <2> DEFINE a == <<x, 1>>
             b == <<x, 2>>
  <2>1. a \in Node \ {sh, sq} /\ b \in Node \ {sh, sq}
    <3>1. a \in Node \ {n1, n2} /\ b \in Node \ {n1, n2}
      BY <1>5 DEF Node
    <3> HIDE DEF a, b, n1, n2, sh, sq
    <3> QED BY <1>3, <3>1
  <2>2. x \in FakeIn(t.inst) <=> /\ t.inst[a].which_instance # 0
                                 /\ t.inst[a].fake_ins \/ t.inst[b].fake_ins
    BY DEF FakeIn
  <2>3. x \in FakeIn(inst) <=> /\ inst[a].which_instance # 0
                               /\ inst[a].fake_ins \/ inst[b].fake_ins
    BY DEF FakeIn
  <2> HIDE DEF a, b, n1, n2, sh, sq
  <2>4. /\ t.inst[a].which_instance = inst[a].which_instance
        /\ t.inst[a].fake_ins <=> inst[a].fake_ins
        /\ t.inst[b].fake_ins <=> inst[b].fake_ins
    BY <1>1, <2>1
  <2> QED BY <2>2, <2>3, <2>4
<1>6. FakeIn(t.inst) \subseteq Page /\ FakeIn(inst) \subseteq Page
  BY DEF FakeIn
<1> QED BY <1>4, <1>5, <1>6

(* The pruning leaves it as it is.                                         *)
LEMMA FakesSame ==
  ASSUME NEW r, NEW t, SameNumbers(r, t), SameFakes(r, t)
  PROVE  FakeIn(r.inst) = FakeIn(t.inst)
<1>1. ASSUME NEW x \in Page
      PROVE  x \in FakeIn(r.inst) <=> x \in FakeIn(t.inst)
  <2> DEFINE a == <<x, 1>>
             b == <<x, 2>>
  <2>1. a \in Node /\ b \in Node
    BY DEF Node
  <2>2. x \in FakeIn(t.inst) <=> /\ t.inst[a].which_instance # 0
                                 /\ t.inst[a].fake_ins \/ t.inst[b].fake_ins
    BY DEF FakeIn
  <2>3. x \in FakeIn(r.inst) <=> /\ r.inst[a].which_instance # 0
                                 /\ r.inst[a].fake_ins \/ r.inst[b].fake_ins
    BY DEF FakeIn
  <2> HIDE DEF a, b
  <2>4. /\ r.inst[a].which_instance = t.inst[a].which_instance
        /\ r.inst[a].fake_ins <=> t.inst[a].fake_ins
        /\ r.inst[b].fake_ins <=> t.inst[b].fake_ins
    BY <2>1 DEF SameNumbers, SameFakes
  <2> QED BY <2>2, <2>3, <2>4
<1>2. FakeIn(r.inst) \subseteq Page /\ FakeIn(t.inst) \subseteq Page
  BY DEF FakeIn
<1> QED BY <1>1, <1>2

(* LIR pages have frames, hence nodes, while p is touched and after it.    *)
LEMMA TouchStacked ==
  ASSUME IInv, OrderOK, NEW p \in Page, NEW table, NEW queue, NEW lirs,
         Touching(p, table, queue, lirs), NEW t,
         TouchedAs(t, p, table, queue, lirs)
  PROVE  /\ Stacked(Now) /\ Stacked(t)
         /\ Known(p) => Stacked(Machine(table, queue, lirs))
         /\ Known(p) => table[p].isHIR_block = mPageTable[p].isHIR_block
<1>1. RunningOK /\ StackOK
  BY DEF IInv, OrderOK, RunningOK
<1>2. \A x \in Page :
        /\ ~mPageTable[x].isHIR_block => mPageTable[x].isResident
        /\ mPageTable[x].isResident => Known(x)
        /\ mFreeMemSize > 0 /\ Known(x) => mPageTable[x].isResident
  BY <1>1 DEF RunningOK, Accounted, LIRIn, ResidentIn, OrderOK
<1>3. /\ table \in [Page -> Entries] /\ queue \in Seq(Node)
      /\ \A x \in Page :
           \/ table[x].isHIR_block = mPageTable[x].isHIR_block
           \/ x = p /\ mFreeMemSize > 0 /\ ~mPageTable[x].isResident
  BY DEF Touching
<1>4. \A x \in Page : Known(x) <=> inst[<<x, 1>>].which_instance # 0
  BY <1>1, KnownIsNumbered
<1>5. Stacked(Now)
  BY <1>2, <1>4 DEF Stacked, Now, Machine
<1>6. ASSUME Known(p)
      PROVE  \A x \in Page : table[x].isHIR_block = mPageTable[x].isHIR_block
  BY <1>2, <1>3, <1>6
<1>7. Known(p) => Stacked(Machine(table, queue, lirs))
  BY <1>2, <1>4, <1>6 DEF Stacked, Machine
<1>8. Stacked(t)
  <2>1. /\ FramesTouched(t, table, queue, p)
        /\ \A x \in Page :
             t.inst[<<x, 1>>].which_instance # 0 <=> Known(x) \/ x = p
    BY DEF TouchedAs, Placed
  <2>2. ASSUME NEW x \in Page, x # p, ~t.table[x].isHIR_block
        PROVE  ~table[x].isHIR_block
    <3>1. CASE Promoted(t, table, queue, p)
      BY <2>2, <3>1, <1>3 DEF Promoted, Entries
    <3>2. CASE t.table = [table EXCEPT ![p].isResident = TRUE]
      BY <2>2, <3>2, <1>3
    <3> QED BY <2>1, <3>1, <3>2 DEF FramesTouched, TouchedLIR, TouchedHIR
  <2> SUFFICES ASSUME NEW x \in Page, ~t.table[x].isHIR_block
               PROVE  t.inst[<<x, 1>>].which_instance # 0
    BY DEF Stacked
  <2>3. CASE x = p
    BY <2>1, <2>3
  <2>4. CASE x # p
    <3>1. ~mPageTable[x].isHIR_block
      BY <1>3, <2>2, <2>4
    <3> QED BY <1>2, <2>1, <3>1
  <2> QED BY <2>3, <2>4
<1> QED BY <1>5, <1>6, <1>7, <1>8

(* The handler does what the policy does, until it prunes.                 *)
LEMMA PolicyTouched ==
  ASSUME IInv, OrderOK, NEW p \in Page, NEW table, NEW queue, NEW lirs,
         Touching(p, table, queue, lirs), NEW t,
         TouchedAs(t, p, table, queue, lirs)
  PROVE  /\ AsPolicy(t, p, table, queue)
         /\ FakeIn(t.inst) = IF p \in Policy!Range(PageList(S))
                             THEN SeenOnce \ {p} ELSE SeenOnce \cup {p}
<1> DEFINE m == Machine(table, queue, lirs)
<1>1. RunningOK /\ StackOK /\ RealFirst(Now)
  BY DEF IInv, OrderOK, RunningOK
<1>2. /\ table \in [Page -> Entries] /\ queue \in Seq(Node) /\ lirs \in Nat
  BY DEF Touching
<1>3. SeenOnce = FakeIn(inst)
  BY <1>1, SeenOnceIs
<1>4. FramesTouched(t, table, queue, p)
  BY DEF TouchedAs, Placed
<1>5. CASE ~Known(p)
  <2>1. Entered(t, p, table, queue)
    BY <1>1, <1>5, FirstTouchEffect DEF TouchedAs
  <2>2. AsPolicy(t, p, table, queue)
    BY <1>1, <1>2, <1>4, <1>5, <2>1, PolicyFirstTouch
  <2>3. FakeIn(t.inst) = FakeIn(inst) \cup {p}
    BY <2>1, FakesEntered
  <2>4. p \notin Policy!Range(PageList(S))
    BY <1>1, <1>5, PolicyRefreshNew
  <2> QED BY <1>3, <2>2, <2>3, <2>4
<1>6. CASE Known(p)
  <2>1. Ordered(m) /\ t = Retouch(m, p)
    BY <1>6 DEF TouchedAs
  <2>2. /\ m.S = S /\ m.inst = inst /\ InOrder(m)
        /\ Now.S = S /\ Now.inst = inst
    BY <2>1 DEF Ordered, Machine, Now
  <2>3. PICK h, q \in 1 .. Len(S) :
          /\ TwoNodes(m, p, h, q)
          /\ pointerInstance(p, 1) = S[h] /\ pointerInstance(p, 2) = S[q]
    BY <1>1, <1>6, <2>2, KnownTwoNodes
  <2>4. Swapped(t, m, h, q)
    BY <1>1, <1>2, <1>6, <2>1, <2>3, RetouchOrder
  <2>5. FakeIn(t.inst) = FakeIn(inst) \ {p}
    <3> HIDE DEF m
    <3> QED BY <1>1, <1>6, <2>2, <2>3, <2>4, FakesSwapped
  <2>6. p \in Policy!Range(PageList(S))
    <3> HIDE DEF m
    <3> QED BY <1>1, <2>2, <2>3, PolicyRefreshKnown
  <2>7. TwoNodes(Now, p, h, q)
    BY <2>2, <2>3 DEF TwoNodes
  <2>8. /\ Stacked(Now) /\ Stacked(m)
        /\ table[p].isHIR_block = mPageTable[p].isHIR_block
    BY <1>6, TouchStacked
  <2>9. Ordered(Now)
    BY <2>3 DEF OrderOK
  <2>10. AsPolicy(t, p, table, queue)
    BY <1>1, <1>2, <1>6, <2>1, <2>3, <2>7, <2>8, <2>9, PolicyRetouch
  <2> QED BY <1>3, <2>5, <2>6, <2>10
<1> QED BY <1>5, <1>6

(* The whole handler places p as the policy does.                          *)
LEMMA PolicyPlace ==
  ASSUME StackDeepEnough, IInv, IInv', OrderOK, OrderOK', NEW p \in Page,
         NEW table, NEW queue, NEW lirs, Touching(p, table, queue, lirs)
  PROVE  Policy!Place(p, LIRIn(table), PageList(queue)) /\ last_ref_pg' = p
<1>1. PICK t : /\ Install(pruneLIRSstack(t))
               /\ TouchedAs(t, p, table, queue, lirs) /\ Prunable(t)
  BY TouchPlaces
<1>2. /\ AsPolicy(t, p, table, queue)
      /\ FakeIn(t.inst) = IF p \in Policy!Range(PageList(S))
                          THEN SeenOnce \ {p} ELSE SeenOnce \cup {p}
  BY <1>1, PolicyTouched
<1>3. Stacked(t)
  BY <1>1, TouchStacked
<1>4. Ordered(t)
  BY <1>1 DEF TouchedAs, Placed
<1> DEFINE r == pruneLIRSstack(t)
<1>5. /\ SameFrames(r, t) /\ SameNumbers(r, t) /\ SameFakes(r, t)
  BY <1>1, <1>4, pruneLIRSstackOrder DEF Prunable
<1>6. Policy!Trim(PageList(t.S), LIRIn(t.table)) = PageList(r.S)
  BY <1>1, <1>3, <1>4, PolicyTrim DEF Prunable
<1>7. mPageTable' = t.table /\ Q' = t.Q /\ S' = r.S /\ inst' = r.inst
  BY <1>1, <1>5 DEF Install, SameFrames
<1>8. FakeIn(inst') = FakeIn(t.inst)
  BY <1>5, <1>7, FakesSame
<1> HIDE DEF r
<1>9. SeenOnce' = FakeIn(inst')
  <2>1. (StackOK /\ RealFirst(Now))'
    BY DEF IInv, OrderOK, RunningOK
  <2>2. (StackOK /\ RealFirst(Now) => SeenOnce = FakeIn(inst))'
    BY SeenOnceIs, PTL
  <2> QED BY <2>1, <2>2
<1>10. LIRPages' = LIRIn(t.table)
  BY <1>7 DEF LIRPages, LIRIn
<1>11. /\ PageList(S') = Policy!Trim(PageList(t.S), LIRIn(t.table))
       /\ PageList(Q') = PageList(t.Q)
       /\ SeenOnce' = IF p \in Policy!Range(PageList(S))
                      THEN SeenOnce \ {p} ELSE SeenOnce \cup {p}
  BY <1>2, <1>6, <1>7, <1>8, <1>9
<1>12. Policy!Place(p, LIRIn(table), PageList(queue))
  BY <1>2, <1>10, <1>11 DEF AsPolicy, Policy!Place
<1> QED BY <1>12 DEF Touching

(* The pages of the queue once a page leaves it.                           *)
LEMMA PageListWithout ==
  ASSUME DistinctPages(Q), NEW p \in PagesOf(Q)
  PROVE  PageList(RemoveNode(Q, findInstanceInQ(p))) =
           Policy!Without(PageList(Q), p)
<1> DEFINE e == PageList(Q)
           n == findInstanceInQ(p)
<1>1. PICK i \in 1 .. Len(Q) : Q[i] = n
  BY findInstanceInQFacts DEF Range
<1>2. Q[i][1] = p
  BY <1>1, findInstanceInQFacts
<1>3. /\ Q \in Seq(Node) /\ Len(Q) \in Nat
      /\ \A j \in 1 .. Len(Q) : Q[j][1] = p => j = i
  BY <1>2 DEF DistinctPages
<1>4. Pos(Q, n) = i
  <2>1. \A j \in 1 .. Len(Q) : Q[j] = n => j = i
    BY <1>1, <1>2, <1>3
  <2> HIDE DEF n
  <2> QED BY <1>1, <2>1 DEF Pos
<1>5. /\ e \in Seq(Page) /\ Len(e) = Len(Q)
      /\ \A j \in 1 .. Len(Q) : e[j] = Q[j][1]
  BY <1>3, PageListFacts
<1>6. RemoveNode(Q, n) = RemoveAt(Q, i)
  BY <1>4 DEF RemoveNode
<1> HIDE DEF e, n
<1>7. Policy!Pos(e, p) = i /\ p \in Range(e)
  <2>1. /\ i \in 1 .. Len(e) /\ e[i] = p
        /\ \A j \in 1 .. Len(e) : e[j] = p => j = i
    BY <1>2, <1>3, <1>5
  <2> QED BY <2>1 DEF Policy!Pos, Range
<1>8. Policy!Without(e, p) = RemoveAt(e, i)
  BY <1>7, PolicyOperators DEF Policy!Without
<1> DEFINE t == RemoveAt(Q, i)
           g == RemoveAt(e, i)
<1>9. /\ Len(t) = Len(Q) - 1
      /\ \A j \in 1 .. Len(Q) - 1 : t[j] = IF j < i THEN Q[j] ELSE Q[j + 1]
  BY <1>3, RemoveAtPositions
<1>10. /\ g \in Seq(Page) /\ Len(g) = Len(Q) - 1
       /\ \A j \in 1 .. Len(Q) - 1 : g[j] = IF j < i THEN e[j] ELSE e[j + 1]
  <2>1. i \in 1 .. Len(e)
    BY <1>5
  <2>2. /\ RemoveAt(e, i) \in Seq(Page)
        /\ Len(RemoveAt(e, i)) = Len(e) - 1
        /\ \A j \in 1 .. Len(e) - 1 :
             RemoveAt(e, i)[j] = IF j < i THEN e[j] ELSE e[j + 1]
    BY <1>5, <2>1, RemoveAtPositions
  <2> QED BY <1>5, <2>2
<1> HIDE DEF t, g
<1>11. \A j \in 1 .. Len(g) : g[j] = t[j][1]
  BY <1>3, <1>5, <1>9, <1>10
<1>12. PageList(t) = g
  BY <1>9, <1>10, <1>11 DEF PageList
<1> QED BY <1>6, <1>8, <1>12 DEF e, n, t, g

(* The pages of the queue once its tail is dropped.                        *)
LEMMA PageListFront ==
  ASSUME NEW s \in Seq(Node), s # <<>>
  PROVE  /\ PageList(Front(s)) = Policy!Front(PageList(s))
         /\ PageList(s) # <<>>
<1> DEFINE e == PageList(s)
<1>1. /\ e \in Seq(Page) /\ Len(e) = Len(s)
      /\ \A j \in 1 .. Len(s) : e[j] = s[j][1]
  BY PageListFacts
<1>2. Len(s) \in Nat /\ Len(s) > 0
  OBVIOUS
<1> DEFINE t == Front(s)
           g == Front(e)
<1>3. /\ Len(t) = Len(s) - 1
      /\ \A j \in 1 .. Len(s) - 1 : t[j] = s[j]
  BY FrontPositions
<1> HIDE DEF e
<1>4. /\ g \in Seq(Page) /\ Len(g) = Len(s) - 1
      /\ \A j \in 1 .. Len(s) - 1 : g[j] = e[j]
  <2>1. e # <<>>
    BY <1>1, <1>2
  <2> QED BY <1>1, <2>1, FrontPositions
<1>5. e # <<>>
  BY <1>1, <1>2
<1> HIDE DEF t, g
<1>6. \A j \in 1 .. Len(g) : g[j] = t[j][1]
  BY <1>1, <1>2, <1>3, <1>4
<1>7. PageList(t) = g
  BY <1>3, <1>4, <1>6 DEF PageList
<1> QED BY <1>5, <1>7, PolicyOperators DEF e, t, g

(* The policy's reading of the cache and its free frames is the engine's.  *)
LEMMA PolicyFree ==
  ASSUME RunningOK, TypeOK
  PROVE  /\ Policy!Range(PageList(Q)) = PagesOf(Q)
         /\ Policy!Cached = ResidentIn(mPageTable)
         /\ Policy!Free = mFreeMemSize
<1>1. /\ DistinctPages(Q)
      /\ PagesOf(Q) = ResidentIn(mPageTable) \ LIRIn(mPageTable)
      /\ LIRIn(mPageTable) \subseteq ResidentIn(mPageTable)
      /\ IsFiniteSet(ResidentIn(mPageTable))
      /\ Cardinality(ResidentIn(mPageTable)) + mFreeMemSize = mCacheMaxLimit
  BY DEF RunningOK, Accounted
<1>2. Policy!Range(PageList(Q)) = PagesOf(Q)
  <2> DEFINE e == PageList(Q)
  <2>1. /\ e \in Seq(Page) /\ Len(e) = Len(Q)
        /\ \A j \in 1 .. Len(Q) : e[j] = Q[j][1]
    BY <1>1, PageListFacts DEF DistinctPages
  <2> HIDE DEF e
  <2>2. Range(e) = PagesOf(Q)
    BY <2>1 DEF Range, PagesOf
  <2> QED BY <2>2, PolicyOperators DEF e
<1>3. LIRPages = LIRIn(mPageTable)
  BY DEF LIRPages, LIRIn
<1>4. Policy!Cached = ResidentIn(mPageTable)
  BY <1>1, <1>2, <1>3 DEF Policy!Cached
<1> DEFINE card == Cardinality(ResidentIn(mPageTable))
<1>5. card \in Nat /\ card + mFreeMemSize = mCacheMaxLimit
  BY <1>1, FS_CardinalityType
<1>6. Policy!Free = mCacheMaxLimit - card
  BY <1>4, PolicyOperators DEF Policy!Free
<1> HIDE DEF card
<1>7. mCacheMaxLimit - card = mFreeMemSize
  BY <1>5, ConstantsAssumption DEF TypeOK
<1> QED BY <1>2, <1>4, <1>6, <1>7

(* Every branch of the handler is a step of the policy.                    *)
LEMMA PolicyBranch ==
  ASSUME RoomForLIR, StackDeepEnough, OInv, OInv', NEW p \in Page,
         MissEvict(p) \/ MissLoadLIR(p) \/ MissLoadHIR(p) \/ HitHIR(p) \/ HitLIR(p)
  PROVE  /\ Policy!Hit(p) \/ Policy!LoadAsLIR(p) \/ Policy!Load(p) \/ Policy!Evict(p)
         /\ p # last_ref_pg /\ last_ref_pg' = p
<1>1. /\ IInv /\ IInv' /\ OrderOK /\ OrderOK' /\ RunningOK /\ TypeOK /\ Running
  BY DEF OInv, IInv, OrderOK
<1>2. /\ Policy!Range(PageList(Q)) = PagesOf(Q)
      /\ Policy!Cached = ResidentIn(mPageTable)
      /\ Policy!Free = mFreeMemSize
  BY <1>1, PolicyFree
<1>3. /\ DistinctPages(Q) /\ Q \in Seq(Node)
      /\ PagesOf(Q) = ResidentIn(mPageTable) \ LIRIn(mPageTable)
      /\ mPageTable \in [Page -> Entries]
  BY <1>1 DEF RunningOK, Accounted, DistinctPages, TypeOK, Entries
<1>4. LIRPages = LIRIn(mPageTable)
  BY DEF LIRPages, LIRIn
<1>5. p # last_ref_pg /\ last_ref_pg' = p
  BY DEF MissEvict, MissLoadLIR, MissLoadHIR, HitHIR, HitLIR, Miss, Refer
<1>6. ASSUME NEW table, NEW queue, NEW lirs, Touching(p, table, queue, lirs)
      PROVE  Policy!Place(p, LIRIn(table), PageList(queue))
  BY <1>1, <1>6, PolicyPlace
<1>7. ASSUME Miss(p) PROVE Policy!Fault(p)
  BY <1>2, <1>7 DEF Miss, Policy!Fault, ResidentIn
<1>8. CASE MissEvict(p)
  <2> DEFINE v == Last(Q)[1]
             table == [mPageTable EXCEPT ![v].isResident = FALSE]
  <2>1. Q # <<>> /\ Miss(p) /\ mFreeMemSize = 0
    BY <1>1, <1>8, QueueHasTail DEF MissEvict
  <2>2. Touching(p, table, Front(Q), num_LIR_pgs)
    BY <1>1, <1>8, <2>1, EvictTouches
  <2>3. Policy!Place(p, LIRIn(table), PageList(Front(Q)))
    BY <1>6, <2>2
  <2>4. LIRIn(table) = LIRPages
    <3>1. \A x \in Page : table[x].isHIR_block = mPageTable[x].isHIR_block
      BY <1>3 DEF Entries
    <3> HIDE DEF table
    <3> QED BY <3>1 DEF LIRIn, LIRPages
  <2> HIDE DEF table
  <2>5. /\ PageList(Front(Q)) = Policy!Front(PageList(Q))
        /\ PageList(Q) # <<>>
    BY <1>3, <2>1, PageListFront
  <2>6. Policy!Evict(p)
    BY <1>2, <1>7, <2>1, <2>3, <2>4, <2>5 DEF Policy!Evict
  <2> QED BY <1>5, <2>6
<1>9. CASE MissLoadLIR(p)
  <2> DEFINE table == [mPageTable EXCEPT ![p].isHIR_block = FALSE]
  <2>1. Miss(p) /\ mFreeMemSize > HIR_block_portion_limit
    BY <1>9 DEF MissLoadLIR
  <2>2. Touching(p, table, Q, num_LIR_pgs + 1)
    <3>1. ~MissLoadHIR(p)
      BY <1>1, <2>1, LimitFacts DEF MissLoadHIR
    <3> QED BY <1>1, <1>9, <3>1, LoadTouches
  <2>3. Policy!Place(p, LIRIn(table), PageList(Q))
    BY <1>6, <2>2
  <2>4. LIRIn(table) = LIRPages \cup {p}
    <3>1. \A x \in Page : ~table[x].isHIR_block <=>
                            x = p \/ ~mPageTable[x].isHIR_block
      BY <1>3 DEF Entries
    <3> HIDE DEF table
    <3> QED BY <3>1 DEF LIRIn, LIRPages
  <2> HIDE DEF table
  <2>5. Policy!LoadAsLIR(p)
    BY <1>2, <1>7, <2>1, <2>3, <2>4 DEF Policy!LoadAsLIR
  <2> QED BY <1>5, <2>5
<1>10. CASE MissLoadHIR(p)
  <2>1. Miss(p) /\ mFreeMemSize \in 1 .. HIR_block_portion_limit
    BY <1>10 DEF MissLoadHIR
  <2>2. Touching(p, mPageTable, Q, num_LIR_pgs)
    <3>1. ~MissLoadLIR(p)
      BY <1>1, <2>1, LimitFacts DEF MissLoadLIR
    <3> QED BY <1>1, <1>10, <3>1, LoadTouches
  <2>3. Policy!Place(p, LIRPages, PageList(Q))
    BY <1>4, <1>6, <2>2
  <2>4. Policy!Load(p)
    BY <1>2, <1>7, <2>1, <2>3 DEF Policy!Load
  <2> QED BY <1>5, <2>4
<1>11. CASE HitHIR(p)
  <2> DEFINE queue == RemoveNode(Q, findInstanceInQ(p))
  <2>1. /\ mPageTable[p].isResident /\ mPageTable[p].isHIR_block
        /\ mPageFaultNum' = mPageFaultNum
    BY <1>11 DEF HitHIR
  <2>2. Touching(p, mPageTable, queue, num_LIR_pgs)
    <3>1. ~HitLIR(p)
      BY <2>1 DEF HitLIR
    <3> QED BY <1>1, <1>11, <3>1, HitTouches
  <2>3. Policy!Place(p, LIRPages, PageList(queue))
    BY <1>4, <1>6, <2>2
  <2>4. p \in PagesOf(Q) /\ p \in ResidentIn(mPageTable)
    BY <1>3, <2>1 DEF ResidentIn, LIRIn
  <2>5. PageList(queue) = Policy!Without(PageList(Q), p)
    BY <1>3, <2>4, PageListWithout
  <2> HIDE DEF queue
  <2>6. Policy!Hit(p)
    BY <1>2, <2>1, <2>3, <2>4, <2>5 DEF Policy!Hit
  <2> QED BY <1>5, <2>6
<1>12. CASE HitLIR(p)
  <2>1. /\ mPageTable[p].isResident /\ ~mPageTable[p].isHIR_block
        /\ mPageFaultNum' = mPageFaultNum
    BY <1>12 DEF HitLIR
  <2>2. Touching(p, mPageTable, Q, num_LIR_pgs)
    <3>1. ~HitHIR(p)
      BY <2>1 DEF HitHIR
    <3> QED BY <1>1, <1>12, <3>1, HitTouches
  <2>3. Policy!Place(p, LIRPages, PageList(Q))
    BY <1>4, <1>6, <2>2
  <2>4. p \notin PagesOf(Q) /\ p \in ResidentIn(mPageTable)
    BY <1>3, <2>1 DEF ResidentIn, LIRIn
  <2>5. PageList(Q) = Policy!Without(PageList(Q), p)
    BY <1>2, <2>4 DEF Policy!Without
  <2>6. Policy!Hit(p)
    BY <1>2, <2>1, <2>3, <2>4, <2>5 DEF Policy!Hit
  <2> QED BY <1>5, <2>6
<1> QED BY <1>8, <1>9, <1>10, <1>11, <1>12

(* Every step is a step of the policy or none.                             *)
LEMMA PolicyStep ==
  ASSUME RoomForLIR, StackDeepEnough, OInv, OInv', [Next]_vars
  PROVE  [Policy!Next]_(Policy!vars)
<1>1. CASE Next
  <2>1. PICK p \in Page : \/ MissEvict(p) \/ MissLoadLIR(p) \/ MissLoadHIR(p)
                          \/ HitHIR(p) \/ HitLIR(p)
    BY <1>1 DEF Next
  <2>2. /\ Policy!Hit(p) \/ Policy!LoadAsLIR(p) \/ Policy!Load(p) \/ Policy!Evict(p)
        /\ p # last_ref_pg /\ last_ref_pg' = p
    BY <2>1, PolicyBranch
  <2> QED BY <2>2 DEF Policy!Next
<1>2. CASE UNCHANGED vars
  BY <1>2 DEF vars, Policy!vars, PageList, SeenOnce, LIRPages, Known,
     pointerInstance
<1> QED BY <1>1, <1>2

(* An empty stack is an empty history.                                     *)
LEMMA PolicyInit == Init => Policy!Init
<1> SUFFICES ASSUME Init PROVE Policy!Init
  OBVIOUS
<1>1. PageList(S) = <<>> /\ PageList(Q) = <<>>
  <2>1. S = <<>> /\ Q = <<>>
    BY DEF Init
  <2>2. PageList(<<>>) = <<>>
    BY DEF PageList
  <2> QED BY <2>1, <2>2
<1>2. SeenOnce = {}
  <2>1. \A x \in Page : ~Known(x)
    BY DEF Init, Known, pointerInstance, Node
  <2> QED BY <2>1 DEF SeenOnce
<1>3. LIRPages = {}
  BY DEF Init, LIRPages
<1> QED BY <1>1, <1>2, <1>3 DEF Policy!Init, Init

(* Whatever the trace, LIRS2 is the policy of LIRS2Policy: nodes, instance *)
(* numbers, marks, the Rmax pointers, Cursor and the length counters       *)
(* implement plain recency order (replace_lirs2.cc:300-450).               *)
THEOREM LIRS2ImplementsPolicy ==
  ASSUME RoomForLIR, StackDeepEnough PROVE Spec => FollowsPolicy
<1>1. Init => Policy!Init
  BY PolicyInit
<1>2. OInv /\ OInv' /\ [Next]_vars => [Policy!Next]_(Policy!vars)
  BY PolicyStep
<1> QED BY <1>1, <1>2, OInvHolds, PTL DEF Spec, FollowsPolicy, Policy!Spec
=============================================================================
