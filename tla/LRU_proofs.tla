------------------------------ MODULE LRU_proofs ------------------------------
(***************************************************************************)
(* What holds of the LRU engine for every cache size, every finite set of  *)
(* pages and every trace.  Nothing is assumed but ConstantsAssumption.     *)
(*                                                                         *)
(* Linked says what the pointers of a list s look like.  PushHead,         *)
(* DropTail and Unlink turn the pointers of one list into those of         *)
(* another, and the walk that ListOrder takes along the pointers finds     *)
(* the list they are those of.  The list that is linked is not a variable  *)
(* of the engine, so IInv says that there is one.                          *)
(***************************************************************************)
EXTENDS LRU, ListLemmas

Pages == Page \cup {NULL}

(* The links l are those of the list s.                                    *)
Linked(l, s) ==
  /\ s \in Seq(Page) /\ IsInjective(s)
  /\ l.next \in [Page -> Pages] /\ l.prev \in [Page -> Pages]
  /\ l.head = IF s = <<>> THEN NULL ELSE s[1]
  /\ l.tail = IF s = <<>> THEN NULL ELSE s[Len(s)]
  /\ \A i \in 1 .. Len(s) :
       /\ l.next[s[i]] = IF i = Len(s) THEN NULL ELSE s[i + 1]
       /\ l.prev[s[i]] = IF i = 1 THEN NULL ELSE s[i - 1]

(* The pointers are those of a list of the cached pages, which take the    *)
(* frames that are not free.                                               *)
Holds(s) == /\ Linked(List, s)
            /\ Range(s) = isResident
            /\ Len(s) = mCacheMaxLimit - mFreeMemSize

IInv ==
  /\ mCacheMaxLimit \in Nat /\ mFreeMemSize \in 0 .. mCacheMaxLimit
  /\ \E s : Holds(s)
  /\ StopsOnlyBelowTwoFrames

-----------------------------------------------------------------------------
(* The list functions.                                                     *)

(* A page comes to the head.                                               *)
LEMMA PushHeadFacts ==
  ASSUME NEW l, NEW s, Linked(l, s), NEW p \in Page, p \notin Range(s)
  PROVE  Linked(PushHead(l, p), <<p>> \o s)
<1> DEFINE t == <<p>> \o s
           r == PushHead(l, p)
<1>1. /\ s \in Seq(Page) /\ IsInjective(s) /\ Len(s) \in Nat
      /\ l.next \in [Page -> Pages] /\ l.prev \in [Page -> Pages]
      /\ l.head = IF s = <<>> THEN NULL ELSE s[1]
      /\ l.tail = IF s = <<>> THEN NULL ELSE s[Len(s)]
      /\ \A i \in 1 .. Len(s) :
           /\ l.next[s[i]] = IF i = Len(s) THEN NULL ELSE s[i + 1]
           /\ l.prev[s[i]] = IF i = 1 THEN NULL ELSE s[i - 1]
      /\ s = <<>> <=> Len(s) = 0
  BY DEF Linked
<1>2. /\ t \in Seq(Page) /\ IsInjective(t)
      /\ Len(t) = Len(s) + 1 /\ t[1] = p
      /\ \A j \in 2 .. Len(s) + 1 : t[j] = s[j - 1]
  BY <1>1, ConsFacts
<1>3. \A i \in 1 .. Len(s) : s[i] \in Page /\ s[i] # p /\ s[i] # NULL
  BY <1>1, ConstantsAssumption DEF Range
<1>4. p # NULL
  BY ConstantsAssumption
<1>5. /\ r.head = p /\ r.tail = IF l.tail = NULL THEN p ELSE l.tail
      /\ r.next = [l.next EXCEPT ![p] = l.head]
      /\ r.prev = [q \in Page |-> IF q = p THEN NULL
                                  ELSE IF q = l.head THEN p ELSE l.prev[q]]
  BY DEF PushHead
<1> HIDE DEF r, t
<1>6. l.head \in Pages
  BY <1>1, <1>3 DEF Pages
<1>7. r.next \in [Page -> Pages] /\ r.prev \in [Page -> Pages]
  BY <1>1, <1>5, <1>6 DEF Pages
<1>8. t # <<>> /\ r.head = t[1]
  BY <1>1, <1>2, <1>5
<1>9. r.tail = t[Len(t)]
  <2>1. CASE s = <<>>
    BY <1>1, <1>2, <1>5, <2>1
  <2>2. CASE s # <<>>
    <3>1. Len(s) \in 1 .. Len(s) /\ Len(s) + 1 \in 2 .. Len(s) + 1
      BY <1>1, <2>2
    <3>2. l.tail = s[Len(s)] /\ l.tail # NULL /\ (Len(s) + 1) - 1 = Len(s)
      BY <1>1, <1>3, <2>2, <3>1
    <3>3. t[Len(s) + 1] = s[(Len(s) + 1) - 1]
      BY <1>2, <3>1
    <3> QED BY <1>2, <1>5, <3>2, <3>3
  <2> QED BY <2>1, <2>2
<1>10. ASSUME NEW i \in 1 .. Len(t)
       PROVE  /\ r.next[t[i]] = IF i = Len(t) THEN NULL ELSE t[i + 1]
              /\ r.prev[t[i]] = IF i = 1 THEN NULL ELSE t[i - 1]
  <2>1. CASE i = 1
    <3>1. r.next[p] = l.head /\ r.prev[p] = NULL
      BY <1>1, <1>5
    <3>2. CASE s = <<>>
      BY <1>1, <1>2, <2>1, <3>1, <3>2
    <3>3. CASE s # <<>>
      <4>1. 2 \in 2 .. Len(s) + 1 /\ i # Len(t)
        BY <1>1, <1>2, <2>1, <3>3
      <4>2. t[2] = s[1]
        BY <1>2, <4>1
      <4> QED BY <1>1, <1>2, <2>1, <3>1, <3>3, <4>1, <4>2
    <3> QED BY <3>2, <3>3
  <2>2. CASE i # 1
    <3> DEFINE k == i - 1
    <3>1. k \in 1 .. Len(s) /\ i = k + 1 /\ i \in 2 .. Len(s) + 1
      BY <1>1, <1>2, <1>10, <2>2
    <3>2. t[i] = s[k]
      BY <1>2, <3>1
    <3>3. i # Len(t) => t[i + 1] = s[k + 1]
      <4> SUFFICES ASSUME i # Len(t) PROVE t[i + 1] = s[k + 1]
        OBVIOUS
      <4>1. i + 1 \in 2 .. Len(s) + 1 /\ (i + 1) - 1 = k + 1
        BY <1>1, <1>2, <1>10, <3>1
      <4> QED BY <1>2, <4>1
    <3>4. t[i - 1] = IF k = 1 THEN p ELSE s[k - 1]
      <4>1. CASE k = 1
        BY <1>2, <3>1, <4>1
      <4>2. CASE k # 1
        <5>1. i - 1 \in 2 .. Len(s) + 1 /\ (i - 1) - 1 = k - 1
          BY <1>1, <3>1, <4>2
        <5> QED BY <1>2, <4>2, <5>1
      <4> QED BY <4>1, <4>2
    <3> HIDE DEF k
    <3>5. i = Len(t) <=> k = Len(s)
      BY <1>1, <1>2, <3>1
    <3>6. r.next[s[k]] = l.next[s[k]]
      BY <1>1, <1>3, <1>5, <3>1
    <3>7. r.next[t[i]] = IF i = Len(t) THEN NULL ELSE t[i + 1]
      BY <1>1, <3>1, <3>2, <3>3, <3>5, <3>6
    <3>8. s[k] = l.head <=> k = 1
      <4>1. 1 \in 1 .. Len(s) /\ s # <<>>
        BY <1>1, <3>1
      <4> QED BY <1>1, <3>1, <4>1 DEF IsInjective
    <3>9. r.prev[s[k]] = IF k = 1 THEN p ELSE l.prev[s[k]]
      BY <1>3, <1>5, <3>1, <3>8
    <3>10. r.prev[t[i]] = t[i - 1]
      BY <1>1, <3>1, <3>2, <3>4, <3>9
    <3> QED BY <2>2, <3>7, <3>10
  <2> QED BY <2>1, <2>2
<1>11. Linked(r, t)
  BY <1>2, <1>7, <1>8, <1>9, <1>10 DEF Linked
<1> QED BY <1>11 DEF r, t

(* The last page of a list of two or more leaves it.                       *)
LEMMA DropTailFacts ==
  ASSUME NEW l \in [next : [Page -> Pages], prev : [Page -> Pages],
                    head : Pages, tail : Pages],
         NEW s, Linked(l, s), Len(s) >= 2
  PROVE  /\ Linked(DropTail(l), Front(s))
         /\ Range(Front(s)) = Range(s) \ {l.tail}
         /\ Len(Front(s)) = Len(s) - 1
<1> DEFINE t == Front(s)
           n == Len(s)
           b == s[n - 1]
           v == s[n]
           r == DropTail(l)
           nx == [l.next EXCEPT ![b] = NULL, ![v] = NULL]
           pv == [l.prev EXCEPT ![v] = NULL]
<1>1. /\ s \in Seq(Page) /\ IsInjective(s) /\ n \in Nat
      /\ n - 1 \in 1 .. n /\ n \in 1 .. n /\ 1 \in 1 .. n /\ n # 1
      /\ l.next \in [Page -> Pages] /\ l.prev \in [Page -> Pages]
      /\ s # <<>> /\ l.head = s[1] /\ l.tail = v
      /\ \A i \in 1 .. n :
           /\ l.next[s[i]] = IF i = Len(s) THEN NULL ELSE s[i + 1]
           /\ l.prev[s[i]] = IF i = 1 THEN NULL ELSE s[i - 1]
  BY DEF Linked
<1>2. b \in Page /\ v \in Page /\ l.prev[v] = b
  BY <1>1
<1>3. r = [l EXCEPT !.tail = b, !.next = nx, !.prev = pv]
  BY <1>1, <1>2 DEF DropTail
<1>4. t = RemoveAt(s, n)
  <2>1. SubSeq(s, n + 1, n) = <<>>
    BY <1>1, SubSeqEmpty
  <2>2. SubSeq(s, 1, n - 1) \in Seq(Page)
    BY <1>1
  <2> QED BY <2>1, <2>2, ConcatEmptySeq DEF Front, RemoveAt
<1>5. /\ t \in Seq(Page) /\ IsInjective(t) /\ Range(t) = Range(s) \ {v}
      /\ Len(t) = n - 1
      /\ \A j \in 1 .. n - 1 : t[j] = s[j]
  <2>1. \A j \in 1 .. n - 1 :
          RemoveAt(s, n)[j] = IF j < n THEN s[j] ELSE s[j + 1]
    BY <1>1, RemoveAtFacts
  <2>2. \A j \in 1 .. n - 1 : j < n
    BY <1>1
  <2> QED BY <1>1, <1>4, <2>1, <2>2, RemoveAtFacts
<1>6. \A i, j \in 1 .. n : s[i] = s[j] => i = j
  BY <1>1 DEF IsInjective
<1>7. /\ nx \in [Page -> Pages] /\ pv \in [Page -> Pages]
      /\ \A x \in Page : /\ nx[x] = IF x = b \/ x = v THEN NULL ELSE l.next[x]
                         /\ pv[x] = IF x = v THEN NULL ELSE l.prev[x]
  BY <1>1, <1>2 DEF Pages
<1> HIDE DEF nx, pv, r, t
<1>8. /\ r.head = s[1] /\ r.tail = b /\ r.next = nx /\ r.prev = pv
  <2> HIDE DEF b, v
  <2> QED BY <1>1, <1>3
<1>9. t # <<>> /\ r.head = t[1] /\ r.tail = t[Len(t)]
  BY <1>1, <1>5, <1>8
<1>10. ASSUME NEW i \in 1 .. Len(t)
       PROVE  /\ r.next[t[i]] = IF i = Len(t) THEN NULL ELSE t[i + 1]
              /\ r.prev[t[i]] = IF i = 1 THEN NULL ELSE t[i - 1]
  <2>1. /\ i \in 1 .. n - 1 /\ i \in 1 .. n /\ i # n
        /\ t[i] = s[i] /\ s[i] \in Page
    BY <1>1, <1>5
  <2>2. s[i] # v /\ (s[i] = b <=> i = n - 1)
    BY <1>1, <1>6, <2>1
  <2>3. i # n - 1 => t[i + 1] = s[i + 1]
    <3>1. i # n - 1 => i + 1 \in 1 .. n - 1
      BY <1>1, <2>1
    <3> QED BY <1>5, <3>1
  <2>4. i # 1 => t[i - 1] = s[i - 1]
    <3>1. i # 1 => i - 1 \in 1 .. n - 1
      BY <1>1, <2>1
    <3> QED BY <1>5, <3>1
  <2>5. nx[s[i]] = IF i = n - 1 THEN NULL ELSE s[i + 1]
    BY <1>1, <1>7, <2>1, <2>2
  <2>6. pv[s[i]] = IF i = 1 THEN NULL ELSE s[i - 1]
    BY <1>1, <1>7, <2>1, <2>2
  <2> QED BY <1>5, <1>8, <2>1, <2>3, <2>4, <2>5, <2>6
<1>11. Linked(r, t)
  BY <1>5, <1>7, <1>8, <1>9, <1>10 DEF Linked
<1> QED BY <1>1, <1>5, <1>11 DEF r, t

(* A page leaves the list wherever it is.                                  *)
LEMMA UnlinkFacts ==
  ASSUME NEW l \in [next : [Page -> Pages], prev : [Page -> Pages],
                    head : Pages, tail : Pages],
         NEW s, Linked(l, s), NEW k \in 1 .. Len(s)
  PROVE  Linked(Unlink(l, s[k]), RemoveAt(s, k))
<1> DEFINE n == Len(s)
           t == RemoveAt(s, k)
           b == IF k = 1 THEN NULL ELSE s[k - 1]
           a == IF k = n THEN NULL ELSE s[k + 1]
           r == Unlink(l, s[k])
           nx == IF b = NULL THEN l.next ELSE [l.next EXCEPT ![b] = a]
           pv == IF a = NULL THEN l.prev ELSE [l.prev EXCEPT ![a] = b]
           hd == IF b = NULL THEN a ELSE l.head
           tl == IF a = NULL THEN b ELSE l.tail
<1>1. /\ s \in Seq(Page) /\ IsInjective(s) /\ n \in Nat /\ s # <<>>
      /\ l.next \in [Page -> Pages] /\ l.prev \in [Page -> Pages]
      /\ l.head = s[1] /\ l.tail = s[n]
      /\ \A i \in 1 .. n :
           /\ l.next[s[i]] = IF i = n THEN NULL ELSE s[i + 1]
           /\ l.prev[s[i]] = IF i = 1 THEN NULL ELSE s[i - 1]
  BY DEF Linked
<1>2. l.prev[s[k]] = b /\ l.next[s[k]] = a
  BY <1>1
<1>3. r = [l EXCEPT !.head = hd, !.tail = tl, !.next = nx, !.prev = pv]
  BY <1>2 DEF Unlink
<1>4. /\ t \in Seq(Page) /\ IsInjective(t) /\ Len(t) = n - 1
      /\ \A j \in 1 .. n - 1 : t[j] = IF j < k THEN s[j] ELSE s[j + 1]
  BY <1>1, RemoveAtFacts
<1>5. \A i, j \in 1 .. n : s[i] = s[j] => i = j
  BY <1>1 DEF IsInjective
<1>6. \A i \in 1 .. n : s[i] \in Page /\ s[i] # NULL
  BY <1>1, ConstantsAssumption
<1>7. /\ b \in Pages /\ (b = NULL <=> k = 1)
      /\ a \in Pages /\ (a = NULL <=> k = n)
  BY <1>1, <1>6 DEF Pages
<1>8. \A i \in 1 .. n : /\ s[i] = b <=> i = k - 1
                        /\ s[i] = a <=> i = k + 1
  BY <1>1, <1>5, <1>6
<1>9. nx \in [Page -> Pages] /\ pv \in [Page -> Pages]
  <2> HIDE DEF a, b
  <2> QED BY <1>1, <1>7 DEF Pages
<1>10. \A i \in 1 .. n : /\ nx[s[i]] = IF i = k - 1 THEN a ELSE l.next[s[i]]
                         /\ pv[s[i]] = IF i = k + 1 THEN b ELSE l.prev[s[i]]
  <2> HIDE DEF a, b
  <2> QED BY <1>1, <1>6, <1>7, <1>8
<1>11. r.head = hd /\ r.tail = tl /\ r.next = nx /\ r.prev = pv
  <2> HIDE DEF hd, tl, nx, pv, r
  <2> QED BY <1>3
<1> HIDE DEF nx, pv, r, t
<1>12. r.head = IF t = <<>> THEN NULL ELSE t[1]
  <2>1. t = <<>> <=> n = 1
    BY <1>1, <1>4
  <2>2. n # 1 => t[1] = IF k = 1 THEN s[2] ELSE s[1]
    BY <1>1, <1>4
  <2>3. hd = IF k = 1 THEN a ELSE s[1]
    BY <1>1, <1>7
  <2>4. CASE n = 1
    <3>1. k = 1 /\ k = n
      BY <2>4
    <3> QED BY <1>11, <2>1, <2>3, <2>4, <3>1
  <2>5. CASE n # 1
    <3>1. k = 1 => a = s[2]
      BY <2>5
    <3> HIDE DEF a
    <3> QED BY <1>11, <2>1, <2>2, <2>3, <2>5, <3>1
  <2> QED BY <2>4, <2>5
<1>13. r.tail = IF t = <<>> THEN NULL ELSE t[Len(t)]
  <2>1. t = <<>> <=> n = 1
    BY <1>1, <1>4
  <2>2. n # 1 => t[n - 1] = IF k = n THEN s[n - 1] ELSE s[n]
    <3> SUFFICES ASSUME n # 1
                 PROVE  t[n - 1] = IF k = n THEN s[n - 1] ELSE s[n]
      OBVIOUS
    <3>1. n - 1 \in 1 .. n - 1 /\ (n - 1) + 1 = n
      <4>1. n \in Nat /\ n >= 1
        BY <1>1
      <4> HIDE DEF n
      <4> QED BY <4>1
    <3>2. t[n - 1] = IF n - 1 < k THEN s[n - 1] ELSE s[(n - 1) + 1]
      BY <1>4, <3>1
    <3>3. CASE k = n
      BY <1>1, <3>2, <3>3
    <3>4. CASE k # n
      <4>1. ~(n - 1 < k)
        BY <1>1, <3>4
      <4> QED BY <3>1, <3>2, <3>4, <4>1
    <3> QED BY <3>3, <3>4
  <2>3. tl = IF k = n THEN b ELSE s[n]
    BY <1>1, <1>7
  <2> QED BY <1>1, <1>4, <1>11, <2>1, <2>2, <2>3
<1>14. ASSUME NEW i \in 1 .. Len(t)
       PROVE  /\ r.next[t[i]] = IF i = Len(t) THEN NULL ELSE t[i + 1]
              /\ r.prev[t[i]] = IF i = 1 THEN NULL ELSE t[i - 1]
  <2> DEFINE j == IF i < k THEN i ELSE i + 1
  <2>1. /\ i \in 1 .. n - 1 /\ j \in 1 .. n /\ t[i] = s[j]
        /\ j # k /\ Len(t) = n - 1
    BY <1>1, <1>4
  <2>2. i # n - 1 => t[i + 1] = IF j = k - 1 THEN s[k + 1] ELSE s[j + 1]
    <3> SUFFICES ASSUME i # n - 1
                 PROVE  t[i + 1] = IF j = k - 1 THEN s[k + 1] ELSE s[j + 1]
      OBVIOUS
    <3>1. i + 1 \in 1 .. n - 1
      BY <1>1, <2>1
    <3>2. t[i + 1] = IF i + 1 < k THEN s[i + 1] ELSE s[(i + 1) + 1]
      BY <1>4, <3>1
    <3> QED BY <2>1, <3>2
  <2>3. i # 1 => t[i - 1] = IF j = k + 1 THEN s[k - 1] ELSE s[j - 1]
    <3> SUFFICES ASSUME i # 1
                 PROVE  t[i - 1] = IF j = k + 1 THEN s[k - 1] ELSE s[j - 1]
      OBVIOUS
    <3>1. i - 1 \in 1 .. n - 1
      BY <1>1, <2>1
    <3>2. t[i - 1] = IF i - 1 < k THEN s[i - 1] ELSE s[(i - 1) + 1]
      BY <1>4, <3>1
    <3> QED BY <2>1, <3>2
  <2>4. r.next[t[i]] = IF i = n - 1 THEN NULL ELSE t[i + 1]
    <3>1. nx[s[j]] = IF j = k - 1 THEN a ELSE IF j = n THEN NULL ELSE s[j + 1]
      BY <1>1, <1>10, <2>1
    <3> QED BY <1>1, <1>11, <2>1, <2>2, <3>1
  <2>5. r.prev[t[i]] = IF i = 1 THEN NULL ELSE t[i - 1]
    <3>1. pv[s[j]] = IF j = k + 1 THEN b ELSE IF j = 1 THEN NULL ELSE s[j - 1]
      BY <1>1, <1>10, <2>1
    <3> QED BY <1>1, <1>11, <2>1, <2>3, <3>1
  <2> QED BY <2>1, <2>4, <2>5
<1>15. Linked(r, t)
  BY <1>4, <1>9, <1>11, <1>12, <1>13, <1>14 DEF Linked
<1> QED BY <1>15 DEF r, t

(* A list is no longer than there are pages.                               *)
LEMMA ListFits ==
  ASSUME NEW l, NEW s, Linked(l, s)
  PROVE  Cardinality(Page) \in Nat /\ Len(s) <= Cardinality(Page)
<1>1. s \in Seq(Page) /\ IsInjective(s)
  BY DEF Linked
<1>2. Range(s) \subseteq Page
  BY <1>1 DEF Range
<1>3. IsFiniteSet(Page)
  BY ConstantsAssumption
<1>4. /\ Cardinality(Page) \in Nat
      /\ Cardinality(Range(s)) <= Cardinality(Page)
  BY <1>2, <1>3, FS_Subset, FS_CardinalityType
<1>5. Cardinality(Range(s)) = Len(s)
  BY <1>1, ListCardinality
<1> QED BY <1>4, <1>5

(* One step of the walk along the links of s goes from a part of s to the  *)
(* next, and stays at its end.                                             *)
LEMMA FurtherFacts ==
  ASSUME NEW l, NEW s, Linked(l, s), NEW k \in Nat, k # 0
  PROVE  LET Part(j) == SubSeq(s, 1, IF j <= Len(s) THEN j ELSE Len(s))
         IN  Further(l.head, l.next, Part(k - 1), k) = Part(k)
<1> DEFINE n == Len(s)
           Part(j) == SubSeq(s, 1, IF j <= Len(s) THEN j ELSE Len(s))
           w == Part(k - 1)
           here == IF w = <<>> THEN l.head ELSE l.next[Last(w)]
<1>1. /\ s \in Seq(Page) /\ n \in Nat
      /\ l.head = IF s = <<>> THEN NULL ELSE s[1]
      /\ \A i \in 1 .. n : l.next[s[i]] = IF i = n THEN NULL ELSE s[i + 1]
      /\ \A i \in 1 .. n : s[i] # NULL
  BY ConstantsAssumption DEF Linked
<1>2. Further(l.head, l.next, w, k)
        = IF Len(w) < k - 1 \/ here = NULL THEN w ELSE Append(w, here)
  BY DEF Further
<1>3. CASE k <= n
  <2>1. k - 1 \in Nat /\ k - 1 <= n /\ k \in 1 .. n /\ s # <<>>
    BY <1>1, <1>3
  <2>2. w = SubSeq(s, 1, k - 1) /\ Part(k) = SubSeq(s, 1, k)
    BY <1>3, <2>1
  <2>3. /\ SubSeq(s, 1, k - 1) \in Seq(Page)
        /\ Len(SubSeq(s, 1, k - 1)) = k - 1
        /\ \A i \in 1 .. k - 1 : SubSeq(s, 1, k - 1)[i] = s[i]
    BY <1>1, <2>1
  <2> HIDE DEF w, Part
  <2>4. here = s[k]
    <3>1. CASE k = 1
      <4>1. w = <<>>
        BY <2>2, <2>3, <3>1
      <4> QED BY <1>1, <2>1, <3>1, <4>1
    <3>2. CASE k # 1
      <4>1. /\ k - 1 \in 1 .. n /\ k - 1 # n
            /\ (k - 1) + 1 = k /\ k - 1 \in 1 .. k - 1
        BY <1>1, <2>1, <3>2
      <4>2. w # <<>> /\ Last(w) = s[k - 1]
        BY <2>2, <2>3, <4>1 DEF Last
      <4> QED BY <1>1, <4>1, <4>2
    <3> QED BY <3>1, <3>2
  <2>5. Further(l.head, l.next, w, k) = Append(SubSeq(s, 1, k - 1), s[k])
    <3>1. Len(w) = k - 1 /\ ~(Len(w) < k - 1)
      BY <2>1, <2>2, <2>3
    <3>2. here # NULL
      BY <1>1, <2>1, <2>4
    <3> HIDE DEF here
    <3> QED BY <1>2, <2>2, <2>4, <3>1, <3>2
  <2>6. Append(SubSeq(s, 1, k - 1), s[k]) = SubSeq(s, 1, k)
    BY <1>1, <2>1
  <2> QED BY <2>2, <2>5, <2>6 DEF w, Part
<1>4. CASE k > n
  <2>1. w = SubSeq(s, 1, n) /\ Part(k) = SubSeq(s, 1, n)
    BY <1>1, <1>4
  <2>2. SubSeq(s, 1, n) = s
    BY <1>1
  <2> HIDE DEF w, Part
  <2>3. w = s /\ Part(k) = s
    BY <2>1, <2>2
  <2>4. Len(w) < k - 1 \/ here = NULL
    <3>1. CASE k - 1 = n
      <4>1. CASE s = <<>>
        BY <1>1, <2>3, <4>1
      <4>2. CASE s # <<>>
        BY <1>1, <2>3, <4>2 DEF Last
      <4> QED BY <4>1, <4>2
    <3>2. CASE k - 1 # n
      BY <1>1, <1>4, <2>3, <3>2
    <3> QED BY <3>1, <3>2
  <2>5. Further(l.head, l.next, w, k) = Part(k)
    BY <1>2, <2>3, <2>4
  <2> QED BY <2>5 DEF w, Part
<1> QED BY <1>1, <1>3, <1>4

(* The walk along the links of s finds s.                                  *)
LEMMA WalkFacts ==
  ASSUME NEW l, NEW s, Linked(l, s)
  PROVE  Walk(l.head, l.next) = s
<1> DEFINE n == Len(s)
           N == Cardinality(Page) + 1
           Part(j) == SubSeq(s, 1, IF j <= Len(s) THEN j ELSE Len(s))
           Step(f, k) == IF k = 0 THEN <<>>
                         ELSE Further(l.head, l.next, f[k - 1], k)
           Is(f) == f = [k \in 0 .. N |-> Step(f, k)]
           g == [k \in 0 .. N |-> Part(k)]
           path == CHOOSE f : Is(f)
<1>1. N \in Nat /\ n \in Nat /\ n < N /\ s \in Seq(Page)
  <2>1. s \in Seq(Page)
    BY DEF Linked
  <2>2. Cardinality(Page) \in Nat /\ n <= Cardinality(Page)
    BY ListFits
  <2>3. n \in Nat
    BY <2>1
  <2> HIDE DEF n
  <2> QED BY <2>1, <2>2, <2>3
<1>2. Part(0) = <<>> /\ Part(N) = s
  BY <1>1
<1>3. \A k \in Nat : k # 0 => Further(l.head, l.next, Part(k - 1), k) = Part(k)
  BY FurtherFacts
<1>4. Walk(l.head, l.next) = path[N]
  BY DEF Walk
<1> HIDE DEF Part, N
<1>5. Is(g)
  <2>1. ASSUME NEW k \in 0 .. N PROVE Step(g, k) = Part(k)
    <3>1. CASE k = 0
      BY <1>2, <3>1
    <3>2. CASE k # 0
      <4>1. k - 1 \in 0 .. N /\ k \in Nat
        BY <1>1, <3>2
      <4>2. g[k - 1] = Part(k - 1)
        BY <4>1
      <4> QED BY <1>3, <3>2, <4>1, <4>2
    <3> QED BY <3>1, <3>2
  <2> HIDE DEF Step
  <2> QED BY <2>1
<1>6. Is(path)
  <2> HIDE DEF Is, g
  <2> QED BY <1>5
<1> HIDE DEF path, g
<1>7. \A k \in 0 .. N : path[k] = Step(path, k)
  <2> HIDE DEF Step
  <2>1. path = [k \in 0 .. N |-> Step(path, k)]
    BY <1>6
  <2> HIDE DEF Is
  <2> QED BY <2>1
<1> HIDE DEF Is
<1> DEFINE Bad == {k \in 0 .. N : path[k] # Part(k)}
<1>8. Bad = {}
  <2> SUFFICES ASSUME Bad # {} PROVE FALSE
    OBVIOUS
  <2>1. Bad \subseteq Nat
    BY <1>1
  <2>2. \E k \in Bad : \A j \in Bad : ~(<<j, k>> \in OpToRel(<, Nat))
    <3> HIDE DEF Bad
    <3> QED BY <2>1, NatLessThanWellFounded, WFMin, Zenon
  <2>3. PICK k \in Bad : \A j \in Bad : ~(j < k)
    BY <2>1, <2>2 DEF OpToRel
  <2>4. k \in 0 .. N /\ k \in Nat /\ path[k] # Part(k)
    BY <2>1, <2>3
  <2>5. CASE k = 0
    BY <1>2, <1>7, <2>4, <2>5
  <2>6. CASE k # 0
    <3>1. k - 1 \in 0 .. N /\ k - 1 < k
      BY <1>1, <2>4, <2>6
    <3>2. path[k - 1] = Part(k - 1)
      BY <2>3, <3>1
    <3> HIDE DEF Bad
    <3>3. path[k] = Further(l.head, l.next, path[k - 1], k)
      BY <1>7, <2>4, <2>6
    <3> QED BY <1>3, <2>4, <2>6, <3>2, <3>3
  <2> QED BY <2>5, <2>6
<1>9. path[N] = Part(N)
  <2>1. N \in 0 .. N
    BY <1>1
  <2> QED BY <1>8, <2>1
<1> QED BY <1>2, <1>4, <1>9

-----------------------------------------------------------------------------
(* The steps.                                                              *)

(* What linked pointers are.                                               *)
LEMMA LinkedTypes ==
  ASSUME NEW s, Linked(List, s)
  PROVE  List \in [next : [Page -> Pages], prev : [Page -> Pages],
                   head : Pages, tail : Pages]
<1>1. /\ LRU_next \in [Page -> Pages] /\ LRU_prev \in [Page -> Pages]
      /\ LRU_list_head \in Pages /\ LRU_list_tail \in Pages
  BY DEF Linked, List, Pages
<1> QED BY <1>1 DEF List

(* SetList makes the pointers of a list those of the engine.               *)
LEMMA SetListLinks ==
  ASSUME NEW s, NEW l, Linked(l, s), SetList(l)
  PROVE  Linked(List, s)'
BY DEF Linked, SetList, List

(* The list of the engine is unique: it is the one the walk finds.         *)
LEMMA ListFound == ASSUME NEW s, Holds(s) PROVE ListOrder = s
<1>1. Linked(List, s)
  BY DEF Holds
<1>2. Walk(List.head, List.next) = s
  BY <1>1, WalkFacts
<1> QED BY <1>2 DEF ListOrder, List

(* The same of the list after a step.                                      *)
LEMMA NextListFound == ASSUME NEW s, Holds(s)' PROVE ListOrder' = s
<1>1. Linked(List', s)
  BY DEF Holds
<1>2. Walk(List'.head, List'.next) = s
  BY <1>1, WalkFacts
<1> QED BY <1>2 DEF ListOrder, List

(* A page is loaded into a free frame.                                     *)
LEMMA LoadHolds ==
  ASSUME IInv, UNCHANGED mCacheMaxLimit, NEW s, Holds(s),
         NEW p \in Page, Load(p)
  PROVE  /\ Holds(<<p>> \o s)'
         /\ p \notin Range(s) /\ Len(s) < mCacheMaxLimit
<1>1. /\ Linked(List, s) /\ s \in Seq(Page) /\ IsInjective(s)
      /\ Range(s) = isResident /\ p \notin Range(s)
      /\ Len(s) = mCacheMaxLimit - mFreeMemSize
  BY DEF Holds, Load, Linked
<1>2. Linked(PushHead(List, p), <<p>> \o s)
  BY <1>1, PushHeadFacts
<1>3. Linked(List, <<p>> \o s)'
  BY <1>2, SetListLinks DEF Load
<1>4. /\ Range(<<p>> \o s) = {p} \cup Range(s)
      /\ Len(<<p>> \o s) = Len(s) + 1
  BY <1>1, ConsFacts
<1>5. /\ mCacheMaxLimit \in Nat /\ mFreeMemSize \in Nat /\ mFreeMemSize > 0
      /\ mFreeMemSize' = mFreeMemSize - 1 /\ Len(s) \in Nat
      /\ isResident' = isResident \cup {p}
  BY <1>1 DEF IInv, Load
<1>6. Len(<<p>> \o s) = mCacheMaxLimit' - mFreeMemSize'
  BY <1>1, <1>4, <1>5
<1>7. Holds(<<p>> \o s)'
  BY <1>1, <1>3, <1>4, <1>5, <1>6 DEF Holds
<1> QED BY <1>1, <1>5, <1>7

(* A page takes the frame of the last of the list.                         *)
LEMMA EvictHolds ==
  ASSUME IInv, UNCHANGED mCacheMaxLimit, NEW s, Holds(s),
         NEW p \in Page, Evict(p)
  PROVE  /\ Holds(<<p>> \o Front(s))'
         /\ p \notin Range(s) /\ Len(s) = mCacheMaxLimit
<1>1. /\ Linked(List, s) /\ s \in Seq(Page) /\ Len(s) \in Nat
      /\ Range(s) = isResident /\ p \notin Range(s)
      /\ Len(s) = mCacheMaxLimit - mFreeMemSize
  BY DEF Holds, Evict, Linked
<1>2. /\ mCacheMaxLimit \in Nat /\ mFreeMemSize = 0 /\ mFreeMemSize' = 0
      /\ isResident' = (isResident \ {List.tail}) \cup {p}
      /\ List.tail # NULL /\ List.prev[List.tail] # NULL
  BY DEF IInv, Evict, NullAtTail, List
<1>3. Len(s) >= 2
  <2>1. s # <<>>
    BY <1>1, <1>2 DEF Linked
  <2>2. Len(s) \in 1 .. Len(s) /\ List.tail = s[Len(s)]
    BY <1>1, <2>1 DEF Linked
  <2>3. Len(s) # 1
    BY <1>1, <1>2, <2>2 DEF Linked
  <2> QED BY <1>1, <2>2, <2>3
<1> DEFINE t == Front(s)
<1>4. /\ Linked(DropTail(List), t)
      /\ Range(t) = Range(s) \ {List.tail}
      /\ Len(t) = Len(s) - 1
  BY <1>1, <1>3, LinkedTypes, DropTailFacts
<1> HIDE DEF t
<1>5. t \in Seq(Page) /\ IsInjective(t) /\ p \notin Range(t)
  BY <1>1, <1>4 DEF Linked
<1>6. Linked(PushHead(DropTail(List), p), <<p>> \o t)
  BY <1>4, <1>5, PushHeadFacts
<1>7. Linked(List, <<p>> \o t)'
  BY <1>6, SetListLinks DEF Evict
<1>8. /\ Range(<<p>> \o t) = {p} \cup Range(t)
      /\ Len(<<p>> \o t) = Len(t) + 1
  BY <1>5, ConsFacts
<1>9. Len(<<p>> \o t) = mCacheMaxLimit' - mFreeMemSize'
  BY <1>1, <1>2, <1>4, <1>8
<1>10. Holds(<<p>> \o t)'
  BY <1>1, <1>2, <1>4, <1>7, <1>8, <1>9 DEF Holds
<1> QED BY <1>1, <1>2, <1>10 DEF t

(* A cached page comes to the head.                                        *)
LEMMA HitHolds ==
  ASSUME IInv, UNCHANGED mCacheMaxLimit, NEW s, Holds(s),
         NEW k \in 1 .. Len(s), Hit(s[k])
  PROVE  Holds(<<s[k]>> \o RemoveAt(s, k))'
<1> DEFINE p == s[k]
           t == RemoveAt(s, k)
<1>1. /\ Linked(List, s) /\ s \in Seq(Page) /\ IsInjective(s)
      /\ Range(s) = isResident /\ Len(s) \in Nat /\ p \in Page
      /\ Len(s) = mCacheMaxLimit - mFreeMemSize
  BY DEF Holds, Linked
<1>2. Linked(Unlink(List, p), t)
  BY <1>1, LinkedTypes, UnlinkFacts
<1>3. /\ t \in Seq(Page) /\ IsInjective(t)
      /\ Range(t) = Range(s) \ {p} /\ Len(t) = Len(s) - 1
  BY <1>1, RemoveAtFacts
<1>4. p \in Range(s)
  BY <1>1 DEF Range
<1>5. /\ UNCHANGED <<isResident, mFreeMemSize>>
      /\ SetList(PushHead(Unlink(List, p), p))
  BY DEF Hit
<1> HIDE DEF p, t
<1>6. Linked(PushHead(Unlink(List, p), p), <<p>> \o t)
  BY <1>1, <1>2, <1>3, PushHeadFacts
<1>7. Linked(List, <<p>> \o t)'
  BY <1>5, <1>6, SetListLinks
<1>8. /\ Range(<<p>> \o t) = {p} \cup Range(t)
      /\ Len(<<p>> \o t) = Len(t) + 1
  BY <1>1, <1>3, ConsFacts
<1>9. Len(<<p>> \o t) = mCacheMaxLimit' - mFreeMemSize'
  BY <1>1, <1>3, <1>5, <1>8
<1>10. Holds(<<p>> \o t)'
  BY <1>1, <1>3, <1>4, <1>5, <1>7, <1>8, <1>9 DEF Holds
<1> QED BY <1>10 DEF p, t

(* A cached page is at some place of the list.                             *)
LEMMA HitPlace ==
  ASSUME NEW s, Holds(s), NEW p \in Page, Hit(p)
  PROVE  \E k \in 1 .. Len(s) : s[k] = p
<1>1. s \in Seq(Page) /\ p \in Range(s)
  BY DEF Holds, Linked, Hit
<1> QED BY <1>1 DEF Range

(* With two frames or more the last page has one before it.                *)
LEMMA CrashIsSmall ==
  ASSUME IInv, NEW s, Holds(s), NEW p \in Page, EvictCrashes(p)
  PROVE  mCacheMaxLimit < 2
<1>1. /\ Linked(List, s) /\ s \in Seq(Page) /\ Len(s) \in Nat
      /\ Len(s) = mCacheMaxLimit /\ mCacheMaxLimit \in Nat
  BY DEF Holds, Linked, EvictCrashes, IInv
<1>2. List.tail = NULL \/ List.prev[List.tail] = NULL
  BY DEF EvictCrashes, NullAtTail, List
<1> SUFFICES ASSUME Len(s) >= 2 PROVE FALSE
  BY <1>1
<1>3. /\ Len(s) \in 1 .. Len(s) /\ Len(s) - 1 \in 1 .. Len(s)
      /\ s # <<>> /\ Len(s) # 1
  BY <1>1
<1>4. s[Len(s)] \in Page /\ s[Len(s) - 1] \in Page
  BY <1>1, <1>3
<1>5. List.tail = s[Len(s)] /\ List.prev[List.tail] = s[Len(s) - 1]
  BY <1>1, <1>3 DEF Linked
<1> QED BY <1>2, <1>4, <1>5, ConstantsAssumption

-----------------------------------------------------------------------------
(* The invariant.                                                          *)

(* At first no page is linked.                                             *)
LEMMA InitHolds == Init => Holds(<<>>)
<1> SUFFICES ASSUME Init PROVE Holds(<<>>)
  OBVIOUS
<1>1. /\ <<>> \in Seq(Page) /\ IsInjective(<<>>) /\ Range(<<>>) = {}
      /\ Len(<<>>) = 0
  BY DEF IsInjective, Range
<1>2. /\ LRU_next \in [Page -> Pages] /\ LRU_prev \in [Page -> Pages]
      /\ LRU_list_head = NULL /\ LRU_list_tail = NULL
  BY DEF Init, Pages
<1>3. Linked(List, <<>>)
  BY <1>1, <1>2 DEF Linked, List
<1>4. mCacheMaxLimit \in Nat /\ mFreeMemSize = mCacheMaxLimit /\ isResident = {}
  BY ConstantsAssumption DEF Init
<1>5. Len(<<>>) = mCacheMaxLimit - mFreeMemSize
  BY <1>1, <1>4
<1> QED BY <1>1, <1>3, <1>4, <1>5 DEF Holds

(* The initial states satisfy the invariant.                               *)
LEMMA InitInv == Init => IInv
<1> SUFFICES ASSUME Init PROVE IInv
  OBVIOUS
<1>1. mCacheMaxLimit \in Nat /\ mFreeMemSize \in 0 .. mCacheMaxLimit
  BY ConstantsAssumption DEF Init
<1>2. StopsOnlyBelowTwoFrames
  BY DEF Init, StopsOnlyBelowTwoFrames
<1> QED BY <1>1, <1>2, InitHolds DEF IInv

(* Every step keeps it.                                                    *)
LEMMA StepInv == IInv /\ [Next]_vars => IInv'
<1> SUFFICES ASSUME IInv, [Next]_vars PROVE IInv'
  OBVIOUS
<1>1. PICK s : Holds(s)
  BY DEF IInv
<1>2. CASE UNCHANGED vars
  <2>1. Holds(s)'
    BY <1>1, <1>2 DEF vars, links, Holds, Linked, List
  <2>2. mCacheMaxLimit' = mCacheMaxLimit /\ mFreeMemSize' = mFreeMemSize
    BY <1>2 DEF vars
  <2>3. StopsOnlyBelowTwoFrames'
    BY <1>2 DEF IInv, vars, StopsOnlyBelowTwoFrames
  <2> QED BY <2>1, <2>2, <2>3 DEF IInv
<1>3. CASE Next
  <2>1. /\ mCacheMaxLimit' = mCacheMaxLimit /\ mCacheMaxLimit \in Nat
        /\ mFreeMemSize \in 0 .. mCacheMaxLimit /\ status = "running"
    BY <1>3 DEF Next, IInv
  <2>2. PICK p \in Page : Load(p) \/ Evict(p) \/ EvictCrashes(p) \/ Hit(p)
    BY <1>3 DEF Next
  <2>3. CASE Load(p)
    <3>1. Holds(<<p>> \o s)'
      BY <1>1, <2>1, <2>3, LoadHolds
    <3>2. mFreeMemSize' \in 0 .. mCacheMaxLimit' /\ status' = status
      BY <2>1, <2>3 DEF Load
    <3> QED BY <2>1, <3>1, <3>2 DEF IInv, StopsOnlyBelowTwoFrames
  <2>4. CASE Evict(p)
    <3>1. Holds(<<p>> \o Front(s))'
      BY <1>1, <2>1, <2>4, EvictHolds
    <3>2. mFreeMemSize' \in 0 .. mCacheMaxLimit' /\ status' = status
      BY <2>1, <2>4 DEF Evict
    <3> QED BY <2>1, <3>1, <3>2 DEF IInv, StopsOnlyBelowTwoFrames
  <2>5. CASE EvictCrashes(p)
    <3>1. Holds(s)'
      BY <1>1, <2>1, <2>5 DEF EvictCrashes, links, Holds, Linked, List
    <3>2. mCacheMaxLimit < 2
      BY <1>1, <2>5, CrashIsSmall
    <3>3. mFreeMemSize' = mFreeMemSize
      BY <2>5 DEF EvictCrashes
    <3> QED BY <2>1, <3>1, <3>2, <3>3 DEF IInv, StopsOnlyBelowTwoFrames
  <2>6. CASE Hit(p)
    <3>1. PICK k \in 1 .. Len(s) : s[k] = p
      BY <1>1, <2>6, HitPlace
    <3>2. Holds(<<s[k]>> \o RemoveAt(s, k))'
      BY <1>1, <2>1, <2>6, <3>1, HitHolds
    <3>3. mFreeMemSize' = mFreeMemSize /\ status' = status
      BY <2>6 DEF Hit
    <3> QED BY <2>1, <3>2, <3>3 DEF IInv, StopsOnlyBelowTwoFrames
  <2> QED BY <2>2, <2>3, <2>4, <2>5, <2>6
<1> QED BY <1>2, <1>3

(* The pointers of every reachable state are those of a list of the cached *)
(* pages.                                                                  *)
THEOREM Invariant == Spec => []IInv
<1>1. Init => IInv
  BY InitInv
<1>2. IInv /\ [Next]_vars => IInv'
  BY StepInv
<1> QED BY <1>1, <1>2, PTL DEF Spec

(* The eviction of lines 59-65, which writes through the tail and through  *)
(* the page before it without a test, meets a null pointer in a cache of   *)
(* less than two frames and in no other.                                   *)
THEOREM StopsOnlyBelowTwoFramesEver == Spec => []StopsOnlyBelowTwoFrames
<1>1. IInv => StopsOnlyBelowTwoFrames
  BY DEF IInv
<1> QED BY <1>1, Invariant, PTL

-----------------------------------------------------------------------------
(* The refinement.                                                         *)

(* The abstract policy and the engine speak of the same lists.             *)
LEMMA PolicyLists ==
  ASSUME NEW s, NEW k
  PROVE  /\ Policy!Range(s) = Range(s)
         /\ Policy!RemoveAt(s, k) = RemoveAt(s, k)
         /\ Policy!Front(s) = Front(s)
BY DEF Policy!Range, Range, Policy!RemoveAt, RemoveAt, Policy!Front, Front

(* A step of the engine is a step of the policy or none.                   *)
LEMMA PolicyStep ==
  ASSUME IInv, [Next]_vars PROVE [Policy!Next]_(Policy!vars)
<1>1. PICK s : Holds(s)
  BY DEF IInv
<1>2. ListOrder = s
  BY <1>1, ListFound
<1>3. CASE UNCHANGED vars
  <2>1. UNCHANGED <<mCacheMaxLimit, LRU_list_head, LRU_next, mPageFaultNum,
                    ref_page>>
    BY <1>3 DEF vars, links
  <2> QED BY <2>1 DEF Policy!vars, ListOrder
<1>4. CASE Next
  <2>1. mCacheMaxLimit' = mCacheMaxLimit
    BY <1>4 DEF Next
  <2>2. PICK p \in Page : Load(p) \/ Evict(p) \/ EvictCrashes(p) \/ Hit(p)
    BY <1>4 DEF Next
  <2>3. CASE Load(p)
    <3>1. /\ Holds(<<p>> \o s)'
          /\ p \notin Range(s) /\ Len(s) < mCacheMaxLimit
      BY <1>1, <2>1, <2>3, LoadHolds
    <3>2. ListOrder' = <<p>> \o s
      BY <3>1, NextListFound
    <3>3. Policy!Load(p)
      BY <1>2, <2>3, <3>1, <3>2, PolicyLists
         DEF Policy!Load, Policy!Fault, Load, Faulted
    <3>4. ref_page' = p
      BY <2>3 DEF Load
    <3> QED BY <2>1, <3>3, <3>4 DEF Policy!Next
  <2>4. CASE Evict(p)
    <3>1. /\ Holds(<<p>> \o Front(s))'
          /\ p \notin Range(s) /\ Len(s) = mCacheMaxLimit
      BY <1>1, <2>1, <2>4, EvictHolds
    <3>2. ListOrder' = <<p>> \o Front(s)
      BY <3>1, NextListFound
    <3>3. Policy!Replace(p)
      BY <1>2, <2>4, <3>1, <3>2, PolicyLists
         DEF Policy!Replace, Policy!Fault, Evict, Faulted
    <3>4. ref_page' = p
      BY <2>4 DEF Evict
    <3> QED BY <2>1, <3>3, <3>4 DEF Policy!Next
  <2>5. CASE EvictCrashes(p)
    <3>1. UNCHANGED <<mCacheMaxLimit, LRU_list_head, LRU_next, mPageFaultNum,
                      ref_page>>
      BY <2>1, <2>5 DEF EvictCrashes, links
    <3> QED BY <3>1 DEF Policy!vars, ListOrder
  <2>6. CASE Hit(p)
    <3>1. PICK k \in 1 .. Len(s) : s[k] = p
      BY <1>1, <2>6, HitPlace
    <3>2. Holds(<<p>> \o RemoveAt(s, k))'
      BY <1>1, <2>1, <2>6, <3>1, HitHolds
    <3>3. ListOrder' = <<p>> \o RemoveAt(s, k)
      BY <3>2, NextListFound
    <3>4. Policy!Pos(p) = k
      <4>1. \A i, j \in 1 .. Len(s) : s[i] = s[j] => i = j
        BY <1>1 DEF Holds, Linked, IsInjective
      <4> QED BY <1>2, <3>1, <4>1 DEF Policy!Pos
    <3>5. p \in Range(s)
      BY <1>1, <3>1 DEF Holds, Linked, Range
    <3>6. Policy!Hit(p)
      <4>1. Policy!Others(p) = RemoveAt(s, k)
        BY <1>2, <3>4, PolicyLists DEF Policy!Others
      <4>2. mPageFaultNum' = mPageFaultNum
        BY <2>6 DEF Hit
      <4> QED BY <1>2, <3>3, <3>5, <4>1, <4>2, PolicyLists DEF Policy!Hit
    <3>7. ref_page' = p
      BY <2>6 DEF Hit
    <3> QED BY <2>1, <3>6, <3>7 DEF Policy!Next
  <2> QED BY <2>2, <2>3, <2>4, <2>5, <2>6
<1> QED BY <1>3, <1>4

(* The pointers implement the policy: after every reference the list is    *)
(* the recency order of the cached pages, and the page replaced is the     *)
(* least recently used one (lines 46-93).                                  *)
THEOREM LRUImplementsPolicy == Spec => FollowsLRU
<1>1. Init => Policy!Init
  <2> SUFFICES ASSUME Init PROVE Policy!Init
    OBVIOUS
  <2>1. ListOrder = <<>>
    BY InitHolds, ListFound
  <2>2. mPageFaultNum = 0 /\ ref_page = NULL
    BY DEF Init
  <2> QED BY <2>1, <2>2 DEF Policy!Init
<1>2. IInv /\ [Next]_vars => [Policy!Next]_(Policy!vars)
  BY PolicyStep
<1> QED BY <1>1, <1>2, Invariant, PTL DEF Spec, FollowsLRU, Policy!Spec
=============================================================================
