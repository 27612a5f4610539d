----------------------------- MODULE ListLemmas -----------------------------
(***************************************************************************)
(* Facts about lists (sequences without repetitions) and bounded sets of   *)
(* numbers, stated once for the proofs of every component.                 *)
(***************************************************************************)
EXTENDS Integers, Sequences, FiniteSets, SequencesExt, FiniteSetsExt,
        FiniteSetTheorems, SequenceTheorems, TLAPS

(* A nonempty set of numbers up to n has a largest member, and Max is it.  *)
LEMMA MaxExists ==
  ASSUME NEW n \in Nat, NEW T, T \subseteq 1 .. n, T # {}
  PROVE  Max(T) \in T /\ \A x \in T : x <= Max(T)
<1> DEFINE R == {n - x : x \in T}
<1>0. \A x \in T : x \in Nat /\ n - x \in Nat
  OBVIOUS
<1>1. R \subseteq Nat /\ R # {}
  BY <1>0
<1>2. \E x \in R : \A y \in R : ~(<<y, x>> \in OpToRel(<, Nat))
  <2> HIDE DEF R
  <2> QED BY <1>1, NatLessThanWellFounded, WFMin, Zenon
<1>3. PICK x \in R : \A y \in R : ~(y < x)
  BY <1>1, <1>2 DEF OpToRel
<1>4. PICK m \in T : x = n - m
  BY <1>3
<1>5. \A y \in T : m >= y
  <2> SUFFICES ASSUME NEW y \in T PROVE m >= y
    OBVIOUS
  <2>1. ~(n - y < n - m)
    BY <1>3, <1>4
  <2>2. m \in Nat /\ y \in Nat
    BY <1>0
  <2> HIDE DEF R
  <2> QED BY <2>1, <2>2
<1> QED BY <1>5 DEF Max

(* Where the members of a list are once one of them is removed.            *)
LEMMA RemoveAtPositions ==
  ASSUME NEW A, NEW s \in Seq(A), NEW i \in 1 .. Len(s)
  PROVE  /\ RemoveAt(s, i) \in Seq(A)
         /\ Len(RemoveAt(s, i)) = Len(s) - 1
         /\ \A j \in 1 .. Len(s) - 1 :
              RemoveAt(s, i)[j] = IF j < i THEN s[j] ELSE s[j + 1]
<1> DEFINE r == RemoveAt(s, i)
           a == SubSeq(s, 1, i - 1)
           b == SubSeq(s, i + 1, Len(s))
<1>1. /\ a \in Seq(A) /\ Len(a) = i - 1
      /\ \A j \in 1 .. i - 1 : a[j] = s[j]
  BY SubSeqProperties, ElementOfSeq
<1>2. /\ b \in Seq(A) /\ Len(b) = Len(s) - i
      /\ \A j \in 1 .. Len(s) - i : b[j] = s[j + i]
  BY SubSeqProperties, ElementOfSeq
<1>3. r = a \o b
  BY DEF RemoveAt
<1> HIDE DEF r, a, b
<1>4. /\ a \o b \in Seq(A) /\ Len(a \o b) = Len(a) + Len(b)
      /\ \A j \in 1 .. Len(a) + Len(b) :
            (a \o b)[j] = IF j <= Len(a) THEN a[j] ELSE b[j - Len(a)]
  BY <1>1, <1>2, ConcatProperties
<1>5. ASSUME NEW j \in 1 .. Len(s) - 1
      PROVE  r[j] = IF j < i THEN s[j] ELSE s[j + 1]
  <2>1. CASE j < i
    BY <1>1, <1>2, <1>3, <1>4, <2>1
  <2>2. CASE j >= i
    <3>1. r[j] = b[j - (i - 1)] /\ j - (i - 1) \in 1 .. Len(s) - i
      BY <1>1, <1>2, <1>3, <1>4, <2>2
    <3> QED BY <3>1, <1>2, <2>2
  <2> QED BY <2>1, <2>2
<1>6. r \in Seq(A)
  BY <1>3, <1>4
<1>7. Len(r) = Len(s) - 1
  BY <1>1, <1>2, <1>3, <1>4
<1> QED BY <1>5, <1>6, <1>7 DEF r

(* A list without its last member.                                         *)
LEMMA FrontPositions ==
  ASSUME NEW A, NEW s \in Seq(A), s # <<>>
  PROVE  /\ Front(s) \in Seq(A) /\ Len(Front(s)) = Len(s) - 1
         /\ \A j \in 1 .. Len(s) - 1 : Front(s)[j] = s[j]
<1>1. Len(s) \in Nat /\ Len(s) > 0
  OBVIOUS
<1> DEFINE f == SubSeq(s, 1, Len(s) - 1)
<1>2. /\ f \in Seq(A) /\ Len(f) = Len(s) - 1
      /\ \A j \in 1 .. Len(s) - 1 : f[j] = s[j]
  BY <1>1, SubSeqProperties, ElementOfSeq
<1>3. Front(s) = f
  BY DEF Front
<1> HIDE DEF f
<1> QED BY <1>2, <1>3

(* Removing an element from a list.                                        *)
LEMMA RemoveAtFacts ==
  ASSUME NEW A, NEW s \in Seq(A), NEW i \in 1 .. Len(s), IsInjective(s)
  PROVE  /\ RemoveAt(s, i) \in Seq(A)
         /\ IsInjective(RemoveAt(s, i))
         /\ Range(RemoveAt(s, i)) = Range(s) \ {s[i]}
         /\ Len(RemoveAt(s, i)) = Len(s) - 1
         /\ \A j \in 1 .. Len(s) - 1 :
              RemoveAt(s, i)[j] = IF j < i THEN s[j] ELSE s[j + 1]
<1> DEFINE r == RemoveAt(s, i)
<1>1. /\ r \in Seq(A) /\ Len(r) = Len(s) - 1
      /\ \A j \in 1 .. Len(s) - 1 : r[j] = IF j < i THEN s[j] ELSE s[j + 1]
  BY RemoveAtPositions
<1> HIDE DEF r
<1>2. IsInjective(r)
  <2>1. \A k, m \in 1 .. Len(s) : s[k] = s[m] => k = m
    BY DEF IsInjective
  <2>2. ASSUME NEW k \in 1 .. Len(s) - 1, NEW m \in 1 .. Len(s) - 1,
               r[k] = r[m]
        PROVE  k = m
    <3> DEFINE a == IF k < i THEN k ELSE k + 1
               b == IF m < i THEN m ELSE m + 1
    <3>1. /\ a \in 1 .. Len(s) /\ b \in 1 .. Len(s)
          /\ a = b => k = m
      OBVIOUS
    <3>2. r[k] = s[a] /\ r[m] = s[b]
      BY <1>1
    <3> HIDE DEF a, b
    <3> QED BY <2>1, <2>2, <3>1, <3>2
  <2> QED BY <1>1, <2>2 DEF IsInjective
<1>3. Range(r) \subseteq Range(s) \ {s[i]}
  BY <1>1 DEF IsInjective, Range
<1>4. ASSUME NEW k \in 1 .. Len(s), s[k] # s[i]
      PROVE  s[k] \in Range(r)
  <2>1. CASE k < i
    <3>1. k \in DOMAIN r /\ r[k] = s[k]
      BY <1>1, <2>1
    <3> QED BY <3>1 DEF Range
  <2>2. CASE k > i
    <3>1. k - 1 \in 1 .. Len(r) /\ r[k - 1] = s[k]
      BY <1>1, <2>2
    <3> QED BY <3>1, <1>1 DEF Range
  <2> QED BY <2>1, <2>2, <1>4
<1>5. Range(s) \ {s[i]} \subseteq Range(r)
  BY <1>4 DEF Range
<1> QED BY <1>1, <1>2, <1>3, <1>5 DEF r

(* Where the members of a list are once one is inserted.                   *)
LEMMA InsertAtPositions ==
  ASSUME NEW A, NEW s \in Seq(A), NEW i \in 1 .. Len(s) + 1, NEW a \in A
  PROVE  /\ InsertAt(s, i, a) \in Seq(A)
         /\ Len(InsertAt(s, i, a)) = Len(s) + 1
         /\ \A j \in 1 .. Len(s) + 1 :
              InsertAt(s, i, a)[j] =
                IF j < i THEN s[j] ELSE IF j = i THEN a ELSE s[j - 1]
<1> DEFINE r == InsertAt(s, i, a)
           b == SubSeq(s, 1, i - 1)
           c == SubSeq(s, i, Len(s))
           d == b \o <<a>>
<1>1. /\ b \in Seq(A) /\ Len(b) = i - 1
      /\ \A j \in 1 .. i - 1 : b[j] = s[j]
  BY SubSeqProperties, ElementOfSeq
<1>2. /\ c \in Seq(A) /\ Len(c) = Len(s) - i + 1
      /\ \A j \in 1 .. Len(s) - i + 1 : c[j] = s[j + i - 1]
  BY SubSeqProperties, ElementOfSeq
<1>3. r = d \o c
  BY DEF InsertAt
<1> HIDE DEF r, b, c
<1>4. /\ d \in Seq(A) /\ Len(d) = i /\ d[i] = a
      /\ \A j \in 1 .. i - 1 : d[j] = s[j]
  BY <1>1
<1> HIDE DEF d
<1>5. /\ d \o c \in Seq(A) /\ Len(d \o c) = Len(d) + Len(c)
      /\ \A j \in 1 .. Len(d) + Len(c) :
            (d \o c)[j] = IF j <= Len(d) THEN d[j] ELSE c[j - Len(d)]
  BY <1>4, <1>2, ConcatProperties
<1>6. ASSUME NEW j \in 1 .. Len(s) + 1
      PROVE  r[j] = IF j < i THEN s[j] ELSE IF j = i THEN a ELSE s[j - 1]
  <2>1. CASE j <= i
    BY <1>2, <1>3, <1>4, <1>5, <2>1
  <2>2. CASE j > i
    <3>1. r[j] = c[j - i] /\ j - i \in 1 .. Len(s) - i + 1
      BY <1>2, <1>3, <1>4, <1>5, <2>2
    <3> QED BY <3>1, <1>2, <2>2
  <2> QED BY <2>1, <2>2
<1>7. r \in Seq(A) /\ Len(r) = Len(s) + 1
  BY <1>2, <1>3, <1>4, <1>5
<1> QED BY <1>6, <1>7 DEF r

(* Inserting a new element into a list.                                    *)
LEMMA InsertAtFacts ==
  ASSUME NEW A, NEW s \in Seq(A), NEW i \in 1 .. Len(s) + 1, NEW a \in A,
         IsInjective(s), a \notin Range(s)
  PROVE  /\ InsertAt(s, i, a) \in Seq(A)
         /\ IsInjective(InsertAt(s, i, a))
         /\ Range(InsertAt(s, i, a)) = Range(s) \cup {a}
         /\ Len(InsertAt(s, i, a)) = Len(s) + 1
         /\ \A j \in 1 .. Len(s) + 1 :
              InsertAt(s, i, a)[j] =
                IF j < i THEN s[j] ELSE IF j = i THEN a ELSE s[j - 1]
<1> DEFINE r == InsertAt(s, i, a)
<1>1. /\ r \in Seq(A) /\ Len(r) = Len(s) + 1
      /\ \A j \in 1 .. Len(s) + 1 :
            r[j] = IF j < i THEN s[j] ELSE IF j = i THEN a ELSE s[j - 1]
  <2>1. /\ InsertAt(s, i, a) \in Seq(A) /\ Len(InsertAt(s, i, a)) = Len(s) + 1
        /\ \A j \in 1 .. Len(s) + 1 :
              InsertAt(s, i, a)[j] =
                IF j < i THEN s[j] ELSE IF j = i THEN a ELSE s[j - 1]
    BY InsertAtPositions
  <2> QED BY <2>1
<1> HIDE DEF r
<1>2. IsInjective(r)
  <2>1. \A j \in 1 .. Len(s) : s[j] # a
    BY DEF Range
  <2> SUFFICES ASSUME NEW j \in 1 .. Len(s) + 1, NEW k \in 1 .. Len(s) + 1,
                      j < k, r[j] = r[k]
               PROVE  FALSE
    BY <1>1 DEF IsInjective
  <2>2. CASE k < i
    BY <1>1, <2>2 DEF IsInjective
  <2>3. CASE j < i /\ k = i
    BY <1>1, <2>1, <2>3
  <2>4. CASE j < i /\ k > i
    <3>1. s[j] = s[k - 1] /\ j \in 1 .. Len(s) /\ k - 1 \in 1 .. Len(s)
      BY <1>1, <2>4
    <3> QED BY <3>1, <2>4 DEF IsInjective
  <2>5. CASE j = i
    <3>1. r[k] = s[k - 1] /\ k - 1 \in 1 .. Len(s) /\ r[j] = a
      BY <1>1, <2>5
    <3> QED BY <3>1, <2>1
  <2>6. CASE j > i
    <3>1. s[j - 1] = s[k - 1] /\ j - 1 \in 1 .. Len(s) /\ k - 1 \in 1 .. Len(s)
      BY <1>1, <2>6
    <3> QED BY <3>1 DEF IsInjective
  <2> QED BY <2>2, <2>3, <2>4, <2>5, <2>6
<1>3. Range(r) \subseteq Range(s) \cup {a}
  <2> SUFFICES ASSUME NEW j \in 1 .. Len(r) PROVE r[j] \in Range(s) \cup {a}
    BY <1>1 DEF Range
  <2>1. CASE j < i
    BY <1>1, <2>1 DEF Range
  <2>2. CASE j > i
    <3>1. j - 1 \in 1 .. Len(s) /\ r[j] = s[j - 1]
      BY <1>1, <2>2
    <3> QED BY <3>1 DEF Range
  <2> QED BY <1>1, <2>1, <2>2
<1>4. ASSUME NEW k \in 1 .. Len(s)
      PROVE  s[k] \in Range(r)
  <2>1. CASE k < i
    <3>1. k \in DOMAIN r /\ r[k] = s[k]
      BY <1>1, <2>1
    <3> QED BY <3>1 DEF Range
  <2>2. CASE k >= i
    <3>1. k + 1 \in 1 .. Len(r) /\ r[k + 1] = s[k]
      BY <1>1, <2>2
    <3>2. k + 1 \in DOMAIN r
      BY <3>1, <1>1
    <3> QED BY <3>1, <3>2 DEF Range
  <2> QED BY <2>1, <2>2
<1>5. a \in Range(r)
  BY <1>1 DEF Range
<1>6. Range(s) \cup {a} \subseteq Range(r)
  BY <1>4, <1>5 DEF Range
<1> QED BY <1>1, <1>2, <1>3, <1>6 DEF r

(* Putting a new element in front of a list.                               *)
LEMMA ConsFacts ==
  ASSUME NEW A, NEW s \in Seq(A), NEW a \in A,
         IsInjective(s), a \notin Range(s)
  PROVE  /\ <<a>> \o s \in Seq(A)
         /\ IsInjective(<<a>> \o s)
         /\ Range(<<a>> \o s) = Range(s) \cup {a}
         /\ Len(<<a>> \o s) = Len(s) + 1
         /\ (<<a>> \o s)[1] = a
         /\ \A j \in 2 .. Len(s) + 1 : (<<a>> \o s)[j] = s[j - 1]
<1> DEFINE r == <<a>> \o s
<1>1. /\ r \in Seq(A) /\ Len(r) = Len(s) + 1 /\ r[1] = a
      /\ \A j \in 2 .. Len(s) + 1 : r[j] = s[j - 1]
  OBVIOUS
<1> HIDE DEF r
<1>2. IsInjective(r)
  <2>1. \A j \in 1 .. Len(s) : s[j] # a
    BY DEF Range
  <2> QED BY <1>1, <2>1 DEF IsInjective
<1>3. ASSUME NEW j \in 1 .. Len(r) PROVE r[j] \in Range(s) \cup {a}
  <2>1. CASE j # 1
    <3>1. j - 1 \in 1 .. Len(s) /\ r[j] = s[j - 1]
      BY <1>1, <2>1
    <3> QED BY <3>1 DEF Range
  <2> QED BY <1>1, <2>1
<1>4. ASSUME NEW k \in 1 .. Len(s) PROVE s[k] \in Range(r)
  <2>1. k + 1 \in 1 .. Len(r) /\ r[k + 1] = s[k]
    BY <1>1
  <2> QED BY <2>1, <1>1 DEF Range
<1>5. a \in Range(r)
  BY <1>1 DEF Range
<1>6. Range(r) = Range(s) \cup {a}
  <2>1. Range(r) \subseteq Range(s) \cup {a}
    BY <1>1, <1>3 DEF Range
  <2>2. Range(s) \subseteq Range(r)
    BY <1>4 DEF Range
  <2> QED BY <2>1, <2>2, <1>5
<1> QED BY <1>1, <1>2, <1>6 DEF r

(* A list has as many members as it is long.                               *)
LEMMA ListCardinality ==
  ASSUME NEW A, NEW s \in Seq(A), IsInjective(s)
  PROVE  IsFiniteSet(Range(s)) /\ Cardinality(Range(s)) = Len(s)
<1> DEFINE n == Len(s)
<1>1. n \in Nat /\ DOMAIN s = 1 .. n /\ s \in [1 .. n -> A]
  OBVIOUS
<1>2. s \in Bijection(1 .. n, Range(s))
  BY <1>1 DEF Range, IsInjective, Bijection, Injection, Surjection
<1> HIDE DEF n
<1>3. IsFiniteSet(1 .. n) /\ Cardinality(1 .. n) = n
  <2>1. /\ IsFiniteSet(1 .. n)
        /\ Cardinality(1 .. n) = IF 1 > n THEN 0 ELSE n - 1 + 1
    BY <1>1, FS_Interval
  <2> QED BY <1>1, <2>1
<1> QED BY <1>2, <1>3, FS_Bijection DEF ExistsBijection, n
=============================================================================
