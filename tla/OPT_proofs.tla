----------------------------- MODULE OPT_proofs -----------------------------
(***************************************************************************)
(* Proofs about the trace reader and the optimal engine for every file,    *)
(* cut line and cache size.                                                *)
(*                                                                         *)
(* The first part is about the reader: while it reads, its tables describe *)
(* the part of the file it has read (TraceInv), so that the trace it hands *)
(* over is faithful to the file.                                           *)
(*                                                                         *)
(* The second part is about the engine: its ordered set holds the resident *)
(* pages by their next references, and no rival has at any time more pages *)
(* it will need soon than it has paid for with faults (Ahead), so that     *)
(* none ever has fewer faults.                                             *)
(***************************************************************************)
EXTENDS OPTRivals, ListLemmas

-----------------------------------------------------------------------------
(* The reader *)

(* The number the loop delivers i-th, and how many it delivers of a file   *)
(* whose end it meets.                                                     *)
Sent(i) == IF i <= Len(file) THEN file[i]
           ELSE IF file = <<>> THEN 0 ELSE file[Len(file)]

Whole == IF ending = "digit" /\ file # <<>> THEN Len(file) ELSE Len(file) + 1

InputOK == /\ file \in Seq(Nat)
           /\ cutline \in Nat \cup {-1}
           /\ ending \in {"digit", "late", "garbage"}
           /\ ending = "garbage" => cutline # -1

(* Where in the file the loop is.                                          *)
ReadOK == /\ mTrace \in Seq(Nat) /\ unread \in Seq(Nat)
          /\ Len(unread) = IF mTraceLength <= Len(file)
                           THEN Len(file) - mTraceLength ELSE 0
          /\ \A j \in 1 .. Len(unread) : unread[j] = file[mTraceLength + j]
          /\ ref_blk = IF mTraceLength = 0 THEN 0 ELSE Sent(mTraceLength)
          /\ cut = IF cutline = -1 THEN 0 ELSE mTraceLength
          /\ cutline # -1 => mTraceLength <= cutline
          /\ ending # "garbage" => mTraceLength <= Whole
          /\ eof <=> ending # "garbage" /\ mTraceLength = Whole

(* The page numbers: dic and mRealTrace are inverse to each other.         *)
NumbersOK ==
  /\ mRealTrace \in Seq(Nat)
  /\ DOMAIN dic = Range(mRealTrace)
  /\ \A k \in 1 .. Len(mRealTrace) : dic[mRealTrace[k]] = k - 1
  /\ mVmSize = IF mRealTrace = <<>> THEN 0 ELSE Len(mRealTrace) - 1
  /\ \A i \in 1 .. mTraceLength : /\ mTrace[i] \in 0 .. Len(mRealTrace) - 1
                                  /\ mRealTrace[mTrace[i] + 1] = Sent(i)

(* Pages are numbered in the order in which they first appear.             *)
AppearInOrder ==
  /\ \A k \in 0 .. Len(mRealTrace) - 1 :
       \E i \in 1 .. mTraceLength : mTrace[i] = k
  /\ \A i \in 1 .. mTraceLength : \A k \in 0 .. mTrace[i] :
       \E j \in 1 .. i : mTrace[j] = k

(* prevPos has the latest reference to each block, nextPos the way to the  *)
(* next one where there is one.                                            *)
LinksOK ==
  /\ DOMAIN prevPos = DOMAIN dic
  /\ \A b \in DOMAIN prevPos :
       /\ prevPos[b] \in 0 .. mTraceLength - 1
       /\ Trace(prevPos[b]) = dic[b]
       /\ \A j \in prevPos[b] + 1 .. mTraceLength - 1 : Trace(j) # dic[b]
  /\ DOMAIN nextPos \subseteq 0 .. mTraceLength - 1
  /\ \A i \in DOMAIN nextPos :
       /\ nextPos[i] \in Nat \ {0}
       /\ i + nextPos[i] \in Later(i)
       /\ \A j \in Later(i) : i + nextPos[i] <= j
  /\ \A i \in (0 .. mTraceLength - 1) \ DOMAIN nextPos : Later(i) = {}

EndOK ==
  ~reading =>
    /\ ~More
    /\ mNextPos = [i \in 0 .. mTraceLength - 1 |->
                     IF i \in DOMAIN nextPos THEN nextPos[i] ELSE 0]

TraceInv ==
  InputOK /\ ReadOK /\ NumbersOK /\ AppearInOrder /\ LinksOK /\ EndOK

(* The reader starts with the whole file before it.                        *)
LEMMA TraceInit == InitTrace => TraceInv
<1> SUFFICES ASSUME InitTrace PROVE TraceInv
  OBVIOUS
<1>1. PICK n \in 0 .. MaxRefs : file \in [1 .. n -> Block]
  BY DEF InitTrace
<1>2. file \in Seq(Nat) /\ Len(file) \in Nat
  <2>1. n \in Nat /\ DOMAIN file = 1 .. n /\ file = [i \in 1 .. n |-> file[i]]
    BY <1>1, TraceAssumption
  <2>2. \A i \in 1 .. n : file[i] \in Nat
    BY <1>1, TraceAssumption
  <2> QED BY <2>1, <2>2
<1>3. InputOK
  BY <1>2, TraceAssumption DEF InitTrace, InputOK
<1>4. mTrace = <<>> /\ mTraceLength = 0 /\ mRealTrace = <<>>
  BY DEF InitTrace, mTraceLength
<1>5. Whole \in Nat /\ Whole # 0
  <2>1. file # <<>> => Len(file) # 0
    BY <1>2
  <2> QED BY <1>2, <2>1 DEF Whole
<1>6. ReadOK
  BY <1>2, <1>4, <1>5, TraceAssumption DEF InitTrace, ReadOK
<1>7. NumbersOK
  BY <1>4 DEF InitTrace, NumbersOK, Range
<1>8. AppearInOrder
  BY <1>4 DEF AppearInOrder
<1>9. LinksOK
  BY <1>4 DEF InitTrace, LinksOK
<1>10. EndOK
  BY DEF InitTrace, EndOK
<1> QED BY <1>3, <1>6, <1>7, <1>8, <1>9, <1>10 DEF TraceInv

(* One iteration of the loop reads the next number, or the last one again. *)
LEMMA ReadsNext ==
  ASSUME TraceInv, ReadIteration
  PROVE  /\ ref_blk' = Sent(mTraceLength + 1) /\ ref_blk' \in Nat
         /\ mTraceLength' = mTraceLength + 1
         /\ mTrace \in Seq(Nat)
         /\ \A i \in 1 .. mTraceLength : mTrace'[i] = mTrace[i]
         /\ mTrace'[mTraceLength + 1] = dic'[ref_blk']
         /\ (mTrace' \in Seq(Nat) => ReadOK') /\ InputOK'
<1> DEFINE n == Len(file)
           len == mTraceLength
           page == dic'[ref_blk']
<1>1. /\ InputOK /\ ReadOK /\ ReadOne /\ ~eof
      /\ (cutline # -1 => cut < cutline) /\ UNCHANGED input
      /\ cut' = IF cutline = -1 THEN cut ELSE cut + 1
      /\ mTrace' = Append(mTrace, page)
  BY DEF TraceInv, ReadIteration, More, Renumber
<1>2. n \in Nat /\ len \in Nat /\ file \in Seq(Nat) /\ unread \in Seq(Nat)
      /\ (file = <<>> <=> n = 0) /\ mTrace \in Seq(Nat)
  <2>1. /\ file \in Seq(Nat) /\ unread \in Seq(Nat)
        /\ mTrace \in Seq(Nat)
    BY <1>1 DEF InputOK, ReadOK
  <2>2. n \in Nat /\ (file = <<>> <=> n = 0)
    BY <2>1
  <2>3. len \in Nat
    BY <2>1 DEF mTraceLength
  <2> QED BY <2>1, <2>2, <2>3
<1>3. /\ len' = len + 1
      /\ \A i \in 1 .. len : mTrace'[i] = mTrace[i]
      /\ mTrace'[len + 1] = page
  BY <1>1, <1>2 DEF mTraceLength
<1>4. UNCHANGED <<file, cutline, ending>>
  BY <1>1 DEF input
<1>5. /\ ref_blk' = Sent(len + 1) /\ ref_blk' \in Nat
      /\ unread' \in Seq(Nat)
      /\ Len(unread') = IF len + 1 <= n THEN n - (len + 1) ELSE 0
      /\ \A j \in 1 .. Len(unread') : unread'[j] = file[len + 1 + j]
      /\ eof' <=> ending # "garbage" /\ len + 1 = Whole
      /\ ending # "garbage" => len + 1 <= Whole
  <2>1. CASE unread # <<>>
    <3>1. /\ len < n /\ Len(unread) = n - len /\ Len(unread) # 0
          /\ \A j \in 1 .. Len(unread) : unread[j] = file[len + j]
      BY <1>1, <1>2, <2>1 DEF ReadOK
    <3>2. /\ ref_blk' = Head(unread) /\ unread' = Tail(unread)
          /\ eof' = (Len(unread) = 1 /\ ending = "digit")
      BY <1>1, <2>1 DEF ReadOne
    <3>3. unread[1] = file[len + 1]
      BY <1>2, <3>1
    <3>4. ref_blk' = file[len + 1] /\ file[len + 1] \in Nat
      BY <1>2, <3>1, <3>2, <3>3
    <3>5. /\ unread' \in Seq(Nat) /\ Len(unread') = Len(unread) - 1
          /\ \A j \in 1 .. Len(unread') : unread'[j] = unread[j + 1]
      BY <1>2, <2>1, <3>2
    <3>6. \A j \in 1 .. Len(unread') : unread'[j] = file[len + 1 + j]
      <4>1. ASSUME NEW j \in 1 .. Len(unread')
            PROVE  unread'[j] = file[len + 1 + j]
        <5>1. j + 1 \in 1 .. Len(unread) /\ len + (j + 1) = len + 1 + j
          BY <1>2, <3>1, <3>5
        <5> QED BY <3>1, <3>5, <5>1
      <4> QED BY <4>1
    <3>7. Sent(len + 1) = file[len + 1]
      BY <1>2, <3>1 DEF Sent
    <3>8. Whole = (IF ending = "digit" THEN n ELSE n + 1)
      BY <1>2, <3>1 DEF Whole
    <3>10. Len(unread) = 1 <=> len + 1 = n
      BY <1>2, <3>1
    <3>11. eof' <=> (len + 1 = n /\ ending = "digit")
      BY <3>2, <3>10
    <3>12. (ending # "garbage" /\ len + 1 = Whole)
            <=> (len + 1 = n /\ ending = "digit")
      <4>1. ending \in {"digit", "late", "garbage"}
        BY <1>1 DEF InputOK
      <4>2. n \in Nat /\ len \in Nat /\ len + 1 <= n
        BY <1>2, <3>1
      <4> QED BY <3>8, <4>1, <4>2
    <3>9. /\ eof' <=> ending # "garbage" /\ len + 1 = Whole
          /\ ending # "garbage" => len + 1 <= Whole
      BY <1>2, <3>1, <3>8, <3>11, <3>12
    <3> QED BY <1>2, <3>1, <3>4, <3>5, <3>6, <3>7, <3>9
  <2>2. CASE unread = <<>>
    <3>1. n <= len /\ Len(unread) = 0
      BY <1>1, <1>2, <2>2 DEF ReadOK
    <3>2. ref_blk' = ref_blk /\ unread' = <<>> /\ eof' = (ending # "garbage")
      BY <1>1, <2>2 DEF ReadOne
    <3>3. ref_blk = IF len = 0 THEN 0 ELSE Sent(len)
      BY <1>1 DEF ReadOK
    <3>4. ref_blk = Sent(len + 1)
      <4>1. CASE len = 0
        BY <1>2, <3>1, <3>3, <4>1 DEF Sent
      <4>2. CASE len # 0
        BY <1>2, <3>1, <3>3, <4>2 DEF Sent
      <4> QED BY <4>1, <4>2
    <3>5. Sent(len + 1) \in Nat
      <4>1. n # 0 => file[n] \in Nat
        BY <1>2
      <4> QED BY <1>2, <3>1, <4>1 DEF Sent
    <3>6. ASSUME ending # "garbage"
          PROVE  len + 1 = Whole
      BY <1>1, <1>2, <3>1, <3>6 DEF ReadOK, Whole
    <3>7. eof' <=> ending # "garbage" /\ len + 1 = Whole
      BY <3>2, <3>6
    <3>8. Len(unread') = IF len + 1 <= n THEN n - (len + 1) ELSE 0
      BY <1>2, <3>1, <3>2
    <3>9. Whole \in Nat
      BY <1>2 DEF Whole
    <3> QED BY <1>2, <3>1, <3>2, <3>4, <3>5, <3>6, <3>7, <3>8, <3>9
  <2> QED BY <2>1, <2>2
<1>6. /\ cut' = IF cutline = -1 THEN 0 ELSE len + 1
      /\ cutline # -1 => len + 1 <= cutline
  BY <1>1, <1>2 DEF ReadOK, InputOK
<1>7. ASSUME mTrace' \in Seq(Nat) PROVE ReadOK'
  <2>1. Whole' = Whole
    BY <1>4 DEF Whole
  <2>2. ref_blk' = Sent(mTraceLength)'
    BY <1>3, <1>4, <1>5 DEF Sent
  <2>3. (ref_blk = IF mTraceLength = 0 THEN 0 ELSE Sent(mTraceLength))'
    BY <1>2, <1>3, <2>2
  <2> HIDE DEF page
  <2> QED BY <1>2, <1>3, <1>4, <1>5, <1>6, <1>7, <2>1, <2>3 DEF ReadOK
<1>8. InputOK'
  BY <1>1, <1>4 DEF InputOK
<1> QED BY <1>2, <1>3, <1>5, <1>7, <1>8

(* It numbers a new block and keeps the numbers of the others.             *)
LEMMA NumbersBlock ==
  ASSUME TraceInv, ReadIteration
  PROVE  /\ mRealTrace' \in Seq(Nat)
         /\ dic'[ref_blk'] \in 0 .. Len(mRealTrace') - 1
         /\ mRealTrace'[dic'[ref_blk'] + 1] = ref_blk'
         /\ Len(mRealTrace) \in Nat
         /\ \/ Len(mRealTrace') = Len(mRealTrace)
            \/ /\ Len(mRealTrace') = Len(mRealTrace) + 1
               /\ dic'[ref_blk'] = Len(mRealTrace)
         /\ \A k \in 1 .. Len(mRealTrace) : mRealTrace'[k] = mRealTrace[k]
         /\ DOMAIN dic' = Range(mRealTrace')
         /\ DOMAIN dic' = DOMAIN dic \cup {ref_blk'}
         /\ \A b \in DOMAIN dic : dic'[b] = dic[b]
         /\ \A k \in 1 .. Len(mRealTrace') : dic'[mRealTrace'[k]] = k - 1
         /\ mVmSize' = IF mRealTrace' = <<>> THEN 0 ELSE Len(mRealTrace') - 1
<1> DEFINE n == Len(mRealTrace)
           blk == ref_blk'
           page == dic'[ref_blk']
<1>1. NumbersOK /\ Renumber(blk) /\ blk \in Nat
  BY ReadsNext DEF TraceInv, ReadIteration
<1>2. /\ mRealTrace \in Seq(Nat) /\ n \in Nat
      /\ DOMAIN dic = Range(mRealTrace)
      /\ \A k \in 1 .. n : dic[mRealTrace[k]] = k - 1
      /\ \A k \in 1 .. n : mRealTrace[k] \in DOMAIN dic
      /\ \A k \in 1 .. n : mRealTrace[k] \in Range(mRealTrace)
      /\ (mRealTrace = <<>> <=> n = 0)
      /\ mVmSize = IF n = 0 THEN 0 ELSE n - 1
  BY <1>1 DEF NumbersOK, Range
<1>3. CASE blk \in DOMAIN dic
  <2>1. /\ dic' = dic /\ mRealTrace' = mRealTrace
        /\ mVmSize' = IF dic[blk] > mVmSize THEN dic[blk] ELSE mVmSize
    BY <1>1, <1>3 DEF Renumber
  <2>2. PICK k \in 1 .. n : mRealTrace[k] = blk
    BY <1>2, <1>3 DEF Range
  <2>3. dic[blk] = k - 1 /\ mRealTrace[dic[blk] + 1] = blk
    BY <1>2, <2>2
  <2>4. mVmSize' = mVmSize
    BY <1>2, <2>1, <2>2, <2>3
  <2>5. dic'[ref_blk'] = dic[blk]
    BY <2>1
  <2> QED BY <1>2, <1>3, <2>1, <2>2, <2>3, <2>4, <2>5
<1>4. CASE blk \notin DOMAIN dic
  <2>1. /\ dic' = With(dic, blk, n) /\ mRealTrace' = Append(mRealTrace, blk)
        /\ mVmSize' = IF page > mVmSize THEN page ELSE mVmSize
    BY <1>1, <1>4 DEF Renumber
  <2>2. /\ DOMAIN dic' = DOMAIN dic \cup {blk} /\ page = n
        /\ \A b \in DOMAIN dic : dic'[b] = dic[b]
    BY <1>4, <2>1 DEF With
  <2> HIDE DEF blk, page
  <2>3. /\ mRealTrace' \in Seq(Nat) /\ Len(mRealTrace') = n + 1
        /\ mRealTrace' # <<>>
        /\ \A k \in 1 .. n : mRealTrace'[k] = mRealTrace[k]
        /\ mRealTrace'[n + 1] = blk
        /\ DOMAIN mRealTrace' = 1 .. n + 1
    <3>1. mRealTrace \in Seq(Nat) /\ n \in Nat /\ blk \in Nat
      BY <1>1, <1>2
    <3>2. mRealTrace' = Append(mRealTrace, blk)
      BY <2>1
    <3> QED BY <3>1, <3>2
  <2>4. Range(mRealTrace') = Range(mRealTrace) \cup {blk}
    <3>1. ASSUME NEW k \in 1 .. n + 1
          PROVE  mRealTrace'[k] \in Range(mRealTrace) \cup {blk}
      <4>1. CASE k = n + 1
        BY <2>3, <4>1
      <4>2. CASE k # n + 1
        <5>1. k \in 1 .. n
          BY <1>2, <4>2
        <5> QED BY <1>2, <2>3, <5>1
      <4> QED BY <4>1, <4>2
    <3>2. blk \in Range(mRealTrace')
      BY <1>2, <2>3 DEF Range
    <3>3. ASSUME NEW k \in 1 .. n
          PROVE  mRealTrace[k] \in Range(mRealTrace')
      <4>1. k \in 1 .. n + 1 /\ mRealTrace'[k] = mRealTrace[k]
        BY <1>2, <2>3
      <4> QED BY <2>3, <4>1 DEF Range
    <3>4. DOMAIN mRealTrace = 1 .. n
      BY <1>2
    <3> QED BY <2>3, <3>1, <3>2, <3>3, <3>4 DEF Range
  <2>5. ASSUME NEW k \in 1 .. n + 1
        PROVE  dic'[mRealTrace'[k]] = k - 1
    <3>1. CASE k <= n
      BY <1>2, <2>2, <2>3, <3>1
    <3>2. CASE k = n + 1
      BY <1>2, <2>2, <2>3, <3>2 DEF blk, page
    <3> QED BY <1>2, <3>1, <3>2
  <2>6. mVmSize' = n
    BY <1>2, <2>1, <2>2
  <2> QED BY <1>2, <2>2, <2>3, <2>4, <2>5, <2>6 DEF blk, page
<1> QED BY <1>3, <1>4

(* The numbers stay those of the file, in the order of first appearance.   *)
LEMMA NumbersNext ==
  ASSUME TraceInv, ReadIteration
  PROVE  NumbersOK' /\ AppearInOrder' /\ mTrace' \in Seq(Nat)
<1>0. PICK len, n, m, page : /\ len = mTraceLength /\ page = dic'[ref_blk']
                             /\ n = Len(mRealTrace) /\ m = Len(mRealTrace')
  OBVIOUS
<1>1. /\ NumbersOK /\ AppearInOrder /\ len \in Nat /\ mTrace \in Seq(Nat)
      /\ mTrace' = Append(mTrace, page) /\ UNCHANGED file
  BY <1>0 DEF TraceInv, ReadOK, ReadIteration, Renumber, input, mTraceLength
<1>12. len \in Nat
  BY <1>1
<1>2. /\ page \in 0 .. m - 1 /\ mRealTrace'[page + 1] = ref_blk'
      /\ n \in Nat /\ (m = n \/ (m = n + 1 /\ page = n))
      /\ \A k \in 1 .. n : mRealTrace'[k] = mRealTrace[k]
      /\ mRealTrace' \in Seq(Nat)
  BY <1>0, NumbersBlock
<1>3. /\ ref_blk' = Sent(len + 1) /\ mTraceLength' = len + 1
      /\ \A i \in 1 .. len : mTrace'[i] = mTrace[i]
      /\ mTrace'[len + 1] = page
  BY <1>0, ReadsNext
<1>4. mTrace' \in Seq(Nat)
  BY <1>0, <1>1, <1>2
<1>5. \A i : Sent(i)' = Sent(i)
  BY <1>1 DEF Sent
<1>6. \A i \in 1 .. len : /\ mTrace[i] \in 0 .. n - 1
                          /\ mRealTrace[mTrace[i] + 1] = Sent(i)
  BY <1>0, <1>1 DEF NumbersOK
<1>7. ASSUME NEW i \in 1 .. len + 1
      PROVE  mTrace'[i] \in 0 .. m - 1 /\ mRealTrace'[mTrace'[i] + 1] = Sent(i)
  <2>1. CASE i <= len
    <3>1. i \in 1 .. len
      BY <1>12, <2>1
    <3>2. mTrace'[i] = mTrace[i] /\ mTrace[i] \in 0 .. n - 1
          /\ mRealTrace[mTrace[i] + 1] = Sent(i)
      BY <1>3, <1>6, <3>1
    <3>3. mTrace[i] + 1 \in 1 .. n /\ mTrace[i] \in 0 .. m - 1
      BY <1>2, <3>2
    <3> QED BY <1>2, <3>2, <3>3
  <2>2. CASE i = len + 1
    BY <1>2, <1>3, <2>2
  <2> QED BY <1>12, <2>1, <2>2
<1>8. NumbersOK'
  <2>1. \A i \in 1 .. mTraceLength' :
          /\ mTrace'[i] \in 0 .. Len(mRealTrace') - 1
          /\ mRealTrace'[mTrace'[i] + 1] = Sent(i)'
    BY <1>0, <1>3, <1>5, <1>7
  <2> QED BY <2>1, NumbersBlock DEF NumbersOK
<1>9. ASSUME NEW k \in 0 .. m - 1
      PROVE  \E i \in 1 .. len + 1 : mTrace'[i] = k
  <2>1. CASE k \in 0 .. n - 1
    <3>1. PICK i \in 1 .. len : mTrace[i] = k
      BY <1>0, <1>1, <2>1 DEF AppearInOrder
    <3> QED BY <1>12, <1>3, <3>1
  <2>2. CASE k = page
    <3>1. len + 1 \in 1 .. len + 1
      BY <1>12
    <3> QED BY <1>3, <2>2, <3>1
  <2> QED BY <1>2, <2>1, <2>2
<1>10. ASSUME NEW i \in 1 .. len + 1, NEW k \in 0 .. mTrace'[i]
       PROVE  \E j \in 1 .. i : mTrace'[j] = k
  <2>1. CASE i <= len
    <3>1. i \in 1 .. len /\ k \in 0 .. mTrace[i]
      BY <1>12, <1>3, <2>1
    <3>2. PICK j \in 1 .. i : mTrace[j] = k
      BY <1>0, <1>1, <3>1 DEF AppearInOrder
    <3>3. mTrace'[j] = mTrace[j]
      BY <1>12, <1>3, <3>1
    <3> QED BY <3>2, <3>3
  <2>2. CASE i = len + 1
    <3>1. k \in 0 .. m - 1
      BY <1>2, <1>3, <2>2
    <3> QED BY <1>9, <2>2, <3>1
  <2> QED BY <1>12, <2>1, <2>2
<1>11. AppearInOrder'
  BY <1>0, <1>3, <1>9, <1>10 DEF AppearInOrder
<1> QED BY <1>4, <1>8, <1>11

(* prevPos and nextPos take in the reference.                              *)
LEMMA LinksNext ==
  ASSUME TraceInv, ReadIteration
  PROVE  LinksOK'
<1>0. PICK len, page, blk : /\ len = mTraceLength /\ page = dic'[ref_blk']
                            /\ blk = ref_blk'
  OBVIOUS
<1>1. NumbersOK /\ LinksOK /\ LinkPrevious(blk)
  BY <1>0 DEF TraceInv, ReadIteration
<1>2. len \in Nat
  BY <1>0 DEF TraceInv, ReadOK, mTraceLength
<1>3. /\ mTraceLength' = len + 1
      /\ \A i \in 1 .. len : mTrace'[i] = mTrace[i]
      /\ mTrace'[len + 1] = page
  BY <1>0, ReadsNext
<1>4. /\ DOMAIN dic' = DOMAIN dic \cup {blk} /\ page = dic'[blk]
      /\ \A b \in DOMAIN dic : dic'[b] = dic[b]
      /\ \A k \in 1 .. Len(mRealTrace') : dic'[mRealTrace'[k]] = k - 1
      /\ DOMAIN dic' = Range(mRealTrace') /\ mRealTrace' \in Seq(Nat)
  BY <1>0, NumbersBlock
<1>5. ASSUME NEW b \in DOMAIN dic', NEW c \in DOMAIN dic', dic'[b] = dic'[c]
      PROVE  b = c
  <2>4. DOMAIN mRealTrace' = 1 .. Len(mRealTrace')
    BY <1>4
  <2>1. PICK k \in 1 .. Len(mRealTrace') : b = mRealTrace'[k]
    BY <1>4, <2>4 DEF Range
  <2>2. PICK h \in 1 .. Len(mRealTrace') : c = mRealTrace'[h]
    BY <1>4, <2>4 DEF Range
  <2>3. k - 1 = h - 1
    BY <1>4, <1>5, <2>1, <2>2
  <2> QED BY <2>1, <2>2, <2>3
<1>13. PICK t : t = [i \in 0 .. len |-> mTrace'[i + 1]]
  OBVIOUS
<1>6. ASSUME NEW i \in 0 .. len - 1
      PROVE  t[i] = Trace(i) /\ \E b \in DOMAIN dic : t[i] = dic[b]
  <2>1. i + 1 \in 1 .. len /\ i \in 0 .. len
    BY <1>2
  <2>2. t[i] = Trace(i)
    BY <1>3, <1>13, <2>1 DEF Trace
  <2>3. mTrace[i + 1] \in 0 .. Len(mRealTrace) - 1
    BY <1>0, <1>1, <2>1 DEF NumbersOK
  <2>4. /\ mRealTrace \in Seq(Nat) /\ DOMAIN dic = Range(mRealTrace)
        /\ \A k \in 1 .. Len(mRealTrace) : dic[mRealTrace[k]] = k - 1
    BY <1>1 DEF NumbersOK
  <2>5. PICK k \in 1 .. Len(mRealTrace) : mTrace[i + 1] = k - 1
    <3>1. Len(mRealTrace) \in Nat
      BY <2>4
    <3>2. mTrace[i + 1] + 1 \in 1 .. Len(mRealTrace)
      BY <2>3, <3>1
    <3>3. mTrace[i + 1] = (mTrace[i + 1] + 1) - 1
      BY <2>3
    <3> QED BY <3>2, <3>3
  <2>6. mRealTrace[k] \in DOMAIN dic /\ Trace(i) = dic[mRealTrace[k]]
    BY <2>4, <2>5 DEF Range, Trace
  <2> QED BY <2>2, <2>6
<1>7. t[len] = page
  BY <1>2, <1>3, <1>13
<1>8. /\ DOMAIN prevPos = DOMAIN dic
      /\ \A b \in DOMAIN prevPos :
           /\ prevPos[b] \in 0 .. len - 1
           /\ t[prevPos[b]] = dic[b]
           /\ \A j \in prevPos[b] + 1 .. len - 1 : t[j] # dic[b]
  <2>1. ASSUME NEW b \in DOMAIN prevPos
        PROVE  /\ prevPos[b] \in 0 .. len - 1
               /\ t[prevPos[b]] = dic[b]
               /\ \A j \in prevPos[b] + 1 .. len - 1 : t[j] # dic[b]
    <3>1. /\ prevPos[b] \in 0 .. len - 1
          /\ Trace(prevPos[b]) = dic[b]
          /\ \A j \in prevPos[b] + 1 .. len - 1 : Trace(j) # dic[b]
      BY <1>0, <1>1 DEF LinksOK
    <3>2. \A j \in prevPos[b] + 1 .. len - 1 : j \in 0 .. len - 1
      BY <1>2, <3>1
    <3> QED BY <1>6, <3>1, <3>2
  <2> QED BY <1>1, <2>1 DEF LinksOK
<1>9. /\ DOMAIN prevPos' = DOMAIN prevPos \cup {blk} /\ prevPos'[blk] = len
      /\ \A b \in DOMAIN prevPos \ {blk} : prevPos'[b] = prevPos[b]
      /\ nextPos' = IF blk \in DOMAIN prevPos
                    THEN With(nextPos, prevPos[blk], len - prevPos[blk])
                    ELSE nextPos
  BY <1>0, <1>1 DEF LinkPrevious, With
<1>10. ASSUME NEW b \in DOMAIN prevPos'
       PROVE  /\ prevPos'[b] \in 0 .. len
              /\ t[prevPos'[b]] = dic'[b]
              /\ \A j \in prevPos'[b] + 1 .. len : t[j] # dic'[b]
  <2>1. CASE b = blk
    BY <1>2, <1>4, <1>7, <1>9, <2>1
  <2>2. CASE b # blk
    <3>1. b \in DOMAIN prevPos /\ prevPos'[b] = prevPos[b] /\ dic'[b] = dic[b]
      BY <1>4, <1>8, <1>9, <2>2
    <3>2. dic'[b] # page
      BY <1>4, <1>5, <1>8, <2>2, <3>1
    <3> QED BY <1>2, <1>7, <1>8, <3>1, <3>2
  <2> QED BY <2>1, <2>2
<1>11. ASSUME NEW i \in 0 .. len - 1, t[i] = page
       PROVE  blk \in DOMAIN prevPos /\ i <= prevPos[blk]
  <2>1. PICK b \in DOMAIN dic : t[i] = dic[b]
    BY <1>6
  <2>2. b = blk
    BY <1>4, <1>5, <1>11, <2>1
  <2>3. i \notin prevPos[blk] + 1 .. len - 1
    BY <1>8, <2>1, <2>2
  <2> QED BY <1>2, <1>8, <2>1, <2>2, <2>3
<1> DEFINE After(i) == {j \in i + 1 .. len : t[j] = t[i]}
           Before(i) == {j \in i + 1 .. len - 1 : t[j] = t[i]}
<1>14. ASSUME NEW i \in 0 .. len - 1
       PROVE  Later(i) = Before(i)
  <2>1. \A j \in i + 1 .. len - 1 : j \in 0 .. len - 1
    BY <1>2
  <2> QED BY <1>0, <1>6, <2>1 DEF Later
<1>15. /\ DOMAIN nextPos \subseteq 0 .. len - 1
       /\ \A i \in DOMAIN nextPos :
            /\ nextPos[i] \in Nat \ {0}
            /\ i + nextPos[i] \in Before(i)
            /\ \A j \in Before(i) : i + nextPos[i] <= j
       /\ \A i \in (0 .. len - 1) \ DOMAIN nextPos : Before(i) = {}
  <2> HIDE DEF Before
  <2>1. /\ DOMAIN nextPos \subseteq 0 .. len - 1
        /\ \A i \in DOMAIN nextPos :
             /\ nextPos[i] \in Nat \ {0}
             /\ i + nextPos[i] \in Later(i)
             /\ \A j \in Later(i) : i + nextPos[i] <= j
        /\ \A i \in (0 .. len - 1) \ DOMAIN nextPos : Later(i) = {}
    BY <1>0, <1>1 DEF LinksOK
  <2> QED BY <1>14, <2>1
<1>16. ASSUME NEW i \in 0 .. len - 1
       PROVE  After(i) = Before(i) \cup (IF t[i] = page THEN {len} ELSE {})
  BY <1>2, <1>7
<1>17. After(len) = {}
  BY <1>2
<1>18. /\ DOMAIN nextPos' \subseteq 0 .. len
       /\ \A i \in DOMAIN nextPos' :
            /\ nextPos'[i] \in Nat \ {0}
            /\ i + nextPos'[i] \in After(i)
            /\ \A j \in After(i) : i + nextPos'[i] <= j
       /\ \A i \in (0 .. len) \ DOMAIN nextPos' : After(i) = {}
  <2>1. CASE blk \notin DOMAIN prevPos
    <3>1. nextPos' = nextPos
      BY <1>9, <2>1
    <3>2. \A i \in 0 .. len - 1 : t[i] # page
      BY <1>11, <2>1
    <3>3. \A i \in 0 .. len - 1 : After(i) = Before(i)
      BY <1>16, <3>2
    <3> HIDE DEF After, Before
    <3>4. ASSUME NEW i \in (0 .. len) \ DOMAIN nextPos'
          PROVE  After(i) = {}
      <4>1. i = len \/ i \in (0 .. len - 1) \ DOMAIN nextPos
        BY <1>2, <3>1
      <4> QED BY <1>15, <1>17, <3>3, <4>1
    <3> QED BY <1>2, <1>15, <3>1, <3>3, <3>4
  <2>2. CASE blk \in DOMAIN prevPos
    <3> DEFINE h == prevPos[blk]
    <3>1. /\ h \in 0 .. len - 1 /\ t[h] = page
          /\ \A j \in h + 1 .. len - 1 : t[j] # page
      BY <1>4, <1>8, <2>2
    <3>2. nextPos' = With(nextPos, h, len - h)
      BY <1>9, <2>2
    <3> HIDE DEF h
    <3>3. /\ DOMAIN nextPos' = DOMAIN nextPos \cup {h}
          /\ nextPos'[h] = len - h
          /\ \A i \in DOMAIN nextPos \ {h} : nextPos'[i] = nextPos[i]
      BY <3>2 DEF With
    <3>4. Before(h) = {} /\ After(h) = {len}
      BY <1>16, <3>1
    <3>5. ASSUME NEW i \in DOMAIN nextPos \ {h}
          PROVE  /\ nextPos'[i] \in Nat \ {0}
                 /\ i + nextPos'[i] \in After(i)
                 /\ \A j \in After(i) : i + nextPos'[i] <= j
      <4>1. /\ i \in 0 .. len - 1 /\ nextPos'[i] = nextPos[i]
            /\ nextPos[i] \in Nat \ {0} /\ i + nextPos[i] \in Before(i)
            /\ \A j \in Before(i) : i + nextPos[i] <= j
        BY <1>15, <3>3
      <4>2. i + nextPos[i] <= len
        BY <1>2, <4>1
      <4>3. After(i) \subseteq Before(i) \cup {len} /\ Before(i) \subseteq After(i)
        BY <1>16, <4>1
      <4> HIDE DEF After, Before
      <4> QED BY <4>1, <4>2, <4>3
    <3>6. ASSUME NEW i \in (0 .. len) \ DOMAIN nextPos'
          PROVE  After(i) = {}
      <4>1. CASE i = len
        BY <1>17, <4>1
      <4>2. CASE i # len
        <5>1. i \in (0 .. len - 1) \ DOMAIN nextPos /\ i # h
          BY <1>2, <3>3, <4>2
        <5>2. Before(i) = {}
          BY <1>15, <5>1
        <5>3. t[i] # page
          <6>1. SUFFICES ASSUME t[i] = page PROVE FALSE
            OBVIOUS
          <6>2. i <= h
            BY <1>11, <5>1, <6>1 DEF h
          <6>3. h \in Before(i)
            BY <1>2, <3>1, <5>1, <6>1, <6>2
          <6> QED BY <5>2, <6>3
        <5> HIDE DEF After, Before
        <5> QED BY <1>16, <5>1, <5>2, <5>3
      <4> QED BY <4>1, <4>2
    <3>7. /\ nextPos'[h] \in Nat \ {0} /\ h + nextPos'[h] \in After(h)
          /\ \A j \in After(h) : h + nextPos'[h] <= j
      <4> HIDE DEF After, Before
      <4> QED BY <1>2, <3>1, <3>3, <3>4
    <3>8. DOMAIN nextPos' \subseteq 0 .. len
      BY <1>2, <1>15, <3>1, <3>3
    <3> HIDE DEF After, Before
    <3> QED BY <3>3, <3>5, <3>6, <3>7, <3>8
  <2> QED BY <2>1, <2>2
<1>19. \A i \in 0 .. len : Trace(i)' = t[i]
  BY <1>13 DEF Trace
<1>20. \A i \in 0 .. len : Later(i)' = After(i)
  <2>1. ASSUME NEW i \in 0 .. len
        PROVE  Later(i)' = After(i)
    <3>1. \A j \in i + 1 .. len : j \in 0 .. len
      BY <1>2
    <3>2. mTraceLength' - 1 = len
      BY <1>2, <1>3
    <3> QED BY <1>19, <3>1, <3>2 DEF Later
  <2> QED BY <2>1
<1> HIDE DEF After, Before
<1>21. DOMAIN prevPos' = DOMAIN dic'
  BY <1>4, <1>8, <1>9
<1>22. mTraceLength' - 1 = len
  BY <1>2, <1>3
<1>23. \A b \in DOMAIN prevPos' :
         /\ prevPos'[b] \in 0 .. len
         /\ mTrace'[prevPos'[b] + 1] = dic'[b]
         /\ \A j \in prevPos'[b] + 1 .. len : mTrace'[j + 1] # dic'[b]
  <2>1. ASSUME NEW b \in DOMAIN prevPos'
        PROVE  /\ prevPos'[b] \in 0 .. len
               /\ mTrace'[prevPos'[b] + 1] = dic'[b]
               /\ \A j \in prevPos'[b] + 1 .. len : mTrace'[j + 1] # dic'[b]
    <3>1. \A j \in prevPos'[b] + 1 .. len : j \in 0 .. len
      BY <1>2, <1>10
    <3> QED BY <1>10, <1>13, <3>1
  <2> QED BY <2>1
<1>24. \A i \in DOMAIN nextPos' : i \in 0 .. len
  BY <1>18
<1> QED BY <1>18, <1>20, <1>21, <1>22, <1>23, <1>24 DEF LinksOK, Trace

(* What the reader knows stays true in every step of it.                   *)
LEMMA TraceStep == TraceInv /\ [TraceNext]_traceVars => TraceInv'
<1> SUFFICES ASSUME TraceInv, [TraceNext]_traceVars PROVE TraceInv'
  OBVIOUS
<1>1. CASE ReadIteration
  <2>1. reading' = reading /\ reading
    BY <1>1 DEF ReadIteration
  <2>2. EndOK'
    BY <2>1 DEF EndOK
  <2> QED BY <1>1, <2>2, ReadsNext, NumbersNext, LinksNext DEF TraceInv
<1>2. CASE FillNextPos
  <2>1. /\ UNCHANGED <<file, ending, cutline, unread, eof, cut, ref_blk, dic,
                     mRealTrace, mTrace, prevPos, nextPos, mVmSize>>
        /\ ~More
        /\ mNextPos' = [i \in 0 .. mTraceLength - 1 |->
                          IF i \in DOMAIN nextPos THEN nextPos[i] ELSE 0]
    BY <1>2 DEF FillNextPos, input, maps
  <2>2. InputOK' /\ ReadOK'
    BY <2>1 DEF TraceInv, InputOK, ReadOK, Sent, Whole, mTraceLength
  <2>3. NumbersOK' /\ AppearInOrder'
    BY <2>1 DEF TraceInv, NumbersOK, AppearInOrder, Sent, mTraceLength
  <2>4. LinksOK'
    BY <2>1 DEF TraceInv, LinksOK, Later, Trace, mTraceLength
  <2>5. EndOK'
    BY <2>1 DEF EndOK, More, mTraceLength
  <2> QED BY <2>2, <2>3, <2>4, <2>5 DEF TraceInv
<1>3. CASE UNCHANGED traceVars
  <2>1. UNCHANGED <<file, ending, cutline, reading, unread, eof, cut, ref_blk,
                    dic, mRealTrace, mTrace, prevPos, nextPos, mVmSize,
                    mNextPos>>
    BY <1>3 DEF traceVars, input, maps, result
  <2>2. InputOK' /\ ReadOK'
    BY <2>1 DEF TraceInv, InputOK, ReadOK, Sent, Whole, mTraceLength
  <2>3. NumbersOK' /\ AppearInOrder'
    BY <2>1 DEF TraceInv, NumbersOK, AppearInOrder, Sent, mTraceLength
  <2>4. LinksOK'
    BY <2>1 DEF TraceInv, LinksOK, Later, Trace, mTraceLength
  <2>5. EndOK'
    BY <2>1 DEF TraceInv, EndOK, More, mTraceLength
  <2> QED BY <2>2, <2>3, <2>4, <2>5 DEF TraceInv
<1> QED BY <1>1, <1>2, <1>3 DEF TraceNext

(* When the loop is over it has delivered what the file says it must.      *)
LEMMA AllDelivered ==
  ASSUME TraceInv, ~reading
  PROVE  [i \in 1 .. mTraceLength |-> mRealTrace[mTrace[i] + 1]] = Delivered
<1> DEFINE whole == ending = "digit" /\ file # <<>>
           natural == IF whole THEN Len(file) ELSE Len(file) + 1
           length == IF cutline # -1 /\ (ending = "garbage" \/ cutline < natural)
                     THEN cutline ELSE natural
           final == IF file = <<>> THEN 0 ELSE Last(file)
<1>1. /\ InputOK /\ ReadOK /\ ~More
      /\ Len(file) \in Nat /\ mTraceLength \in Nat /\ natural \in Nat
  BY DEF TraceInv, InputOK, ReadOK, EndOK, mTraceLength
<1>2. natural = Whole
  BY DEF Whole
<1>3. mTraceLength = length
  <2>1. eof \/ (cutline # -1 /\ ~(cut < cutline))
    BY <1>1 DEF More
  <2>2. CASE eof
    <3>1. ending # "garbage" /\ mTraceLength = natural
      BY <1>1, <1>2, <2>2 DEF ReadOK
    <3>2. cutline # -1 => natural <= cutline /\ cutline \in Nat
      BY <1>1, <3>1 DEF ReadOK, InputOK
    <3> HIDE DEF natural
    <3> QED BY <1>1, <3>1, <3>2
  <2>3. CASE cutline # -1 /\ ~(cut < cutline)
    <3>1. cutline \in Nat /\ cut = mTraceLength /\ mTraceLength <= cutline
      BY <1>1, <2>3 DEF ReadOK, InputOK
    <3>2. mTraceLength = cutline
      BY <1>1, <2>3, <3>1
    <3>3. ending # "garbage" => cutline <= natural
      BY <1>1, <1>2, <3>2 DEF ReadOK
    <3> HIDE DEF natural
    <3> QED BY <1>1, <2>3, <3>1, <3>2, <3>3
  <2> QED BY <2>1, <2>2, <2>3
<1>4. \A i \in 1 .. mTraceLength :
        mRealTrace[mTrace[i] + 1] = IF i <= Len(file) THEN file[i] ELSE final
  <2>1. \A i \in 1 .. mTraceLength : mRealTrace[mTrace[i] + 1] = Sent(i)
    BY DEF TraceInv, NumbersOK
  <2> QED BY <2>1 DEF Sent, Last
<1>5. Delivered = [i \in 1 .. length |-> IF i <= Len(file) THEN file[i] ELSE final]
  BY DEF Delivered
<1> HIDE DEF length, final
<1> QED BY <1>3, <1>4, <1>5

(* What the reader knows when it ends is that the trace is faithful.       *)
LEMMA TraceFollows == TraceInv => TraceFaithful
<1> SUFFICES ASSUME TraceInv, ~reading
             PROVE  /\ IsInjective(mRealTrace)
                    /\ Range(mTrace) \cup {0} = 0 .. mVmSize
                    /\ \A i \in 0 .. mTraceLength - 1 :
                         /\ \A page \in 0 .. Trace(i) :
                              \E j \in 0 .. i : Trace(j) = page
                         /\ IF Later(i) = {} THEN mNextPos[i] = 0
                            ELSE /\ mNextPos[i] > 0
                                 /\ i + mNextPos[i] \in Later(i)
                                 /\ \A j \in Later(i) : i + mNextPos[i] <= j
  BY AllDelivered DEF TraceFaithful
<1>1. /\ mTrace \in Seq(Nat) /\ mTraceLength \in Nat
      /\ mRealTrace \in Seq(Nat) /\ Len(mRealTrace) \in Nat
      /\ (mRealTrace = <<>> <=> Len(mRealTrace) = 0)
      /\ NumbersOK /\ AppearInOrder /\ LinksOK /\ EndOK
  <2>1. NumbersOK /\ AppearInOrder /\ LinksOK /\ EndOK /\ ReadOK
    BY DEF TraceInv
  <2>2. mTrace \in Seq(Nat) /\ mRealTrace \in Seq(Nat)
    BY <2>1 DEF ReadOK, NumbersOK
  <2>3. mTraceLength \in Nat
    BY <2>2 DEF mTraceLength
  <2>4. /\ Len(mRealTrace) \in Nat
        /\ (mRealTrace = <<>> <=> Len(mRealTrace) = 0)
    BY <2>2
  <2> QED BY <2>1, <2>2, <2>3, <2>4
<1>2. IsInjective(mRealTrace)
  <2>1. \A k \in DOMAIN mRealTrace : dic[mRealTrace[k]] = k - 1 /\ k \in Int
    BY <1>1 DEF NumbersOK
  <2>2. ASSUME NEW k \in DOMAIN mRealTrace, NEW h \in DOMAIN mRealTrace,
               mRealTrace[k] = mRealTrace[h]
        PROVE  k = h
    <3>1. k - 1 = h - 1 /\ k \in Int /\ h \in Int
      BY <2>1, <2>2
    <3> QED BY <3>1
  <2> QED BY <2>2 DEF IsInjective
<1>3. Range(mTrace) \cup {0} = 0 .. mVmSize
  <2>1. Range(mTrace) = 0 .. Len(mRealTrace) - 1
    <3>1. DOMAIN mTrace = 1 .. mTraceLength
      BY <1>1 DEF mTraceLength
    <3>2. \A i \in 1 .. mTraceLength : mTrace[i] \in 0 .. Len(mRealTrace) - 1
      BY <1>1 DEF NumbersOK
    <3>3. \A k \in 0 .. Len(mRealTrace) - 1 :
            \E i \in 1 .. mTraceLength : mTrace[i] = k
      BY <1>1 DEF AppearInOrder
    <3> QED BY <3>1, <3>2, <3>3 DEF Range
  <2>2. mVmSize = IF Len(mRealTrace) = 0 THEN 0 ELSE Len(mRealTrace) - 1
    BY <1>1 DEF NumbersOK
  <2> QED BY <1>1, <2>1, <2>2
<1>4. ASSUME NEW i \in 0 .. mTraceLength - 1, NEW page \in 0 .. Trace(i)
      PROVE  \E j \in 0 .. i : Trace(j) = page
  <2>1. i + 1 \in 1 .. mTraceLength
    BY <1>1
  <2>2. PICK j \in 1 .. i + 1 : mTrace[j] = page
    BY <1>1, <1>4, <2>1 DEF AppearInOrder, Trace
  <2>3. j - 1 \in 0 .. i /\ (j - 1) + 1 = j
    BY <2>2
  <2> QED BY <2>2, <2>3 DEF Trace
<1>5. ASSUME NEW i \in 0 .. mTraceLength - 1
      PROVE  IF Later(i) = {} THEN mNextPos[i] = 0
             ELSE /\ mNextPos[i] > 0
                  /\ i + mNextPos[i] \in Later(i)
                  /\ \A j \in Later(i) : i + mNextPos[i] <= j
  <2>1. mNextPos[i] = IF i \in DOMAIN nextPos THEN nextPos[i] ELSE 0
    BY <1>1 DEF EndOK
  <2>2. CASE i \in DOMAIN nextPos
    <3>1. /\ mNextPos[i] \in Nat \ {0} /\ i + mNextPos[i] \in Later(i)
          /\ \A j \in Later(i) : i + mNextPos[i] <= j
      BY <1>1, <2>1, <2>2 DEF LinksOK
    <3> QED BY <3>1
  <2>3. CASE i \notin DOMAIN nextPos
    BY <1>1, <2>1, <2>3 DEF LinksOK
  <2> QED BY <2>2, <2>3
<1> QED BY <1>2, <1>3, <1>4, <1>5

(* For every file, ending and cut line the trace the reader hands over is  *)
(* the file's, renumbered in the order of first appearance, with the exact *)
(* distance to the next reference at every position (trace_handle.cc,      *)
(* lines 44-77).                                                           *)
THEOREM TraceAlwaysFaithful == TraceSpec => []TraceFaithful
<1>1. TraceSpec => []TraceInv
  BY TraceInit, TraceStep, PTL DEF TraceSpec
<1> QED BY <1>1, TraceFollows, PTL

-----------------------------------------------------------------------------
(* The optimal engine *)

(* The pages referenced at the positions from n to t - 1.                  *)
Used(n, t) == {Trace(i) : i \in n .. t - 1}

(* k says when page p is referenced next, seen from position n: at k, or   *)
(* never again after the reference at k - mTraceLength.                    *)
NextAt(n, p, k) ==
  /\ k \in Nat
  /\ \/ /\ k \in n .. mTraceLength - 1
        /\ Trace(k) = p /\ p \notin Used(n, k)
     \/ /\ k - mTraceLength \in 0 .. n - 1
        /\ Trace(k - mTraceLength) = p /\ p \notin Used(n, mTraceLength)

Pages == 0 .. mVmSize

(* Before the constructor runs.                                            *)
NotStarted ==
  /\ cur_ref = 0 /\ isResident = {} /\ mCache = {}
  /\ mPageFaultNum = 0 /\ ColdMiss = 0
  /\ rivals = {[cache |-> {}, faults |-> 0]}

(* The ordered set holds the resident pages, each under the position of    *)
(* its next reference.                                                     *)
CacheOK ==
  /\ isResident = mCache /\ mCache \subseteq Pages
  /\ mFreeMemSize \in Nat /\ mPageFaultNum \in Nat
  /\ Cardinality(mCache) + mFreeMemSize = mCacheMaxLimit
  /\ DOMAIN fwd_distance = Pages
  /\ \A p \in mCache : NextAt(cur_ref, p, fwd_distance[p])

ColdOK ==
  /\ DOMAIN ref_times = Pages
  /\ \A p \in Pages : /\ ref_times[p] \in Nat
                      /\ ref_times[p] = 0 <=> p \notin Used(0, cur_ref)
  /\ ColdMiss = Cardinality(Used(0, cur_ref))

(* Of the pages used before any later position t, a cache holds at most as *)
(* many more than the engine as it has had more faults.                    *)
Ahead(r) ==
  /\ IsFiniteSet(r.cache) /\ Cardinality(r.cache) <= mCacheMaxLimit
  /\ r.faults \in Nat
  /\ \A t \in cur_ref .. mTraceLength :
       Cardinality(r.cache \cap Used(cur_ref, t)) + mPageFaultNum
         <= Cardinality(mCache \cap Used(cur_ref, t)) + r.faults

RivalsOK ==
  /\ [cache |-> mCache, faults |-> mPageFaultNum] \in rivals
  /\ \A r \in rivals : Ahead(r)

OPTInv ==
  /\ TraceInv
  /\ mCacheMaxLimit \in Nat \ {0}
  /\ engine \in {"none", "dots", "running", "done"}
  /\ engine = "none" => NotStarted
  /\ engine # "none" => /\ ~reading
                        /\ cur_ref \in 0 .. mTraceLength
                        /\ CacheOK /\ ColdOK /\ RivalsOK

(* What the engine relies on of the trace.                                 *)
LEMMA TraceFacts ==
  ASSUME TraceInv, ~reading
  PROVE  /\ mTraceLength \in Nat /\ mVmSize \in Nat
         /\ \A i \in 0 .. mTraceLength - 1 : Trace(i) \in Pages
<1>1. mTraceLength \in Nat /\ TraceFaithful /\ mTrace \in Seq(Nat)
  BY TraceFollows DEF TraceInv, ReadOK, mTraceLength
<1>2. mVmSize \in Nat
  <2>1. Len(mRealTrace) \in Nat /\ (mRealTrace = <<>> <=> Len(mRealTrace) = 0)
    BY DEF TraceInv, NumbersOK
  <2> QED BY <2>1 DEF TraceInv, NumbersOK
<1>3. ASSUME NEW i \in 0 .. mTraceLength - 1
      PROVE  Trace(i) \in Pages
  <2>1. i + 1 \in DOMAIN mTrace
    BY <1>1 DEF mTraceLength
  <2>2. mTrace[i + 1] \in Range(mTrace)
    BY <2>1 DEF Range
  <2> QED BY <1>1, <2>2 DEF TraceFaithful, Trace, Pages
<1> QED BY <1>1, <1>2, <1>3

(* How the pages used change with the position.                            *)
LEMMA UsedFacts ==
  ASSUME TraceInv, ~reading, NEW n \in Nat, NEW t \in Nat,
         n <= t, t <= mTraceLength
  PROVE  /\ Used(n, t) \subseteq Pages /\ IsFiniteSet(Used(n, t))
         /\ Used(n, n) = {}
         /\ n < t => /\ Used(n, t) = Used(n + 1, t) \cup {Trace(n)}
                     /\ Used(0, n + 1) = Used(0, n) \cup {Trace(n)}
         /\ Used(n, t) \subseteq Used(n, mTraceLength)
<1>1. /\ mTraceLength \in Nat /\ mVmSize \in Nat
      /\ \A i \in 0 .. mTraceLength - 1 : Trace(i) \in Pages
  BY TraceFacts
<1>2. Used(n, t) \subseteq Pages
  BY <1>1 DEF Used
<1>3. IsFiniteSet(Pages)
  BY <1>1, FS_Interval DEF Pages
<1>4. IsFiniteSet(Used(n, t))
  BY <1>2, <1>3, FS_Subset
<1>5. Used(n, n) = {}
  BY DEF Used
<1>6. ASSUME n < t
      PROVE  /\ Used(n, t) = Used(n + 1, t) \cup {Trace(n)}
             /\ Used(0, n + 1) = Used(0, n) \cup {Trace(n)}
  <2>1. n .. t - 1 = (n + 1 .. t - 1) \cup {n}
    BY <1>6
  <2>2. 0 .. (n + 1) - 1 = (0 .. n - 1) \cup {n}
    OBVIOUS
  <2> QED BY <2>1, <2>2 DEF Used
<1>7. Used(n, t) \subseteq Used(n, mTraceLength)
  BY <1>1 DEF Used
<1> QED BY <1>2, <1>4, <1>5, <1>6, <1>7

(* Two pages are never referenced next at the same position.               *)
LEMMA KeysApart ==
  ASSUME NEW n \in Nat, n <= mTraceLength, mTraceLength \in Nat,
         NEW p, NEW q, NEW k, NextAt(n, p, k), NextAt(n, q, k)
  PROVE  p = q
BY DEF NextAt

(* What mNextPos says of the page referenced, seen from the next position. *)
LEMMA NextDistanceFacts ==
  ASSUME TraceInv, ~reading, cur_ref \in 0 .. mTraceLength - 1
  PROVE  NextAt(cur_ref + 1, Trace(cur_ref), NextDistance)
<1> DEFINE len == mTraceLength
           d == mNextPos[cur_ref]
<1>1. len \in Nat
  BY TraceFacts
<1>2. IF Later(cur_ref) = {} THEN d = 0
      ELSE /\ d > 0 /\ cur_ref + d \in Later(cur_ref)
           /\ \A j \in Later(cur_ref) : cur_ref + d <= j
  BY TraceFollows DEF TraceFaithful
<1>3. NextDistance = cur_ref + (IF d = 0 THEN len ELSE d)
  BY DEF NextDistance
<1> HIDE DEF d
<1>4. CASE Later(cur_ref) = {}
  <2>1. NextDistance = cur_ref + len
    BY <1>2, <1>3, <1>4
  <2>2. Trace(cur_ref) \notin Used(cur_ref + 1, len)
    BY <1>4 DEF Later, Used
  <2>3. NextDistance - len = cur_ref /\ NextDistance \in Nat
        /\ cur_ref \in 0 .. (cur_ref + 1) - 1
    BY <1>1, <2>1
  <2> HIDE DEF len
  <2> QED BY <2>2, <2>3 DEF NextAt, len
<1>5. CASE Later(cur_ref) # {}
  <2>1. /\ d > 0 /\ cur_ref + d \in Later(cur_ref)
        /\ \A j \in Later(cur_ref) : cur_ref + d <= j
    BY <1>2, <1>5
  <2>2. PICK k : k = cur_ref + d
    OBVIOUS
  <2>3. k \in cur_ref + 1 .. len - 1 /\ Trace(k) = Trace(cur_ref)
    BY <2>1, <2>2 DEF Later
  <2>4. NextDistance = k
    <3>1. d # 0
      BY <1>1, <2>2, <2>3
    <3> QED BY <1>3, <2>2, <3>1
  <2>5. Trace(cur_ref) \notin Used(cur_ref + 1, k)
    <3>1. SUFFICES ASSUME NEW i \in cur_ref + 1 .. k - 1,
                          Trace(i) = Trace(cur_ref)
                   PROVE  FALSE
      BY DEF Used
    <3>2. i \in Later(cur_ref)
      BY <1>1, <2>3, <3>1 DEF Later
    <3>3. k <= i
      BY <2>1, <2>2, <3>2
    <3> QED BY <1>1, <2>3, <3>3
  <2>6. k \in Nat
    BY <1>1, <2>3
  <2> QED BY <2>3, <2>4, <2>5, <2>6 DEF NextAt
<1> QED BY <1>4, <1>5

(* A page that is not the one referenced keeps its next position.          *)
LEMMA NextAtStays ==
  ASSUME TraceInv, ~reading, cur_ref \in 0 .. mTraceLength - 1,
         NEW p, NEW k, NextAt(cur_ref, p, k), p # Trace(cur_ref)
  PROVE  NextAt(cur_ref + 1, p, k)
<1>1. mTraceLength \in Nat /\ cur_ref \in Nat
  BY TraceFacts
<1>2. ASSUME NEW t \in Nat
      PROVE  Used(cur_ref + 1, t) \subseteq Used(cur_ref, t)
  BY <1>1 DEF Used
<1>3. CASE /\ k \in cur_ref .. mTraceLength - 1
           /\ Trace(k) = p /\ p \notin Used(cur_ref, k)
  <2>1. k \in cur_ref + 1 .. mTraceLength - 1 /\ k \in Nat
    BY <1>1, <1>3
  <2> QED BY <1>2, <1>3, <2>1 DEF NextAt
<1>4. CASE /\ k - mTraceLength \in 0 .. cur_ref - 1
           /\ Trace(k - mTraceLength) = p
           /\ p \notin Used(cur_ref, mTraceLength)
  <2>1. k - mTraceLength \in 0 .. (cur_ref + 1) - 1 /\ k \in Nat
    BY <1>1, <1>4 DEF NextAt
  <2> QED BY <1>1, <1>2, <1>4, <2>1 DEF NextAt
<1> QED BY <1>3, <1>4 DEF NextAt

(* The end of the ordered set is a page of it whose key is the largest.    *)
LEMMA VictimFacts ==
  ASSUME OPTInv, engine # "none", mCache # {}
  PROVE  /\ Victim \in mCache
         /\ \A r \in mCache : fwd_distance[Victim] >= fwd_distance[r]
<1> DEFINE T == {fwd_distance[p] + 1 : p \in mCache}
           m == 2 * mTraceLength + 1
<1>1. mTraceLength \in Nat /\ CacheOK /\ cur_ref \in 0 .. mTraceLength
  BY TraceFacts DEF OPTInv
<1>2. \A p \in mCache : fwd_distance[p] \in 0 .. 2 * mTraceLength
  BY <1>1 DEF CacheOK, NextAt
<1>3. T \subseteq 1 .. m /\ T # {} /\ m \in Nat
  BY <1>1, <1>2
<1>4. Max(T) \in T /\ \A x \in T : x <= Max(T)
  <2> HIDE DEF T, m
  <2> QED BY <1>3, MaxExists
<1>5. PICK q \in mCache : fwd_distance[q] + 1 = Max(T)
  BY <1>4
<1>6. \A r \in mCache : fwd_distance[r] + 1 <= Max(T)
  BY <1>4
<1> HIDE DEF T
<1>7. \A r \in mCache : fwd_distance[q] >= fwd_distance[r]
  BY <1>2, <1>5, <1>6
<1> QED BY <1>7 DEF Victim

(* The page after which the farthest key comes is needed last: when it is  *)
(* used before t, so are all the others.                                   *)
LEMMA VictimIsLast ==
  ASSUME OPTInv, engine # "none", mCache # {},
         NEW t \in cur_ref .. mTraceLength, Victim \in Used(cur_ref, t)
  PROVE  mCache \subseteq Used(cur_ref, t)
<1>1. /\ mTraceLength \in Nat /\ CacheOK /\ cur_ref \in 0 .. mTraceLength
      /\ TraceInv /\ ~reading
  BY TraceFacts DEF OPTInv
<1>2. PICK v, k : v = Victim /\ k = fwd_distance[v]
  OBVIOUS
<1>3. /\ v \in mCache /\ NextAt(cur_ref, v, k)
      /\ \A r \in mCache : fwd_distance[r] <= k
  <2>1. \A r \in mCache : fwd_distance[r] \in Nat
    BY <1>1 DEF CacheOK, NextAt
  <2>2. v \in mCache /\ \A r \in mCache : k >= fwd_distance[r]
    BY <1>2, VictimFacts
  <2> QED BY <1>1, <1>2, <2>1, <2>2 DEF CacheOK
<1>4. PICK i \in cur_ref .. t - 1 : v = Trace(i)
  BY <1>2 DEF Used
<1>5. k <= i
  <2>1. v \in Used(cur_ref, mTraceLength)
    BY <1>1, <1>4 DEF Used
  <2>2. /\ k \in cur_ref .. mTraceLength - 1
        /\ v \notin Used(cur_ref, k)
    BY <1>3, <2>1 DEF NextAt
  <2>3. i \notin cur_ref .. k - 1
    BY <1>4, <2>2 DEF Used
  <2> QED BY <1>1, <1>4, <2>2, <2>3
<1>6. ASSUME NEW p \in mCache
      PROVE  p \in Used(cur_ref, t)
  <2>1. PICK h : h = fwd_distance[p]
    OBVIOUS
  <2>2. NextAt(cur_ref, p, h) /\ h <= k
    BY <1>1, <1>3, <2>1 DEF CacheOK
  <2>3. h < mTraceLength /\ h \in Nat
    BY <1>1, <1>3, <1>4, <1>5, <2>2 DEF NextAt
  <2>4. h \in cur_ref .. t - 1 /\ Trace(h) = p
    BY <1>1, <1>3, <1>4, <1>5, <2>2, <2>3 DEF NextAt
  <2> QED BY <2>4 DEF Used
<1> QED BY <1>6

(* The page referenced goes into the set under a key of its own.           *)
LEMMA InsertFacts ==
  ASSUME OPTInv, engine = "running", cur_ref < mTraceLength,
         NEW resident, NEW free, NEW cache,
         Insert(Trace(cur_ref), resident, free, cache),
         cache \subseteq mCache \ {Trace(cur_ref)},
         Cardinality(cache \cup {Trace(cur_ref)}) <= mCacheMaxLimit,
         resident = cache \cup {Trace(cur_ref)}
  PROVE  /\ mCache' = cache \cup {Trace(cur_ref)} /\ isResident' = mCache'
         /\ mFreeMemSize' = free /\ engine' = "running"
         /\ DOMAIN fwd_distance' = Pages
         /\ \A p \in mCache' : NextAt(cur_ref + 1, p, fwd_distance'[p])
<1>1. PICK x, key : x = Trace(cur_ref) /\ key = NextDistance
  OBVIOUS
<1>2. /\ CacheOK /\ TraceInv /\ ~reading /\ mTraceLength \in Nat
      /\ cur_ref \in 0 .. mTraceLength - 1 /\ mCacheMaxLimit \in Nat
      /\ x \in Pages
  <2>1. /\ CacheOK /\ TraceInv /\ ~reading /\ cur_ref \in 0 .. mTraceLength
        /\ mCacheMaxLimit \in Nat
    BY DEF OPTInv
  <2>2. mTraceLength \in Nat
    BY <2>1, TraceFacts
  <2>3. cur_ref \in 0 .. mTraceLength - 1
    BY <2>1, <2>2
  <2> QED BY <1>1, <2>1, <2>2, <2>3, TraceFacts
<1>3. NextAt(cur_ref + 1, x, key)
  BY <1>1, <1>2, NextDistanceFacts
<1>4. \A q \in cache : NextAt(cur_ref + 1, q, fwd_distance[q])
  BY <1>1, <1>2, NextAtStays DEF CacheOK
<1>5. ASSUME NEW q \in cache
      PROVE  fwd_distance[q] # key
  <2>1. q # x
    BY <1>1
  <2>2. cur_ref + 1 \in Nat /\ cur_ref + 1 <= mTraceLength
    BY <1>2
  <2> QED BY <1>2, <1>3, <1>4, <2>1, <2>2, KeysApart
<1>6. /\ fwd_distance' = [fwd_distance EXCEPT ![x] = key]
      /\ isResident' = cache \cup {x} /\ mFreeMemSize' = free
      /\ mCache' = cache \cup {x}
  BY <1>1, <1>5 DEF Insert
<1>7. engine' = "running"
  <2>1. ~(Cardinality(cache \cup {x}) > mCacheMaxLimit)
    <3>1. IsFiniteSet(cache \cup {x})
      <4>1. IsFiniteSet(Pages) /\ cache \cup {x} \subseteq Pages
        <5>1. mVmSize \in Nat
          BY <1>2, TraceFacts
        <5>2. IsFiniteSet(Pages)
          BY <5>1, FS_Interval DEF Pages
        <5>3. cache \cup {x} \subseteq Pages
          BY <1>1, <1>2 DEF CacheOK
        <5> QED BY <5>2, <5>3
      <4> QED BY <4>1, FS_Subset
    <3>2. Cardinality(cache \cup {x}) \in Nat
      BY <3>1, FS_CardinalityType
    <3> QED BY <1>1, <1>2, <3>2
  <2>2. ~\E q \in cache : fwd_distance[q] = key
    BY <1>5
  <2> QED BY <1>1, <2>1, <2>2 DEF Insert
<1>8. DOMAIN fwd_distance = Pages
  BY <1>2 DEF CacheOK
<1>9. ASSUME NEW p \in mCache'
      PROVE  NextAt(cur_ref + 1, p, fwd_distance'[p])
  <2>1. CASE p = x
    BY <1>2, <1>3, <1>6, <1>8, <2>1
  <2>2. CASE p # x
    BY <1>4, <1>6, <1>8, <2>2
  <2> QED BY <2>1, <2>2
<1> QED BY <1>1, <1>6, <1>7, <1>8, <1>9

(* What one reference makes of the ordered set.                            *)
HitBy(x) == /\ x \in mCache /\ mCache' = mCache
            /\ mPageFaultNum' = mPageFaultNum /\ mFreeMemSize' = mFreeMemSize

LoadedBy(x) == /\ x \notin mCache /\ mCache' = mCache \cup {x}
               /\ mPageFaultNum' = mPageFaultNum + 1
               /\ mFreeMemSize > 0 /\ mFreeMemSize' = mFreeMemSize - 1

ReplacedBy(x) == /\ x \notin mCache /\ mCache # {}
                 /\ mCache' = (mCache \ {Victim}) \cup {x}
                 /\ mPageFaultNum' = mPageFaultNum + 1
                 /\ mFreeMemSize = 0 /\ mFreeMemSize' = 0

(* A reference is a hit, a load into a free frame or the replacement of    *)
(* the victim, and leaves the keys right for the next position.            *)
LEMMA Referenced ==
  ASSUME OPTInv, Reference
  PROVE  /\ HitBy(Trace(cur_ref)) \/ LoadedBy(Trace(cur_ref))
            \/ ReplacedBy(Trace(cur_ref))
         /\ engine = "running" /\ engine' = "running"
         /\ cur_ref \in 0 .. mTraceLength - 1 /\ cur_ref' = cur_ref + 1
         /\ isResident' = mCache' /\ DOMAIN fwd_distance' = Pages
         /\ \A p \in mCache' : NextAt(cur_ref + 1, p, fwd_distance'[p])
         /\ ref_times' = [ref_times EXCEPT ![Trace(cur_ref)] = @ + 1]
         /\ ColdMiss' = IF ref_times[Trace(cur_ref)] = 0 THEN ColdMiss + 1
                        ELSE ColdMiss
<1>1. PICK x : x = Trace(cur_ref)
  OBVIOUS
<1>2. /\ engine = "running" /\ cur_ref < mTraceLength
      /\ CacheOK /\ TraceInv /\ ~reading /\ cur_ref \in 0 .. mTraceLength
      /\ mCacheMaxLimit \in Nat \ {0}
  BY DEF Reference, OPTInv
<1>3. /\ mTraceLength \in Nat /\ mVmSize \in Nat
      /\ cur_ref \in 0 .. mTraceLength - 1 /\ x \in Pages
  <2>1. mTraceLength \in Nat /\ mVmSize \in Nat
    BY <1>2, TraceFacts
  <2>2. cur_ref \in 0 .. mTraceLength - 1
    BY <1>2, <2>1
  <2> QED BY <1>1, <1>2, <2>1, <2>2, TraceFacts
<1>4. Known(x)
  BY <1>3 DEF Known, Pages
<1>5. /\ ColdMiss' = IF ref_times[x] = 0 THEN ColdMiss + 1 ELSE ColdMiss
      /\ ref_times' = [ref_times EXCEPT ![x] = @ + 1]
      /\ Load(x) \/ Evict(x) \/ Hit(x)
      /\ cur_ref' = cur_ref + 1
  BY <1>1, <1>4 DEF Reference
<1>6. /\ IsFiniteSet(mCache) /\ Cardinality(mCache) \in Nat
      /\ Cardinality(mCache) + mFreeMemSize = mCacheMaxLimit
      /\ isResident = mCache /\ mFreeMemSize \in Nat
  <2>1. mCache \subseteq Pages /\ IsFiniteSet(Pages)
    BY <1>2, <1>3, FS_Interval DEF CacheOK, Pages
  <2>2. IsFiniteSet(mCache)
    BY <2>1, FS_Subset
  <2> QED BY <1>2, <2>2, FS_CardinalityType DEF CacheOK
<1>7. CASE Load(x)
  <2>1. /\ x \notin mCache /\ mFreeMemSize > 0
        /\ Insert(x, mCache \cup {x}, mFreeMemSize - 1, mCache)
        /\ mPageFaultNum' = mPageFaultNum + 1
    BY <1>6, <1>7 DEF Load
  <2>2. Cardinality(mCache \cup {x}) = Cardinality(mCache) + 1
    BY <1>6, <2>1, FS_AddElement
  <2>3. Cardinality(mCache \cup {x}) <= mCacheMaxLimit
    BY <1>2, <1>6, <2>1, <2>2
  <2>4. mCache \subseteq mCache \ {x}
    BY <2>1
  <2>5. /\ mCache' = mCache \cup {x} /\ isResident' = mCache'
        /\ mFreeMemSize' = mFreeMemSize - 1 /\ engine' = "running"
        /\ DOMAIN fwd_distance' = Pages
        /\ \A p \in mCache' : NextAt(cur_ref + 1, p, fwd_distance'[p])
    BY <1>1, <1>2, <2>1, <2>3, <2>4, InsertFacts
  <2>6. LoadedBy(x)
    BY <2>1, <2>5 DEF LoadedBy
  <2> QED BY <1>1, <1>2, <1>3, <1>5, <2>5, <2>6
<1>8. CASE Evict(x)
  <2>1. PICK kept : kept = mCache \ {Victim}
    OBVIOUS
  <2>2. /\ x \notin mCache /\ mFreeMemSize = 0
        /\ Insert(x, kept \cup {x}, 0, kept)
        /\ mPageFaultNum' = mPageFaultNum + 1
    BY <1>6, <1>8, <2>1 DEF Evict
  <2>3. mCache # {}
    BY <1>2, <1>6, <2>2, FS_EmptySet
  <2>4. Victim \in mCache
    BY <1>2, <2>3, VictimFacts
  <2>5. Cardinality(kept \cup {x}) = mCacheMaxLimit
    <3>1. IsFiniteSet(kept) /\ Cardinality(kept) = Cardinality(mCache) - 1
      BY <1>6, <2>1, <2>4, FS_RemoveElement
    <3>2. Cardinality(kept \cup {x}) = Cardinality(kept) + 1
      BY <2>1, <2>2, <3>1, FS_AddElement
    <3> QED BY <1>2, <1>6, <2>2, <3>1, <3>2
  <2>6. Cardinality(kept \cup {x}) <= mCacheMaxLimit /\ kept \subseteq mCache \ {x}
    BY <1>2, <2>1, <2>2, <2>5
  <2>7. /\ mCache' = kept \cup {x} /\ isResident' = mCache'
        /\ mFreeMemSize' = 0 /\ engine' = "running"
        /\ DOMAIN fwd_distance' = Pages
        /\ \A p \in mCache' : NextAt(cur_ref + 1, p, fwd_distance'[p])
    BY <1>1, <1>2, <2>2, <2>6, InsertFacts
  <2>8. ReplacedBy(x)
    BY <2>1, <2>2, <2>3, <2>7 DEF ReplacedBy
  <2> QED BY <1>1, <1>2, <1>3, <1>5, <2>7, <2>8
<1>9. CASE Hit(x)
  <2>1. x \in mCache /\ mPageFaultNum' = mPageFaultNum
    BY <1>6, <1>9 DEF Hit
  <2>2. SameKey(x) = {x}
    <3>1. \A q \in mCache : NextAt(cur_ref, q, fwd_distance[q])
      BY <1>2 DEF CacheOK
    <3>2. ASSUME NEW q \in mCache, fwd_distance[q] = fwd_distance[x]
          PROVE  q = x
      BY <1>2, <1>3, <2>1, <3>1, <3>2, KeysApart
    <3> QED BY <2>1, <3>2 DEF SameKey
  <2>3. Insert(x, isResident, mFreeMemSize, mCache \ {x})
    BY <1>9, <2>2 DEF Hit
  <2>4. PICK kept : kept = mCache \ {x}
    OBVIOUS
  <2>5. kept \cup {x} = mCache
    BY <2>1, <2>4
  <2>6. Insert(x, kept \cup {x}, mFreeMemSize, kept)
    BY <1>6, <2>3, <2>4, <2>5
  <2>10. Cardinality(mCache) <= mCacheMaxLimit
    BY <1>2, <1>6
  <2>7. Cardinality(kept \cup {x}) <= mCacheMaxLimit
    BY <2>5, <2>10, Zenon
  <2>8. /\ mCache' = kept \cup {x} /\ isResident' = mCache'
        /\ mFreeMemSize' = mFreeMemSize /\ engine' = "running"
        /\ DOMAIN fwd_distance' = Pages
        /\ \A p \in mCache' : NextAt(cur_ref + 1, p, fwd_distance'[p])
    BY <1>1, <1>2, <2>4, <2>6, <2>7, InsertFacts
  <2>9. HitBy(x)
    BY <2>1, <2>5, <2>8 DEF HitBy
  <2> QED BY <1>1, <1>2, <1>3, <1>5, <2>8, <2>9
<1> QED BY <1>5, <1>7, <1>8, <1>9

(* Counting the members of a cache that are among the pages W.             *)
LEMMA MeetFacts ==
  ASSUME NEW A, IsFiniteSet(A), NEW W, NEW x \in W
  PROVE  /\ Cardinality(A \cap W) \in Nat /\ Cardinality(A) \in Nat
         /\ Cardinality(A \cap W) <= Cardinality(A)
         /\ IsFiniteSet(A \cup {x})
         /\ x \notin A =>
              /\ Cardinality((A \cup {x}) \cap W) = Cardinality(A \cap W) + 1
              /\ Cardinality(A \cup {x}) = Cardinality(A) + 1
<1>1. IsFiniteSet(A \cap W) /\ Cardinality(A \cap W) <= Cardinality(A)
  <2>1. A \cap W \in SUBSET A
    OBVIOUS
  <2> QED BY <2>1, FS_Subset
<1>2. Cardinality(A \cap W) \in Nat /\ Cardinality(A) \in Nat
  BY <1>1, FS_CardinalityType
<1>3. IsFiniteSet(A \cup {x})
  BY FS_AddElement
<1>4. ASSUME x \notin A
      PROVE  /\ Cardinality((A \cup {x}) \cap W) = Cardinality(A \cap W) + 1
             /\ Cardinality(A \cup {x}) = Cardinality(A) + 1
  <2>1. (A \cup {x}) \cap W = (A \cap W) \cup {x} /\ x \notin A \cap W
    BY <1>4
  <2>2. Cardinality((A \cap W) \cup {x}) = Cardinality(A \cap W) + 1
    BY <1>1, <2>1, FS_AddElement
  <2>3. Cardinality(A \cup {x}) = Cardinality(A) + 1
    BY <1>4, FS_AddElement
  <2> QED BY <2>1, <2>2, <2>3
<1> QED BY <1>1, <1>2, <1>3, <1>4

(* A member that leaves is missed among the pages W if it was one of them. *)
LEMMA DropFacts ==
  ASSUME NEW A, IsFiniteSet(A), NEW W, NEW v \in A
  PROVE  /\ IsFiniteSet(A \ {v})
         /\ Cardinality(A \ {v}) = Cardinality(A) - 1
         /\ v \notin W => (A \ {v}) \cap W = A \cap W
         /\ Cardinality((A \ {v}) \cap W) <= Cardinality(A \cap W)
<1>1. IsFiniteSet(A \cap W)
  <2>1. A \cap W \in SUBSET A
    OBVIOUS
  <2> QED BY <2>1, FS_Subset
<1>2. (A \ {v}) \cap W \in SUBSET (A \cap W)
  OBVIOUS
<1>3. Cardinality((A \ {v}) \cap W) <= Cardinality(A \cap W)
  BY <1>1, <1>2, FS_Subset
<1>4. IsFiniteSet(A \ {v}) /\ Cardinality(A \ {v}) = Cardinality(A) - 1
  BY FS_RemoveElement
<1> QED BY <1>3, <1>4

(* A page that was just used is not used next any more, unless it is again.*)
LEMMA ShiftFacts ==
  ASSUME NEW A, IsFiniteSet(A), NEW V, NEW x \in A
  PROVE  Cardinality(A \cap (V \cup {x})) =
           Cardinality(A \cap V) + (IF x \in V THEN 0 ELSE 1)
<1>1. CASE x \in V
  <2>1. A \cap (V \cup {x}) = A \cap V
    BY <1>1
  <2>2. Cardinality(A \cap V) \in Nat
    BY <1>1, MeetFacts
  <2> QED BY <1>1, <2>1, <2>2
<1>2. CASE x \notin V
  <2>1. A \cap (V \cup {x}) = (A \cap V) \cup {x} /\ x \notin A \cap V
    BY <1>2
  <2>2. A \cap V \in SUBSET A
    OBVIOUS
  <2>3. IsFiniteSet(A \cap V)
    BY <2>2, FS_Subset
  <2>4. Cardinality((A \cap V) \cup {x}) = Cardinality(A \cap V) + 1
    BY <2>1, <2>3, FS_AddElement
  <2> QED BY <1>2, <2>1, <2>4
<1> QED BY <1>1, <1>2

(* The caches are finite, the engine's frames all accounted for.           *)
LEMMA CacheFacts ==
  ASSUME TraceInv, ~reading, CacheOK, mCacheMaxLimit \in Nat
  PROVE  /\ IsFiniteSet(mCache) /\ Cardinality(mCache) \in Nat
         /\ Cardinality(mCache) <= mCacheMaxLimit
<1>1. mVmSize \in Nat
  BY TraceFacts
<1>2. mCache \in SUBSET Pages /\ IsFiniteSet(Pages)
  BY <1>1, FS_Interval DEF CacheOK, Pages
<1>3. IsFiniteSet(mCache) /\ Cardinality(mCache) \in Nat
  BY <1>2, FS_Subset, FS_CardinalityType
<1>4. Cardinality(mCache) + mFreeMemSize = mCacheMaxLimit /\ mFreeMemSize \in Nat
  BY DEF CacheOK
<1> QED BY <1>3, <1>4

(* After a fault the engine has one page more of those used before t, or   *)
(* as many as a cache can hold: a page it drops is one of them only when   *)
(* all are.                                                                *)
LEMMA EngineMoves ==
  ASSUME OPTInv, Reference, NEW t \in cur_ref + 1 .. mTraceLength
  PROVE  \/ /\ Trace(cur_ref) \in mCache /\ mPageFaultNum' = mPageFaultNum
            /\ Cardinality(mCache' \cap Used(cur_ref, t)) =
                 Cardinality(mCache \cap Used(cur_ref, t))
         \/ /\ Trace(cur_ref) \notin mCache
            /\ mPageFaultNum' = mPageFaultNum + 1
            /\ \/ Cardinality(mCache' \cap Used(cur_ref, t)) =
                    Cardinality(mCache \cap Used(cur_ref, t)) + 1
               \/ Cardinality(mCache' \cap Used(cur_ref, t)) = mCacheMaxLimit
<1>0. PICK x, W : x = Trace(cur_ref) /\ W = Used(cur_ref, t)
  OBVIOUS
<1> SUFFICES \/ /\ x \in mCache /\ mPageFaultNum' = mPageFaultNum
                /\ Cardinality(mCache' \cap W) = Cardinality(mCache \cap W)
             \/ /\ x \notin mCache /\ mPageFaultNum' = mPageFaultNum + 1
                /\ \/ Cardinality(mCache' \cap W) = Cardinality(mCache \cap W) + 1
                   \/ Cardinality(mCache' \cap W) = mCacheMaxLimit
  BY <1>0
<1>1. /\ engine # "none" /\ TraceInv /\ ~reading /\ CacheOK
      /\ cur_ref \in 0 .. mTraceLength - 1 /\ mCacheMaxLimit \in Nat
  BY Referenced DEF OPTInv
<1>2. IsFiniteSet(mCache) /\ Cardinality(mCache) \in Nat
  BY <1>1, CacheFacts
<1>3. x \in W
  <2>1. cur_ref \in cur_ref .. t - 1
    BY <1>1
  <2> QED BY <1>0, <2>1 DEF Used
<1>4. CASE HitBy(x)
  BY <1>4 DEF HitBy
<1>5. CASE LoadedBy(x)
  <2>1. /\ x \notin mCache /\ mCache' = mCache \cup {x}
        /\ mPageFaultNum' = mPageFaultNum + 1
    BY <1>5 DEF LoadedBy
  <2> QED BY <1>2, <1>3, <2>1, MeetFacts
<1>6. CASE ReplacedBy(x)
  <2>1. PICK v, kept : v = Victim /\ kept = mCache \ {v}
    OBVIOUS
  <2>2. /\ x \notin mCache /\ mCache # {} /\ mFreeMemSize = 0
        /\ mCache' = kept \cup {x} /\ mPageFaultNum' = mPageFaultNum + 1
    BY <1>6, <2>1 DEF ReplacedBy
  <2>3. v \in mCache
    BY <1>1, <2>1, <2>2, VictimFacts
  <2>4. /\ IsFiniteSet(kept) /\ x \notin kept
        /\ Cardinality(kept) = Cardinality(mCache) - 1
        /\ v \notin W => kept \cap W = mCache \cap W
    BY <1>2, <2>1, <2>2, <2>3, DropFacts
  <2>5. /\ Cardinality((kept \cup {x}) \cap W) = Cardinality(kept \cap W) + 1
        /\ Cardinality(kept \cup {x}) = Cardinality(kept) + 1
    <3>1. IsFiniteSet(kept) /\ x \notin kept
      BY <2>4
    <3> QED BY <1>3, <3>1, MeetFacts
  <2>6. CASE v \notin W
    BY <2>2, <2>4, <2>5, <2>6
  <2>7. CASE v \in W
    <3>1. t \in cur_ref .. mTraceLength
      BY <1>1
    <3>2. mCache \subseteq W
      BY <1>0, <1>1, <2>1, <2>2, <2>7, <3>1, VictimIsLast
    <3>3. (kept \cup {x}) \cap W = kept \cup {x}
      BY <1>3, <2>1, <3>2
    <3>4. Cardinality(mCache) = mCacheMaxLimit
      BY <1>1, <1>2, <2>2 DEF CacheOK
    <3>5. Cardinality(kept \cup {x}) = mCacheMaxLimit
      BY <1>2, <2>4, <2>5, <3>4
    <3> QED BY <2>2, <3>3, <3>5
  <2> QED BY <2>6, <2>7
<1> QED BY <1>0, <1>4, <1>5, <1>6, Referenced

(* A demand cache stays within its frames, has the page referenced and     *)
(* pays for each page it gets.                                             *)
LEMMA RivalMoves ==
  ASSUME NEW r, IsFiniteSet(r.cache), Cardinality(r.cache) <= mCacheMaxLimit,
         r.faults \in Nat, mCacheMaxLimit \in Nat \ {0},
         NEW W, NEW x \in W, NEW s \in Serve(r, x)
  PROVE  /\ IsFiniteSet(s.cache) /\ Cardinality(s.cache) <= mCacheMaxLimit
         /\ s.faults \in Nat /\ x \in s.cache
         /\ \/ x \in r.cache /\ s = r
            \/ /\ x \notin r.cache /\ s.faults = r.faults + 1
               /\ Cardinality(s.cache \cap W) <= Cardinality(r.cache \cap W) + 1
<1>1. CASE x \in r.cache
  <2>1. s = r
    BY <1>1 DEF Serve
  <2> QED BY <1>1, <2>1
<1>2. CASE x \notin r.cache
  <2>1. PICK k : /\ s = [cache |-> k \cup {x}, faults |-> r.faults + 1]
                 /\ \/ Cardinality(r.cache) < mCacheMaxLimit /\ k = r.cache
                    \/ /\ ~(Cardinality(r.cache) < mCacheMaxLimit)
                       /\ \E v \in r.cache : k = r.cache \ {v}
    BY <1>2 DEF Serve
  <2>2. s.cache = k \cup {x} /\ s.faults = r.faults + 1
    BY <2>1
  <2>3. /\ Cardinality(r.cache) \in Nat /\ Cardinality(r.cache \cap W) \in Nat
        /\ IsFiniteSet(k) /\ Cardinality(k) < mCacheMaxLimit
        /\ Cardinality(k \cap W) <= Cardinality(r.cache \cap W) /\ x \notin k
    <3>1. Cardinality(r.cache) \in Nat /\ Cardinality(r.cache \cap W) \in Nat
      BY MeetFacts
    <3>2. CASE Cardinality(r.cache) < mCacheMaxLimit /\ k = r.cache
      BY <1>2, <3>1, <3>2
    <3>3. CASE \E v \in r.cache : k = r.cache \ {v}
      <4>1. PICK v \in r.cache : k = r.cache \ {v}
        BY <3>3
      <4>2. /\ IsFiniteSet(k) /\ Cardinality(k) = Cardinality(r.cache) - 1
            /\ Cardinality(k \cap W) <= Cardinality(r.cache \cap W)
        BY <4>1, DropFacts
      <4> QED BY <1>2, <3>1, <4>1, <4>2
    <3> QED BY <2>1, <3>2, <3>3
  <2>4. /\ IsFiniteSet(k \cup {x}) /\ Cardinality(k) \in Nat
        /\ Cardinality((k \cup {x}) \cap W) = Cardinality(k \cap W) + 1
        /\ Cardinality(k \cup {x}) = Cardinality(k) + 1
        /\ Cardinality(k \cap W) \in Nat
    BY <2>3, MeetFacts
  <2> QED BY <1>2, <2>2, <2>3, <2>4
<1> QED BY <1>1, <1>2

(* No rival gets ahead by a reference.                                     *)
LEMMA AheadStays ==
  ASSUME OPTInv, Reference, UNCHANGED traceVars, UNCHANGED mCacheMaxLimit,
         NEW r \in rivals, NEW s \in Serve(r, Trace(cur_ref))
  PROVE  Ahead(s)'
<1>1. /\ TraceInv /\ ~reading /\ CacheOK /\ Ahead(r)
      /\ cur_ref \in 0 .. mTraceLength - 1 /\ cur_ref' = cur_ref + 1
      /\ mCacheMaxLimit \in Nat \ {0} /\ mPageFaultNum \in Nat
  BY Referenced DEF OPTInv, RivalsOK, CacheOK
<1>2. mTraceLength \in Nat
  BY <1>1, TraceFacts
<1>3. PICK x : x = Trace(cur_ref)
  OBVIOUS
<1>4. /\ IsFiniteSet(r.cache) /\ Cardinality(r.cache) <= mCacheMaxLimit
      /\ r.faults \in Nat
      /\ \A t \in cur_ref .. mTraceLength :
           Cardinality(r.cache \cap Used(cur_ref, t)) + mPageFaultNum
             <= Cardinality(mCache \cap Used(cur_ref, t)) + r.faults
  BY <1>1 DEF Ahead
<1>5. mPageFaultNum <= r.faults
  <2>1. Used(cur_ref, cur_ref) = {}
    BY <1>1 DEF Used
  <2>2. cur_ref \in cur_ref .. mTraceLength
    BY <1>1, <1>2
  <2>3. /\ r.cache \cap Used(cur_ref, cur_ref) = {}
        /\ mCache \cap Used(cur_ref, cur_ref) = {}
    BY <2>1
  <2>4. Cardinality({}) + mPageFaultNum <= Cardinality({}) + r.faults
    BY <1>4, <2>2, <2>3
  <2> QED BY <1>1, <1>4, <2>4, FS_EmptySet
<1>6. ASSUME x \in r.cache, x \notin mCache
      PROVE  mPageFaultNum + 1 <= r.faults
  <2>1. Used(cur_ref, cur_ref + 1) = {x}
    <3>1. cur_ref .. (cur_ref + 1) - 1 = {cur_ref}
      BY <1>1
    <3> QED BY <1>3, <3>1 DEF Used
  <2>2. cur_ref + 1 \in cur_ref .. mTraceLength
    BY <1>1, <1>2
  <2>3. /\ r.cache \cap Used(cur_ref, cur_ref + 1) = {x}
        /\ mCache \cap Used(cur_ref, cur_ref + 1) = {}
    BY <1>6, <2>1
  <2>4. Cardinality({x}) + mPageFaultNum <= Cardinality({}) + r.faults
    BY <1>4, <2>2, <2>3
  <2>5. Cardinality({x}) = 1 /\ Cardinality({}) = 0
    BY FS_EmptySet, FS_Singleton
  <2> QED BY <1>1, <1>4, <2>4, <2>5
<1>7. ASSUME NEW t \in cur_ref + 1 .. mTraceLength
      PROVE  Cardinality(s.cache \cap Used(cur_ref + 1, t)) + mPageFaultNum'
               <= Cardinality(mCache' \cap Used(cur_ref + 1, t)) + s.faults
  <2>1. PICK V, W : V = Used(cur_ref + 1, t) /\ W = Used(cur_ref, t)
    OBVIOUS
  <2>2. W = V \cup {x}
    <3>1. cur_ref \in Nat /\ t \in Nat /\ cur_ref < t /\ cur_ref <= t
          /\ t <= mTraceLength
      BY <1>1, <1>2
    <3> QED BY <1>1, <1>3, <2>1, <3>1, UsedFacts
  <2>3. x \in W
    BY <2>2
  <2>4. /\ IsFiniteSet(s.cache) /\ Cardinality(s.cache) <= mCacheMaxLimit
        /\ s.faults \in Nat /\ x \in s.cache
        /\ \/ x \in r.cache /\ s = r
           \/ /\ x \notin r.cache /\ s.faults = r.faults + 1
              /\ Cardinality(s.cache \cap W) <= Cardinality(r.cache \cap W) + 1
    BY <1>1, <1>3, <1>4, <2>3, RivalMoves
  <2>5. \/ /\ x \in mCache /\ mPageFaultNum' = mPageFaultNum
           /\ Cardinality(mCache' \cap W) = Cardinality(mCache \cap W)
        \/ /\ x \notin mCache /\ mPageFaultNum' = mPageFaultNum + 1
           /\ \/ Cardinality(mCache' \cap W) = Cardinality(mCache \cap W) + 1
              \/ Cardinality(mCache' \cap W) = mCacheMaxLimit
    BY <1>3, <2>1, EngineMoves
  <2>6. Cardinality(r.cache \cap W) + mPageFaultNum
          <= Cardinality(mCache \cap W) + r.faults
    <3>1. t \in cur_ref .. mTraceLength
      BY <1>1
    <3> QED BY <1>4, <2>1, <3>1
  <2>7. IsFiniteSet(mCache') /\ x \in mCache'
    <3>1. IsFiniteSet(mCache)
      BY <1>1, CacheFacts
    <3>2. CASE HitBy(x)
      BY <3>1, <3>2 DEF HitBy
    <3>3. CASE LoadedBy(x)
      BY <3>1, <3>3, FS_AddElement DEF LoadedBy
    <3>4. CASE ReplacedBy(x)
      <4>1. mCache' = (mCache \ {Victim}) \cup {x}
        BY <3>4 DEF ReplacedBy
      <4>2. IsFiniteSet(mCache \ {Victim})
        BY <3>1, FS_RemoveElement
      <4>3. IsFiniteSet((mCache \ {Victim}) \cup {x})
        BY <4>2, FS_AddElement
      <4> QED BY <4>1, <4>3
    <3> QED BY <1>3, <3>2, <3>3, <3>4, Referenced
  <2>8. PICK rw, rv, ew, ev, c :
          /\ rw = Cardinality(s.cache \cap W) /\ rv = Cardinality(s.cache \cap V)
          /\ ew = Cardinality(mCache' \cap W) /\ ev = Cardinality(mCache' \cap V)
          /\ c = Cardinality(mCache \cap W)
    OBVIOUS
  <2>9. rw \in Nat /\ ew \in Nat /\ c \in Nat /\ rw <= mCacheMaxLimit
    <3>1. IsFiniteSet(mCache)
      BY <1>1, CacheFacts
    <3>2. /\ rw \in Nat /\ Cardinality(s.cache) \in Nat
          /\ rw <= Cardinality(s.cache)
      BY <2>3, <2>4, <2>8, MeetFacts
    <3>3. ew \in Nat
      BY <2>3, <2>7, <2>8, MeetFacts
    <3>4. c \in Nat
      BY <2>3, <2>8, <3>1, MeetFacts
    <3> QED BY <1>1, <2>4, <3>2, <3>3, <3>4
  <2>10. rw + mPageFaultNum' <= ew + s.faults
    <3>1. PICK d : d = Cardinality(r.cache \cap W)
      OBVIOUS
    <3>2. d \in Nat /\ d + mPageFaultNum <= c + r.faults
      BY <1>4, <2>3, <2>6, <2>8, <3>1, MeetFacts
    <3>3. \/ x \in r.cache /\ rw = d /\ s.faults = r.faults
          \/ x \notin r.cache /\ s.faults = r.faults + 1 /\ rw <= d + 1
      BY <2>4, <2>8, <3>1
    <3>4. \/ x \in mCache /\ mPageFaultNum' = mPageFaultNum /\ ew = c
          \/ /\ x \notin mCache /\ mPageFaultNum' = mPageFaultNum + 1
             /\ ew = c + 1 \/ ew = mCacheMaxLimit
      BY <2>5, <2>8
    <3> QED BY <1>1, <1>4, <1>5, <1>6, <2>9, <3>2, <3>3, <3>4
  <2>11. \E i \in {0, 1} : rw = rv + i /\ ew = ev + i
    <3>1. /\ Cardinality(s.cache \cap (V \cup {x})) =
               Cardinality(s.cache \cap V) + (IF x \in V THEN 0 ELSE 1)
          /\ Cardinality(mCache' \cap (V \cup {x})) =
               Cardinality(mCache' \cap V) + (IF x \in V THEN 0 ELSE 1)
      BY <2>4, <2>7, ShiftFacts
    <3>2. /\ rw = rv + (IF x \in V THEN 0 ELSE 1)
          /\ ew = ev + (IF x \in V THEN 0 ELSE 1)
      BY <2>2, <2>8, <3>1
    <3> QED BY <3>2
  <2>12. rv \in Nat /\ ev \in Nat
    <3>1. s.cache \cap V \in SUBSET s.cache /\ mCache' \cap V \in SUBSET mCache'
      OBVIOUS
    <3>2. IsFiniteSet(s.cache \cap V) /\ IsFiniteSet(mCache' \cap V)
      BY <2>4, <2>7, <3>1, FS_Subset
    <3> QED BY <2>8, <3>2, FS_CardinalityType
  <2>13. rv + mPageFaultNum' <= ev + s.faults
    <3>1. mPageFaultNum' \in Nat
      BY <1>1, <2>5
    <3> QED BY <2>4, <2>9, <2>10, <2>11, <2>12, <3>1
  <2> QED BY <2>1, <2>8, <2>13
<1>8. /\ mTraceLength' = mTraceLength /\ mCacheMaxLimit' = mCacheMaxLimit
      /\ mTrace' = mTrace
  BY DEF traceVars, maps, mTraceLength
<1>9. \A n, t : Used(n, t)' = Used(n, t)
  BY <1>8 DEF Used, Trace
<1>10. /\ IsFiniteSet(s.cache) /\ Cardinality(s.cache) <= mCacheMaxLimit
       /\ s.faults \in Nat
  <2>1. x \in {x}
    OBVIOUS
  <2> QED BY <1>1, <1>3, <1>4, <2>1, RivalMoves
<1> QED BY <1>1, <1>7, <1>8, <1>9, <1>10 DEF Ahead, Used, Trace

(* Nothing is cached and nothing counted before the constructor runs.      *)
LEMMA OPTStarts == RivalInit => OPTInv
<1> SUFFICES ASSUME RivalInit PROVE OPTInv
  OBVIOUS
<1>1. Init /\ rivals = {[cache |-> {}, faults |-> 0]}
  BY DEF RivalInit
<1>2. TraceInv
  BY <1>1, TraceInit DEF Init
<1>3. mCacheMaxLimit \in Nat \ {0} /\ engine = "none"
  BY <1>1, OPTAssumption DEF Init
<1>4. NotStarted
  BY <1>1 DEF Init, NotStarted
<1> QED BY <1>2, <1>3, <1>4 DEF OPTInv

(* The constructor's empty cache is the only rival's.                      *)
LEMMA ConstructFacts ==
  ASSUME OPTInv, Construct, UNCHANGED traceVars, UNCHANGED mCacheMaxLimit,
         UNCHANGED rivals
  PROVE  (cur_ref \in 0 .. mTraceLength /\ CacheOK /\ ColdOK /\ RivalsOK)'
<1>1. /\ NotStarted /\ ~reading /\ TraceInv /\ mCacheMaxLimit \in Nat \ {0}
  BY DEF OPTInv, Construct
<1>2. mTraceLength \in Nat
  BY <1>1, TraceFacts
<1>3. /\ mTraceLength' = mTraceLength /\ mTrace' = mTrace /\ mVmSize' = mVmSize
      /\ mNextPos' = mNextPos /\ mCacheMaxLimit' = mCacheMaxLimit
  BY DEF traceVars, maps, result, mTraceLength
<1>4. /\ cur_ref = 0 /\ mCache = {} /\ isResident = {} /\ mPageFaultNum = 0
      /\ ColdMiss = 0 /\ rivals = {[cache |-> {}, faults |-> 0]}
  BY <1>1 DEF NotStarted
<1>5. /\ cur_ref' = 0 /\ mCache' = {} /\ isResident' = {}
      /\ mPageFaultNum' = 0 /\ ColdMiss' = 0
      /\ rivals' = {[cache |-> {}, faults |-> 0]}
      /\ mFreeMemSize' = mCacheMaxLimit
      /\ fwd_distance' = [p \in 0 .. mVmSize |-> 0]
      /\ ref_times' = [p \in 0 .. mVmSize |-> 0]
  BY <1>4 DEF Construct
<1>6. IsFiniteSet({}) /\ Cardinality({}) = 0
  BY FS_EmptySet
<1>7. CacheOK'
  BY <1>1, <1>3, <1>5, <1>6 DEF CacheOK, Pages
<1>8. Used(0, 0)' = {}
  BY DEF Used
<1>9. ColdOK'
  <2>1. Used(0, cur_ref)' = {}
    BY <1>5 DEF Used
  <2> QED BY <1>3, <1>5, <1>6, <2>1 DEF ColdOK, Pages
<1>10. RivalsOK'
  <2>1. PICK r : r = [cache |-> {}, faults |-> 0]
    OBVIOUS
  <2>2. r.cache = {} /\ r.faults = 0 /\ rivals' = {r}
    BY <1>5, <2>1
  <2>3. \A W : r.cache \cap W = {} /\ mCache' \cap W = {}
    BY <1>5, <2>2
  <2>4. Ahead(r)'
    BY <1>1, <1>3, <1>5, <1>6, <2>2, <2>3 DEF Ahead
  <2> QED BY <1>5, <2>1, <2>2, <2>4 DEF RivalsOK
<1> QED BY <1>2, <1>3, <1>5, <1>7, <1>9, <1>10

(* A step that leaves trace, cache and rivals alone.                       *)
LEMMA Unmoved ==
  ASSUME OPTInv, engine # "none", UNCHANGED traceVars, UNCHANGED mCacheMaxLimit,
         UNCHANGED <<cur_ref, table, counters, rivals>>
  PROVE  (/\ ~reading /\ cur_ref \in 0 .. mTraceLength
          /\ CacheOK /\ ColdOK /\ RivalsOK)'
<1>1. /\ ~reading /\ cur_ref \in 0 .. mTraceLength
      /\ CacheOK /\ ColdOK /\ RivalsOK
  BY DEF OPTInv
<1>2. /\ UNCHANGED <<reading, mTrace, mVmSize, mNextPos, mCacheMaxLimit, cur_ref>>
      /\ UNCHANGED <<fwd_distance, ref_times, isResident, mCache, rivals>>
      /\ UNCHANGED <<mFreeMemSize, mPageFaultNum, ColdMiss>>
  BY DEF traceVars, maps, result, table, counters
<1>3. /\ mTraceLength' = mTraceLength /\ Pages' = Pages
      /\ \A n, t : Used(n, t)' = Used(n, t)
  BY <1>2 DEF mTraceLength, Pages, Used, Trace
<1>4. CacheOK'
  <2>1. \A p \in mCache : NextAt(cur_ref, p, fwd_distance[p])'
                            <=> NextAt(cur_ref, p, fwd_distance[p])
    BY <1>2 DEF NextAt, Used, Trace, mTraceLength
  <2> QED BY <1>1, <1>2, <1>3, <2>1 DEF CacheOK
<1>5. ColdOK'
  BY <1>1, <1>2, <1>3 DEF ColdOK
<1>6. RivalsOK'
  <2>1. ASSUME NEW r \in rivals
        PROVE  Ahead(r)'
    <3>1. Ahead(r)
      BY <1>1 DEF RivalsOK
    <3> QED BY <1>2, <1>3, <3>1 DEF Ahead
  <2>2. [cache |-> mCache, faults |-> mPageFaultNum] \in rivals
    BY <1>1 DEF RivalsOK
  <2> QED BY <1>2, <2>1, <2>2 DEF RivalsOK
<1> QED BY <1>1, <1>2, <1>3, <1>4, <1>5, <1>6

(* The engine's own cache is one of its rivals.                            *)
LEMMA OwnMove ==
  ASSUME OPTInv, Reference
  PROVE  [cache |-> mCache', faults |-> mPageFaultNum'] \in
           Serve([cache |-> mCache, faults |-> mPageFaultNum], Trace(cur_ref))
<1>1. PICK x, r : /\ x = Trace(cur_ref)
                  /\ r = [cache |-> mCache, faults |-> mPageFaultNum]
  OBVIOUS
<1>2. r.cache = mCache /\ r.faults = mPageFaultNum
  BY <1>1
<1>3. /\ TraceInv /\ ~reading /\ CacheOK /\ mCacheMaxLimit \in Nat \ {0}
  BY Referenced DEF OPTInv
<1>4. /\ Cardinality(mCache) \in Nat /\ mFreeMemSize \in Nat
      /\ Cardinality(mCache) + mFreeMemSize = mCacheMaxLimit
  BY <1>3, CacheFacts DEF CacheOK
<1>5. CASE HitBy(x)
  BY <1>1, <1>2, <1>5 DEF HitBy, Serve
<1>6. CASE LoadedBy(x)
  <2>1. Cardinality(r.cache) < mCacheMaxLimit
    BY <1>2, <1>3, <1>4, <1>6 DEF LoadedBy
  <2> QED BY <1>1, <1>2, <1>6, <2>1 DEF LoadedBy, Serve
<1>7. CASE ReplacedBy(x)
  <2>1. /\ x \notin mCache /\ mCache # {} /\ mFreeMemSize = 0
        /\ mCache' = (mCache \ {Victim}) \cup {x}
        /\ mPageFaultNum' = mPageFaultNum + 1
    BY <1>7 DEF ReplacedBy
  <2>2. ~(Cardinality(r.cache) < mCacheMaxLimit)
    BY <1>2, <1>4, <2>1
  <2>3. Victim \in mCache
    BY <2>1, Referenced, VictimFacts
  <2>4. PICK v \in mCache : v = Victim
    BY <2>3
  <2> QED BY <1>1, <1>2, <2>1, <2>2, <2>4 DEF Serve
<1> QED BY <1>1, <1>5, <1>6, <1>7, Referenced

(* A reference keeps cache, counters and rivals right.                     *)
LEMMA ReferenceFacts ==
  ASSUME OPTInv, Reference, UNCHANGED traceVars, UNCHANGED mCacheMaxLimit,
         rivals' = UNION {Serve(r, Trace(cur_ref)) : r \in rivals}
  PROVE  (/\ ~reading /\ cur_ref \in 0 .. mTraceLength
          /\ CacheOK /\ ColdOK /\ RivalsOK)'
<1>1. PICK x : x = Trace(cur_ref)
  OBVIOUS
<1>2. /\ HitBy(x) \/ LoadedBy(x) \/ ReplacedBy(x)
      /\ engine = "running"
      /\ cur_ref \in 0 .. mTraceLength - 1 /\ cur_ref' = cur_ref + 1
      /\ isResident' = mCache' /\ DOMAIN fwd_distance' = Pages
      /\ \A p \in mCache' : NextAt(cur_ref + 1, p, fwd_distance'[p])
      /\ ref_times' = [ref_times EXCEPT ![x] = @ + 1]
      /\ ColdMiss' = IF ref_times[x] = 0 THEN ColdMiss + 1 ELSE ColdMiss
  BY <1>1, Referenced
<1>3. /\ TraceInv /\ ~reading /\ CacheOK /\ ColdOK /\ RivalsOK
      /\ mCacheMaxLimit \in Nat \ {0}
  BY <1>2 DEF OPTInv
<1>4. mTraceLength \in Nat /\ x \in Pages /\ cur_ref \in Nat
  BY <1>1, <1>2, <1>3, TraceFacts
<1>5. UNCHANGED <<reading, mTrace, mVmSize, mNextPos, mCacheMaxLimit>>
  BY DEF traceVars, maps, result
<1>6. /\ mTraceLength' = mTraceLength /\ Pages' = Pages
      /\ \A n, t : Used(n, t)' = Used(n, t)
  BY <1>5 DEF mTraceLength, Pages, Used, Trace
<1>7. CacheOK'
  <2>1. /\ IsFiniteSet(mCache) /\ Cardinality(mCache) \in Nat
        /\ mFreeMemSize \in Nat /\ mPageFaultNum \in Nat
        /\ mCache \subseteq Pages
        /\ Cardinality(mCache) + mFreeMemSize = mCacheMaxLimit
    BY <1>3, CacheFacts DEF CacheOK
  <2>2. /\ mCache' \subseteq Pages /\ mFreeMemSize' \in Nat
        /\ mPageFaultNum' \in Nat
        /\ Cardinality(mCache') + mFreeMemSize' = mCacheMaxLimit
    <3>1. CASE HitBy(x)
      BY <2>1, <3>1 DEF HitBy
    <3>2. CASE LoadedBy(x)
      <4>1. Cardinality(mCache \cup {x}) = Cardinality(mCache) + 1
        BY <2>1, <3>2, FS_AddElement DEF LoadedBy
      <4> QED BY <1>3, <1>4, <2>1, <3>2, <4>1 DEF LoadedBy
    <3>3. CASE ReplacedBy(x)
      <4>1. Victim \in mCache
        BY <1>2, <3>3, VictimFacts DEF ReplacedBy
      <4>2. PICK kept : kept = mCache \ {Victim}
        OBVIOUS
      <4>3. IsFiniteSet(kept) /\ Cardinality(kept) = Cardinality(mCache) - 1
        BY <2>1, <4>1, <4>2, FS_RemoveElement
      <4>4. x \notin kept
        BY <3>3, <4>2 DEF ReplacedBy
      <4>5. Cardinality(kept \cup {x}) = Cardinality(kept) + 1
        BY <4>3, <4>4, FS_AddElement
      <4> QED BY <1>3, <1>4, <2>1, <3>3, <4>2, <4>3, <4>5 DEF ReplacedBy
    <3> QED BY <1>2, <3>1, <3>2, <3>3
  <2>3. \A p \in mCache' : NextAt(cur_ref, p, fwd_distance[p])'
    BY <1>2, <1>5 DEF NextAt, Used, Trace, mTraceLength
  <2> QED BY <1>2, <1>5, <1>6, <2>2, <2>3 DEF CacheOK
<1>8. ColdOK'
  <2>1. /\ IsFiniteSet(Used(0, cur_ref))
        /\ Used(0, cur_ref + 1) = Used(0, cur_ref) \cup {x}
    <3>1. 0 \in Nat /\ 0 <= cur_ref /\ cur_ref <= mTraceLength
          /\ cur_ref + 1 \in Nat /\ cur_ref + 1 <= mTraceLength
          /\ cur_ref < cur_ref + 1 /\ cur_ref <= cur_ref + 1
      BY <1>2, <1>4
    <3>2. IsFiniteSet(Used(0, cur_ref))
      BY <1>3, <1>4, <3>1, UsedFacts
    <3>3. Used(0, cur_ref + 1) = Used(0, cur_ref) \cup {Trace(cur_ref)}
      BY <1>3, <1>4, <3>1, UsedFacts
    <3> QED BY <1>1, <3>2, <3>3
  <2>2. PICK U : U = Used(0, cur_ref)
    OBVIOUS
  <2>3. Used(0, cur_ref)' = U \cup {x}
    BY <1>2, <1>6, <2>1, <2>2
  <2>4. /\ DOMAIN ref_times = Pages /\ ColdMiss = Cardinality(U)
        /\ \A p \in Pages : /\ ref_times[p] \in Nat
                            /\ ref_times[p] = 0 <=> p \notin U
    BY <1>3, <2>2 DEF ColdOK
  <2>5. /\ DOMAIN ref_times' = Pages
        /\ \A p \in Pages : /\ ref_times'[p] \in Nat
                            /\ ref_times'[p] = 0 <=> p \notin U \cup {x}
    <3>1. /\ ref_times' = [ref_times EXCEPT ![x] = @ + 1]
          /\ DOMAIN ref_times = Pages
      BY <1>2, <2>4
    <3>2. ASSUME NEW p \in Pages
          PROVE  /\ ref_times'[p] \in Nat
                 /\ ref_times'[p] = 0 <=> p \notin U \cup {x}
      <4>1. ref_times[p] \in Nat /\ (ref_times[p] = 0 <=> p \notin U)
        BY <2>4
      <4>2. CASE p = x
        <5>1. ref_times'[p] = ref_times[p] + 1
          BY <1>4, <3>1, <4>2
        <5> QED BY <4>1, <4>2, <5>1
      <4>3. CASE p # x
        <5>1. ref_times'[p] = ref_times[p]
          BY <3>1, <4>3
        <5> QED BY <4>1, <4>3, <5>1
      <4> QED BY <4>2, <4>3
    <3> QED BY <3>1, <3>2
  <2>6. ColdMiss' = Cardinality(U \cup {x})
    <3>1. /\ ColdMiss' = IF ref_times[x] = 0 THEN ColdMiss + 1 ELSE ColdMiss
          /\ ref_times[x] = 0 <=> x \notin U
      BY <1>2, <1>4, <2>4
    <3>2. CASE x \in U
      <4>1. U \cup {x} = U
        BY <3>2
      <4>2. ColdMiss' = Cardinality(U)
        BY <2>4, <3>1, <3>2
      <4> QED BY <4>1, <4>2
    <3>3. CASE x \notin U
      <4>1. Cardinality(U \cup {x}) = Cardinality(U) + 1
        BY <2>1, <2>2, <3>3, FS_AddElement
      <4>2. ColdMiss' = Cardinality(U) + 1
        BY <2>4, <3>1, <3>3
      <4> QED BY <4>1, <4>2
    <3> QED BY <3>2, <3>3
  <2> QED BY <1>6, <2>3, <2>5, <2>6 DEF ColdOK
<1>9. RivalsOK'
  <2>1. [cache |-> mCache', faults |-> mPageFaultNum'] \in rivals'
    BY <1>3, OwnMove DEF RivalsOK
  <2>2. ASSUME NEW s \in rivals'
        PROVE  Ahead(s)'
    <3>1. PICK r \in rivals : s \in Serve(r, Trace(cur_ref))
      OBVIOUS
    <3> QED BY <3>1, AheadStays
  <2> QED BY <2>1, <2>2 DEF RivalsOK
<1> QED BY <1>2, <1>3, <1>4, <1>5, <1>6, <1>7, <1>8, <1>9

(* Every step of reader and engine keeps the invariant.                    *)
LEMMA OPTStep == OPTInv /\ [RivalNext]_rivalVars => OPTInv'
<1> SUFFICES ASSUME OPTInv, [RivalNext]_rivalVars PROVE OPTInv'
  OBVIOUS
<1>1. TraceInv'
  <2>1. [TraceNext]_traceVars
    BY DEF RivalNext, Next, rivalVars, vars
  <2> QED BY <2>1, TraceStep DEF OPTInv
<1>2. mCacheMaxLimit' = mCacheMaxLimit /\ mCacheMaxLimit \in Nat \ {0}
  BY DEF RivalNext, Next, rivalVars, vars, OPTInv
<1>3. CASE RivalNext /\ TraceNext /\ UNCHANGED engineVars
  <2>1. engine = "none"
    BY <1>3 DEF TraceNext, ReadIteration, FillNextPos, OPTInv
  <2>2. UNCHANGED <<engine, cur_ref, isResident, mCache, mPageFaultNum, ColdMiss>>
    BY <1>3 DEF engineVars, table, counters
  <2>3. rivals' = rivals
    BY <1>3, <2>2 DEF RivalNext
  <2>4. NotStarted'
    BY <2>1, <2>2, <2>3 DEF OPTInv, NotStarted
  <2> QED BY <1>1, <1>2, <2>1, <2>2, <2>4 DEF OPTInv
<1>4. CASE RivalNext /\ Construct /\ UNCHANGED traceVars
  <2>1. cur_ref' = cur_ref /\ engine' = "dots" /\ ~reading /\ reading' = reading
    BY <1>4 DEF Construct, traceVars
  <2>2. UNCHANGED rivals
    BY <1>4, <2>1 DEF RivalNext
  <2>3. (cur_ref \in 0 .. mTraceLength /\ CacheOK /\ ColdOK /\ RivalsOK)'
    BY <1>2, <1>4, <2>2, ConstructFacts
  <2> QED BY <1>1, <1>2, <2>1, <2>3 DEF OPTInv
<1>5. CASE /\ RivalNext /\ UNCHANGED traceVars
           /\ PrintDot \/ StartLoop \/ Finish
  <2>1. /\ UNCHANGED <<cur_ref, table, counters>>
        /\ engine # "none" /\ engine' \in {"dots", "running", "done"}
    BY <1>5 DEF PrintDot, StartLoop, Finish
  <2>2. UNCHANGED rivals
    BY <1>5, <2>1 DEF RivalNext
  <2>3. (/\ ~reading /\ cur_ref \in 0 .. mTraceLength
         /\ CacheOK /\ ColdOK /\ RivalsOK)'
    BY <1>2, <1>5, <2>1, <2>2, Unmoved
  <2> QED BY <1>1, <1>2, <2>1, <2>3 DEF OPTInv
<1>6. CASE RivalNext /\ Reference /\ UNCHANGED traceVars
  <2>1. /\ cur_ref' = cur_ref + 1 /\ cur_ref \in 0 .. mTraceLength - 1
        /\ engine' = "running"
    BY <1>6, Referenced
  <2>2. cur_ref' # cur_ref
    BY <2>1
  <2>3. rivals' = UNION {Serve(r, Trace(cur_ref)) : r \in rivals}
    BY <1>6, <2>2 DEF RivalNext
  <2>4. (/\ ~reading /\ cur_ref \in 0 .. mTraceLength
         /\ CacheOK /\ ColdOK /\ RivalsOK)'
    BY <1>2, <1>6, <2>3, ReferenceFacts
  <2> QED BY <1>1, <1>2, <2>1, <2>4 DEF OPTInv
<1>7. CASE UNCHANGED rivalVars
  <2>1. /\ UNCHANGED <<traceVars, engine, rivals>>
        /\ UNCHANGED <<cur_ref, table, counters>>
        /\ UNCHANGED <<isResident, mCache, mPageFaultNum, ColdMiss>>
    BY <1>7 DEF rivalVars, vars, engineVars, table, counters
  <2>2. CASE engine = "none"
    BY <1>1, <1>2, <2>1, <2>2 DEF OPTInv, NotStarted
  <2>3. CASE engine # "none"
    <3>1. (/\ ~reading /\ cur_ref \in 0 .. mTraceLength
           /\ CacheOK /\ ColdOK /\ RivalsOK)'
      BY <1>2, <2>1, <2>3, Unmoved
    <3> QED BY <1>1, <1>2, <2>1, <2>3, <3>1 DEF OPTInv
  <2> QED BY <2>2, <2>3
<1> QED BY <1>3, <1>4, <1>5, <1>6, <1>7 DEF RivalNext, Next

(* No rival is ahead, so none has had fewer faults.                        *)
LEMMA OPTBest == OPTInv => FewestFaults
<1> SUFFICES ASSUME OPTInv PROVE FewestFaults
  OBVIOUS
<1>1. engine \notin {"exit", "wrong"}
  BY DEF OPTInv
<1>2. /\ mPageFaultNum \in {r.faults : r \in rivals}
      /\ \A r \in rivals : r.faults \in Int /\ mPageFaultNum <= r.faults
      /\ ColdMiss = Cardinality(Used(0, cur_ref))
  <2>1. CASE engine = "none"
    <3>1. /\ cur_ref = 0 /\ mPageFaultNum = 0 /\ ColdMiss = 0
          /\ rivals = {[cache |-> {}, faults |-> 0]}
      BY <2>1 DEF OPTInv, NotStarted
    <3>2. Used(0, cur_ref) = {}
      BY <3>1 DEF Used
    <3> QED BY <3>1, <3>2, FS_EmptySet
  <2>2. CASE engine # "none"
    <3>1. /\ TraceInv /\ ~reading /\ cur_ref \in 0 .. mTraceLength
          /\ CacheOK /\ ColdOK /\ RivalsOK
      BY <2>2 DEF OPTInv
    <3>2. mTraceLength \in Nat
      BY <3>1, TraceFacts
    <3>3. mPageFaultNum \in {r.faults : r \in rivals}
      <4>1. PICK o \in rivals : o = [cache |-> mCache, faults |-> mPageFaultNum]
        BY <3>1 DEF RivalsOK
      <4>2. o.faults = mPageFaultNum
        BY <4>1
      <4> QED BY <4>2
    <3>4. ASSUME NEW r \in rivals
          PROVE  r.faults \in Int /\ mPageFaultNum <= r.faults
      <4>1. r.faults \in Nat /\ mPageFaultNum \in Nat
        BY <3>1 DEF RivalsOK, Ahead, CacheOK
      <4>2. cur_ref \in cur_ref .. mTraceLength
        BY <3>1, <3>2
      <4>3. Cardinality(r.cache \cap Used(cur_ref, cur_ref)) + mPageFaultNum
              <= Cardinality(mCache \cap Used(cur_ref, cur_ref)) + r.faults
        BY <3>1, <4>2 DEF RivalsOK, Ahead
      <4>4. Used(cur_ref, cur_ref) = {}
        BY <3>1 DEF Used
      <4>5. /\ r.cache \cap Used(cur_ref, cur_ref) = {}
            /\ mCache \cap Used(cur_ref, cur_ref) = {}
        BY <4>4
      <4>6. Cardinality({}) + mPageFaultNum <= Cardinality({}) + r.faults
        BY <4>3, <4>5
      <4> QED BY <4>1, <4>6, FS_EmptySet
    <3> QED BY <3>1, <3>3, <3>4 DEF ColdOK
  <2> QED BY <2>1, <2>2
<1>3. mPageFaultNum = Min({r.faults : r \in rivals})
  <2>1. PICK F : F = {r.faults : r \in rivals}
    OBVIOUS
  <2>2. mPageFaultNum \in F /\ \A f \in F : f \in Int /\ mPageFaultNum <= f
    BY <1>2, <2>1
  <2>3. mPageFaultNum = Min(F)
    BY <2>2 DEF Min
  <2> QED BY <2>1, <2>3
<1> QED BY <1>1, <1>2, <1>3 DEF FewestFaults, Used

(* The engine has at any time the least number of faults with which a      *)
(* demand cache of its size can serve the references so far, and has       *)
(* counted the pages met: for every trace, cache size and choice of the    *)
(* evicted pages.                                                          *)
THEOREM OPTAlwaysFewestFaults == RivalSpec => []FewestFaults
<1>1. RivalSpec => []OPTInv
  BY OPTStarts, OPTStep, PTL DEF RivalSpec
<1> QED BY <1>1, OPTBest, PTL

(* The engine changes nothing of the trace: it stays faithful to the file  *)
(* while the engine runs on it.                                            *)
THEOREM OPTTraceStaysFaithful == RivalSpec => []TraceFaithful
<1>1. RivalSpec => []OPTInv
  BY OPTStarts, OPTStep, PTL DEF RivalSpec
<1>2. OPTInv => TraceFaithful
  BY TraceFollows DEF OPTInv
<1> QED BY <1>1, <1>2, PTL
=============================================================================
