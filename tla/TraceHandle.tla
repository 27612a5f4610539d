---------------------------- MODULE TraceHandle -----------------------------
(***************************************************************************)
(* The trace reader (src/src/trace_handle.cc).  TraceHandle::Init reads a  *)
(* file of block numbers, renumbers the blocks in the order in which they  *)
(* appear, and computes for every reference the distance to the next one   *)
(* to the same block.  One step is one iteration of its reading loop; a    *)
(* last one fills mNextPos.                                                *)
(*                                                                         *)
(* What the loop sees of a file is its numbers and what follows the last:  *)
(*   "digit"    text that ends with the last digit: reading that number    *)
(*              already meets the end of the file;                         *)
(*   "late"     text with white space after the last number, or a binary   *)
(*              file: only a further, failing read meets the end;          *)
(*   "garbage"  text that is no number: every further read fails there and *)
(*              the end is never met.  Without a cut line the loop then    *)
(*              runs until memory is exhausted; those inputs are left out. *)
(* Positions count from 0, as in the code; mTrace[i] is Trace(i).          *)
(***************************************************************************)
EXTENDS Integers, Sequences, FiniteSets, SequencesExt

CONSTANTS Block,      (* block numbers a file may hold                     *)
          MaxRefs,    (* bound on the numbers in a file                    *)
          Cutlines    (* values of --cutline; -1 is "none"                 *)

ASSUME TraceAssumption == /\ Block \subseteq Nat
                          /\ MaxRefs \in Nat
                          /\ Cutlines \subseteq Nat \cup {-1}

VARIABLES file,       (* the numbers in the file                           *)
          ending, cutline,
          reading,    (* the reader is in its loop                         *)
          unread,     (* the numbers not read yet                          *)
          eof,        (* feof(mTraceFp)                                    *)
          cut, ref_blk,
          dic,        (* block -> page number                              *)
          mRealTrace, (* page number + 1 -> block                          *)
          mTrace,     (* the page numbers delivered                        *)
          prevPos,    (* block -> position of its latest reference         *)
          nextPos,    (* position -> distance to the next one              *)
          mVmSize, mNextPos

input  == <<file, ending, cutline>>
result == <<mVmSize, mNextPos>>
maps   == <<dic, mRealTrace, mTrace, prevPos, nextPos>>
traceVars == <<input, reading, unread, eof, cut, ref_blk, maps, result>>

mTraceLength == Len(mTrace)
Trace(i) == mTrace[i + 1]

InitTrace ==
  /\ file \in UNION {[1 .. n -> Block] : n \in 0 .. MaxRefs}
  /\ cutline \in Cutlines
  /\ ending \in {"digit", "late", "garbage"}
  /\ ending = "garbage" => cutline # -1
  /\ reading = TRUE
  /\ unread = file /\ eof = FALSE
  /\ cut = 0 /\ ref_blk = 0
  /\ dic = <<>> /\ mRealTrace = <<>> /\ mTrace = <<>>
  /\ prevPos = <<>> /\ nextPos = <<>>
  /\ mVmSize = 0 /\ mNextPos = <<>>

-----------------------------------------------------------------------------
(* f with x mapped to v, whether x was in its domain or not.               *)
With(f, x, v) == [y \in DOMAIN f \cup {x} |-> IF y = x THEN v ELSE f[y]]

(* Lines 44-48: the loop goes on while there is more to read and the cut   *)
(* line is not reached.                                                    *)
More == ~eof /\ (cutline # -1 => cut < cutline)

(* A read that fails leaves ref_blk as it was.                             *)
ReadOne ==
  IF unread # <<>>
  THEN /\ ref_blk' = Head(unread)
       /\ unread' = Tail(unread)
       /\ eof' = (Len(unread) = 1 /\ ending = "digit")
  ELSE /\ eof' = (ending # "garbage")
       /\ UNCHANGED <<ref_blk, unread>>

(* Lines 50-56: a block met for the first time gets the next page number.  *)
Renumber(blk) ==
  LET met == blk \in DOMAIN dic
      page_num == Len(mRealTrace)
  IN  /\ dic' = IF met THEN dic ELSE With(dic, blk, page_num)
      /\ mRealTrace' = IF met THEN mRealTrace ELSE Append(mRealTrace, blk)
      /\ mTrace' = Append(mTrace, dic'[blk])
      /\ mVmSize' = IF dic'[blk] > mVmSize THEN dic'[blk] ELSE mVmSize

(* Mutant: the latest position of a block is the first one.                *)
LinkPreviousFromFirst(blk) ==
  IF blk \in DOMAIN prevPos
  THEN /\ nextPos' = With(nextPos, prevPos[blk], mTraceLength - prevPos[blk])
       /\ UNCHANGED prevPos
  ELSE prevPos' = With(prevPos, blk, mTraceLength) /\ UNCHANGED nextPos

(* Lines 58-64: the previous reference to the block learns how far away    *)
(* the next one is.                                                        *)
LinkPrevious(blk) ==
  /\ prevPos' = With(prevPos, blk, mTraceLength)
  /\ nextPos' = IF blk \in DOMAIN prevPos
                THEN With(nextPos, prevPos[blk], mTraceLength - prevPos[blk])
                ELSE nextPos

ReadIteration ==
  /\ reading /\ More
  /\ cut' = IF cutline = -1 THEN cut ELSE cut + 1
  /\ ReadOne
  /\ Renumber(ref_blk')
  /\ LinkPrevious(ref_blk')
  /\ UNCHANGED <<input, reading, mNextPos>>

(* Lines 71-77: positions with no next reference keep 0.                   *)
FillNextPos ==
  /\ reading /\ ~More
  /\ reading' = FALSE
  /\ mNextPos' = [i \in 0 .. mTraceLength - 1 |->
                    IF i \in DOMAIN nextPos THEN nextPos[i] ELSE 0]
  /\ UNCHANGED <<input, unread, eof, cut, ref_blk, maps, mVmSize>>

TraceNext == ReadIteration \/ FillNextPos

TraceSpec == InitTrace /\ [][TraceNext]_traceVars /\ WF_traceVars(TraceNext)

-----------------------------------------------------------------------------
(* Correctness *)

(* What the loop delivers of a file, told from the file alone: its numbers *)
(* in order, the last one (or 0) once more when its end is met late or     *)
(* there is no number at all, and no more than the cut line.               *)
Delivered ==
  LET whole == ending = "digit" /\ file # <<>>
      natural == IF whole THEN Len(file) ELSE Len(file) + 1
      length == IF cutline # -1 /\ (ending = "garbage" \/ cutline < natural)
                THEN cutline ELSE natural
      final == IF file = <<>> THEN 0 ELSE Last(file)
  IN  [i \in 1 .. length |-> IF i <= Len(file) THEN file[i] ELSE final]

Later(i) == {j \in i + 1 .. mTraceLength - 1 : Trace(j) = Trace(i)}

(* The trace the engines run on is faithful to the file: renumbered by a   *)
(* one-to-one table, pages numbered in the order in which they first       *)
(* appear, mVmSize the largest of them, and mNextPos exact at every        *)
(* position: the distance to the next reference to the same page, 0 when   *)
(* there is none (lines 44-77; OPT reads mNextPos, all engines size their  *)
(* page tables by mVmSize).                                                *)
TraceFaithful ==
  ~reading =>
    /\ [i \in 1 .. mTraceLength |-> mRealTrace[mTrace[i] + 1]] = Delivered
    /\ IsInjective(mRealTrace)
    /\ Range(mTrace) \cup {0} = 0 .. mVmSize
    /\ \A i \in 0 .. mTraceLength - 1 :
         /\ \A page \in 0 .. Trace(i) : \E j \in 0 .. i : Trace(j) = page
         /\ IF Later(i) = {} THEN mNextPos[i] = 0
            ELSE /\ mNextPos[i] > 0
                 /\ i + mNextPos[i] \in Later(i)
                 /\ \A j \in Later(i) : i + mNextPos[i] <= j

(* A trace has one reference for every value in its file, as README.md     *)
(* describes a binary trace ("an array of unsigned int values").  It does  *)
(* not: line 44 asks for the end of the file before reading, and a read    *)
(* that fails delivers the last page once more.  (An empty file delivers   *)
(* page 0; it is left out here.)                                           *)
NoExtraReference == file # <<>> => mTraceLength <= Len(file)
=============================================================================
