----------------------------- MODULE ARCHistory -----------------------------
(***************************************************************************)
(* ARC beside the history of its references: `recent' holds every page     *)
(* seen so far once, the latest reference first.  The engine never reads   *)
(* it; it is what LRU would order the same pages by.                       *)
(***************************************************************************)
EXTENDS ARC

VARIABLE recent

InitH == Init /\ recent = <<>>

MoveToFront(seq, g) ==
  <<g>> \o (IF g \in Range(seq) THEN RemoveAt(seq, Pos(seq, g)) ELSE seq)

NextH == /\ Next
         /\ recent' = MoveToFront(recent, last_ref_pg')

SpecH == InitH /\ [][NextH]_<<vars, recent>>

(* Each half of the directory, ghosts after cached pages, is ordered by    *)
(* recency: a ghost of T1 was last referenced before every page in T1, a   *)
(* ghost of T2 before every page in T2 (moves of lines 578-609 and the     *)
(* evictions of lines 345-357, in whatever order they happened).           *)
HalvesInRecencyOrder ==
  \A half \in {list["T1"] \o list["B1"], list["T2"] \o list["B2"]} :
    \A i, j \in 1 .. Len(half) :
      i < j => Pos(recent, half[i]) < Pos(recent, half[j])

(* The directory remembers at least what LRU would cache: the c pages      *)
(* referenced last are all in it, cached or as ghosts, so that whatever    *)
(* LRU would hit is no unknown page to ARC (Case IV, lines 613-643).       *)
DirectoryCoversLRU ==
  \A i \in 1 .. Len(recent) :
    i <= mCacheMaxLimit => block_type[recent[i]] # "NO"
=============================================================================
