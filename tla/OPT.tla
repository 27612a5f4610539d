-------------------------------- MODULE OPT ---------------------------------
(***************************************************************************)
(* The offline optimal engine (src/src/replace_opt.cc) on a trace that     *)
(* TraceHandle has read: it replaces the page whose next reference is the  *)
(* furthest away, which it knows from mNextPos.  One step is one iteration *)
(* of the loop in OPT_Replace::Run; the reader, the constructor and the    *)
(* loop that prints the scale of the progress display come before.         *)
(*                                                                         *)
(* mCache is an ordered set of pointers to page table entries, compared by *)
(* fwd_distance: two pages with the same distance are the same element to  *)
(* it.  Traces are taken to be shorter than 2^31, so that no distance      *)
(* wraps.  With no frame at all line 57 reads the last element of an empty *)
(* set, which is undefined; that size is left out.                         *)
(***************************************************************************)
EXTENDS TraceHandle, FiniteSetsExt

CONSTANTS MemSizes,   (* the values mem_size is given                      *)
          DOTS        (* dots in the progress display; 20 in the code      *)

ASSUME OPTAssumption == /\ MemSizes \subseteq Nat \ {0}
                        /\ DOTS \in Nat \ {0}

VARIABLES mCacheMaxLimit,
          engine,     (* "none" until the constructor runs, then in the   *)
                      (* loops "dots" and "running"; "done", or "wrong" or *)
                      (* "exit" where the engine gives up                  *)
          dot,        (* the variable of the loop of line 36               *)
          cur_ref,
          fwd_distance, ref_times,  (* page -> fields of its entry         *)
          isResident,               (* the pages whose flag is set         *)
          mCache,
          mFreeMemSize, mPageFaultNum, ColdMiss

table     == <<fwd_distance, ref_times, isResident, mCache>>
counters  == <<mFreeMemSize, mPageFaultNum, ColdMiss>>
engineVars == <<engine, dot, cur_ref, table, counters>>
vars == <<traceVars, mCacheMaxLimit, engineVars>>

Init == /\ InitTrace
        /\ mCacheMaxLimit \in MemSizes
        /\ engine = "none"
        /\ dot = 0 /\ cur_ref = 0
        /\ fwd_distance = <<>> /\ ref_times = <<>>
        /\ isResident = {} /\ mCache = {}
        /\ mFreeMemSize = 0 /\ mPageFaultNum = 0 /\ ColdMiss = 0

-----------------------------------------------------------------------------
(* Lines 5-20.  The trace is complete before any engine is built.          *)
Construct ==
  /\ ~reading /\ engine = "none"
  /\ engine' = "dots"
  /\ fwd_distance' = [p \in 0 .. mVmSize |-> 0]
  /\ ref_times' = [p \in 0 .. mVmSize |-> 0]
  /\ mFreeMemSize' = mCacheMaxLimit
  /\ UNCHANGED <<dot, cur_ref, isResident, mCache, mPageFaultNum, ColdMiss>>

(* Mutant: one dot more.                                                   *)
DotsUpToLength == dot <= mTraceLength

DotsLeft == dot < mTraceLength

step == mTraceLength \div DOTS

(* One turn of the loop of line 36.                                        *)
PrintDot == /\ engine = "dots" /\ DotsLeft
            /\ dot' = dot + step
            /\ UNCHANGED <<engine, cur_ref, table, counters>>

StartLoop == /\ engine = "dots" /\ ~DotsLeft
             /\ engine' = "running"
             /\ UNCHANGED <<dot, cur_ref, table, counters>>

-----------------------------------------------------------------------------
(* The elements of the ordered set that are page p to it.                  *)
SameKey(p) == {q \in mCache : fwd_distance[q] = fwd_distance[p]}

(* Mutant: *mCache.begin().                                                *)
VictimFirst ==
  CHOOSE q \in mCache : \A r \in mCache : fwd_distance[q] <= fwd_distance[r]

(* *mCache.rbegin(): the page whose next reference is the furthest away.   *)
Victim ==
  CHOOSE q \in mCache : \A r \in mCache : fwd_distance[q] >= fwd_distance[r]

(* Lines 74-84: mNextPos holds distances; a page that is not referenced    *)
(* again comes after all pages that are.                                   *)
NextDistance ==
  cur_ref + (IF mNextPos[cur_ref] = 0 THEN mTraceLength ELSE mNextPos[cur_ref])

(* The end of the iteration, lines 74-89, with the resident pages, the     *)
(* free frames and the set as the branches before leave them.              *)
Insert(p, resident, free, cache) ==
  LET key == NextDistance
      taken == \E q \in cache : fwd_distance[q] = key
      inserted == IF taken THEN cache ELSE cache \cup {p}
  IN  /\ fwd_distance' = [fwd_distance EXCEPT ![p] = key]
      /\ isResident' = resident
      /\ mFreeMemSize' = free
      /\ mCache' = inserted
      /\ engine' = IF Cardinality(inserted) > mCacheMaxLimit THEN "exit"
                   ELSE "running"

Load(p) == /\ p \notin isResident /\ mFreeMemSize > 0
           /\ Insert(p, isResident \cup {p}, mFreeMemSize - 1, mCache)
           /\ mPageFaultNum' = mPageFaultNum + 1

Evict(p) == /\ p \notin isResident /\ mFreeMemSize = 0
            /\ Insert(p, (isResident \ {Victim}) \cup {p}, 0, mCache \ {Victim})
            /\ mPageFaultNum' = mPageFaultNum + 1

(* Line 67: the set erases what has the key of p.                          *)
Hit(p) == /\ p \in isResident
          /\ UNCHANGED mPageFaultNum
          /\ IF SameKey(p) # {}
             THEN Insert(p, isResident, mFreeMemSize, mCache \ SameKey(p))
             ELSE /\ engine' = "exit"
                  /\ UNCHANGED <<fwd_distance, isResident, mCache, mFreeMemSize>>

(* Line 50: a page outside the page table.                                 *)
Known(p) == p <= mVmSize

Reference ==
  LET ref_page == Trace(cur_ref)
  IN  /\ engine = "running" /\ cur_ref < mTraceLength
      /\ IF Known(ref_page)
         THEN /\ ColdMiss' = IF ref_times[ref_page] = 0 THEN ColdMiss + 1
                             ELSE ColdMiss
              /\ ref_times' = [ref_times EXCEPT ![ref_page] = @ + 1]
              /\ Load(ref_page) \/ Evict(ref_page) \/ Hit(ref_page)
              /\ cur_ref' = cur_ref + 1
              /\ UNCHANGED dot
         ELSE engine' = "wrong" /\ UNCHANGED <<dot, cur_ref, table, counters>>

Finish == /\ engine = "running" /\ cur_ref = mTraceLength
          /\ engine' = "done"
          /\ UNCHANGED <<dot, cur_ref, table, counters>>

Next == /\ UNCHANGED mCacheMaxLimit
        /\ \/ TraceNext /\ UNCHANGED engineVars
           \/ /\ Construct \/ PrintDot \/ StartLoop \/ Reference \/ Finish
              /\ UNCHANGED traceVars

(* One sequential thread, which the system keeps scheduling.               *)
Spec == Init /\ [][Next]_vars /\ WF_vars(Next)

-----------------------------------------------------------------------------
(* Correctness *)

(* Reading and simulating end, except on a trace with fewer references     *)
(* than the progress display has dots: its step is then 0 and the loop     *)
(* that prints the scale goes on for ever (line 36, and the same loop in   *)
(* every engine).                                                          *)
EndsUnlessShort ==
  <>[](engine = "done" <=> mTraceLength \notin 1 .. DOTS - 1)
=============================================================================
