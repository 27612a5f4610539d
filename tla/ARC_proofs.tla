----------------------------- MODULE ARC_proofs -----------------------------
(***************************************************************************)
(* What holds of the ARC engine for every cache size, every set of pages   *)
(* and every trace.  Nothing is assumed but ConstantsAssumption.           *)
(*                                                                         *)
(* A handler of ARC.tla is a chain of list functions applied to a machine, *)
(* so the proofs go the same way: HasLeft, HasEntered, HasDemoted, Trims   *)
(* and MakesRoom say what one list function makes of a machine, StepHit,   *)
(* StepGhost and StepNew what a whole handler does.  IInv, the conjunction *)
(* of the checked invariants, is inductive as it stands.  The refinement   *)
(* and the two properties of the history read the same step descriptions.  *)
(***************************************************************************)
EXTENDS ARCHistory, ListLemmas

-----------------------------------------------------------------------------
(* The machine a handler is halfway through.                               *)

Machines == [list : [List -> Seq(Page)], size : [List -> Nat],
             type : [Page -> List \cup {"NO"}], resident : [Page -> BOOLEAN],
             failed : BOOLEAN]

(* List L of machine m is what ListsAgree says of it.                      *)
ListAgrees(m, L) ==
  /\ IsInjective(m.list[L])
  /\ m.size[L] = Len(m.list[L])
  /\ Range(m.list[L]) = {g \in Page : m.type[g] = L}

(* ListsAgree, of a machine.                                               *)
Agree(m) == /\ m \in Machines
            /\ \A L \in List : ListAgrees(m, L)
            /\ \A g \in Page : m.resident[g] <=> m.type[g] \in Cached

(* Machine r is machine m after page g has left list L.                    *)
HasLeft(m, r, L, g) ==
  /\ Agree(r) /\ r.failed = m.failed
  /\ \A K \in List :
       /\ r.size[K] = IF K = L THEN m.size[K] - 1 ELSE m.size[K]
       /\ r.list[K] = IF K = L THEN RemoveAt(m.list[K], Pos(m.list[K], g))
                               ELSE m.list[K]
  /\ \A q \in Page : r.type[q] = IF q = g THEN "NO" ELSE m.type[q]

(* Machine r is machine m after page g has entered list L at its head.     *)
HasEntered(m, r, L, g) ==
  /\ Agree(r) /\ r.failed = m.failed
  /\ \A K \in List :
       /\ r.size[K] = IF K = L THEN m.size[K] + 1 ELSE m.size[K]
       /\ r.list[K] = IF K = L THEN <<g>> \o m.list[K] ELSE m.list[K]
  /\ \A q \in Page : r.type[q] = IF q = g THEN L ELSE m.type[q]

(* Machine r is machine m after the last page of list L has become the     *)
(* first of list G.                                                        *)
HasDemoted(m, r, L, G) ==
  /\ Agree(r) /\ r.failed = m.failed
  /\ \A K \in List :
       /\ r.size[K] = IF K = L THEN m.size[K] - 1
                      ELSE IF K = G THEN m.size[K] + 1 ELSE m.size[K]
       /\ r.list[K] =
            IF K = L THEN RemoveAt(m.list[K], Pos(m.list[K], Last(m.list[K])))
            ELSE IF K = G THEN <<Last(m.list[L])>> \o m.list[K]
            ELSE m.list[K]
  /\ \A q \in Page :
       r.type[q] = IF q = Last(m.list[L]) THEN G ELSE m.type[q]

(* Machine t is machine m after list L has lost its last page, which was   *)
(* the oldest of at least mCacheMaxLimit pages in its half.                *)
HalfSize(n, L) == IF L \in {"T1", "B1"} THEN n["T1"] + n["B1"]
                                        ELSE n["T2"] + n["B2"]

Trims(m, t, L) ==
  /\ m.size[L] > 0 /\ HalfSize(m.size, L) >= mCacheMaxLimit
  /\ L = "T1" => m.size["B1"] = 0
  /\ m.type[Last(m.list[L])] = L
  /\ HasLeft(m, t, L, Last(m.list[L]))

(* Machine r is machine m after replace has freed a frame.                 *)
Half == {<<"T1", "B1">>, <<"T2", "B2">>}

MakesRoom(m, r) == \E h \in Half : /\ m.size[h[1]] > 0
                                  /\ m.type[Last(m.list[h[1]])] = h[1]
                                  /\ HasDemoted(m, r, h[1], h[2])

(* A check that holds changes nothing.                                     *)
LEMMA CheckPasses ==
  ASSUME NEW m \in Machines, NEW condition, condition
  PROVE  Check(m, condition) = m
BY DEF Check, Machines

(* Pos finds a member of a list.                                           *)
LEMMA PosFacts ==
  ASSUME NEW A, NEW s \in Seq(A), NEW a \in Range(s)
  PROVE  Pos(s, a) \in 1 .. Len(s) /\ s[Pos(s, a)] = a
<1>1. \E i \in 1 .. Len(s) : s[i] = a
  BY DEF Range
<1> QED BY <1>1 DEF Pos

(* Removing a page from a list.                                            *)
LEMMA RemoveFacts ==
  ASSUME NEW A, NEW s \in Seq(A), NEW a \in Range(s), IsInjective(s)
  PROVE  /\ RemoveAt(s, Pos(s, a)) \in Seq(A)
         /\ IsInjective(RemoveAt(s, Pos(s, a)))
         /\ Range(RemoveAt(s, Pos(s, a))) = Range(s) \ {a}
         /\ Len(RemoveAt(s, Pos(s, a))) = Len(s) - 1
         /\ Len(s) \in Nat /\ Len(s) >= 1
<1> DEFINE i == Pos(s, a)
<1>1. i \in 1 .. Len(s) /\ s[i] = a
  BY PosFacts
<1> HIDE DEF i
<1>2. /\ RemoveAt(s, i) \in Seq(A)
      /\ IsInjective(RemoveAt(s, i))
      /\ Range(RemoveAt(s, i)) = Range(s) \ {s[i]}
      /\ Len(RemoveAt(s, i)) = Len(s) - 1
  BY <1>1, RemoveAtFacts
<1>3. Len(s) \in Nat /\ Len(s) >= 1
  BY <1>1
<1> QED BY <1>1, <1>2, <1>3 DEF i

(* A machine whose list L alone changed, where page g enters or leaves.    *)
LEMMA ListChange ==
  ASSUME NEW m, Agree(m), NEW r \in Machines,
         NEW g \in Page, NEW L \in List, NEW t \in Seq(Page), IsInjective(t),
         \A K \in List : /\ r.size[K] = IF K = L THEN Len(t) ELSE m.size[K]
                         /\ r.list[K] = IF K = L THEN t ELSE m.list[K],
         \A q \in Page : q # g => /\ r.type[q] = m.type[q]
                                  /\ r.resident[q] = m.resident[q],
         r.resident[g] <=> r.type[g] \in Cached,
         Range(t) = {q \in Page : r.type[q] = L},
         m.type[g] \in {L, "NO"}, r.type[g] \in {L, "NO"}
  PROVE  Agree(r)
<1>1. ListAgrees(r, L)
  BY DEF ListAgrees
<1>2. ASSUME NEW K \in List, K # L
      PROVE  ListAgrees(r, K)
  <2>1. \A q \in Page : r.type[q] = K <=> m.type[q] = K
    BY <1>2 DEF List, Cached, Ghost
  <2>2. r.size[K] = m.size[K] /\ r.list[K] = m.list[K]
    BY <1>2
  <2>3. ListAgrees(m, K)
    BY DEF Agree
  <2> QED BY <2>1, <2>2, <2>3 DEF ListAgrees
<1>3. \A q \in Page : r.resident[q] <=> r.type[q] \in Cached
  BY DEF Agree
<1> QED BY <1>1, <1>2, <1>3 DEF Agree

(* A page leaves its list.                                                 *)
LEMMA UnlinkFacts ==
  ASSUME NEW m, Agree(m), NEW g \in Page, NEW L \in List, m.type[g] = L
  PROVE  HasLeft(m, Unlink(m, L, g), L, g)
<1> DEFINE r == Unlink(m, L, g)
           s == m.list[L]
           t == RemoveAt(s, Pos(s, g))
<1>1. /\ m \in Machines /\ s \in Seq(Page) /\ IsInjective(s)
      /\ Range(s) = {q \in Page : m.type[q] = L}
      /\ m.size[L] = Len(s)
  BY DEF Agree, ListAgrees, Machines
<1>2. g \in Range(s)
  BY <1>1
<1>3. /\ t \in Seq(Page) /\ IsInjective(t)
      /\ Range(t) = Range(s) \ {g}
      /\ Len(t) = Len(s) - 1
      /\ Len(s) \in Nat /\ Len(s) >= 1
  <2> HIDE DEF s
  <2> QED BY <1>1, <1>2, RemoveFacts
<1>5. r = [m EXCEPT !.list = [m.list EXCEPT ![L] = t],
                    !.size = [m.size EXCEPT ![L] = m.size[L] - 1],
                    !.type = [m.type EXCEPT ![g] = "NO"],
                    !.resident = [m.resident EXCEPT
                                    ![g] = m.resident[g] /\ L \in Ghost]]
  BY <1>1 DEF Unlink, Machines
<1> HIDE DEF r, t, s
<1>4. Len(t) \in Nat /\ Len(t) = m.size[L] - 1
  BY <1>1, <1>3
<1>8. r \in Machines
  <2>1. [m.list EXCEPT ![L] = t] \in [List -> Seq(Page)]
    BY <1>1, <1>3 DEF Machines
  <2>2. [m.size EXCEPT ![L] = m.size[L] - 1] \in [List -> Nat]
    BY <1>1, <1>4 DEF Machines
  <2>3. [m.type EXCEPT ![g] = "NO"] \in [Page -> List \cup {"NO"}]
    BY <1>1 DEF Machines
  <2>4. [m.resident EXCEPT ![g] = m.resident[g] /\ L \in Ghost]
          \in [Page -> BOOLEAN]
    BY <1>1 DEF Machines
  <2> QED BY <1>1, <1>5, <2>1, <2>2, <2>3, <2>4 DEF Machines
<1>6. \A K \in List : /\ r.size[K] = IF K = L THEN m.size[K] - 1 ELSE m.size[K]
                      /\ r.list[K] = IF K = L THEN t ELSE m.list[K]
  BY <1>1, <1>5 DEF Machines
<1>7. \A q \in Page :
        /\ r.type[q] = IF q = g THEN "NO" ELSE m.type[q]
        /\ r.resident[q] = IF q = g THEN m.resident[q] /\ L \in Ghost
                                    ELSE m.resident[q]
  BY <1>1, <1>5 DEF Machines
<1>9. Agree(r)
  <2>1. r.resident[g] <=> r.type[g] \in Cached
    BY <1>7 DEF Agree, List, Cached, Ghost
  <2>2. Range(t) = {q \in Page : r.type[q] = L}
    BY <1>1, <1>3, <1>7 DEF List, Cached, Ghost
  <2>3. \A K \in List : r.size[K] = IF K = L THEN Len(t) ELSE m.size[K]
    BY <1>4, <1>6
  <2> QED BY <1>3, <1>6, <1>7, <1>8, <2>1, <2>2, <2>3, ListChange
<1>10. r.failed = m.failed
  BY <1>1, <1>5 DEF Machines
<1> QED BY <1>6, <1>7, <1>9, <1>10 DEF r, t, s, HasLeft

(* A page that is in no list enters list L at its head, and no check fails. *)
LEMMA add_MRUFacts ==
  ASSUME NEW m, Agree(m), NEW g \in Page, NEW L \in List, m.type[g] = "NO"
  PROVE  HasEntered(m, add_MRU(m, L, g), L, g)
<1> DEFINE r == add_MRU(m, L, g)
           s == m.list[L]
           t == <<g>> \o s
<1>1. /\ m \in Machines /\ s \in Seq(Page) /\ IsInjective(s)
      /\ Range(s) = {q \in Page : m.type[q] = L}
      /\ m.size[L] = Len(s)
  BY DEF Agree, ListAgrees, Machines
<1>2. g \notin Range(s)
  BY <1>1 DEF List, Cached, Ghost
<1>3. /\ t \in Seq(Page) /\ IsInjective(t)
      /\ Range(t) = Range(s) \cup {g}
      /\ Len(t) = Len(s) + 1
      /\ Len(s) \in Nat
  <2> HIDE DEF s
  <2> QED BY <1>1, <1>2, ConsFacts
<1>4. Check(m, m.list[L] = <<>> => m.size[L] = 0) = m
  BY <1>1, CheckPasses
<1>5. r = [m EXCEPT !.list = [m.list EXCEPT ![L] = t],
                    !.size = [m.size EXCEPT ![L] = m.size[L] + 1],
                    !.type = [m.type EXCEPT ![g] = L],
                    !.resident = [m.resident EXCEPT
                                    ![g] = m.resident[g] \/ L \in Cached]]
  BY <1>1, <1>4 DEF add_MRU, Machines
<1> HIDE DEF r, t, s
<1>6. r \in Machines
  <2>1. [m.list EXCEPT ![L] = t] \in [List -> Seq(Page)]
    BY <1>1, <1>3 DEF Machines
  <2>2. [m.size EXCEPT ![L] = m.size[L] + 1] \in [List -> Nat]
    BY <1>1, <1>3 DEF Machines
  <2>3. [m.type EXCEPT ![g] = L] \in [Page -> List \cup {"NO"}]
    BY <1>1 DEF Machines
  <2>4. [m.resident EXCEPT ![g] = m.resident[g] \/ L \in Cached]
          \in [Page -> BOOLEAN]
    BY <1>1 DEF Machines
  <2> QED BY <1>1, <1>5, <2>1, <2>2, <2>3, <2>4 DEF Machines
<1>7. \A K \in List :
        /\ r.size[K] = IF K = L THEN m.size[K] + 1 ELSE m.size[K]
        /\ r.list[K] = IF K = L THEN t ELSE m.list[K]
  BY <1>1, <1>5 DEF Machines
<1>8. \A q \in Page :
        /\ r.type[q] = IF q = g THEN L ELSE m.type[q]
        /\ r.resident[q] = IF q = g THEN m.resident[q] \/ L \in Cached
                                    ELSE m.resident[q]
  BY <1>1, <1>5 DEF Machines
<1>9. Agree(r)
  <2>1. r.resident[g] <=> r.type[g] \in Cached
    BY <1>8 DEF Agree, List, Cached, Ghost
  <2>2. Range(t) = {q \in Page : r.type[q] = L}
    BY <1>1, <1>3, <1>8 DEF List, Cached, Ghost
  <2>3. \A K \in List : r.size[K] = IF K = L THEN Len(t) ELSE m.size[K]
    BY <1>1, <1>3, <1>7
  <2> QED BY <1>3, <1>6, <1>7, <1>8, <2>1, <2>2, <2>3, ListChange
<1>10. r.failed = m.failed
  BY <1>1, <1>5 DEF Machines
<1> QED BY <1>7, <1>8, <1>9, <1>10 DEF r, t, s, HasEntered

(* A list is empty when its size is 0, and its last page is of its type.   *)
LEMMA LastFacts ==
  ASSUME NEW m, Agree(m), NEW L \in List
  PROVE  /\ m.list[L] = <<>> <=> m.size[L] = 0
         /\ m.size[L] \in Nat
         /\ m.size[L] > 0 => /\ Last(m.list[L]) \in Page
                             /\ m.type[Last(m.list[L])] = L
<1> DEFINE s == m.list[L]
<1>1. /\ s \in Seq(Page) /\ m.size[L] = Len(s)
      /\ Range(s) = {q \in Page : m.type[q] = L}
  BY DEF Agree, ListAgrees, Machines
<1> HIDE DEF s
<1>2. s = <<>> <=> Len(s) = 0
  BY <1>1
<1>3. ASSUME Len(s) > 0 PROVE s[Len(s)] \in Range(s)
  BY <1>1, <1>3 DEF Range
<1>4. m.size[L] > 0 => s[Len(s)] \in Page /\ m.type[s[Len(s)]] = L
  BY <1>1, <1>3
<1> QED BY <1>1, <1>2, <1>4 DEF s, Last

(* The LRU page leaves list L, and no check fails.                         *)
LEMMA del_LRUFacts ==
  ASSUME NEW m, Agree(m), NEW L \in List
  PROVE  /\ m.size[L] = 0 => del_LRU(m, L) = m
         /\ m.size[L] > 0 =>
              del_LRU(m, L) = Unlink(m, L, Last(m.list[L]))
<1>1. Check(m, Len(m.list[L]) = 1 => m.size[L] = 1) = m
  BY CheckPasses DEF Agree, ListAgrees
<1> QED BY <1>1, LastFacts DEF del_LRU

(* A page leaves list L from wherever it is in it, and no check fails.     *)
LEMMA move_fromFacts ==
  ASSUME NEW m, Agree(m), NEW g \in Page, NEW L \in List, m.type[g] = L
  PROVE  move_from(m, L, g) = Unlink(m, L, g)
<1>1. /\ m.type[g] = L /\ g \in Range(m.list[L])
      /\ L \in Ghost => ~m.resident[g]
  BY DEF Agree, ListAgrees, List, Cached, Ghost
<1>2. Check(m, /\ m.type[g] = L /\ g \in Range(m.list[L])
               /\ L \in Ghost => ~m.resident[g]) = m
  BY <1>1, CheckPasses DEF Agree
<1> QED BY <1>2 DEF move_from

(* The LRU page of list L becomes the MRU page of list G.                  *)
LEMMA DemoteFacts ==
  ASSUME NEW m, Agree(m), NEW L \in List, NEW G \in List, L # G,
         m.size[L] > 0
  PROVE  HasDemoted(m, Demote(m, L, G), L, G)
<1> DEFINE g == Last(m.list[L])
           d == Unlink(m, L, g)
           a == add_MRU(d, G, g)
<1>1. g \in Page /\ m.type[g] = L /\ m.list[L] # <<>> /\ del_LRU(m, L) = d
  BY LastFacts, del_LRUFacts
<1>2. Demote(m, L, G) = a
  BY <1>1 DEF Demote
<1> HIDE DEF g
<1>3. HasLeft(m, d, L, g)
  BY <1>1, UnlinkFacts
<1> HIDE DEF d
<1>4. Agree(d) /\ d.type[g] = "NO"
  BY <1>1, <1>3 DEF HasLeft
<1>5. HasEntered(d, a, G, g)
  BY <1>1, <1>4, add_MRUFacts
<1> HIDE DEF a
<1>6. HasDemoted(m, a, L, G)
  BY <1>3, <1>5 DEF HasLeft, HasEntered, HasDemoted, g
<1> QED BY <1>2, <1>6

-----------------------------------------------------------------------------
(* The inductive invariant.                                                *)

IInv == TypeOK /\ ListsAgree /\ DirectoryBounded /\ NeverExits

(* DirectoryBounded, of the sizes n.                                       *)
Shape(n) ==
  /\ n["T1"] + n["T2"] <= mCacheMaxLimit
  /\ n["T1"] + n["B1"] <= mCacheMaxLimit
  /\ n["T1"] + n["T2"] + n["B1"] + n["B2"] <= 2 * mCacheMaxLimit
  /\ n["B1"] + n["B2"] > 0 => n["T1"] + n["T2"] = mCacheMaxLimit

(* Where a handler starts.                                                 *)
LEMMA MachineFacts ==
  ASSUME IInv
  PROVE  /\ Agree(Machine) /\ Shape(Machine.size)
         /\ ~Machine.failed /\ Machine.list = list /\ Machine.size = size
         /\ Machine.type = block_type /\ Machine.resident = isResident
<1>1. Machine \in Machines
  BY ConstantsAssumption DEF Machine, Machines, IInv, TypeOK
<1>2. Agree(Machine)
  BY <1>1 DEF Agree, ListAgrees, Machine, IInv, ListsAgree
<1> QED BY <1>2 DEF Machine, IInv, DirectoryBounded, Shape

(* A handler that ends in machine m keeps the invariant when the lists of  *)
(* m agree, its directory has its shape and no check has failed.           *)
LEMMA InstallInv ==
  ASSUME NEW m, Agree(m), Shape(m.size), ~m.failed, Install(m),
         p' \in 0 .. mCacheMaxLimit, mPageFaultNum' \in 0 .. UINT_MOD - 1,
         last_ref_pg' \in Page
  PROVE  IInv'
<1>1. /\ list' = m.list /\ size' = m.size /\ block_type' = m.type
      /\ isResident' = m.resident /\ status' = "running" /\ m \in Machines
  BY DEF Install, Agree
<1>2. size' \in [List -> 0 .. 2 * mCacheMaxLimit]
  <2>1. /\ m.size \in [List -> Nat]
        /\ m.size["T1"] \in Nat /\ m.size["T2"] \in Nat
        /\ m.size["B1"] \in Nat /\ m.size["B2"] \in Nat
    BY <1>1 DEF Machines, List, Cached, Ghost
  <2>2. \A K \in List : m.size[K] \in 0 .. 2 * mCacheMaxLimit
    BY <2>1, ConstantsAssumption DEF Shape, List, Cached, Ghost
  <2> QED BY <1>1, <2>1, <2>2
<1>3. TypeOK'
  BY <1>1, <1>2 DEF TypeOK, Machines
<1>4. ListsAgree'
  BY <1>1 DEF ListsAgree, Agree, ListAgrees
<1>5. DirectoryBounded' /\ NeverExits'
  BY <1>1 DEF DirectoryBounded, Shape, NeverExits
<1> QED BY <1>3, <1>4, <1>5 DEF IInv

(* With a page to demote replace frees a frame.                            *)
LEMMA replaceFacts ==
  ASSUME NEW m, Agree(m), NEW g \in Page, NEW target \in Nat,
         m.size["T1"] > target \/ m.size["T2"] > 0
  PROVE  MakesRoom(m, replace(m, g, target))
<1>1. m.size["T1"] \in Nat /\ m.size["T2"] \in Nat
  BY DEF Agree, Machines, List, Cached, Ghost
<1>2. ASSUME NEW h \in Half, m.size[h[1]] > 0
      PROVE  MakesRoom(m, Demote(m, h[1], h[2]))
  <2>1. h[1] \in List /\ h[2] \in List /\ h[1] # h[2]
    BY DEF Half, List, Cached, Ghost
  <2>2. HasDemoted(m, Demote(m, h[1], h[2]), h[1], h[2])
    BY <1>2, <2>1, DemoteFacts
  <2>3. m.type[Last(m.list[h[1]])] = h[1]
    BY <1>2, <2>1, LastFacts
  <2> QED BY <1>2, <2>2, <2>3 DEF MakesRoom
<1>3. m.size["T1"] > 0 => MakesRoom(m, Demote(m, "T1", "B1"))
  <2> DEFINE h == <<"T1", "B1">>
  <2>1. h \in Half /\ h[1] = "T1" /\ h[2] = "B1"
    BY DEF Half
  <2> HIDE DEF h
  <2> QED BY <1>2, <2>1
<1>4. m.size["T2"] > 0 => MakesRoom(m, Demote(m, "T2", "B2"))
  <2> DEFINE h == <<"T2", "B2">>
  <2>1. h \in Half /\ h[1] = "T2" /\ h[2] = "B2"
    BY DEF Half
  <2> HIDE DEF h
  <2> QED BY <1>2, <2>1
<1>5. CASE /\ m.size["T1"] > 0
           /\ \/ m.size["T1"] > target
              \/ m.type[g] = "B2" /\ m.size["T1"] = target
  BY <1>3, <1>5 DEF replace
<1>6. CASE ~(/\ m.size["T1"] > 0
             /\ \/ m.size["T1"] > target
                \/ m.type[g] = "B2" /\ m.size["T1"] = target)
  <2>1. m.size["T2"] > 0
    BY <1>1, <1>6
  <2>2. replace(m, g, target) = Demote(m, "T2", "B2")
    BY <1>6 DEF replace
  <2> QED BY <1>4, <2>1, <2>2
<1> QED BY <1>5, <1>6

(* What freeing a frame does to the sizes, and to page g that was in no    *)
(* cached list.                                                            *)
LEMMA RoomMade ==
  ASSUME NEW m, Agree(m), NEW r, MakesRoom(m, r),
         NEW g \in Page, m.type[g] \notin Cached
  PROVE  /\ Agree(r) /\ r.failed = m.failed /\ r.type[g] = m.type[g]
         /\ \/ /\ r.size["T1"] = m.size["T1"] - 1
               /\ r.size["T2"] = m.size["T2"]
               /\ r.size["B1"] = m.size["B1"] + 1
               /\ r.size["B2"] = m.size["B2"]
            \/ /\ r.size["T1"] = m.size["T1"]
               /\ r.size["T2"] = m.size["T2"] - 1
               /\ r.size["B1"] = m.size["B1"]
               /\ r.size["B2"] = m.size["B2"] + 1
<1>1. PICK h \in Half : /\ m.size[h[1]] > 0
                        /\ m.type[Last(m.list[h[1]])] = h[1]
                        /\ HasDemoted(m, r, h[1], h[2])
  BY DEF MakesRoom
<1>2. {"T1", "T2", "B1", "B2"} \subseteq List
  BY DEF List, Cached, Ghost
<1>3. Agree(r) /\ r.failed = m.failed
  BY <1>1 DEF HasDemoted
<1>4. \/ h[1] = "T1" /\ h[2] = "B1"
      \/ h[1] = "T2" /\ h[2] = "B2"
  BY DEF Half
<1>5. r.type[g] = m.type[g]
  BY <1>1, <1>4 DEF HasDemoted, Cached
<1>6. CASE h[1] = "T1" /\ h[2] = "B1"
  <2>1. /\ r.size["T1"] = m.size["T1"] - 1 /\ r.size["T2"] = m.size["T2"]
        /\ r.size["B1"] = m.size["B1"] + 1 /\ r.size["B2"] = m.size["B2"]
    BY <1>1, <1>2, <1>6 DEF HasDemoted
  <2> QED BY <1>3, <1>5, <2>1
<1>7. CASE h[1] = "T2" /\ h[2] = "B2"
  <2>1. /\ r.size["T1"] = m.size["T1"] /\ r.size["T2"] = m.size["T2"] - 1
        /\ r.size["B1"] = m.size["B1"] /\ r.size["B2"] = m.size["B2"] + 1
    BY <1>1, <1>2, <1>7 DEF HasDemoted
  <2> QED BY <1>3, <1>5, <2>1
<1> QED BY <1>4, <1>6, <1>7

(* The fault counter keeps its width.                                      *)
LEMMA FaultCounter ==
  ASSUME IInv, NEW g \in Page, Fault(g)
  PROVE  mPageFaultNum' \in 0 .. UINT_MOD - 1 /\ last_ref_pg' \in Page
<1>1. UINT_MOD \in Nat /\ UINT_MOD > 0
  BY ConstantsAssumption
<1> QED BY <1>1 DEF Fault, Refer, IInv, TypeOK

(* What a step of Case I does to the lists.                                *)
StepHit(g) ==
  /\ block_type[g] \in Cached
  /\ \E d, a \in Machines : /\ HasLeft(Machine, d, block_type[g], g)
                            /\ HasEntered(d, a, "T2", g)
                            /\ Install(a)

(* Case I keeps the invariant.                                             *)
LEMMA CaseIInv ==
  ASSUME IInv, NEW g \in Page, CaseI(g)
  PROVE  IInv' /\ StepHit(g)
<1> DEFINE L == block_type[g]
           d == Unlink(Machine, L, g)
           a == add_MRU(d, "T2", g)
<1>1. /\ Agree(Machine) /\ Shape(size) /\ ~Machine.failed
      /\ Machine.size = size /\ Machine.type = block_type
  BY MachineFacts
<1>2. L \in Cached /\ isResident[g] /\ Machine.type[g] = L /\ "T2" \in List
  BY <1>1 DEF CaseI, IInv, ListsAgree, List, Cached
<1>3. Check(Machine, isResident[g]) = Machine
  BY <1>1, <1>2, CheckPasses DEF Agree
<1>4. move_from(Machine, L, g) = d
  BY <1>1, <1>2, move_fromFacts DEF List
<1>5. Install(a)
  BY <1>3, <1>4 DEF CaseI
<1>6. HasLeft(Machine, d, L, g)
  BY <1>1, <1>2, UnlinkFacts DEF List
<1> HIDE DEF d
<1>7. HasEntered(d, a, "T2", g)
  BY <1>2, <1>6, add_MRUFacts DEF HasLeft
<1> HIDE DEF a
<1>11. StepHit(g)
  <2>1. d \in Machines /\ a \in Machines
    BY <1>6, <1>7 DEF HasLeft, HasEntered, Agree
  <2> QED BY <1>2, <1>5, <1>6, <1>7, <2>1 DEF StepHit
<1> HIDE DEF L
<1>8. Shape(a.size)
  <2>1. /\ size["T1"] \in Nat /\ size["T2"] \in Nat
        /\ size["B1"] \in Nat /\ size["B2"] \in Nat
    BY DEF IInv, TypeOK, List, Cached, Ghost
  <2>3. {"T1", "T2", "B1", "B2"} \subseteq List
    BY DEF List, Cached, Ghost
  <2>4. CASE L = "T1"
    <3>1. /\ d.size["T1"] = size["T1"] - 1 /\ d.size["T2"] = size["T2"]
          /\ d.size["B1"] = size["B1"] /\ d.size["B2"] = size["B2"]
      BY <1>1, <1>6, <2>3, <2>4 DEF HasLeft
    <3>2. /\ a.size["T1"] = d.size["T1"] /\ a.size["T2"] = d.size["T2"] + 1
          /\ a.size["B1"] = d.size["B1"] /\ a.size["B2"] = d.size["B2"]
      BY <1>7, <2>3 DEF HasEntered
    <3> QED BY <1>1, <2>1, <3>1, <3>2, ConstantsAssumption DEF Shape
  <2>5. CASE L = "T2"
    <3>1. /\ d.size["T1"] = size["T1"] /\ d.size["T2"] = size["T2"] - 1
          /\ d.size["B1"] = size["B1"] /\ d.size["B2"] = size["B2"]
      BY <1>1, <1>6, <2>3, <2>5 DEF HasLeft
    <3>2. /\ a.size["T1"] = d.size["T1"] /\ a.size["T2"] = d.size["T2"] + 1
          /\ a.size["B1"] = d.size["B1"] /\ a.size["B2"] = d.size["B2"]
      BY <1>7, <2>3 DEF HasEntered
    <3> QED BY <1>1, <2>1, <3>1, <3>2, ConstantsAssumption DEF Shape
  <2> QED BY <1>2, <2>4, <2>5 DEF Cached
<1>9. /\ p' \in 0 .. mCacheMaxLimit /\ mPageFaultNum' \in 0 .. UINT_MOD - 1
      /\ last_ref_pg' \in Page
  BY DEF CaseI, Refer, IInv, TypeOK
<1>10. Agree(a) /\ ~a.failed
  BY <1>1, <1>6, <1>7 DEF HasLeft, HasEntered
<1> QED BY <1>5, <1>8, <1>9, <1>10, <1>11, InstallInv


(* A page in a ghost list makes that list nonempty and, by the shape of    *)
(* the directory, the cache full.                                          *)
LEMMA GhostMeansFull ==
  ASSUME IInv, NEW g \in Page, NEW G \in Ghost, block_type[g] = G
  PROVE  /\ size[G] > 0
         /\ size["T1"] + size["T2"] = mCacheMaxLimit
<1>1. g \in Range(list[G]) /\ size[G] = Len(list[G]) /\ list[G] \in Seq(Page)
  BY DEF IInv, ListsAgree, TypeOK, List
<1>2. size[G] > 0
  BY <1>1 DEF Range
<1>3. size["B1"] \in Nat /\ size["B2"] \in Nat
  BY DEF IInv, TypeOK, List, Cached, Ghost
<1>4. size["B1"] + size["B2"] > 0
  BY <1>2, <1>3 DEF Ghost
<1> QED BY <1>2, <1>4 DEF IInv, DirectoryBounded

(* The target moves by a natural number.                                   *)
LEMMA deltaNat ==
  ASSUME IInv, NEW G \in List, NEW H \in List, size[G] > 0
  PROVE  delta(G, H) \in Nat
<1> DEFINE x == size[H]
           y == size[G]
           z == x \div y
<1>1. x \in Nat /\ y \in Nat /\ y > 0 /\ DELTA_MOD \in Nat /\ DELTA_MOD > 0
  BY ConstantsAssumption DEF IInv, TypeOK
<1> HIDE DEF x, y
<1>2. z \in Int
  BY <1>1
<1> HIDE DEF z
<1>3. z % DELTA_MOD \in Nat
  BY <1>1, <1>2
<1> QED BY <1>3 DEF delta, x, y, z

(* What a ghost hit does to the lists.                                     *)
StepGhost(g) ==
  /\ block_type[g] \in Ghost
  /\ \E r, d, a \in Machines : /\ MakesRoom(Machine, r)
                               /\ HasLeft(r, d, block_type[g], g)
                               /\ HasEntered(d, a, "T2", g)
                               /\ Install(a)

(* A ghost hit keeps the invariant when replace has a page to demote.      *)
LEMMA GhostHitInv ==
  ASSUME IInv, NEW g \in Page, NEW G \in Ghost,
         NEW target \in 0 .. mCacheMaxLimit, GhostHit(g, G, target),
         size["T1"] > target \/ size["T2"] > 0
  PROVE  IInv' /\ StepGhost(g)
<1>1. /\ Agree(Machine) /\ Shape(size) /\ ~Machine.failed
      /\ Machine.size = size /\ Machine.type = block_type
      /\ block_type[g] = G /\ target \in Nat
  BY MachineFacts, ConstantsAssumption DEF GhostHit
<1>2. /\ size["T1"] \in Nat /\ size["T2"] \in Nat
      /\ size["B1"] \in Nat /\ size["B2"] \in Nat /\ mCacheMaxLimit \in Nat
  BY ConstantsAssumption DEF IInv, TypeOK, List, Cached, Ghost
<1>3. /\ {"T1", "T2", "B1", "B2"} \subseteq List /\ G \in List
      /\ G \notin Cached
  BY DEF List, Cached, Ghost
<1>4. size[G] > 0 /\ size["T1"] + size["T2"] = mCacheMaxLimit
  BY <1>1, GhostMeansFull
<1> DEFINE r == replace(Machine, g, target)
           d == Unlink(r, G, g)
           a == add_MRU(d, "T2", g)
<1>5. MakesRoom(Machine, r)
  BY <1>1, replaceFacts
<1> HIDE DEF r
<1>6. /\ Agree(r) /\ r.failed = Machine.failed /\ r.type[g] = G
      /\ \/ /\ r.size["T1"] = size["T1"] - 1
            /\ r.size["T2"] = size["T2"]
            /\ r.size["B1"] = size["B1"] + 1
            /\ r.size["B2"] = size["B2"]
         \/ /\ r.size["T1"] = size["T1"]
            /\ r.size["T2"] = size["T2"] - 1
            /\ r.size["B1"] = size["B1"]
            /\ r.size["B2"] = size["B2"] + 1
  BY <1>1, <1>3, <1>5, RoomMade
<1>7. move_from(r, G, g) = d
  BY <1>3, <1>6, move_fromFacts
<1>8. Install(a)
  BY <1>7 DEF GhostHit, r
<1>9. HasLeft(r, d, G, g)
  BY <1>3, <1>6, UnlinkFacts
<1> HIDE DEF d
<1>10. HasEntered(d, a, "T2", g)
  BY <1>3, <1>9, add_MRUFacts DEF HasLeft
<1> HIDE DEF a
<1>11. Agree(a) /\ ~a.failed
  BY <1>1, <1>6, <1>9, <1>10 DEF HasLeft, HasEntered
<1>12. Shape(a.size)
  <2>1. /\ a.size["T1"] = d.size["T1"] /\ a.size["T2"] = d.size["T2"] + 1
        /\ a.size["B1"] = d.size["B1"] /\ a.size["B2"] = d.size["B2"]
    BY <1>3, <1>10 DEF HasEntered
  <2>2. /\ size["T1"] + size["B1"] <= mCacheMaxLimit
        /\ size["T1"] + size["T2"] + size["B1"] + size["B2"]
             <= 2 * mCacheMaxLimit
    BY <1>1 DEF Shape
  <2>3. CASE G = "B1"
    <3>1. /\ d.size["T1"] = r.size["T1"] /\ d.size["T2"] = r.size["T2"]
          /\ d.size["B1"] = r.size["B1"] - 1 /\ d.size["B2"] = r.size["B2"]
      BY <1>3, <1>9, <2>3 DEF HasLeft
    <3> QED BY <1>2, <1>4, <1>6, <2>1, <2>2, <2>3, <3>1 DEF Shape
  <2>4. CASE G = "B2"
    <3>1. /\ d.size["T1"] = r.size["T1"] /\ d.size["T2"] = r.size["T2"]
          /\ d.size["B1"] = r.size["B1"] /\ d.size["B2"] = r.size["B2"] - 1
      BY <1>3, <1>9, <2>4 DEF HasLeft
    <3> QED BY <1>2, <1>4, <1>6, <2>1, <2>2, <2>4, <3>1 DEF Shape
  <2> QED BY <2>3, <2>4 DEF Ghost
<1>13. p' \in 0 .. mCacheMaxLimit
  BY DEF GhostHit
<1>14. mPageFaultNum' \in 0 .. UINT_MOD - 1 /\ last_ref_pg' \in Page
  BY FaultCounter DEF GhostHit
<1>15. StepGhost(g)
  <2>1. r \in Machines /\ d \in Machines /\ a \in Machines
    BY <1>6, <1>9, <1>10 DEF HasLeft, HasEntered, Agree
  <2> QED BY <1>1, <1>5, <1>8, <1>9, <1>10, <2>1 DEF StepGhost
<1> QED BY <1>8, <1>11, <1>12, <1>13, <1>14, <1>15, InstallInv

(* Case II keeps the invariant: T1 cannot hold the whole cache while B1    *)
(* holds a page, so there is a page in T2.                                 *)
LEMMA CaseIIInv ==
  ASSUME IInv, NEW g \in Page, CaseII(g)
  PROVE  IInv' /\ StepGhost(g)
<1> DEFINE d == delta("B1", "B2")
           target == MIN((p + d) % UINT_MOD, mCacheMaxLimit)
<1>1. "B1" \in Ghost /\ "B1" \in List /\ "B2" \in List
  BY DEF Ghost, List
<1>2. block_type[g] = "B1" /\ GhostHit(g, "B1", target)
  BY DEF CaseII, GhostHit
<1>3. size["B1"] > 0 /\ size["T1"] + size["T2"] = mCacheMaxLimit
  BY <1>1, <1>2, GhostMeansFull
<1>4. d \in Nat
  BY <1>1, <1>3, deltaNat
<1> HIDE DEF d
<1>5. target \in 0 .. mCacheMaxLimit
  <2>1. (p + d) % UINT_MOD \in Nat
    BY <1>4, ConstantsAssumption DEF IInv, TypeOK
  <2> QED BY <2>1, ConstantsAssumption DEF MIN
<1> HIDE DEF target
<1>6. size["T1"] \in Nat /\ size["T2"] \in Nat /\ size["B1"] \in Nat
  BY DEF IInv, TypeOK, List, Cached, Ghost
<1>7. size["T2"] > 0
  BY <1>3, <1>6, ConstantsAssumption DEF IInv, DirectoryBounded
<1> QED BY <1>1, <1>2, <1>5, <1>7, GhostHitInv

(* Case III keeps the invariant: the target is 0, so that a cache all of   *)
(* T1 gives up a page of T1.                                               *)
LEMMA CaseIIIInv ==
  ASSUME IInv, NEW g \in Page, CaseIII(g)
  PROVE  IInv' /\ StepGhost(g)
<1> DEFINE d == delta("B2", "B1")
           target == MIN((p - d) % UINT_MOD, 0)
<1>1. "B2" \in Ghost /\ "B1" \in List /\ "B2" \in List
  BY DEF Ghost, List
<1>2. block_type[g] = "B2" /\ GhostHit(g, "B2", target)
  BY DEF CaseIII, GhostHit
<1>3. size["B2"] > 0 /\ size["T1"] + size["T2"] = mCacheMaxLimit
  BY <1>1, <1>2, GhostMeansFull
<1>4. d \in Nat
  BY <1>1, <1>3, deltaNat
<1> HIDE DEF d
<1>5. target = 0
  <2>1. (p - d) % UINT_MOD \in Nat
    BY <1>4, ConstantsAssumption DEF IInv, TypeOK
  <2> QED BY <2>1 DEF MIN
<1> HIDE DEF target
<1>6. size["T1"] \in Nat /\ size["T2"] \in Nat
  BY DEF IInv, TypeOK, List, Cached, Ghost
<1>7. size["T1"] > 0 \/ size["T2"] > 0
  BY <1>3, <1>6, ConstantsAssumption
<1>8. target \in 0 .. mCacheMaxLimit /\ (size["T1"] > target \/ size["T2"] > 0)
  BY <1>5, <1>7, ConstantsAssumption
<1> QED BY <1>1, <1>2, <1>8, GhostHitInv

(* The machine room has a free frame: there was one, or a page of T1 was   *)
(* forgotten, or a page was demoted, perhaps after the oldest ghost of a   *)
(* half was forgotten.                                                     *)
HasRoom(room) ==
  \/ /\ room = Machine
     /\ size["T1"] + size["T2"] < mCacheMaxLimit
  \/ /\ size["T1"] + size["T2"] = mCacheMaxLimit
     /\ \/ Trims(Machine, room, "T1")
        \/ MakesRoom(Machine, room)
        \/ \E t \in Machines, G \in Ghost : /\ Trims(Machine, t, G)
                                           /\ MakesRoom(t, room)

(* What a reference to a new page does to the lists.                       *)
StepNew(g) ==
  /\ block_type[g] = "NO"
  /\ \E room, a \in Machines : /\ room.type[g] = "NO" /\ HasRoom(room)
                               /\ HasEntered(room, a, "T1", g)
                               /\ Install(a)

(* A new page enters T1 of a machine in which room was made.               *)
LEMMA NewPageInv ==
  ASSUME IInv, NEW g \in Page, NewPage(g),
         NEW room, Agree(room), ~room.failed, room.type[g] = "NO",
         HasRoom(room), Install(add_MRU(room, "T1", g)),
         /\ room.size["T1"] + room.size["T2"] < mCacheMaxLimit
         /\ room.size["T1"] + room.size["B1"] < mCacheMaxLimit
         /\ room.size["T1"] + room.size["T2"]
              + room.size["B1"] + room.size["B2"] < 2 * mCacheMaxLimit
         /\ room.size["B1"] + room.size["B2"] > 0 =>
              room.size["T1"] + room.size["T2"] = mCacheMaxLimit - 1
  PROVE  IInv' /\ StepNew(g)
<1> DEFINE a == add_MRU(room, "T1", g)
<1>1. {"T1", "T2", "B1", "B2"} \subseteq List
  BY DEF List, Cached, Ghost
<1>2. HasEntered(room, a, "T1", g)
  BY <1>1, add_MRUFacts
<1> HIDE DEF a
<1>3. Agree(a) /\ ~a.failed
  BY <1>2 DEF HasEntered
<1>4. Shape(a.size)
  <2>1. /\ a.size["T1"] = room.size["T1"] + 1 /\ a.size["T2"] = room.size["T2"]
        /\ a.size["B1"] = room.size["B1"] /\ a.size["B2"] = room.size["B2"]
    BY <1>1, <1>2 DEF HasEntered
  <2>2. /\ room.size["T1"] \in Nat /\ room.size["T2"] \in Nat
        /\ room.size["B1"] \in Nat /\ room.size["B2"] \in Nat
    BY <1>1 DEF Agree, Machines
  <2> QED BY <2>1, <2>2, ConstantsAssumption DEF Shape
<1>5. p' \in 0 .. mCacheMaxLimit
  BY DEF NewPage, IInv, TypeOK
<1>6. mPageFaultNum' \in 0 .. UINT_MOD - 1 /\ last_ref_pg' \in Page
  BY FaultCounter DEF NewPage
<1>7. StepNew(g)
  <2>1. room \in Machines /\ a \in Machines /\ Install(a)
    BY <1>3 DEF a, Agree
  <2> QED BY <1>2, <2>1 DEF StepNew, NewPage
<1> QED BY <1>3, <1>4, <1>5, <1>6, <1>7, InstallInv DEF a

(* Forgetting the oldest page of a half that is large enough.              *)
LEMMA TrimFacts ==
  ASSUME NEW m, Agree(m), NEW L \in List, m.size[L] > 0,
         HalfSize(m.size, L) >= mCacheMaxLimit, L = "T1" => m.size["B1"] = 0
  PROVE  Trims(m, del_LRU(m, L), L)
<1> DEFINE g == Last(m.list[L])
<1>1. g \in Page /\ m.type[g] = L /\ del_LRU(m, L) = Unlink(m, L, g)
  BY LastFacts, del_LRUFacts
<1> HIDE DEF g
<1>2. HasLeft(m, Unlink(m, L, g), L, g)
  BY <1>1, UnlinkFacts
<1> QED BY <1>1, <1>2 DEF g, Trims

(* Case IV A keeps the invariant: while T1 is not full B1 holds a page,    *)
(* the cache is full and T2 has a page to demote if T1 does not give one.  *)
LEMMA CaseIV_AInv ==
  ASSUME IInv, NEW g \in Page, CaseIV_A(g)
  PROVE  IInv' /\ StepNew(g)
<1>1. /\ Agree(Machine) /\ Shape(size) /\ ~Machine.failed
      /\ Machine.size = size /\ Machine.type = block_type
  BY MachineFacts
<1>2. /\ size["T1"] \in Nat /\ size["T2"] \in Nat
      /\ size["B1"] \in Nat /\ size["B2"] \in Nat
      /\ p \in Nat /\ mCacheMaxLimit \in Nat /\ mCacheMaxLimit > 0
  BY ConstantsAssumption DEF IInv, TypeOK, List, Cached, Ghost
<1>3. {"T1", "T2", "B1", "B2"} \subseteq List /\ "NO" \notin List
  BY DEF List, Cached, Ghost
<1>4. /\ NewPage(g) /\ block_type[g] = "NO"
      /\ size["T1"] + size["B1"] = mCacheMaxLimit
  BY DEF CaseIV_A, NewPage, InL1
<1>5. CASE size["T1"] < mCacheMaxLimit
  <2> DEFINE t == del_LRU(Machine, "B1")
             r == replace(t, g, p)
  <2>1. size["B1"] > 0 /\ size["T1"] + size["T2"] = mCacheMaxLimit
    BY <1>1, <1>2, <1>4, <1>5 DEF Shape
  <2>2. Trims(Machine, t, "B1")
    BY <1>1, <1>2, <1>3, <1>4, <2>1, TrimFacts DEF HalfSize
  <2>3. Install(add_MRU(r, "T1", g))
    BY <1>5 DEF CaseIV_A
  <2> HIDE DEF t
  <2>4. /\ Agree(t) /\ ~t.failed /\ t.type[g] = "NO"
        /\ t.size["T1"] = size["T1"] /\ t.size["T2"] = size["T2"]
        /\ t.size["B1"] = size["B1"] - 1 /\ t.size["B2"] = size["B2"]
    BY <1>1, <1>3, <1>4, <2>2 DEF HasLeft, Trims
  <2>5. t.size["T2"] > 0
    BY <1>2, <1>5, <2>1, <2>4
  <2>11. MakesRoom(t, r)
    BY <1>2, <2>4, <2>5, replaceFacts
  <2> HIDE DEF r
  <2>6. /\ Agree(r) /\ r.failed = t.failed /\ r.type[g] = "NO"
        /\ \/ /\ r.size["T1"] = t.size["T1"] - 1
              /\ r.size["T2"] = t.size["T2"]
              /\ r.size["B1"] = t.size["B1"] + 1
              /\ r.size["B2"] = t.size["B2"]
           \/ /\ r.size["T1"] = t.size["T1"]
              /\ r.size["T2"] = t.size["T2"] - 1
              /\ r.size["B1"] = t.size["B1"]
              /\ r.size["B2"] = t.size["B2"] + 1
    BY <2>4, <2>11, RoomMade DEF Cached
  <2>12. HasRoom(r)
    <3>1. t \in Machines /\ "B1" \in Ghost
      BY <2>4 DEF Agree, Ghost
    <3> QED BY <2>1, <2>2, <2>11, <3>1 DEF HasRoom
  <2>9. size["T1"] + size["T2"] + size["B1"] + size["B2"]
          <= 2 * mCacheMaxLimit
    BY <1>1 DEF Shape
  <2>10. r.size["T1"] + r.size["T2"] + r.size["B1"] + r.size["B2"]
           = size["T1"] + size["T2"] + size["B1"] + size["B2"] - 1
    BY <1>2, <2>4, <2>6
  <2>7. /\ r.size["T1"] + r.size["T2"] = mCacheMaxLimit - 1
        /\ r.size["T1"] + r.size["B1"] < mCacheMaxLimit
        /\ r.size["T1"] + r.size["T2"] + r.size["B1"] + r.size["B2"]
             < 2 * mCacheMaxLimit
    BY <1>2, <1>4, <2>1, <2>4, <2>6, <2>9, <2>10
  <2>8. ~r.failed /\ r.size["T1"] + r.size["T2"] < mCacheMaxLimit
    BY <1>2, <2>4, <2>6, <2>7
  <2> QED BY <1>4, <2>3, <2>6, <2>7, <2>8, <2>12, NewPageInv
<1>6. CASE size["T1"] = mCacheMaxLimit
  <2> DEFINE t == del_LRU(Machine, "T1")
  <2>1. size["B1"] = 0 /\ size["T2"] = 0
    BY <1>1, <1>2, <1>4, <1>6 DEF Shape
  <2>2. Check(Machine, size["B1"] = 0) = Machine
    BY <1>1, <2>1, CheckPasses DEF Agree
  <2>3. Install(add_MRU(t, "T1", g))
    BY <1>2, <1>6, <2>2 DEF CaseIV_A
  <2>4. Trims(Machine, t, "T1")
    BY <1>1, <1>2, <1>3, <1>4, <1>6, <2>1, TrimFacts DEF HalfSize
  <2> HIDE DEF t
  <2>5. /\ Agree(t) /\ ~t.failed /\ t.type[g] = "NO"
        /\ t.size["T1"] = size["T1"] - 1 /\ t.size["T2"] = size["T2"]
        /\ t.size["B1"] = size["B1"] /\ t.size["B2"] = size["B2"]
    BY <1>1, <1>3, <1>4, <2>4 DEF HasLeft, Trims
  <2>6. /\ t.size["T1"] + t.size["T2"] = mCacheMaxLimit - 1
        /\ t.size["T1"] + t.size["T2"] < mCacheMaxLimit
        /\ t.size["T1"] + t.size["B1"] < mCacheMaxLimit
        /\ t.size["T1"] + t.size["T2"] + t.size["B1"] + t.size["B2"]
             < 2 * mCacheMaxLimit
    BY <1>1, <1>2, <1>6, <2>1, <2>5 DEF Shape
  <2>7. HasRoom(t)
    BY <1>2, <1>6, <2>1, <2>4 DEF HasRoom
  <2> QED BY <1>4, <2>3, <2>5, <2>6, <2>7, NewPageInv
<1>7. size["T1"] < mCacheMaxLimit \/ size["T1"] = mCacheMaxLimit
  BY <1>2, <1>4
<1> QED BY <1>5, <1>6, <1>7

(* Case IV B keeps the invariant: with the directory as large as the cache *)
(* T2 cannot be empty, and with a smaller one there are no ghosts.         *)
LEMMA CaseIV_BInv ==
  ASSUME IInv, NEW g \in Page, CaseIV_B(g)
  PROVE  IInv' /\ StepNew(g)
<1>1. /\ Agree(Machine) /\ Shape(size) /\ ~Machine.failed
      /\ Machine.size = size /\ Machine.type = block_type
  BY MachineFacts
<1>2. /\ size["T1"] \in Nat /\ size["T2"] \in Nat
      /\ size["B1"] \in Nat /\ size["B2"] \in Nat
      /\ p \in Nat /\ mCacheMaxLimit \in Nat /\ mCacheMaxLimit > 0
  BY ConstantsAssumption DEF IInv, TypeOK, List, Cached, Ghost
<1>3. {"T1", "T2", "B1", "B2"} \subseteq List /\ "NO" \notin List
  BY DEF List, Cached, Ghost
<1> DEFINE n == size["T1"] + size["B1"] + size["T2"] + size["B2"]
<1>4. /\ NewPage(g) /\ block_type[g] = "NO" /\ InDirectory = n
      /\ size["T1"] + size["B1"] < mCacheMaxLimit
  BY <1>1, <1>2 DEF CaseIV_B, NewPage, InL1, InDirectory, Shape
<1>5. Check(Machine, InL1 < mCacheMaxLimit) = Machine
  BY <1>1, <1>4, CheckPasses DEF Agree, InL1
<1> DEFINE t == IF n = 2 * mCacheMaxLimit THEN del_LRU(Machine, "B2")
                                          ELSE Machine
           r == replace(t, g, p)
<1>6. CASE n >= mCacheMaxLimit
  <2>1. Install(add_MRU(r, "T1", g))
    BY <1>4, <1>5, <1>6 DEF CaseIV_B
  <2>2. size["T1"] + size["T2"] = mCacheMaxLimit /\ size["T2"] > 0
    BY <1>1, <1>2, <1>4, <1>6 DEF Shape
  <2>3. /\ Agree(t) /\ ~t.failed /\ t.type[g] = "NO"
        /\ t = Machine \/ Trims(Machine, t, "B2")
        /\ t.size["T1"] = size["T1"] /\ t.size["T2"] = size["T2"]
        /\ t.size["B1"] = size["B1"]
        /\ t.size["B2"] = IF n = 2 * mCacheMaxLimit THEN size["B2"] - 1
                                                    ELSE size["B2"]
    <3>1. CASE n = 2 * mCacheMaxLimit
      <4> DEFINE d == del_LRU(Machine, "B2")
      <4>1. size["B2"] > 0
        BY <1>1, <1>2, <1>4, <3>1 DEF Shape
      <4>2. Trims(Machine, d, "B2")
        BY <1>1, <1>2, <1>3, <1>4, <3>1, <4>1, TrimFacts DEF HalfSize
      <4>3. t = d
        BY <3>1
      <4> HIDE DEF d, t
      <4> QED BY <1>1, <1>3, <1>4, <3>1, <4>2, <4>3 DEF HasLeft, Trims
    <3>2. CASE n # 2 * mCacheMaxLimit
      BY <1>1, <1>4, <3>2
    <3> QED BY <3>1, <3>2
  <2> HIDE DEF t
  <2>4. t.size["T2"] > 0
    BY <2>2, <2>3
  <2>7. MakesRoom(t, r)
    BY <1>2, <2>3, <2>4, replaceFacts
  <2> HIDE DEF r
  <2>8. HasRoom(r)
    <3>1. t \in Machines /\ "B2" \in Ghost
      BY <2>3 DEF Agree, Ghost
    <3> QED BY <2>2, <2>3, <2>7, <3>1 DEF HasRoom
  <2>5. /\ Agree(r) /\ r.failed = t.failed /\ r.type[g] = "NO"
        /\ \/ /\ r.size["T1"] = t.size["T1"] - 1
              /\ r.size["T2"] = t.size["T2"]
              /\ r.size["B1"] = t.size["B1"] + 1
              /\ r.size["B2"] = t.size["B2"]
           \/ /\ r.size["T1"] = t.size["T1"]
              /\ r.size["T2"] = t.size["T2"] - 1
              /\ r.size["B1"] = t.size["B1"]
              /\ r.size["B2"] = t.size["B2"] + 1
    BY <2>3, <2>7, RoomMade DEF Cached
  <2>6. /\ r.size["T1"] + r.size["T2"] = mCacheMaxLimit - 1
        /\ r.size["T1"] + r.size["T2"] < mCacheMaxLimit
        /\ r.size["T1"] + r.size["B1"] < mCacheMaxLimit
        /\ r.size["T1"] + r.size["T2"] + r.size["B1"] + r.size["B2"]
             < 2 * mCacheMaxLimit
    BY <1>1, <1>2, <1>4, <2>2, <2>3, <2>5 DEF Shape
  <2> QED BY <1>4, <2>1, <2>3, <2>5, <2>6, <2>8, NewPageInv
<1>7. CASE n < mCacheMaxLimit
  <2>1. Install(add_MRU(Machine, "T1", g))
    BY <1>2, <1>4, <1>5, <1>7 DEF CaseIV_B
  <2>2. /\ size["T1"] + size["T2"] < mCacheMaxLimit
        /\ n < 2 * mCacheMaxLimit
        /\ ~(size["B1"] + size["B2"] > 0)
    BY <1>1, <1>2, <1>7 DEF Shape
  <2>3. size["T1"] + size["T2"] + size["B1"] + size["B2"] = n
    BY <1>2
  <2>4. HasRoom(Machine)
    BY <2>2 DEF HasRoom
  <2> QED BY <1>1, <1>4, <2>1, <2>2, <2>3, <2>4, NewPageInv
<1>8. n >= mCacheMaxLimit \/ n < mCacheMaxLimit
  BY <1>2
<1> QED BY <1>6, <1>7, <1>8

(* The first state satisfies the invariant.                                *)
LEMMA InitInv == Init => IInv
<1> SUFFICES ASSUME Init PROVE IInv
  OBVIOUS
<1>1. TypeOK
  BY ConstantsAssumption DEF Init, TypeOK
<1>2. ListsAgree
  BY DEF Init, ListsAgree, IsInjective, Range, List, Cached, Ghost
<1>3. DirectoryBounded /\ NeverExits
  BY ConstantsAssumption
     DEF Init, DirectoryBounded, NeverExits, List, Cached, Ghost
<1> QED BY <1>1, <1>2, <1>3 DEF IInv

(* Every step keeps the invariant.                                         *)
LEMMA NextInv == IInv /\ [Next]_vars => IInv'
<1> SUFFICES ASSUME IInv, [Next]_vars PROVE IInv'
  OBVIOUS
<1>1. ASSUME NEW g \in Page, CaseI(g) PROVE IInv'
  BY <1>1, CaseIInv
<1>2. ASSUME NEW g \in Page, CaseII(g) PROVE IInv'
  BY <1>2, CaseIIInv
<1>3. ASSUME NEW g \in Page, CaseIII(g) PROVE IInv'
  BY <1>3, CaseIIIInv
<1>4. ASSUME NEW g \in Page, CaseIV_A(g) PROVE IInv'
  BY <1>4, CaseIV_AInv
<1>5. ASSUME NEW g \in Page, CaseIV_B(g) PROVE IInv'
  BY <1>5, CaseIV_BInv
<1>6. CASE UNCHANGED vars
  BY <1>6 DEF vars, IInv, TypeOK, ListsAgree, DirectoryBounded, NeverExits
<1> QED BY <1>1, <1>2, <1>3, <1>4, <1>5, <1>6 DEF Next

(* The invariant holds of every reachable state.                           *)
THEOREM Invariant == Spec => []IInv
<1> QED BY InitInv, NextInv, PTL DEF Spec

(* Whatever the trace, the engine's state has its type: the target stays   *)
(* within the cache although it is computed in unsigned arithmetic, and no *)
(* size counter goes below zero (replace_arc.cc:571-643).                  *)
THEOREM TypeCorrect == Spec => []TypeOK
<1>1. IInv => TypeOK
  BY DEF IInv
<1> QED BY <1>1, Invariant, PTL

(* Whatever the trace, the four lists, the block types, the resident flags *)
(* and the size counters agree after every reference, however many lists   *)
(* the page and its victim went through (replace_arc.cc:45-342, 359-526).  *)
THEOREM ListsAlwaysAgree == Spec => []ListsAgree
<1>1. IInv => ListsAgree
  BY DEF IInv
<1> QED BY <1>1, Invariant, PTL

(* Whatever the trace, the directory keeps its shape: at most c pages in   *)
(* the cache and in T1 with its ghosts, 2c in all, and no ghosts before    *)
(* the cache is full (replace_arc.cc:571-643).                             *)
THEOREM DirectoryAlwaysBounded == Spec => []DirectoryBounded
<1>1. IInv => DirectoryBounded
  BY DEF IInv
<1> QED BY <1>1, Invariant, PTL

(* Whatever the trace, none of the program's own checks fails; replace     *)
(* never finds the list it chose empty (replace_arc.cc:345-357, 622, 632). *)
THEOREM NeverExitsEver == Spec => []NeverExits
<1>1. IInv => NeverExits
  BY DEF IInv
<1> QED BY <1>1, Invariant, PTL

-----------------------------------------------------------------------------
(* ARC is a demand cache.                                                  *)

CachedPages(type) == {q \in Page : type[q] \in Cached}

Resident == {q \in Page : isResident[q]}

(* The resident pages are those of T1 and T2, as many as the sizes say.    *)
LEMMA ResidentFacts ==
  ASSUME IInv
  PROVE  /\ Resident = CachedPages(block_type)
         /\ Cardinality(Resident) = size["T1"] + size["T2"]
<1>1. {"T1", "T2"} \subseteq List /\ Cached = {"T1", "T2"}
  BY DEF List, Cached
<1> DEFINE A == Range(list["T1"])
           B == Range(list["T2"])
<1>2. /\ list["T1"] \in Seq(Page) /\ IsInjective(list["T1"])
      /\ list["T2"] \in Seq(Page) /\ IsInjective(list["T2"])
      /\ size["T1"] = Len(list["T1"]) /\ size["T2"] = Len(list["T2"])
      /\ A = {q \in Page : block_type[q] = "T1"}
      /\ B = {q \in Page : block_type[q] = "T2"}
  BY <1>1 DEF IInv, ListsAgree, TypeOK
<1>3. Resident = CachedPages(block_type)
  BY DEF Resident, CachedPages, IInv, ListsAgree
<1>4. CachedPages(block_type) = A \cup B /\ A \cap B = {}
  BY <1>1, <1>2 DEF CachedPages
<1>5. /\ IsFiniteSet(A) /\ Cardinality(A) = size["T1"]
      /\ IsFiniteSet(B) /\ Cardinality(B) = size["T2"]
  BY <1>2, ListCardinality
<1> HIDE DEF A, B
<1>6. Cardinality(A \cup B) = size["T1"] + size["T2"] - Cardinality({})
  BY <1>4, <1>5, FS_Union
<1>7. size["T1"] + size["T2"] - 0 = size["T1"] + size["T2"]
  BY <1>1 DEF IInv, TypeOK
<1> QED BY <1>3, <1>4, <1>6, <1>7, FS_EmptySet

(* The resident pages after a handler that ends in machine m.              *)
LEMMA ResidentAfter ==
  ASSUME NEW m, Agree(m), Install(m)
  PROVE  Resident' = CachedPages(m.type)
BY DEF Agree, Install, Resident, CachedPages

(* Freeing a frame takes one page out of the cache.                        *)
LEMMA RoomEvicts ==
  ASSUME NEW m, Agree(m), NEW r, MakesRoom(m, r)
  PROVE  \E v \in CachedPages(m.type) :
           CachedPages(r.type) = CachedPages(m.type) \ {v}
<1>1. PICK h \in Half : /\ m.size[h[1]] > 0
                        /\ m.type[Last(m.list[h[1]])] = h[1]
                        /\ HasDemoted(m, r, h[1], h[2])
  BY DEF MakesRoom
<1>2. h[1] \in Cached /\ h[1] \in List /\ h[2] \notin Cached
  BY DEF Half, Cached, List
<1> DEFINE v == Last(m.list[h[1]])
<1>3. v \in Page
  BY <1>1, <1>2, LastFacts
<1>4. m.type[v] = h[1]
  BY <1>1
<1>5. \A q \in Page : r.type[q] = IF q = v THEN h[2] ELSE m.type[q]
  BY <1>1 DEF HasDemoted
<1> HIDE DEF v
<1>6. v \in CachedPages(m.type)
  BY <1>2, <1>3, <1>4 DEF CachedPages
<1>7. CachedPages(r.type) = CachedPages(m.type) \ {v}
  BY <1>2, <1>5 DEF CachedPages
<1> QED BY <1>6, <1>7

(* A hit of ARC is a hit of the demand cache.                              *)
LEMMA HitIsHit ==
  ASSUME IInv, NEW g \in Page, CaseI(g)
  PROVE  Cache!Next
<1>1. PICK d \in Machines, a \in Machines :
        /\ HasLeft(Machine, d, block_type[g], g)
        /\ HasEntered(d, a, "T2", g) /\ Install(a)
  BY CaseIInv DEF StepHit
<1>2. block_type[g] \in Cached /\ Machine.type = block_type
  BY CaseIInv DEF StepHit, Machine
<1>3. \A q \in Page : a.type[q] = IF q = g THEN "T2" ELSE block_type[q]
  BY <1>1, <1>2 DEF HasLeft, HasEntered
<1>4. /\ CachedPages(a.type) = CachedPages(block_type)
      /\ g \in CachedPages(block_type)
  BY <1>2, <1>3 DEF CachedPages, Cached
<1>5. Resident' = Resident /\ g \in Resident
  BY <1>1, <1>4, ResidentFacts, ResidentAfter DEF HasEntered
<1>6. Cache!Hit(g)
  BY <1>5 DEF Cache!Hit, Resident, CaseI, Refer
<1> QED BY <1>6 DEF Cache!Next

(* DemandCache counts pages as this module does.                           *)
LEMMA SameCardinality ==
  ASSUME NEW S PROVE Cache!Cardinality(S) = Cardinality(S)
BY DEF Cardinality, Cache!Cardinality

(* A fault that evicts v from a full cache, and one that finds a frame.    *)
LEMMA FaultReplaces ==
  ASSUME IInv, NEW g \in Page, Fault(g), NEW v \in Resident, g \notin Resident,
         size["T1"] + size["T2"] = mCacheMaxLimit,
         Resident' = (Resident \ {v}) \cup {g}
  PROVE  Cache!Next
<1>1. Cardinality(Resident) = mCacheMaxLimit
  BY ResidentFacts
<1>2. Cache!Fault(g)
  BY DEF Cache!Fault, Fault, Refer, Resident
<1>3. Cache!Cardinality(Resident) = mCacheMaxLimit
  BY <1>1, SameCardinality
<1>4. Cache!Replace(g, v)
  BY <1>2, <1>3 DEF Cache!Replace, Resident
<1> QED BY <1>4 DEF Cache!Next, Resident

(* See FaultReplaces.                                                      *)
LEMMA FaultLoads ==
  ASSUME IInv, NEW g \in Page, Fault(g), g \notin Resident,
         size["T1"] + size["T2"] < mCacheMaxLimit,
         Resident' = Resident \cup {g}
  PROVE  Cache!Next
<1>1. Cardinality(Resident) < mCacheMaxLimit
  BY ResidentFacts
<1>2. Cache!Fault(g)
  BY DEF Cache!Fault, Fault, Refer, Resident
<1>3. Cache!Cardinality(Resident) < mCacheMaxLimit
  BY <1>1, SameCardinality
<1>4. Cache!Load(g)
  BY <1>2, <1>3 DEF Cache!Load, Resident
<1> QED BY <1>4 DEF Cache!Next

(* A ghost hit replaces the page it demotes.                               *)
LEMMA GhostReplaces ==
  ASSUME IInv, NEW g \in Page, Fault(g), StepGhost(g)
  PROVE  Cache!Next
<1>1. PICK r \in Machines, d \in Machines, a \in Machines :
        /\ MakesRoom(Machine, r) /\ HasLeft(r, d, block_type[g], g)
        /\ HasEntered(d, a, "T2", g) /\ Install(a)
  BY DEF StepGhost
<1>2. block_type[g] \in Ghost /\ Machine.type = block_type /\ Agree(Machine)
  BY MachineFacts DEF StepGhost
<1>3. PICK v \in CachedPages(block_type) :
        CachedPages(r.type) = CachedPages(block_type) \ {v}
  BY <1>1, <1>2, RoomEvicts
<1>4. \A q \in Page : a.type[q] = IF q = g THEN "T2" ELSE r.type[q]
  BY <1>1 DEF HasLeft, HasEntered
<1>5. CachedPages(a.type) = CachedPages(r.type) \cup {g}
  BY <1>4 DEF CachedPages, Cached
<1>6. g \notin CachedPages(block_type)
  BY <1>2 DEF CachedPages, Cached, Ghost
<1>7. /\ Resident' = (Resident \ {v}) \cup {g}
      /\ v \in Resident /\ g \notin Resident
  BY <1>1, <1>3, <1>5, <1>6, ResidentFacts, ResidentAfter DEF HasEntered
<1>8. size["T1"] + size["T2"] = mCacheMaxLimit
  BY <1>2, GhostMeansFull
<1> QED BY <1>7, <1>8, FaultReplaces

(* A new page is loaded, or replaces the page that made room.              *)
LEMMA NewLoadsOrReplaces ==
  ASSUME IInv, NEW g \in Page, Fault(g), StepNew(g)
  PROVE  Cache!Next
<1>1. PICK room \in Machines, a \in Machines :
        HasRoom(room) /\ HasEntered(room, a, "T1", g) /\ Install(a)
  BY DEF StepNew
<1>2. block_type[g] = "NO" /\ Machine.type = block_type /\ Agree(Machine)
      /\ Machine.list = list /\ Machine.size = size
  BY MachineFacts DEF StepNew
<1>3. Resident' = CachedPages(room.type) \cup {g}
  <2>1. \A q \in Page : a.type[q] = IF q = g THEN "T1" ELSE room.type[q]
    BY <1>1 DEF HasEntered
  <2>2. CachedPages(a.type) = CachedPages(room.type) \cup {g}
    BY <2>1 DEF CachedPages, Cached
  <2> QED BY <1>1, <2>2, ResidentAfter DEF HasEntered
<1>4. Resident = CachedPages(block_type) /\ g \notin Resident
  BY <1>2, ResidentFacts DEF CachedPages, Cached
<1>5. CASE room = Machine /\ size["T1"] + size["T2"] < mCacheMaxLimit
  BY <1>2, <1>3, <1>4, <1>5, FaultLoads
<1>6. ASSUME NEW v \in CachedPages(block_type),
             CachedPages(room.type) = CachedPages(block_type) \ {v},
             size["T1"] + size["T2"] = mCacheMaxLimit
      PROVE  Cache!Next
  BY <1>3, <1>4, <1>6, FaultReplaces
<1>7. CASE /\ size["T1"] + size["T2"] = mCacheMaxLimit
           /\ Trims(Machine, room, "T1")
  <2> DEFINE v == Last(list["T1"])
  <2>1. v \in Page
    BY <1>2, <1>7, LastFacts DEF Trims, List, Cached
  <2>2. /\ block_type[v] = "T1"
        /\ \A q \in Page : room.type[q] = IF q = v THEN "NO" ELSE block_type[q]
    BY <1>2, <1>7 DEF Trims, HasLeft
  <2> HIDE DEF v
  <2>3. /\ v \in CachedPages(block_type)
        /\ CachedPages(room.type) = CachedPages(block_type) \ {v}
    BY <2>1, <2>2 DEF CachedPages, Cached
  <2> QED BY <1>6, <1>7, <2>3
<1>8. CASE /\ size["T1"] + size["T2"] = mCacheMaxLimit
           /\ MakesRoom(Machine, room)
  BY <1>2, <1>6, <1>8, RoomEvicts
<1>9. CASE /\ size["T1"] + size["T2"] = mCacheMaxLimit
           /\ \E t \in Machines, G \in Ghost : /\ Trims(Machine, t, G)
                                               /\ MakesRoom(t, room)
  <2>1. PICK t \in Machines, G \in Ghost :
               Trims(Machine, t, G) /\ MakesRoom(t, room)
    BY <1>9
  <2>2. /\ Agree(t) /\ block_type[Last(list[G])] = G
        /\ \A q \in Page :
             t.type[q] = IF q = Last(list[G]) THEN "NO" ELSE block_type[q]
    BY <1>2, <2>1 DEF Trims, HasLeft
  <2>3. CachedPages(t.type) = CachedPages(block_type)
    BY <2>2 DEF CachedPages, Cached, Ghost
  <2> QED BY <1>6, <1>9, <2>1, <2>2, <2>3, RoomEvicts
<1> QED BY <1>1, <1>5, <1>7, <1>8, <1>9 DEF HasRoom

(* Every step of ARC is a step of the demand cache, or leaves it alone.    *)
LEMMA CacheStep == IInv /\ [Next]_vars => [Cache!Next]_(Cache!vars)
<1> SUFFICES ASSUME IInv, [Next]_vars
             PROVE  [Cache!Next]_(Cache!vars)
  OBVIOUS
<1>1. ASSUME NEW g \in Page, CaseI(g) PROVE Cache!Next
  BY <1>1, HitIsHit
<1>2. ASSUME NEW g \in Page, CaseII(g) PROVE Cache!Next
  BY <1>2, CaseIIInv, GhostReplaces DEF CaseII, GhostHit
<1>3. ASSUME NEW g \in Page, CaseIII(g) PROVE Cache!Next
  BY <1>3, CaseIIIInv, GhostReplaces DEF CaseIII, GhostHit
<1>4. ASSUME NEW g \in Page, CaseIV_A(g) PROVE Cache!Next
  BY <1>4, CaseIV_AInv, NewLoadsOrReplaces DEF CaseIV_A, NewPage
<1>5. ASSUME NEW g \in Page, CaseIV_B(g) PROVE Cache!Next
  BY <1>5, CaseIV_BInv, NewLoadsOrReplaces DEF CaseIV_B, NewPage
<1>6. CASE UNCHANGED vars
  BY <1>6 DEF vars, Cache!vars
<1> QED BY <1>1, <1>2, <1>3, <1>4, <1>5, <1>6 DEF Next

(* Whatever the trace, ARC loads on a fault only, evicts one page per      *)
(* fault and only when all frames are taken (replace_arc.cc:530-646).      *)
THEOREM ARCImplementsCache == Spec => ImplementsCache
<1>1. Init => Cache!Init
  BY DEF Init, Cache!Init
<1> QED BY <1>1, Invariant, CacheStep, PTL DEF Spec, ImplementsCache, Cache!Spec

-----------------------------------------------------------------------------
(* The directory beside the history of references.                         *)

Before(rec, x, y) == Pos(rec, x) < Pos(rec, y)

InOrder(rec, s) ==
  \A i, j \in 1 .. Len(s) : i < j => Before(rec, s[i], s[j])

(* HalvesInRecencyOrder, of a machine and a history.                       *)
Ordered(m, rec) ==
  /\ \A L \in List : InOrder(rec, m.list[L])
  /\ \A x, y \in Page : <<m.type[x], m.type[y]>> \in Half => Before(rec, x, y)

(* A page of a list without repetitions is where Pos says, and there only. *)
LEMMA PosUnique ==
  ASSUME NEW A, NEW s \in Seq(A), IsInjective(s), NEW i \in 1 .. Len(s)
  PROVE  Pos(s, s[i]) = i
<1>1. Pos(s, s[i]) \in 1 .. Len(s) /\ s[Pos(s, s[i])] = s[i]
  BY PosFacts DEF Range
<1> QED BY <1>1 DEF IsInjective

(* The page referenced is first now; the others keep their order, and none *)
(* moves forward.                                                          *)
LEMMA FrontFacts ==
  ASSUME NEW A, NEW s \in Seq(A), IsInjective(s), NEW g \in A
  PROVE  LET t == MoveToFront(s, g) IN
           /\ t \in Seq(A) /\ IsInjective(t) /\ Range(t) = Range(s) \cup {g}
           /\ Pos(t, g) = 1
           /\ \A x \in Range(s) \ {g} :
                Pos(t, x) = IF g \in Range(s) /\ Pos(s, g) < Pos(s, x)
                            THEN Pos(s, x) ELSE Pos(s, x) + 1
<1> DEFINE u == IF g \in Range(s) THEN RemoveAt(s, Pos(s, g)) ELSE s
           t == <<g>> \o u
<1>1. MoveToFront(s, g) = t
  BY DEF MoveToFront
<1>2. /\ u \in Seq(A) /\ IsInjective(u) /\ Range(u) = Range(s) \ {g}
      /\ \A x \in Range(s) \ {g} :
           LET i == IF g \in Range(s) /\ Pos(s, g) < Pos(s, x)
                    THEN Pos(s, x) - 1 ELSE Pos(s, x)
           IN  i \in 1 .. Len(u) /\ u[i] = x
  <2>1. \A x \in Range(s) : Pos(s, x) \in 1 .. Len(s) /\ s[Pos(s, x)] = x
    BY PosFacts
  <2>2. CASE g \in Range(s)
    <3> DEFINE k == Pos(s, g)
    <3>1. k \in 1 .. Len(s) /\ s[k] = g
      BY <2>1, <2>2
    <3> HIDE DEF k
    <3>2. u = RemoveAt(s, k)
      BY <2>2 DEF k
    <3>3. /\ RemoveAt(s, k) \in Seq(A) /\ IsInjective(RemoveAt(s, k))
          /\ Range(RemoveAt(s, k)) = Range(s) \ {s[k]}
          /\ Len(RemoveAt(s, k)) = Len(s) - 1
          /\ \A j \in 1 .. Len(s) - 1 :
               RemoveAt(s, k)[j] = IF j < k THEN s[j] ELSE s[j + 1]
      BY <3>1, RemoveAtFacts
    <3> HIDE DEF u
    <3>4. ASSUME NEW x \in Range(s) \ {g}
          PROVE  LET i == IF k < Pos(s, x) THEN Pos(s, x) - 1 ELSE Pos(s, x)
                 IN  i \in 1 .. Len(u) /\ u[i] = x
      <4> DEFINE j == Pos(s, x)
      <4>1. j \in 1 .. Len(s) /\ s[j] = x /\ x # g
        BY <2>1
      <4> HIDE DEF j
      <4>2. CASE k < j
        <5>1. j - 1 \in 1 .. Len(s) - 1 /\ u[j - 1] = s[(j - 1) + 1]
          BY <3>1, <3>2, <3>3, <4>1, <4>2
        <5>2. (j - 1) + 1 = j
          BY <4>1
        <5> QED BY <3>2, <3>3, <4>1, <4>2, <5>1, <5>2 DEF j
      <4>3. CASE j < k
        <5>1. j \in 1 .. Len(s) - 1 /\ u[j] = s[j]
          BY <3>1, <3>2, <3>3, <4>1, <4>3
        <5>2. ~(k < j)
          BY <3>1, <4>1, <4>3
        <5> QED BY <3>2, <3>3, <4>1, <5>1, <5>2 DEF j
      <4> QED BY <3>1, <4>1, <4>2, <4>3
    <3> QED BY <2>2, <3>1, <3>2, <3>3, <3>4 DEF k
  <2>3. CASE g \notin Range(s)
    BY <2>1, <2>3
  <2> QED BY <2>2, <2>3
<1> HIDE DEF u
<1>3. /\ t \in Seq(A) /\ IsInjective(t) /\ Range(t) = Range(u) \cup {g}
      /\ Len(t) = Len(u) + 1 /\ t[1] = g
      /\ \A j \in 2 .. Len(u) + 1 : t[j] = u[j - 1]
  BY <1>2, ConsFacts
<1> HIDE DEF t
<1>4. Pos(t, g) = 1
  <2>1. 1 \in 1 .. Len(t)
    BY <1>2, <1>3
  <2> QED BY <1>3, <2>1, PosUnique
<1>5. ASSUME NEW i \in 1 .. Len(u) PROVE Pos(t, u[i]) = i + 1
  <2>1. i + 1 \in 1 .. Len(t) /\ t[i + 1] = u[i]
    BY <1>2, <1>3
  <2> QED BY <1>3, <2>1, PosUnique
<1>6. ASSUME NEW x \in Range(s) \ {g}
      PROVE  Pos(t, x) = IF g \in Range(s) /\ Pos(s, g) < Pos(s, x)
                         THEN Pos(s, x) ELSE Pos(s, x) + 1
  <2>1. Pos(s, x) \in Nat
    BY PosFacts
  <2>2. CASE g \in Range(s) /\ Pos(s, g) < Pos(s, x)
    <3>1. Pos(s, x) - 1 \in 1 .. Len(u) /\ u[Pos(s, x) - 1] = x
      BY <1>2, <2>2
    <3>2. Pos(t, x) = (Pos(s, x) - 1) + 1
      BY <3>1, <1>5
    <3> QED BY <2>1, <2>2, <3>2
  <2>3. CASE ~(g \in Range(s) /\ Pos(s, g) < Pos(s, x))
    <3>1. Pos(s, x) \in 1 .. Len(u) /\ u[Pos(s, x)] = x
      BY <1>2, <2>3
    <3>2. Pos(t, x) = Pos(s, x) + 1
      BY <3>1, <1>5
    <3> QED BY <2>1, <2>3, <3>2
  <2> QED BY <2>2, <2>3
<1>7. Range(t) = Range(s) \cup {g}
  BY <1>2, <1>3
<1> QED BY <1>1, <1>3, <1>4, <1>6, <1>7

(* See FrontFacts: pages other than the one referenced keep their order,   *)
(* and come after it.                                                      *)
LEMMA FrontOrder ==
  ASSUME NEW A, NEW s \in Seq(A), IsInjective(s), NEW g \in A
  PROVE  /\ \A x, y \in Range(s) \ {g} :
              Before(s, x, y) => Before(MoveToFront(s, g), x, y)
         /\ \A x \in Range(s) \ {g} : Before(MoveToFront(s, g), g, x)
<1> DEFINE t == MoveToFront(s, g)
           k == Pos(s, g)
<1>1. /\ Pos(t, g) = 1
      /\ \A x \in Range(s) \ {g} :
           Pos(t, x) = IF g \in Range(s) /\ k < Pos(s, x)
                       THEN Pos(s, x) ELSE Pos(s, x) + 1
  BY FrontFacts
<1>2. \A x \in Range(s) : Pos(s, x) \in Nat /\ Pos(s, x) > 0
  BY PosFacts
<1>3. g \in Range(s) => k \in Nat /\ k > 0
  BY <1>2
<1> HIDE DEF t, k
<1>4. ASSUME NEW x \in Range(s) \ {g}, NEW y \in Range(s) \ {g}, Before(s, x, y)
      PROVE  Before(t, x, y)
  <2> DEFINE i == Pos(s, x)
             j == Pos(s, y)
             a == Pos(t, x)
             b == Pos(t, y)
  <2>1. i \in Nat /\ j \in Nat /\ i < j
    BY <1>2, <1>4 DEF Before
  <2>2. /\ a = IF g \in Range(s) /\ k < i THEN i ELSE i + 1
        /\ b = IF g \in Range(s) /\ k < j THEN j ELSE j + 1
    BY <1>1
  <2>3. k # i \/ g \notin Range(s)
    BY PosFacts DEF k
  <2> HIDE DEF i, j, a, b
  <2>4. a < b
    BY <1>3, <2>1, <2>2, <2>3
  <2> QED BY <2>4 DEF Before, a, b
<1>5. ASSUME NEW x \in Range(s) \ {g} PROVE Before(t, g, x)
  <2> DEFINE i == Pos(s, x)
             a == Pos(t, x)
  <2>1. i \in Nat /\ i > 0
    BY <1>2
  <2>2. a = IF g \in Range(s) /\ k < i THEN i ELSE i + 1
    BY <1>1
  <2> HIDE DEF i, a
  <2>3. 1 < a
    BY <1>3, <2>1, <2>2
  <2> QED BY <1>1, <2>3 DEF Before, a
<1> QED BY <1>4, <1>5 DEF t

(* Removing a page leaves the others in order.                             *)
LEMMA RemoveInOrder ==
  ASSUME NEW rec, NEW s \in Seq(Page), IsInjective(s), InOrder(rec, s),
         NEW g \in Range(s)
  PROVE  InOrder(rec, RemoveAt(s, Pos(s, g)))
<1> DEFINE k == Pos(s, g)
           r == RemoveAt(s, k)
<1>1. k \in 1 .. Len(s) /\ Len(s) \in Nat
  BY PosFacts
<1> HIDE DEF k
<1>2. /\ Len(r) = Len(s) - 1
      /\ \A j \in 1 .. Len(s) - 1 : r[j] = IF j < k THEN s[j] ELSE s[j + 1]
  BY <1>1, RemoveAtFacts
<1> HIDE DEF r
<1>3. ASSUME NEW i \in 1 .. Len(r), NEW j \in 1 .. Len(r), i < j
      PROVE  Before(rec, r[i], r[j])
  <2> DEFINE a == IF i < k THEN i ELSE i + 1
             b == IF j < k THEN j ELSE j + 1
  <2>1. /\ a \in 1 .. Len(s) /\ b \in 1 .. Len(s) /\ a < b
    BY <1>1, <1>2, <1>3
  <2>2. r[i] = s[a] /\ r[j] = s[b]
    BY <1>1, <1>2
  <2> HIDE DEF a, b
  <2> QED BY <2>1, <2>2 DEF InOrder
<1> QED BY <1>3 DEF InOrder, r, k

(* A page put in front of pages that all come later is in order.           *)
LEMMA ConsInOrder ==
  ASSUME NEW rec, NEW s \in Seq(Page), InOrder(rec, s), NEW g \in Page,
         \A x \in Range(s) : Before(rec, g, x)
  PROVE  InOrder(rec, <<g>> \o s)
<1> DEFINE r == <<g>> \o s
<1>1. /\ Len(s) \in Nat /\ Len(r) = Len(s) + 1 /\ r[1] = g
      /\ \A j \in 2 .. Len(s) + 1 : r[j] = s[j - 1]
  OBVIOUS
<1> HIDE DEF r
<1>2. ASSUME NEW i \in 1 .. Len(r), NEW j \in 1 .. Len(r), i < j
      PROVE  Before(rec, r[i], r[j])
  <2>1. j - 1 \in 1 .. Len(s) /\ r[j] = s[j - 1]
    BY <1>1, <1>2
  <2>2. CASE i = 1
    BY <1>1, <2>1, <2>2 DEF Range
  <2>3. CASE i # 1
    <3>1. i - 1 \in 1 .. Len(s) /\ r[i] = s[i - 1] /\ i - 1 < j - 1
      BY <1>1, <1>2, <2>3
    <3> QED BY <2>1, <3>1 DEF InOrder
  <2> QED BY <2>2, <2>3
<1> QED BY <1>2 DEF InOrder, r

(* In an ordered machine the last page of a list comes after the others.   *)
LEMMA LastIsOldest ==
  ASSUME NEW m, Agree(m), NEW rec, Ordered(m, rec), NEW L \in List,
         m.size[L] > 0, NEW x \in Page, m.type[x] = L, x # Last(m.list[L])
  PROVE  Before(rec, x, Last(m.list[L]))
<1> DEFINE s == m.list[L]
<1>1. /\ s \in Seq(Page) /\ x \in Range(s) /\ Len(s) \in Nat
      /\ Len(s) > 0 /\ InOrder(rec, s)
  BY DEF Agree, ListAgrees, Machines, Ordered
<1> HIDE DEF s
<1>2. PICK i \in 1 .. Len(s) : s[i] = x
  BY <1>1 DEF Range
<1>3. i # Len(s)
  BY <1>2 DEF Last, s
<1>4. i < Len(s) /\ Len(s) \in 1 .. Len(s)
  BY <1>1, <1>3
<1>5. Before(rec, s[i], s[Len(s)])
  BY <1>1, <1>4 DEF InOrder
<1> QED BY <1>2, <1>5 DEF Last, s

(* Taking a page out keeps the order.                                      *)
LEMMA LeftOrdered ==
  ASSUME NEW m, Agree(m), NEW rec, Ordered(m, rec), NEW r,
         NEW L \in List, NEW g \in Page, m.type[g] = L, HasLeft(m, r, L, g)
  PROVE  Ordered(r, rec)
<1>1. ASSUME NEW K \in List PROVE InOrder(rec, r.list[K])
  <2>1. CASE K = L
    <3>1. /\ m.list[L] \in Seq(Page) /\ IsInjective(m.list[L])
          /\ g \in Range(m.list[L]) /\ InOrder(rec, m.list[L])
      BY DEF Agree, ListAgrees, Machines, Ordered
    <3>2. r.list[L] = RemoveAt(m.list[L], Pos(m.list[L], g))
      BY DEF HasLeft
    <3> QED BY <2>1, <3>1, <3>2, RemoveInOrder
  <2>2. CASE K # L
    BY <2>2 DEF HasLeft, Ordered
  <2> QED BY <2>1, <2>2
<1>2. \A x, y \in Page : <<r.type[x], r.type[y]>> \in Half => Before(rec, x, y)
  BY DEF HasLeft, Ordered, Half
<1> QED BY <1>1, <1>2 DEF Ordered

(* Demoting a page keeps the order.                                        *)
LEMMA RoomOrdered ==
  ASSUME NEW m, Agree(m), NEW rec, Ordered(m, rec), NEW r, MakesRoom(m, r)
  PROVE  Ordered(r, rec)
<1>1. PICK h \in Half : /\ m.size[h[1]] > 0
                        /\ m.type[Last(m.list[h[1]])] = h[1]
                        /\ HasDemoted(m, r, h[1], h[2])
  BY DEF MakesRoom
<1> DEFINE L == h[1]
           G == h[2]
           q == Last(m.list[L])
<1>2. /\ L \in List /\ G \in List /\ L # G /\ <<L, G>> \in Half
      /\ \A K : <<L, K>> \in Half => K = G
      /\ \A K : <<K, G>> \in Half => K = L
      /\ \A K : <<K, L>> \notin Half /\ <<G, K>> \notin Half
  BY DEF Half, List, Cached, Ghost
<1>3. m.size[L] > 0 /\ m.type[q] = L /\ HasDemoted(m, r, L, G)
  BY <1>1
<1> HIDE DEF L, G
<1>4. q \in Page
  BY <1>2, <1>3, LastFacts
<1>5. \A K \in List : /\ m.list[K] \in Seq(Page) /\ IsInjective(m.list[K])
                      /\ Range(m.list[K]) = {x \in Page : m.type[x] = K}
                      /\ InOrder(rec, m.list[K])
  BY DEF Agree, ListAgrees, Machines, Ordered
<1>6. \A K \in List :
        r.list[K] = IF K = L THEN RemoveAt(m.list[K], Pos(m.list[K], q))
                    ELSE IF K = G THEN <<q>> \o m.list[K] ELSE m.list[K]
  BY <1>3 DEF HasDemoted
<1>7. \A x \in Page : r.type[x] = IF x = q THEN G ELSE m.type[x]
  BY <1>3 DEF HasDemoted
<1>8. \A x \in Page : m.type[x] = L /\ x # q => Before(rec, x, q)
  BY <1>2, <1>3, LastIsOldest
<1> HIDE DEF q
<1>9. \A x, y \in Page : <<m.type[x], m.type[y]>> \in Half => Before(rec, x, y)
  BY DEF Ordered
<1>10. ASSUME NEW K \in List PROVE InOrder(rec, r.list[K])
  <2>1. CASE K = L
    <3>1. q \in Range(m.list[L])
      BY <1>2, <1>3, <1>4, <1>5 DEF q
    <3>2. InOrder(rec, RemoveAt(m.list[L], Pos(m.list[L], q)))
      BY <1>2, <1>5, <3>1, RemoveInOrder
    <3> QED BY <1>2, <1>6, <2>1, <3>2
  <2>2. CASE K = G
    <3>1. \A x \in Range(m.list[G]) : Before(rec, q, x)
      BY <1>2, <1>3, <1>4, <1>5, <1>9 DEF q
    <3>2. InOrder(rec, <<q>> \o m.list[G])
      BY <1>2, <1>4, <1>5, <3>1, ConsInOrder
    <3> QED BY <1>2, <1>6, <2>2, <3>2
  <2>3. CASE K # L /\ K # G
    BY <1>5, <1>6, <2>3
  <2> QED BY <2>1, <2>2, <2>3
<1>11. ASSUME NEW x \in Page, NEW y \in Page, <<r.type[x], r.type[y]>> \in Half
       PROVE  Before(rec, x, y)
  <2>1. CASE x = q
    BY <1>2, <1>7, <1>11, <2>1
  <2>2. CASE x # q /\ y = q
    <3>1. m.type[x] = L
      BY <1>2, <1>7, <1>11, <2>2
    <3> QED BY <1>8, <2>2, <3>1
  <2>3. CASE x # q /\ y # q
    BY <1>7, <1>9, <1>11, <2>3
  <2> QED BY <2>1, <2>2, <2>3
<1> QED BY <1>10, <1>11 DEF Ordered

(* The order of the pages of a machine depends on the history only through *)
(* the order of those pages.                                               *)
LEMMA SameOrder ==
  ASSUME NEW m, Agree(m), NEW rec, Ordered(m, rec), NEW new,
         \A x, y \in Page : /\ m.type[x] # "NO" /\ m.type[y] # "NO"
                            /\ Before(rec, x, y)
                            => Before(new, x, y)
  PROVE  Ordered(m, new)
<1>1. "NO" \notin List /\ \A h \in Half : h[1] \in List /\ h[2] \in List
  BY DEF Half, List, Cached, Ghost
<1>2. ASSUME NEW K \in List PROVE InOrder(new, m.list[K])
  <2> DEFINE s == m.list[K]
  <2>1. /\ s \in Seq(Page) /\ InOrder(rec, s)
        /\ Range(s) = {x \in Page : m.type[x] = K}
    BY DEF Agree, ListAgrees, Machines, Ordered
  <2> HIDE DEF s
  <2>2. \A i \in 1 .. Len(s) : s[i] \in Page /\ m.type[s[i]] # "NO"
    BY <1>1, <2>1 DEF Range
  <2>3. InOrder(new, s)
    BY <2>1, <2>2 DEF InOrder
  <2> QED BY <2>3 DEF s
<1>3. ASSUME NEW x \in Page, NEW y \in Page, <<m.type[x], m.type[y]>> \in Half
      PROVE  Before(new, x, y)
  <2>1. m.type[x] # "NO" /\ m.type[y] # "NO"
    BY <1>1, <1>3 DEF Half
  <2> QED BY <1>3, <2>1 DEF Ordered
<1> QED BY <1>2, <1>3 DEF Ordered

(* A page that comes before all others may enter at the head of a cached   *)
(* list.                                                                   *)
LEMMA EnteredOrdered ==
  ASSUME NEW m, Agree(m), NEW rec, Ordered(m, rec), NEW r,
         NEW T \in Cached, NEW g \in Page, m.type[g] = "NO",
         HasEntered(m, r, T, g),
         \A x \in Page : m.type[x] # "NO" => Before(rec, g, x)
  PROVE  Ordered(r, rec)
<1>1. "NO" \notin List /\ T \in List /\ \A K : <<K, T>> \notin Half
  BY DEF Half, List, Cached, Ghost
<1>2. ASSUME NEW K \in List PROVE InOrder(rec, r.list[K])
  <2>1. /\ m.list[K] \in Seq(Page) /\ InOrder(rec, m.list[K])
        /\ Range(m.list[K]) = {x \in Page : m.type[x] = K}
    BY DEF Agree, ListAgrees, Machines, Ordered
  <2>2. CASE K = T
    <3>1. InOrder(rec, <<g>> \o m.list[K])
      BY <1>1, <2>1, ConsInOrder
    <3> QED BY <2>2, <3>1 DEF HasEntered
  <2>3. CASE K # T
    BY <2>1, <2>3 DEF HasEntered
  <2> QED BY <2>2, <2>3
<1>3. ASSUME NEW x \in Page, NEW y \in Page, <<r.type[x], r.type[y]>> \in Half
      PROVE  Before(rec, x, y)
  <2>1. \A q \in Page : r.type[q] = IF q = g THEN T ELSE m.type[q]
    BY DEF HasEntered
  <2>2. y # g /\ m.type[y] # "NO"
    BY <1>1, <1>3, <2>1 DEF Half
  <2>3. CASE x = g
    BY <2>2, <2>3
  <2>4. CASE x # g
    BY <1>3, <2>1, <2>2, <2>4 DEF Ordered
  <2> QED BY <2>3, <2>4
<1> QED BY <1>2, <1>3 DEF Ordered

(* The inductive invariant of the engine beside its history.               *)
HInv == /\ IInv
        /\ recent \in Seq(Page) /\ IsInjective(recent)
        /\ \A x \in Page : block_type[x] # "NO" => x \in Range(recent)
        /\ Ordered(Machine, recent)
        /\ DirectoryCoversLRU

(* A page enters T1 or T2 of a machine d from which only g, or a page too  *)
(* old for an LRU cache, is gone.                                          *)
LEMMA EnterKeepsHistory ==
  ASSUME HInv, NEW g \in Page, NEW T \in Cached, NEW d, NEW a,
         Agree(d), Ordered(d, recent), d.type[g] = "NO",
         HasEntered(d, a, T, g), Install(a),
         recent' = MoveToFront(recent, g),
         \A x \in Page : d.type[x] # "NO" => block_type[x] # "NO",
         \A x \in Page : /\ x # g /\ d.type[x] = "NO" /\ block_type[x] # "NO"
                         => Pos(recent', x) > mCacheMaxLimit,
         IInv'
  PROVE  HInv'
<1> DEFINE new == MoveToFront(recent, g)
<1>1. /\ recent \in Seq(Page) /\ IsInjective(recent)
      /\ \A x \in Page : block_type[x] # "NO" => x \in Range(recent)
  BY DEF HInv
<1>2. /\ new \in Seq(Page) /\ IsInjective(new)
      /\ Range(new) = Range(recent) \cup {g}
      /\ Pos(new, g) = 1
      /\ \A x \in Range(recent) \ {g} :
           Pos(new, x) =
             IF g \in Range(recent) /\ Pos(recent, g) < Pos(recent, x)
             THEN Pos(recent, x) ELSE Pos(recent, x) + 1
  BY <1>1, FrontFacts
<1> HIDE DEF new
<1>3. recent' = new
  BY DEF new
<1>4. "NO" \notin List /\ T \in List
  BY DEF List, Cached, Ghost
<1>5. \A x \in Page : a.type[x] = IF x = g THEN T ELSE d.type[x]
  BY DEF HasEntered
<1>6. \A x \in Range(recent) : Pos(recent, x) \in Nat /\ Pos(recent, x) > 0
  BY <1>1, PosFacts
<1>7. \A x \in Page : a.type[x] # "NO" => x \in Range(new)
  BY <1>1, <1>2, <1>5
<1>8. Ordered(a, new)
  <2>1. ASSUME NEW x \in Page, NEW y \in Page, d.type[x] # "NO",
               d.type[y] # "NO", Before(recent, x, y)
        PROVE  Before(new, x, y)
    <3>1. x \in Range(recent) \ {g} /\ y \in Range(recent) \ {g}
      BY <1>1, <2>1
    <3> QED BY <1>1, <2>1, <3>1, FrontOrder DEF new
  <2>2. Ordered(d, new)
    BY <2>1, SameOrder
  <2>3. ASSUME NEW x \in Page, d.type[x] # "NO"
        PROVE  Before(new, g, x)
    <3>1. x \in Range(recent) \ {g}
      BY <1>1, <2>3
    <3> QED BY <1>1, <3>1, FrontOrder DEF new
  <2> QED BY <2>2, <2>3, EnteredOrdered
<1>9. ASSUME NEW i \in 1 .. Len(new), i <= mCacheMaxLimit
      PROVE  a.type[new[i]] # "NO"
  <2> DEFINE x == new[i]
  <2>1. x \in Page /\ x \in Range(new) /\ Pos(new, x) = i
    BY <1>2, PosUnique DEF Range
  <2> HIDE DEF x
  <2>2. CASE x = g
    BY <1>4, <1>5, <2>1, <2>2 DEF x
  <2>3. CASE x # g
    <3>1. x \in Range(recent) \ {g}
      BY <1>2, <2>1, <2>3
    <3>2. Pos(recent, x) <= i
      BY <1>2, <1>6, <2>1, <3>1
    <3>3. Pos(recent, x) \in 1 .. Len(recent) /\ recent[Pos(recent, x)] = x
      BY <1>1, <3>1, PosFacts
    <3>4. block_type[x] # "NO"
      BY <1>9, <3>2, <3>3, ConstantsAssumption DEF HInv, DirectoryCoversLRU
    <3>5. d.type[x] # "NO"
      BY <1>3, <1>9, <2>1, <2>3, <3>4, ConstantsAssumption
    <3> QED BY <1>5, <2>1, <2>3, <3>5 DEF x
  <2> QED BY <2>2, <2>3
<1>10. block_type' = a.type /\ list' = a.list
  BY DEF Install
<1>11. DirectoryCoversLRU'
  BY <1>3, <1>9, <1>10 DEF DirectoryCoversLRU
<1>12. Ordered(Machine, recent)'
  <2>1. Machine'.list = a.list /\ Machine'.type = a.type
    BY <1>10 DEF Machine
  <2> QED BY <1>3, <1>8, <2>1 DEF Ordered
<1> QED BY <1>2, <1>3, <1>7, <1>10, <1>11, <1>12 DEF HInv

(* A half is as large as the sizes of its two lists say.                   *)
LEMMA HalfCardinality ==
  ASSUME IInv, NEW C \in List, NEW G \in List, C # G
  PROVE  LET H == {x \in Page : block_type[x] \in {C, G}} IN
           IsFiniteSet(H) /\ Cardinality(H) = size[C] + size[G]
<1> DEFINE A == Range(list[C])
           B == Range(list[G])
           H == {x \in Page : block_type[x] \in {C, G}}
<1>1. /\ list[C] \in Seq(Page) /\ IsInjective(list[C])
      /\ list[G] \in Seq(Page) /\ IsInjective(list[G])
      /\ size[C] = Len(list[C]) /\ size[G] = Len(list[G])
      /\ A = {x \in Page : block_type[x] = C}
      /\ B = {x \in Page : block_type[x] = G}
  BY DEF IInv, ListsAgree, TypeOK
<1>2. H = A \cup B /\ A \cap B = {}
  BY <1>1
<1>3. /\ IsFiniteSet(A) /\ Cardinality(A) = size[C]
      /\ IsFiniteSet(B) /\ Cardinality(B) = size[G]
  BY <1>1, ListCardinality
<1> HIDE DEF A, B, H
<1>4. /\ IsFiniteSet(A \cup B)
      /\ Cardinality(A \cup B) = size[C] + size[G] - Cardinality({})
  BY <1>2, <1>3, FS_Union
<1>5. size[C] + size[G] - 0 = size[C] + size[G]
  BY DEF IInv, TypeOK
<1> QED BY <1>2, <1>4, <1>5, FS_EmptySet DEF H

(* A page that comes after n others in a list is further back than n.      *)
LEMMA BehindMany ==
  ASSUME NEW A, NEW s \in Seq(A), NEW q \in Range(s), NEW B \in SUBSET Range(s),
         \A x \in B : Before(s, x, q)
  PROVE  IsFiniteSet(B) /\ Cardinality(B) < Pos(s, q)
<1> DEFINE n == Pos(s, q) - 1
           f == [x \in B |-> Pos(s, x)]
<1>1. \A x \in Range(s) : Pos(s, x) \in 1 .. Len(s) /\ s[Pos(s, x)] = x
  BY PosFacts
<1>2. n \in Nat /\ Pos(s, q) = n + 1
  BY <1>1
<1>3. \A x \in B : Pos(s, x) \in 1 .. n
  BY <1>1 DEF Before
<1> HIDE DEF n
<1>4. f \in [B -> 1 .. n]
  BY <1>3
<1>5. \A x, y \in B : f[x] = f[y] => x = y
  BY <1>1
<1>6. f \in Injection(B, 1 .. n)
  <2> HIDE DEF f
  <2> QED BY <1>4, <1>5 DEF Injection, IsInjective
<1> HIDE DEF f
<1>7. IsFiniteSet(1 .. n) /\ Cardinality(1 .. n) = n
  <2>1. /\ IsFiniteSet(1 .. n)
        /\ Cardinality(1 .. n) = IF 1 > n THEN 0 ELSE n - 1 + 1
    BY <1>2, FS_Interval
  <2> QED BY <1>2, <2>1
<1>8. IsFiniteSet(B) /\ Cardinality(B) <= n
  BY <1>6, <1>7, FS_Injection
<1>9. Cardinality(B) \in Nat
  BY <1>8, FS_CardinalityType
<1> QED BY <1>2, <1>8, <1>9

(* The page a trim forgets is then too old for an LRU cache: every other   *)
(* page of its half, and the page just referenced, came later.             *)
LEMMA ForgottenIsOld ==
  ASSUME HInv, NEW t, NEW L \in {"T1", "B1", "B2"}, Trims(Machine, t, L),
         NEW g \in Page, block_type[g] = "NO"
  PROVE  Pos(MoveToFront(recent, g), Last(list[L])) > mCacheMaxLimit
<1> DEFINE q == Last(list[L])
           C == IF L = "B2" THEN "T2" ELSE "T1"
           G == IF L = "B2" THEN "B2" ELSE "B1"
           H == {x \in Page : block_type[x] \in {C, G}}
           new == MoveToFront(recent, g)
           B == (H \ {q}) \cup {g}
<1>1. /\ Machine.list = list /\ Machine.size = size /\ Machine.type = block_type
      /\ Agree(Machine) /\ IInv /\ Ordered(Machine, recent)
      /\ recent \in Seq(Page) /\ IsInjective(recent)
      /\ \A x \in Page : block_type[x] # "NO" => x \in Range(recent)
  BY MachineFacts DEF HInv
<1>2. /\ C \in List /\ G \in List /\ C # G /\ L \in List /\ L \in {C, G}
      /\ <<C, G>> \in Half /\ C # "NO" /\ G # "NO"
      /\ {"T1", "B1"} \subseteq List
  BY DEF List, Cached, Ghost, Half
<1>3. size[L] > 0 /\ block_type[q] = L /\ q \in Page
  BY <1>1, <1>2, LastFacts DEF Trims
<1>4. size[C] + size[G] >= mCacheMaxLimit
  BY <1>1 DEF Trims, HalfSize
<1>5. ASSUME NEW x \in H, x # q PROVE Before(recent, x, q)
  <2>1. x \in Page /\ block_type[x] \in {C, G}
    OBVIOUS
  <2>2. CASE block_type[x] = L
    BY <1>1, <1>2, <1>3, <1>5, <2>1, <2>2, LastIsOldest
  <2>3. CASE L = G /\ block_type[x] = C
    BY <1>1, <1>2, <1>3, <2>1, <2>3 DEF Ordered
  <2>4. CASE L = C /\ block_type[x] = G
    <3>1. L = "T1" /\ G = "B1" /\ size["B1"] = 0
      BY <1>1, <2>4 DEF Trims
    <3>2. x \in Range(list["B1"]) /\ list["B1"] \in Seq(Page)
          /\ size["B1"] = Len(list["B1"])
      BY <1>1, <1>2, <2>1, <2>4, <3>1 DEF IInv, ListsAgree, TypeOK
    <3> QED BY <3>1, <3>2 DEF Range
  <2> QED BY <1>2, <2>1, <2>2, <2>3, <2>4
<1>6. IsFiniteSet(H) /\ Cardinality(H) = size[C] + size[G]
  <2> HIDE DEF C, G
  <2> QED BY <1>1, <1>2, HalfCardinality
<1>7. q \in H /\ g \notin H /\ H \subseteq Range(recent) \ {g}
  BY <1>1, <1>2, <1>3
<1> HIDE DEF q, C, G, H
<1>8. new \in Seq(Page) /\ Range(new) = Range(recent) \cup {g}
  BY <1>1, FrontFacts
<1>9. ASSUME NEW x \in H, x # q PROVE Before(new, x, q)
  BY <1>1, <1>5, <1>7, <1>9, FrontOrder
<1>10. Before(new, g, q)
  BY <1>1, <1>7, FrontOrder
<1> HIDE DEF new
<1>12. B \subseteq Range(new) /\ q \in Range(new)
  BY <1>7, <1>8
<1>13. \A x \in B : Before(new, x, q)
  BY <1>9, <1>10
<1>14. Cardinality(B) = size[C] + size[G]
  <2>1. /\ IsFiniteSet(H \ {q})
        /\ Cardinality(H \ {q}) = Cardinality(H) - 1
    BY <1>6, <1>7, FS_RemoveElement
  <2>2. Cardinality((H \ {q}) \cup {g}) = Cardinality(H \ {q}) + 1
    BY <1>7, <2>1, FS_AddElement
  <2>3. size[C] \in Nat /\ size[G] \in Nat
    BY <1>1, <1>2 DEF IInv, TypeOK
  <2> QED BY <1>6, <2>1, <2>2, <2>3
<1> HIDE DEF B
<1>15. Cardinality(B) < Pos(new, q)
  BY <1>8, <1>12, <1>13, BehindMany
<1>16. /\ size[C] \in Nat /\ size[G] \in Nat /\ Pos(new, q) \in Nat
       /\ mCacheMaxLimit \in Nat
  <2>1. size[C] \in Nat /\ size[G] \in Nat
    BY <1>1, <1>2 DEF IInv, TypeOK
  <2>2. Pos(new, q) \in Nat
    BY <1>8, <1>12, PosFacts
  <2>3. mCacheMaxLimit \in Nat
    BY <1>1, ConstantsAssumption DEF IInv, TypeOK
  <2> QED BY <2>1, <2>2, <2>3
<1>17. Pos(new, q) > mCacheMaxLimit
  BY <1>4, <1>14, <1>15, <1>16
<1> QED BY <1>17 DEF new, q

(* What a step starts from, in terms of the machine.                       *)
LEMMA HistoryFacts ==
  ASSUME HInv
  PROVE  /\ IInv /\ Agree(Machine) /\ Ordered(Machine, recent)
         /\ Machine.type = block_type /\ Machine.list = list
BY MachineFacts DEF HInv

(* A hit keeps the history's invariant.                                    *)
LEMMA HitHistory ==
  ASSUME HInv, NEW g \in Page, StepHit(g), recent' = MoveToFront(recent, g),
         IInv'
  PROVE  HInv'
<1>1. PICK d \in Machines, a \in Machines :
        /\ HasLeft(Machine, d, block_type[g], g)
        /\ HasEntered(d, a, "T2", g) /\ Install(a)
  BY DEF StepHit
<1>2. block_type[g] \in List /\ "T2" \in Cached
  BY DEF StepHit, List, Cached
<1>3. Ordered(d, recent) /\ Agree(d)
  BY <1>1, <1>2, HistoryFacts, LeftOrdered DEF HasLeft
<1>4. \A x \in Page : d.type[x] = IF x = g THEN "NO" ELSE block_type[x]
  BY <1>1, HistoryFacts DEF HasLeft
<1>5. /\ d.type[g] = "NO"
      /\ \A x \in Page : d.type[x] # "NO" => block_type[x] # "NO"
      /\ \A x \in Page : /\ x # g /\ d.type[x] = "NO" /\ block_type[x] # "NO"
                         => Pos(recent', x) > mCacheMaxLimit
  BY <1>4
<1> QED BY <1>1, <1>2, <1>3, <1>5, EnterKeepsHistory

(* Freeing a frame drops no page from the directory.                       *)
LEMMA RoomKeepsPages ==
  ASSUME NEW m, Agree(m), NEW r, MakesRoom(m, r)
  PROVE  Agree(r) /\ \A x \in Page : r.type[x] = "NO" <=> m.type[x] = "NO"
<1>1. PICK h \in Half : /\ m.type[Last(m.list[h[1]])] = h[1]
                        /\ HasDemoted(m, r, h[1], h[2])
  BY DEF MakesRoom
<1>2. h[1] # "NO" /\ h[2] # "NO"
  BY DEF Half
<1> QED BY <1>1, <1>2 DEF HasDemoted

(* A ghost hit keeps the history's invariant.                              *)
LEMMA GhostHistory ==
  ASSUME HInv, NEW g \in Page, StepGhost(g), recent' = MoveToFront(recent, g),
         IInv'
  PROVE  HInv'
<1>1. PICK r \in Machines, d \in Machines, a \in Machines :
        /\ MakesRoom(Machine, r) /\ HasLeft(r, d, block_type[g], g)
        /\ HasEntered(d, a, "T2", g) /\ Install(a)
  BY DEF StepGhost
<1>2. /\ block_type[g] \in List /\ block_type[g] \notin Cached
      /\ "T2" \in Cached /\ "NO" \notin List
  BY DEF StepGhost, List, Cached, Ghost
<1>3. /\ Agree(r) /\ Ordered(r, recent) /\ r.type[g] = block_type[g]
      /\ \A x \in Page : r.type[x] = "NO" <=> block_type[x] = "NO"
  BY <1>1, <1>2, HistoryFacts, RoomOrdered, RoomKeepsPages, RoomMade
<1>4. Ordered(d, recent) /\ Agree(d)
  BY <1>1, <1>2, <1>3, LeftOrdered DEF HasLeft
<1>5. \A x \in Page : d.type[x] = IF x = g THEN "NO" ELSE r.type[x]
  BY <1>1 DEF HasLeft
<1>6. /\ d.type[g] = "NO"
      /\ \A x \in Page : d.type[x] # "NO" => block_type[x] # "NO"
      /\ \A x \in Page : /\ x # g /\ d.type[x] = "NO" /\ block_type[x] # "NO"
                         => Pos(recent', x) > mCacheMaxLimit
  BY <1>3, <1>5
<1> QED BY <1>1, <1>2, <1>4, <1>6, EnterKeepsHistory

(* Forgetting the oldest page of a list keeps the order.                   *)
LEMMA TrimHistory ==
  ASSUME HInv, NEW t, NEW L \in {"T1", "B1", "B2"}, Trims(Machine, t, L)
  PROVE  /\ Agree(t) /\ Ordered(t, recent)
         /\ \A x \in Page :
              t.type[x] = IF x = Last(list[L]) THEN "NO" ELSE block_type[x]
<1>1. L \in List
  BY DEF List, Cached, Ghost
<1>2. /\ HasLeft(Machine, t, L, Last(Machine.list[L]))
      /\ Machine.type[Last(Machine.list[L])] = L
      /\ Last(Machine.list[L]) \in Page
  BY <1>1, HistoryFacts, LastFacts DEF Trims
<1>3. Ordered(t, recent) /\ Agree(t)
  BY <1>1, <1>2, HistoryFacts, LeftOrdered DEF HasLeft
<1>4. \A x \in Page :
        t.type[x] = IF x = Last(list[L]) THEN "NO" ELSE block_type[x]
  BY <1>2, HistoryFacts DEF HasLeft
<1> QED BY <1>3, <1>4

(* A reference to a new page keeps the history's invariant.                *)
LEMMA NewHistory ==
  ASSUME HInv, NEW g \in Page, StepNew(g), recent' = MoveToFront(recent, g),
         IInv'
  PROVE  HInv'
<1>1. PICK room \in Machines, a \in Machines :
        /\ room.type[g] = "NO" /\ HasRoom(room)
        /\ HasEntered(room, a, "T1", g) /\ Install(a)
  BY DEF StepNew
<1>2. block_type[g] = "NO" /\ "T1" \in Cached
  BY DEF StepNew, Cached
<1>3. ASSUME Agree(room), Ordered(room, recent),
             \A x \in Page : room.type[x] # "NO" => block_type[x] # "NO",
             \A x \in Page :
               /\ x # g /\ room.type[x] = "NO" /\ block_type[x] # "NO"
               => Pos(recent', x) > mCacheMaxLimit
      PROVE  HInv'
  BY <1>1, <1>2, <1>3, EnterKeepsHistory
<1>4. CASE room = Machine
  BY <1>3, <1>4, HistoryFacts
<1>5. CASE Trims(Machine, room, "T1")
  <2>1. /\ Agree(room) /\ Ordered(room, recent)
        /\ \A x \in Page :
             room.type[x] = IF x = Last(list["T1"]) THEN "NO" ELSE block_type[x]
    BY <1>5, TrimHistory
  <2>2. Pos(recent', Last(list["T1"])) > mCacheMaxLimit
    BY <1>2, <1>5, ForgottenIsOld
  <2> QED BY <1>3, <2>1, <2>2
<1>6. CASE MakesRoom(Machine, room)
  <2>1. /\ Agree(room) /\ Ordered(room, recent)
        /\ \A x \in Page : room.type[x] = "NO" <=> block_type[x] = "NO"
    BY <1>6, HistoryFacts, RoomOrdered, RoomKeepsPages
  <2> QED BY <1>3, <2>1
<1>7. CASE \E t \in Machines, G \in Ghost : /\ Trims(Machine, t, G)
                                            /\ MakesRoom(t, room)
  <2>1. PICK t \in Machines, G \in Ghost : /\ Trims(Machine, t, G)
                                           /\ MakesRoom(t, room)
    BY <1>7
  <2>2. G \in {"T1", "B1", "B2"}
    BY DEF Ghost
  <2>3. /\ Agree(t) /\ Ordered(t, recent)
        /\ \A x \in Page :
             t.type[x] = IF x = Last(list[G]) THEN "NO" ELSE block_type[x]
    BY <2>1, <2>2, TrimHistory
  <2>4. Pos(recent', Last(list[G])) > mCacheMaxLimit
    BY <1>2, <2>1, <2>2, ForgottenIsOld
  <2>5. /\ Agree(room) /\ Ordered(room, recent)
        /\ \A x \in Page : room.type[x] = "NO" <=> t.type[x] = "NO"
    BY <2>1, <2>3, RoomOrdered, RoomKeepsPages
  <2>6. \A x \in Page : room.type[x] # "NO" => block_type[x] # "NO"
    BY <2>3, <2>5
  <2>7. \A x \in Page : /\ room.type[x] = "NO" /\ block_type[x] # "NO"
                        => Pos(recent', x) > mCacheMaxLimit
    BY <2>3, <2>4, <2>5
  <2> QED BY <1>3, <2>5, <2>6, <2>7
<1> QED BY <1>1, <1>4, <1>5, <1>6, <1>7 DEF HasRoom

(* The first state satisfies the history's invariant.                      *)
LEMMA InitHistory == InitH => HInv
<1> SUFFICES ASSUME InitH PROVE HInv
  OBVIOUS
<1>1. IInv
  BY InitInv DEF InitH
<1>2. /\ recent = <<>> /\ list = [L \in List |-> <<>>]
      /\ block_type = [g \in Page |-> "NO"]
  BY DEF InitH, Init
<1>3. recent \in Seq(Page) /\ IsInjective(recent)
  BY <1>2 DEF IsInjective
<1>4. Machine.list = list /\ Machine.type = block_type
  BY DEF Machine
<1>5. \A h \in Half : h[1] # "NO"
  BY DEF Half
<1>6. Ordered(Machine, recent)
  <2>1. \A L \in List : InOrder(recent, list[L])
    BY <1>2 DEF InOrder
  <2>2. \A x, y \in Page : <<block_type[x], block_type[y]>> \notin Half
    BY <1>2 DEF Half
  <2> QED BY <1>4, <2>1, <2>2 DEF Ordered
<1>7. DirectoryCoversLRU
  BY <1>2 DEF DirectoryCoversLRU
<1> QED BY <1>1, <1>2, <1>3, <1>6, <1>7 DEF HInv

(* Every step keeps the history's invariant.                               *)
LEMMA NextHistory == HInv /\ [NextH]_<<vars, recent>> => HInv'
<1> SUFFICES ASSUME HInv, [NextH]_<<vars, recent>> PROVE HInv'
  OBVIOUS
<1> USE HistoryFacts
<1>1. ASSUME NEW g \in Page, CaseI(g), NextH PROVE HInv'
  <2>1. recent' = MoveToFront(recent, g)
    BY <1>1 DEF NextH, CaseI, Refer
  <2> QED BY <1>1, <2>1, CaseIInv, HitHistory
<1>2. ASSUME NEW g \in Page, CaseII(g), NextH PROVE HInv'
  <2>1. recent' = MoveToFront(recent, g)
    BY <1>2 DEF NextH, CaseII, GhostHit, Fault, Refer
  <2> QED BY <1>2, <2>1, CaseIIInv, GhostHistory
<1>3. ASSUME NEW g \in Page, CaseIII(g), NextH PROVE HInv'
  <2>1. recent' = MoveToFront(recent, g)
    BY <1>3 DEF NextH, CaseIII, GhostHit, Fault, Refer
  <2> QED BY <1>3, <2>1, CaseIIIInv, GhostHistory
<1>4. ASSUME NEW g \in Page, CaseIV_A(g), NextH PROVE HInv'
  <2>1. recent' = MoveToFront(recent, g)
    BY <1>4 DEF NextH, CaseIV_A, NewPage, Fault, Refer
  <2> QED BY <1>4, <2>1, CaseIV_AInv, NewHistory
<1>5. ASSUME NEW g \in Page, CaseIV_B(g), NextH PROVE HInv'
  <2>1. recent' = MoveToFront(recent, g)
    BY <1>5 DEF NextH, CaseIV_B, NewPage, Fault, Refer
  <2> QED BY <1>5, <2>1, CaseIV_BInv, NewHistory
<1>6. CASE UNCHANGED <<vars, recent>>
  <2>1. IInv'
    BY <1>6, NextInv
  <2>2. /\ recent' = recent /\ block_type' = block_type /\ list' = list
        /\ Machine'.list = Machine.list /\ Machine'.type = Machine.type
    BY <1>6 DEF vars, Machine
  <2>3. Ordered(Machine, recent)'
    BY <2>2 DEF HInv, Ordered
  <2> QED BY <2>1, <2>2, <2>3 DEF HInv, DirectoryCoversLRU
<1>7. ASSUME NextH PROVE HInv'
  <2>1. PICK g \in Page : \/ CaseI(g) \/ CaseII(g) \/ CaseIII(g)
                          \/ CaseIV_A(g) \/ CaseIV_B(g)
    BY <1>7 DEF NextH, Next
  <2> QED BY <1>1, <1>2, <1>3, <1>4, <1>5, <1>7, <2>1
<1> QED BY <1>6, <1>7

(* The order of a machine's lists is the order of its halves.              *)
LEMMA OrderedHalves == HInv => HalvesInRecencyOrder
<1> SUFFICES ASSUME HInv PROVE HalvesInRecencyOrder
  OBVIOUS
<1>1. ASSUME NEW h \in Half,
             NEW i \in 1 .. Len(list[h[1]] \o list[h[2]]),
             NEW j \in 1 .. Len(list[h[1]] \o list[h[2]]), i < j
      PROVE  Pos(recent, (list[h[1]] \o list[h[2]])[i])
               < Pos(recent, (list[h[1]] \o list[h[2]])[j])
  <2> DEFINE s == list[h[1]]
             t == list[h[2]]
             n == Len(s)
             u == s \o t
  <2>1. h[1] \in List /\ h[2] \in List
    BY DEF Half, List, Cached, Ghost
  <2>2. /\ s \in Seq(Page) /\ t \in Seq(Page)
        /\ InOrder(recent, s) /\ InOrder(recent, t)
        /\ Range(s) = {x \in Page : block_type[x] = h[1]}
        /\ Range(t) = {x \in Page : block_type[x] = h[2]}
    BY <2>1, HistoryFacts DEF Agree, ListAgrees, Machines, Ordered
  <2>3. \A x \in Range(s), y \in Range(t) : Before(recent, x, y)
    <3>1. h = <<h[1], h[2]>>
      BY DEF Half
    <3> QED BY <2>2, <3>1, HistoryFacts DEF Ordered
  <2> HIDE DEF s, t
  <2>4. /\ n \in Nat /\ Len(t) \in Nat /\ Len(u) = n + Len(t)
        /\ \A k \in 1 .. n : u[k] = s[k]
        /\ \A k \in 1 .. Len(t) : u[n + k] = t[k]
    BY <2>2
  <2> HIDE DEF n, u
  <2>5. /\ i \in 1 .. n + Len(t) /\ j \in 1 .. n + Len(t)
    BY <2>4 DEF s, t, u
  <2>6. CASE j <= n
    <3>1. u[i] = s[i] /\ u[j] = s[j] /\ i \in 1 .. Len(s) /\ j \in 1 .. Len(s)
      BY <1>1, <2>4, <2>5, <2>6 DEF n
    <3>2. Before(recent, s[i], s[j])
      BY <1>1, <2>2, <3>1 DEF InOrder
    <3> QED BY <3>1, <3>2 DEF Before, u, s, t
  <2>7. CASE i <= n /\ j > n
    <3> DEFINE k == j - n
    <3>1. k \in 1 .. Len(t) /\ n + k = j
      BY <2>4, <2>5, <2>7
    <3>2. u[i] = s[i] /\ u[j] = t[k] /\ i \in 1 .. Len(s)
      BY <2>4, <2>5, <2>7, <3>1 DEF n
    <3>3. s[i] \in Range(s) /\ t[k] \in Range(t)
      BY <2>2, <3>1, <3>2 DEF Range
    <3>4. Before(recent, s[i], t[k])
      BY <2>3, <3>3
    <3> QED BY <3>2, <3>4 DEF Before, u, s, t
  <2>8. CASE i > n
    <3> DEFINE k == j - n
               l == i - n
    <3>1. /\ k \in 1 .. Len(t) /\ n + k = j
          /\ l \in 1 .. Len(t) /\ n + l = i /\ l < k
      BY <1>1, <2>4, <2>5, <2>8
    <3>2. u[i] = t[l] /\ u[j] = t[k]
      BY <2>4, <3>1
    <3>3. Before(recent, t[l], t[k])
      BY <2>2, <3>1 DEF InOrder
    <3> QED BY <3>2, <3>3 DEF Before, u, s, t
  <2> QED BY <1>1, <2>4, <2>5, <2>6, <2>7, <2>8
<1>2. ASSUME NEW half \in {list["T1"] \o list["B1"], list["T2"] \o list["B2"]}
      PROVE  \E h \in Half : half = list[h[1]] \o list[h[2]]
  <2>1. <<"T1", "B1">> \in Half /\ <<"T2", "B2">> \in Half
    BY DEF Half
  <2> QED BY <2>1
<1> QED BY <1>1, <1>2 DEF HalvesInRecencyOrder

(* Whatever the trace, each half of the directory, ghosts after cached     *)
(* pages, is in order of recency (replace_arc.cc:345-357, 578-609).        *)
THEOREM HalvesAlwaysInOrder == SpecH => []HalvesInRecencyOrder
<1> QED BY InitHistory, NextHistory, OrderedHalves, PTL DEF SpecH

(* Whatever the trace, the directory remembers what LRU would cache: a     *)
(* page it forgets was last referenced before c others (replace_arc.cc:    *)
(* 613-643).                                                               *)
THEOREM DirectoryAlwaysCoversLRU == SpecH => []DirectoryCoversLRU
<1>1. HInv => DirectoryCoversLRU
  BY DEF HInv
<1> QED BY <1>1, InitHistory, NextHistory, PTL DEF SpecH
=============================================================================
