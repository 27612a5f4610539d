---------------------------- MODULE Pool_proofs ----------------------------
(***************************************************************************)
(* Proofs about the thread pool and about the batch mode that uses it.     *)
(*                                                                         *)
(* The first part is about PoolCore, for every number of workers and tasks *)
(* and any sequence of calls of the owner: the counters, the single        *)
(* execution of each task, the completeness of the shutdown's wait, and    *)
(* that no wake-up is lost.  It uses nothing of ReplaceJobs and cites      *)
(* ConstantsAssumption only.                                               *)
(*                                                                         *)
(* The second part is about ReplaceJobs, for every list of traces, memory  *)
(* sizes and methods and any number of workers: main and the jobs use the  *)
(* pool as PoolCore's specification says, no job goes unreported, reports  *)
(* do not mix, and one worker reports in the order of the memory sizes.    *)
(***************************************************************************)
EXTENDS ReplaceJobs, ListLemmas

-----------------------------------------------------------------------------
(* Counting the workers at some places.                                    *)

In(places, K) == {w \in Worker : places[w] \in K}

ActivePlaces == {"start", "running", "leaving", "throwing"}
MemberPlaces == WorkerAt \ {"none", "exiting"}

(* The workers at some places are finitely many.                           *)
LEMMA InFacts ==
  ASSUME NEW places, NEW K
  PROVE  IsFiniteSet(In(places, K)) /\ Cardinality(In(places, K)) \in Nat
<1>1. In(places, K) \subseteq Worker
  BY DEF In
<1> QED BY <1>1, ConstantsAssumption, FS_Subset, FS_CardinalityType

(* What a worker at place x adds to the count.                             *)
Weight(x, K) == IF x \in K THEN 1 ELSE 0

(* Worker w moves to place x.                                              *)
Moved(places, w, x, moved) ==
  /\ moved \in [Worker -> WorkerAt]
  /\ \A v \in Worker : moved[v] = IF v = w THEN x ELSE places[v]

(* What an assignment to one worker's place means.                         *)
LEMMA ExceptMoves ==
  ASSUME at \in [Worker -> WorkerAt], NEW w \in Worker, NEW x \in WorkerAt
  PROVE  Moved(at, w, x, [at EXCEPT ![w] = x])
BY DEF Moved

(* A move changes the count by the weights of the two places.              *)
LEMMA MoveCounts ==
  ASSUME NEW places, NEW w \in Worker, NEW x, NEW K,
         NEW moved, Moved(places, w, x, moved)
  PROVE  Cardinality(In(moved, K)) =
           Cardinality(In(places, K)) - Weight(places[w], K) + Weight(x, K)
<1> DEFINE A == In(places, K)
           B == In(moved, K)
<1>1. IsFiniteSet(A) /\ Cardinality(A) \in Nat
  BY InFacts
<1>2. /\ w \in A <=> places[w] \in K
      /\ B = IF x \in K THEN (A \ {w}) \cup {w} ELSE A \ {w}
  BY DEF In, Moved
<1> HIDE DEF A, B
<1>3. /\ IsFiniteSet(A \ {w})
      /\ Cardinality(A \ {w}) = Cardinality(A) - (IF w \in A THEN 1 ELSE 0)
  BY <1>1, FS_RemoveElement
<1>4. Cardinality((A \ {w}) \cup {w}) = Cardinality(A \ {w}) + 1
  BY <1>3, FS_AddElement
<1>5. Cardinality(A \ {w}) \in Nat
  BY <1>3, FS_CardinalityType
<1> QED BY <1>1, <1>2, <1>3, <1>4, <1>5 DEF A, B, Weight

(* Workers start.                                                          *)
LEMMA StartCounts ==
  ASSUME NEW places \in [Worker -> WorkerAt],
         NEW new \in SUBSET {w \in Worker : places[w] = "none"},
         NEW K, "start" \in K, "none" \notin K
  PROVE  Cardinality(In(Start(places, new), K)) =
           Cardinality(In(places, K)) + Cardinality(new)
<1>1. In(Start(places, new), K) = In(places, K) \cup new
  BY DEF In, Start
<1>2. In(places, K) \cap new = {}
  BY DEF In
<1>3. IsFiniteSet(new) /\ IsFiniteSet(In(places, K))
  <2>1. new \subseteq Worker
    OBVIOUS
  <2> QED BY <2>1, InFacts, FS_Subset, ConstantsAssumption
<1>4. Cardinality({}) = 0
  BY FS_EmptySet
<1>5. Cardinality(new) \in Nat /\ Cardinality(In(places, K)) \in Nat
  BY <1>3, FS_CardinalityType
<1>6. Cardinality(In(places, K) \cup new) =
        Cardinality(In(places, K)) + Cardinality(new)
          - Cardinality(In(places, K) \cap new)
  BY <1>3, FS_Union
<1>7. Cardinality(In(places, K) \cap new) = 0
  BY <1>2, <1>4
<1>8. Cardinality(In(places, K) \cup new) =
        Cardinality(In(places, K)) + Cardinality(new)
  BY <1>5, <1>6, <1>7
<1> QED BY <1>1, <1>8

(* resize starts finitely many workers.                                    *)
LEMMA StartedNat ==
  ASSUME NEW places, NEW count, NEW n, NEW new \in Started(places, count, n)
  PROVE  Cardinality(new) \in Nat
<1>1. new \subseteq Worker
  BY DEF Started
<1> QED BY <1>1, FS_Subset, FS_CardinalityType, ConstantsAssumption

(* Waking all sleepers changes no count that takes sleepers and woken ones *)
(* alike.                                                                  *)
LEMMA WakeCounts ==
  ASSUME at \in [Worker -> WorkerAt], NEW K, "waiting" \in K <=> "woken" \in K
  PROVE  In(AllWoken, K) = In(at, K)
BY DEF In, AllWoken

(* The workers and the active ones, by their places.                       *)
LEMMA CountersByPlace ==
  ASSUME at \in [Worker -> WorkerAt]
  PROVE  Members = In(at, MemberPlaces) /\ Active = In(at, ActivePlaces)
BY DEF Members, Active, In, MemberPlaces, ActivePlaces, WorkerAt

-----------------------------------------------------------------------------
(* The counters.                                                           *)

(* The counters of a state with the workers at these places.               *)
Counted(places, count, active) ==
  /\ count  = Cardinality(In(places, MemberPlaces))
  /\ active = Cardinality(In(places, ActivePlaces))

(* The property of the counters, by the places.                            *)
LEMMA CountersExactByPlace ==
  ASSUME at \in [Worker -> WorkerAt]
  PROVE  CountersExact <=> Counted(at, m_worker_count, m_active_worker_count)
BY CountersByPlace DEF CountersExact, Counted

(* The effect of a move of worker w to place x on both counters.           *)
Member(x)   == Weight(x, MemberPlaces)
IsActive(x) == Weight(x, ActivePlaces)

(* Exact counters stay exact when both change by the weights of the move.  *)
LEMMA CountedMove ==
  ASSUME NEW places, NEW w \in Worker, NEW x, NEW moved,
         Moved(places, w, x, moved),
         NEW count, NEW active, Counted(places, count, active)
  PROVE  Counted(moved, count - Member(places[w]) + Member(x),
                        active - IsActive(places[w]) + IsActive(x))
BY MoveCounts DEF Counted, Member, IsActive

(* The weights of every place in both counters.                            *)
LEMMA PlaceValues ==
  /\ Member("none") = 0 /\ IsActive("none") = 0
  /\ Member("start") = 1 /\ IsActive("start") = 1
  /\ Member("waiting") = 1 /\ IsActive("waiting") = 0
  /\ Member("woken") = 1 /\ IsActive("woken") = 0
  /\ Member("running") = 1 /\ IsActive("running") = 1
  /\ Member("leaving") = 1 /\ IsActive("leaving") = 1
  /\ Member("throwing") = 1 /\ IsActive("throwing") = 1
  /\ Member("exiting") = 0 /\ IsActive("exiting") = 0
BY DEF Member, IsActive, Weight, MemberPlaces, ActivePlaces, WorkerAt

(* Worker w moves from place x to place y, and the counters with it.       *)
LEMMA CountedStep ==
  ASSUME Counted(at, m_worker_count, m_active_worker_count),
         NEW w \in Worker, NEW x, NEW y, at[w] = x, Moved(at, w, y, at'),
         m_worker_count' = m_worker_count - Member(x) + Member(y),
         m_active_worker_count' = m_active_worker_count - IsActive(x) + IsActive(y)
  PROVE  /\ at' \in [Worker -> WorkerAt]
         /\ Counted(at', m_worker_count', m_active_worker_count')
BY CountedMove DEF Moved

(* Exact counters stay exact when workers start and both grow by their     *)
(* number.                                                                 *)
LEMMA CountedStart ==
  ASSUME NEW places \in [Worker -> WorkerAt],
         NEW new \in SUBSET {w \in Worker : places[w] = "none"},
         NEW count, NEW active, Counted(places, count, active)
  PROVE  /\ Start(places, new) \in [Worker -> WorkerAt]
         /\ Counted(Start(places, new), count + Cardinality(new),
                    active + Cardinality(new))
<1>1. Start(places, new) \in [Worker -> WorkerAt]
  BY DEF Start, WorkerAt
<1>2. /\ "start" \in MemberPlaces /\ "none" \notin MemberPlaces
      /\ "start" \in ActivePlaces /\ "none" \notin ActivePlaces
  BY DEF MemberPlaces, ActivePlaces, WorkerAt
<1> QED BY <1>1, <1>2, StartCounts DEF Counted

(* Exact counters stay exact when all sleepers are woken.                  *)
LEMMA CountedWake ==
  ASSUME at \in [Worker -> WorkerAt], NEW count, NEW active,
         Counted(at, count, active)
  PROVE  AllWoken \in [Worker -> WorkerAt] /\ Counted(AllWoken, count, active)
<1>1. AllWoken \in [Worker -> WorkerAt]
  BY DEF AllWoken, WorkerAt
<1>2. /\ "waiting" \in MemberPlaces <=> "woken" \in MemberPlaces
      /\ "waiting" \in ActivePlaces <=> "woken" \in ActivePlaces
  BY DEF MemberPlaces, ActivePlaces, WorkerAt
<1> QED BY <1>1, <1>2, WakeCounts DEF Counted

(* Exact counters are natural numbers.                                     *)
LEMMA CountedType ==
  ASSUME NEW places, NEW count, NEW active, Counted(places, count, active)
  PROVE  count \in Nat /\ active \in Nat
BY InFacts DEF Counted

(* Every step keeps the counters exact: one step per action.               *)
LEMMA CountStep ==
  ASSUME TypeOK, Counted(at, m_worker_count, m_active_worker_count), [Next]_vars
  PROVE  /\ at' \in [Worker -> WorkerAt]
         /\ Counted(at, m_worker_count, m_active_worker_count)'
<1> DEFINE Ok == /\ at' \in [Worker -> WorkerAt]
                 /\ Counted(at', m_worker_count', m_active_worker_count')
<1> USE DEF counts
<1>0. /\ at \in [Worker -> WorkerAt]
      /\ m_worker_count \in Nat /\ m_active_worker_count \in Nat
  BY DEF TypeOK
<1>1. ASSUME UNCHANGED <<at, counts>> PROVE Ok
  BY <1>0, <1>1 DEF Counted
<1>2. ASSUME NEW n \in 0 .. MaxWorkers, Resize(n) PROVE Ok
  <2>1. CASE m_worker_count <= n
    <3>1. PICK new \in Started(at, m_worker_count, n) :
            /\ at' = Start(at, new)
            /\ m_worker_count' = m_worker_count + Cardinality(new)
            /\ m_active_worker_count' = m_active_worker_count + Cardinality(new)
      BY <1>2, <2>1 DEF Resize
    <3>2. new \in SUBSET {w \in Worker : at[w] = "none"}
      BY DEF Started
    <3> QED BY <1>0, <3>1, <3>2, CountedStart
  <2>2. CASE ~(m_worker_count <= n)
    <3>1. at' = AllWoken /\ UNCHANGED <<m_worker_count, m_active_worker_count>>
      BY <1>2, <2>2 DEF Resize
    <3> QED BY <1>0, <3>1, CountedWake
  <2> QED BY <2>1, <2>2
<1>3. ASSUME NEW t \in Task, Schedule(t) PROVE Ok
  <2>1. CASE UNCHANGED at
    BY <1>1, <1>3, <2>1 DEF Schedule
  <2>2. CASE \E w \in Worker : at[w] = "waiting" /\ at' = [at EXCEPT ![w] = "woken"]
    <3>1. PICK w \in Worker : at[w] = "waiting" /\ at' = [at EXCEPT ![w] = "woken"]
      BY <2>2
    <3>2. UNCHANGED counts
      BY <1>3 DEF Schedule
    <3>a. at[w] = "waiting" /\ at' = [at EXCEPT ![w] = "woken"]
      BY <3>1, <3>2
    <3>b. Moved(at, w, "woken", at')
      BY <1>0, <3>a, ExceptMoves, Zenon DEF WorkerAt
    <3>c. /\ m_worker_count' = m_worker_count - Member("waiting") + Member("woken")
          /\ m_active_worker_count' =
               m_active_worker_count - IsActive("waiting") + IsActive("woken")
      BY <1>0, <3>1, <3>2, PlaceValues
    <3> QED BY <1>0, <3>a, <3>b, <3>c, CountedStep
  <2> QED BY <1>3, <2>1, <2>2 DEF Schedule, NotifyOne
<1>4. ASSUME TerminateAllWorkers PROVE Ok
  <2>1. at' = AllWoken /\ UNCHANGED <<m_worker_count, m_active_worker_count>>
    BY <1>4 DEF TerminateAllWorkers
  <2> QED BY <1>0, <2>1, CountedWake
<1>5. ASSUME NEW w \in Worker, Fetch(w) PROVE Ok
  <2>1. /\ at[w] \in {"woken", "start"} /\ at' = [at EXCEPT ![w] = "running"]
        /\ m_worker_count' = m_worker_count /\ m_active_worker_count' = Awake(w)
    BY <1>5 DEF Fetch
  <2>2. CASE at[w] = "woken"
    <3>a. at[w] = "woken" /\ at' = [at EXCEPT ![w] = "running"]
      BY <2>1, <2>2
    <3>b. Moved(at, w, "running", at')
      BY <1>0, <3>a, ExceptMoves, Zenon DEF WorkerAt
    <3>c. /\ m_worker_count' = m_worker_count - Member("woken") + Member("running")
          /\ m_active_worker_count' =
               m_active_worker_count - IsActive("woken") + IsActive("running")
      BY <1>0, <2>1, <2>2, PlaceValues DEF Awake
    <3> QED BY <1>0, <3>a, <3>b, <3>c, CountedStep
  <2>3. CASE at[w] = "start"
    <3>a. at[w] = "start" /\ at' = [at EXCEPT ![w] = "running"]
      BY <2>1, <2>3
    <3>b. Moved(at, w, "running", at')
      BY <1>0, <3>a, ExceptMoves, Zenon DEF WorkerAt
    <3>c. /\ m_worker_count' = m_worker_count - Member("start") + Member("running")
          /\ m_active_worker_count' =
               m_active_worker_count - IsActive("start") + IsActive("running")
      BY <1>0, <2>1, <2>3, PlaceValues DEF Awake
    <3> QED BY <1>0, <3>a, <3>b, <3>c, CountedStep
  <2> QED BY <2>1, <2>2, <2>3
<1>6. ASSUME NEW w \in Worker, Leave(w) PROVE Ok
  <2>1. /\ at[w] \in {"woken", "start"} /\ at' = [at EXCEPT ![w] = "leaving"]
        /\ m_worker_count' = m_worker_count /\ m_active_worker_count' = Awake(w)
    BY <1>6 DEF Leave
  <2>2. CASE at[w] = "woken"
    <3>a. at[w] = "woken" /\ at' = [at EXCEPT ![w] = "leaving"]
      BY <2>1, <2>2
    <3>b. Moved(at, w, "leaving", at')
      BY <1>0, <3>a, ExceptMoves, Zenon DEF WorkerAt
    <3>c. /\ m_worker_count' = m_worker_count - Member("woken") + Member("leaving")
          /\ m_active_worker_count' =
               m_active_worker_count - IsActive("woken") + IsActive("leaving")
      BY <1>0, <2>1, <2>2, PlaceValues DEF Awake
    <3> QED BY <1>0, <3>a, <3>b, <3>c, CountedStep
  <2>3. CASE at[w] = "start"
    <3>a. at[w] = "start" /\ at' = [at EXCEPT ![w] = "leaving"]
      BY <2>1, <2>3
    <3>b. Moved(at, w, "leaving", at')
      BY <1>0, <3>a, ExceptMoves, Zenon DEF WorkerAt
    <3>c. /\ m_worker_count' = m_worker_count - Member("start") + Member("leaving")
          /\ m_active_worker_count' =
               m_active_worker_count - IsActive("start") + IsActive("leaving")
      BY <1>0, <2>1, <2>3, PlaceValues DEF Awake
    <3> QED BY <1>0, <3>a, <3>b, <3>c, CountedStep
  <2> QED BY <2>1, <2>2, <2>3
<1>7. ASSUME NEW w \in Worker, Idle(w) PROVE Ok
  <2>1. /\ at[w] \in {"woken", "start"} /\ at' = [at EXCEPT ![w] = "waiting"]
        /\ m_worker_count' = m_worker_count
        /\ m_active_worker_count' = Awake(w) - 1
    BY <1>7 DEF Idle
  <2>2. CASE at[w] = "woken"
    <3>a. at[w] = "woken" /\ at' = [at EXCEPT ![w] = "waiting"]
      BY <2>1, <2>2
    <3>b. Moved(at, w, "waiting", at')
      BY <1>0, <3>a, ExceptMoves, Zenon DEF WorkerAt
    <3>c. /\ m_worker_count' = m_worker_count - Member("woken") + Member("waiting")
          /\ m_active_worker_count' =
               m_active_worker_count - IsActive("woken") + IsActive("waiting")
      BY <1>0, <2>1, <2>2, PlaceValues DEF Awake
    <3> QED BY <1>0, <3>a, <3>b, <3>c, CountedStep
  <2>3. CASE at[w] = "start"
    <3>a. at[w] = "start" /\ at' = [at EXCEPT ![w] = "waiting"]
      BY <2>1, <2>3
    <3>b. Moved(at, w, "waiting", at')
      BY <1>0, <3>a, ExceptMoves, Zenon DEF WorkerAt
    <3>c. /\ m_worker_count' = m_worker_count - Member("start") + Member("waiting")
          /\ m_active_worker_count' =
               m_active_worker_count - IsActive("start") + IsActive("waiting")
      BY <1>0, <2>1, <2>3, PlaceValues DEF Awake
    <3> QED BY <1>0, <3>a, <3>b, <3>c, CountedStep
  <2> QED BY <2>1, <2>2, <2>3
<1>8. ASSUME NEW w \in Worker, SpuriousWorker(w) PROVE Ok
  <2>1. /\ at[w] = "waiting" /\ at' = [at EXCEPT ![w] = "woken"]
        /\ UNCHANGED counts
    BY <1>8 DEF SpuriousWorker
  <2>a. at[w] = "waiting" /\ at' = [at EXCEPT ![w] = "woken"]
    BY <2>1
  <2>b. Moved(at, w, "woken", at')
    BY <1>0, <2>a, ExceptMoves, Zenon DEF WorkerAt
  <2>c. /\ m_worker_count' = m_worker_count - Member("waiting") + Member("woken")
        /\ m_active_worker_count' =
             m_active_worker_count - IsActive("waiting") + IsActive("woken")
    BY <1>0, <2>1, PlaceValues
  <2> QED BY <1>0, <2>a, <2>b, <2>c, CountedStep
<1>9. ASSUME NEW w \in Worker, Return(w) \/ Throw(w) PROVE Ok
  <2>1. CASE EndTask(w, "start")
    <3>1. /\ at[w] = "running" /\ at' = [at EXCEPT ![w] = "start"]
          /\ UNCHANGED counts
      BY <2>1 DEF EndTask
    <3>a. at[w] = "running" /\ at' = [at EXCEPT ![w] = "start"]
      BY <3>1
    <3>b. Moved(at, w, "start", at')
      BY <1>0, <3>a, ExceptMoves, Zenon DEF WorkerAt
    <3>c. /\ m_worker_count' = m_worker_count - Member("running") + Member("start")
          /\ m_active_worker_count' =
               m_active_worker_count - IsActive("running") + IsActive("start")
      BY <1>0, <3>1, PlaceValues
    <3> QED BY <1>0, <3>a, <3>b, <3>c, CountedStep
  <2>2. CASE EndTask(w, "throwing")
    <3>1. /\ at[w] = "running" /\ at' = [at EXCEPT ![w] = "throwing"]
          /\ UNCHANGED counts
      BY <2>2 DEF EndTask
    <3>a. at[w] = "running" /\ at' = [at EXCEPT ![w] = "throwing"]
      BY <3>1
    <3>b. Moved(at, w, "throwing", at')
      BY <1>0, <3>a, ExceptMoves, Zenon DEF WorkerAt
    <3>c. /\ m_worker_count' = m_worker_count - Member("running") + Member("throwing")
          /\ m_active_worker_count' =
               m_active_worker_count - IsActive("running") + IsActive("throwing")
      BY <1>0, <3>1, PlaceValues
    <3> QED BY <1>0, <3>a, <3>b, <3>c, CountedStep
  <2> QED BY <1>9, <2>1, <2>2 DEF Return, Throw
<1>10. ASSUME NEW w \in Worker, Destructed(w) PROVE Ok
  <2>1. /\ at[w] = "leaving" /\ at' = [at EXCEPT ![w] = "exiting"]
        /\ m_worker_count' = m_worker_count - 1
        /\ m_active_worker_count' = m_active_worker_count - 1
    BY <1>10 DEF Destructed
  <2>a. at[w] = "leaving" /\ at' = [at EXCEPT ![w] = "exiting"]
    BY <2>1
  <2>b. Moved(at, w, "exiting", at')
    BY <1>0, <2>a, ExceptMoves, Zenon DEF WorkerAt
  <2>c. /\ m_worker_count' = m_worker_count - Member("leaving") + Member("exiting")
        /\ m_active_worker_count' =
             m_active_worker_count - IsActive("leaving") + IsActive("exiting")
    BY <1>0, <2>1, PlaceValues
  <2> QED BY <1>0, <2>a, <2>b, <2>c, CountedStep
<1>11. ASSUME NEW w \in Worker, Exit(w) PROVE Ok
  <2>1. at[w] = "exiting" /\ at' = [at EXCEPT ![w] = "none"] /\ UNCHANGED counts
    BY <1>11 DEF Exit
  <2>a. at[w] = "exiting" /\ at' = [at EXCEPT ![w] = "none"]
    BY <2>1
  <2>b. Moved(at, w, "none", at')
    BY <1>0, <2>a, ExceptMoves, Zenon DEF WorkerAt
  <2>c. /\ m_worker_count' = m_worker_count - Member("exiting") + Member("none")
        /\ m_active_worker_count' =
             m_active_worker_count - IsActive("exiting") + IsActive("none")
    BY <1>0, <2>1, PlaceValues
  <2> QED BY <1>0, <2>a, <2>b, <2>c, CountedStep
<1>12. ASSUME NEW w \in Worker, Died(w) PROVE Ok
  <2> DEFINE left == [at EXCEPT ![w] = "exiting"]
  <2>1. at[w] = "throwing"
    BY <1>12 DEF Died
  <2>2. /\ left \in [Worker -> WorkerAt]
        /\ Counted(left, m_worker_count - 1, m_active_worker_count - 1)
    <3>1. Moved(at, w, "exiting", left)
      BY <1>0, ExceptMoves DEF WorkerAt
    <3>2. Counted(left, m_worker_count - Member(at[w]) + Member("exiting"),
                        m_active_worker_count - IsActive(at[w]) + IsActive("exiting"))
      BY <3>1, CountedMove, Zenon
    <3>3. /\ m_worker_count - Member(at[w]) + Member("exiting") = m_worker_count - 1
          /\ m_active_worker_count - IsActive(at[w]) + IsActive("exiting") =
               m_active_worker_count - 1
      BY <1>0, <2>1, PlaceValues
    <3>4. left \in [Worker -> WorkerAt]
      BY <3>1 DEF Moved
    <3> HIDE DEF left
    <3> QED BY <3>2, <3>3, <3>4
  <2>3. CASE m_terminate_all_workers
    BY <1>12, <2>2, <2>3 DEF Died
  <2>4. CASE ~m_terminate_all_workers
    <3>1. PICK new \in Started(left, m_worker_count - 1, m_worker_count) :
            /\ at' = Start(left, new)
            /\ m_worker_count' = m_worker_count - 1 + Cardinality(new)
            /\ m_active_worker_count' =
                 m_active_worker_count - 1 + Cardinality(new)
      BY <1>12, <2>4 DEF Died
    <3>2. new \in SUBSET {v \in Worker : left[v] = "none"}
      BY DEF Started
    <3> HIDE DEF left
    <3> QED BY <2>2, <3>1, <3>2, CountedStart
  <2> QED BY <2>3, <2>4
<1>13. ASSUME (\E n \in 0 .. MaxWorkers : Wait(n)) \/ Clear \/ WaitTimesOut
              \/ ShutdownClears \/ Shutdown \/ WaitAgain \/ DrainAgain \/ Join
              \/ SpuriousOwner \/ UNCHANGED vars
       PROVE  Ok
  BY <1>1, <1>13 DEF Wait, Clear, WaitTimesOut, ShutdownClears, Shutdown, WaitAgain,
                     DrainAgain, Join, SpuriousOwner, vars
<1> QED BY <1>2, <1>3, <1>4, <1>5, <1>6, <1>7, <1>8, <1>9, <1>10, <1>11, <1>12,
           <1>13 DEF Next, OwnerContinues, WorkerContinues

-----------------------------------------------------------------------------
(* The queue.                                                              *)

(* A task that is not in the queue yet is added once, wherever the         *)
(* scheduling policy puts it.                                              *)
LEMMA PushFacts ==
  ASSUME m_scheduler \in Seq(Task), IsInjective(m_scheduler),
         NEW t \in Task, t \notin Range(m_scheduler), NEW i \in Places(t)
  PROVE  /\ InsertAt(m_scheduler, i, t) \in Seq(Task)
         /\ IsInjective(InsertAt(m_scheduler, i, t))
         /\ Range(InsertAt(m_scheduler, i, t)) = Range(m_scheduler) \cup {t}
         /\ Len(InsertAt(m_scheduler, i, t)) = Len(m_scheduler) + 1
<1>1. Len(m_scheduler) \in Nat
  OBVIOUS
<1>2. i \in 1 .. Len(m_scheduler) + 1
  <2>1. CASE SchedulingPolicy = "fifo_scheduler"
    BY <1>1, <2>1 DEF Places, AtBack
  <2>2. CASE SchedulingPolicy = "lifo_scheduler"
    BY <1>1, <2>2 DEF Places, AtFront
  <2>3. CASE SchedulingPolicy \notin {"fifo_scheduler", "lifo_scheduler"}
    BY <2>3 DEF Places, ByPriority
  <2> QED BY <2>1, <2>2, <2>3
<1> QED BY <1>2, InsertAtFacts

(* The next task leaves the queue.                                         *)
LEMMA TailFacts ==
  ASSUME NEW s \in Seq(Task), s # <<>>, IsInjective(s)
  PROVE  /\ Head(s) \in Range(s)
         /\ Tail(s) \in Seq(Task)
         /\ IsInjective(Tail(s))
         /\ Range(Tail(s)) = Range(s) \ {Head(s)}
         /\ Len(Tail(s)) = Len(s) - 1 /\ Len(s) \in Nat /\ Len(s) > 0
<1> DEFINE b == Tail(s)
<1>1. /\ b \in Seq(Task) /\ Len(b) = Len(s) - 1 /\ Len(s) \in Nat /\ Len(s) > 0
      /\ \A i \in 1 .. Len(s) - 1 : b[i] = s[i + 1]
      /\ Head(s) = s[1]
      /\ DOMAIN b = 1 .. Len(s) - 1 /\ DOMAIN s = 1 .. Len(s)
  OBVIOUS
<1> HIDE DEF b
<1>2. IsInjective(b)
  BY <1>1 DEF IsInjective
<1>3. Range(b) = Range(s) \ {Head(s)}
  <2>1. ASSUME NEW i \in DOMAIN b PROVE b[i] \in Range(s) /\ b[i] # Head(s)
    BY <1>1 DEF Range, IsInjective
  <2>2. ASSUME NEW i \in DOMAIN s, s[i] # Head(s) PROVE s[i] \in Range(b)
    <3>1. i - 1 \in DOMAIN b /\ b[i - 1] = s[i]
      BY <1>1, <2>2
    <3> QED BY <3>1 DEF Range
  <2> QED BY <2>1, <2>2 DEF Range
<1>4. Head(s) \in Range(s)
  BY <1>1 DEF Range
<1> QED BY <1>1, <1>2, <1>3, <1>4 DEF b

(* The empty queue.                                                        *)
LEMMA EmptyFacts ==
  ASSUME NEW S
  PROVE  << >> \in Seq(S) /\ IsInjective(<< >>) /\ Range(<< >>) = {}
         /\ Len(<< >>) = 0
BY DEF IsInjective, Range

-----------------------------------------------------------------------------
(* The inductive invariant.                                                *)

(* A worker has a task while it runs one, and a task that was begun has    *)
(* ended or is some worker's.                                              *)
Working ==
  /\ \A w \in Worker : task[w] # NoTask <=> at[w] = "running"
  /\ \A w \in Worker : task[w] # NoTask => begun[task[w]] > 0
  /\ \A t \in Task : begun[t] > 0 => t \in ended \/ \E w \in Worker : task[w] = t

(* Once the shutdown has cleared the queue or waited for it nothing is     *)
(* pending, and if it has waited nothing runs.                             *)
Quiet == owner \in Closed =>
           /\ m_scheduler = <<>>
           /\ ShutdownPolicy # "immediately" => \A w \in Worker : at[w] # "running"

(* No worker sleeps while there are more than the target: resize and       *)
(* terminate wake them all, and no worker goes to sleep then.              *)
NoneSleepsTooMany == TooMany => \A w \in Worker : at[w] # "waiting"

(* A cleared task is not pending: it cannot be scheduled again.            *)
ClearedStayOut == Range(m_scheduler) \cap dropped = {}

IInv == /\ TypeOK /\ CountersExact /\ ExecutedOnce /\ ClearedStayOut
        /\ Working /\ Quiet /\ NoneSleepsTooMany /\ NoneSleepsBesideATask

(* A new pool satisfies the inductive invariant.                           *)
LEMMA InitInv == Init => IInv
<1> SUFFICES ASSUME Init PROVE IInv
  OBVIOUS
<1>1. TypeOK
  BY EmptyFacts, ConstantsAssumption DEF Init, TypeOK, WorkerAt, OwnerAt
<1>2. CountersExact
  <2>1. Members = {} /\ Active = {}
    BY DEF Init, Members, Active
  <2> QED BY <2>1, FS_EmptySet DEF Init, CountersExact
<1>3. ExecutedOnce
  BY EmptyFacts DEF Init, ExecutedOnce
<1>6. ClearedStayOut
  BY DEF Init, ClearedStayOut
<1>4. Working /\ Quiet /\ NoneSleepsTooMany
  BY DEF Init, Working, Quiet, NoneSleepsTooMany, TooMany, Closed
<1>5. NoneSleepsBesideATask
  BY DEF Init, NoneSleepsBesideATask
<1> QED BY <1>1, <1>2, <1>3, <1>4, <1>5, <1>6 DEF IInv

(* The template arguments of a pool never change.                          *)
LEMMA PoliciesStay ==
  ASSUME [Next]_vars PROVE UNCHANGED <<SchedulingPolicy, ShutdownPolicy>>
<1> USE DEF policies
<1>1. ASSUME \/ \E n \in 0 .. MaxWorkers : Resize(n) \/ Wait(n)
             \/ Clear \/ (\E t \in Task : Schedule(t)) \/ WaitAgain
             \/ WaitTimesOut \/ ShutdownClears \/ Shutdown \/ UNCHANGED vars
      PROVE  UNCHANGED <<SchedulingPolicy, ShutdownPolicy>>
  BY <1>1 DEF Resize, Wait, Clear, Schedule, WaitAgain, WaitTimesOut,
              ShutdownClears, Shutdown, vars
<1>2. ASSUME TerminateAllWorkers \/ DrainAgain \/ Join \/ SpuriousOwner
      PROVE  UNCHANGED <<SchedulingPolicy, ShutdownPolicy>>
  BY <1>2 DEF TerminateAllWorkers, DrainAgain, Join, SpuriousOwner
<1>3. ASSUME NEW w \in Worker,
             \/ Fetch(w) \/ Leave(w) \/ Idle(w) \/ SpuriousWorker(w)
             \/ Return(w) \/ Throw(w) \/ Destructed(w) \/ Died(w) \/ Exit(w)
      PROVE  UNCHANGED <<SchedulingPolicy, ShutdownPolicy>>
  BY <1>3 DEF Fetch, Leave, Idle, SpuriousWorker, EndTask, Return, Throw,
              Destructed, Died, Exit
<1> QED BY <1>1, <1>2, <1>3 DEF Next, OwnerContinues, WorkerContinues

(* Every step keeps the variables in their types; a counter never goes     *)
(* below zero.                                                             *)
LEMMA TypeStep ==
  ASSUME TypeOK, CountersExact, ExecutedOnce, Working, [Next]_vars PROVE TypeOK'
<1>1. at \in [Worker -> WorkerAt]
  BY DEF TypeOK
<1>2. Counted(at, m_worker_count, m_active_worker_count)
  BY <1>1, CountersExactByPlace
<1>3. at' \in [Worker -> WorkerAt] /\ Counted(at, m_worker_count, m_active_worker_count)'
  BY <1>2, CountStep
<1>4. m_worker_count' \in Nat /\ m_active_worker_count' \in Nat
  BY <1>3, CountedType DEF Counted
<1> DEFINE Rest == /\ m_target_worker_count' \in Nat
                   /\ m_scheduler' \in Seq(Task)
                   /\ m_terminate_all_workers' \in BOOLEAN
                   /\ m_terminated_workers' \subseteq Worker
                   /\ task' \in [Worker -> Task \cup {NoTask}]
                   /\ owner' \in OwnerAt
                   /\ threshold' \in Nat
                   /\ begun' \in [Task -> Nat]
                   /\ ended' \subseteq Task /\ dropped' \subseteq Task
<1> USE DEF counts, terminals, ghosts
<1>5. Woken(owner) \in OwnerAt
  BY DEF Woken, OwnerAt, TypeOK
<1>6. ASSUME NEW n \in 0 .. MaxWorkers, Resize(n) PROVE Rest
  BY <1>6, ConstantsAssumption DEF Resize, TypeOK
<1>7. ASSUME NEW t \in Task, Schedule(t) PROVE Rest
  <2>1. PICK i \in Places(t) : m_scheduler' = InsertAt(m_scheduler, i, t)
    BY <1>7 DEF Schedule
  <2>2. m_scheduler' \in Seq(Task)
    BY <1>7, <2>1, PushFacts DEF Schedule, TypeOK, ExecutedOnce
  <2> QED BY <1>7, <2>2 DEF Schedule, TypeOK
<1>8. ASSUME Clear \/ ShutdownClears PROVE Rest
  <2>1. Range(m_scheduler) \subseteq Task
    BY DEF TypeOK, Range
  <2>2. owner' \in OwnerAt
    BY <1>8 DEF Clear, ShutdownClears, TypeOK, OwnerAt
  <2>3. m_scheduler' \in Seq(Task) /\ dropped' \subseteq Task
    BY <1>8, <2>1, EmptyFacts DEF Clear, ShutdownClears, DropTasks, TypeOK
  <2> QED BY <1>8, <2>2, <2>3 DEF Clear, ShutdownClears, TypeOK
<1>9. ASSUME (\E n \in 0 .. MaxWorkers : Wait(n)) \/ WaitAgain \/ WaitTimesOut
             \/ Shutdown \/ TerminateAllWorkers \/ DrainAgain \/ Join
             \/ SpuriousOwner
      PROVE  Rest
  <2>1. /\ owner' \in OwnerAt
        /\ UNCHANGED <<m_scheduler, task, ghosts>>
    BY <1>5, <1>9 DEF Wait, WaitAgain, WaitTimesOut, Shutdown, TerminateAllWorkers,
         DrainAgain, Join, SpuriousOwner, TypeOK, OwnerAt
  <2>2. m_target_worker_count' \in Nat /\ threshold' \in Nat
    BY <1>9, ConstantsAssumption DEF Wait, WaitAgain, WaitTimesOut, Shutdown,
         TerminateAllWorkers, DrainAgain, Join, SpuriousOwner, TypeOK
  <2>3. m_terminate_all_workers' \in BOOLEAN /\ m_terminated_workers' \subseteq Worker
    BY <1>9 DEF Wait, WaitAgain, WaitTimesOut, Shutdown, TerminateAllWorkers,
         DrainAgain, Join, SpuriousOwner, TypeOK
  <2> QED BY <2>1, <2>2, <2>3 DEF TypeOK
<1>10. ASSUME NEW w \in Worker, Fetch(w) PROVE Rest
  <2>1. /\ m_scheduler' \in Seq(Task) /\ Head(m_scheduler) \in Task
    BY <1>10, TailFacts DEF Fetch, Popped, TypeOK, ExecutedOnce
  <2>2. task' \in [Worker -> Task \cup {NoTask}] /\ begun' \in [Task -> Nat]
    BY <1>10, <2>1 DEF Fetch, TypeOK
  <2> QED BY <1>10, <2>1, <2>2 DEF Fetch, TypeOK
<1>11. ASSUME NEW w \in Worker,
              Leave(w) \/ Idle(w) \/ SpuriousWorker(w) \/ Destructed(w) \/ Exit(w)
       PROVE  Rest
  BY <1>5, <1>11 DEF Leave, Idle, SpuriousWorker, Destructed, Exit, TypeOK
<1>12. ASSUME NEW w \in Worker, NEW x, EndTask(w, x) PROVE Rest
  <2>1. task[w] \in Task
    BY <1>12 DEF EndTask, TypeOK, Working
  <2> QED BY <1>12, <2>1 DEF EndTask, TypeOK
<1>13. ASSUME NEW w \in Worker, Died(w) PROVE Rest
  BY <1>5, <1>13 DEF Died, TypeOK
<1>14. ASSUME UNCHANGED vars PROVE Rest
  BY <1>14 DEF vars, TypeOK
<1>15. Rest
  BY <1>6, <1>7, <1>8, <1>9, <1>10, <1>11, <1>12, <1>13, <1>14
     DEF Next, OwnerContinues, WorkerContinues, Return, Throw
<1>16. SchedulingPolicy' \in SchedulingPolicies /\ ShutdownPolicy' \in ShutdownPolicies
  BY PoliciesStay DEF TypeOK
<1> QED BY <1>3, <1>4, <1>15, <1>16 DEF TypeOK

(* The steps that leave the tasks and the queue alone.                     *)
LEMMA TasksAlone ==
  ASSUME \/ \E n \in 0 .. MaxWorkers : Resize(n) \/ Wait(n)
         \/ WaitAgain \/ WaitTimesOut \/ Shutdown \/ TerminateAllWorkers
         \/ DrainAgain \/ Join \/ SpuriousOwner \/ UNCHANGED vars
         \/ \E w \in Worker : \/ Leave(w) \/ Idle(w) \/ SpuriousWorker(w)
                              \/ Destructed(w) \/ Died(w) \/ Exit(w)
  PROVE  UNCHANGED <<m_scheduler, task, begun, ended, dropped>>
<1> USE DEF counts, terminals, ghosts
<1>1. ASSUME \/ \E n \in 0 .. MaxWorkers : Resize(n) \/ Wait(n)
             \/ WaitAgain \/ WaitTimesOut \/ Shutdown \/ UNCHANGED vars
      PROVE  UNCHANGED <<m_scheduler, task, begun, ended, dropped>>
  BY <1>1 DEF Resize, Wait, WaitAgain, WaitTimesOut, Shutdown, vars
<1>2. ASSUME TerminateAllWorkers \/ DrainAgain \/ Join \/ SpuriousOwner
      PROVE  UNCHANGED <<m_scheduler, task, begun, ended, dropped>>
  BY <1>2 DEF TerminateAllWorkers, DrainAgain, Join, SpuriousOwner
<1>3. ASSUME NEW w \in Worker,
             Leave(w) \/ Idle(w) \/ SpuriousWorker(w)
             \/ Destructed(w) \/ Died(w) \/ Exit(w)
      PROVE  UNCHANGED <<m_scheduler, task, begun, ended, dropped>>
  BY <1>3 DEF Leave, Idle, SpuriousWorker, Destructed, Died, Exit
<1> QED BY <1>1, <1>2, <1>3

(* A task waits once in the queue, and is begun when it leaves it.         *)
LEMMA ExecutedOnceStep ==
  ASSUME TypeOK, ExecutedOnce, ClearedStayOut, Working, [Next]_vars
  PROVE  ExecutedOnce' /\ ClearedStayOut'
<1> USE DEF counts, terminals, ghosts
<1>1. ASSUME UNCHANGED <<m_scheduler, task, begun, ended, dropped>>
      PROVE  ExecutedOnce' /\ ClearedStayOut'
  BY <1>1 DEF ExecutedOnce, ClearedStayOut
<1>2. ASSUME NEW t \in Task, Schedule(t) PROVE ExecutedOnce' /\ ClearedStayOut'
  <2>1. /\ begun[t] = 0 /\ t \notin Range(m_scheduler)
        /\ t \notin dropped /\ UNCHANGED <<task, begun, dropped>>
    BY <1>2 DEF Schedule
  <2>2. PICK i \in Places(t) : m_scheduler' = InsertAt(m_scheduler, i, t)
    BY <1>2 DEF Schedule
  <2>3. /\ IsInjective(m_scheduler')
        /\ Range(m_scheduler') = Range(m_scheduler) \cup {t}
    BY <2>1, <2>2, PushFacts DEF TypeOK, ExecutedOnce
  <2> QED BY <2>1, <2>3 DEF ExecutedOnce, ClearedStayOut
<1>3. ASSUME Clear \/ ShutdownClears PROVE ExecutedOnce' /\ ClearedStayOut'
  <2>1. /\ m_scheduler' = << >> /\ dropped' = dropped \cup Range(m_scheduler)
        /\ UNCHANGED <<task, begun>>
    BY <1>3 DEF Clear, ShutdownClears, DropTasks
  <2>2. IsInjective(m_scheduler') /\ Range(m_scheduler') = {}
    BY <2>1, EmptyFacts
  <2> QED BY <2>1, <2>2 DEF ExecutedOnce, ClearedStayOut
<1>4. ASSUME NEW w \in Worker, Fetch(w) PROVE ExecutedOnce' /\ ClearedStayOut'
  <2> DEFINE t == Head(m_scheduler)
  <2>1. /\ task' = [task EXCEPT ![w] = t] /\ m_scheduler' = Tail(m_scheduler)
        /\ begun' = [begun EXCEPT ![t] = @ + 1] /\ dropped' = dropped
        /\ m_scheduler # << >>
    BY <1>4 DEF Fetch, Popped
  <2>2. /\ t \in Range(m_scheduler) /\ IsInjective(m_scheduler')
        /\ Range(m_scheduler') = Range(m_scheduler) \ {t}
    BY <2>1, TailFacts DEF TypeOK, ExecutedOnce
  <2>3. t \in Task /\ begun[t] = 0
    <3>1. t \in Task
      BY <2>2 DEF Range, TypeOK
    <3> QED BY <2>2, <3>1 DEF ExecutedOnce
  <2> HIDE DEF t
  <2>4. /\ begun' \in [Task -> Nat]
        /\ \A u \in Task : begun'[u] = IF u = t THEN 1 ELSE begun[u]
    BY <2>1, <2>3 DEF TypeOK
  <2>5. \A v \in Worker : task[v] # t
    BY <2>3, ConstantsAssumption DEF Working, TypeOK
  <2>6. \A v \in Worker : task'[v] = IF v = w THEN t ELSE task[v]
    BY <2>1 DEF TypeOK
  <2>7. \A u \in Task : begun'[u] <= 1
    <3>1. \A u \in Task : begun[u] <= 1
      BY DEF ExecutedOnce
    <3> QED BY <2>4, <3>1
  <2>8. t \notin dropped
    BY <2>2 DEF ClearedStayOut
  <2>9. \A u \in Range(m_scheduler') \cup dropped' : begun'[u] = 0
    <3>1. \A u \in Range(m_scheduler) \cup dropped : begun[u] = 0 /\ u \in Task
      BY DEF ExecutedOnce, TypeOK, Range
    <3>2. \A u \in Range(m_scheduler') \cup dropped' :
            u # t /\ u \in Range(m_scheduler) \cup dropped
      BY <2>1, <2>2, <2>8
    <3> QED BY <2>4, <3>1, <3>2
  <2>10. \A u, v \in Worker : task'[u] = task'[v] /\ task'[u] # NoTask => u = v
    BY <2>5, <2>6 DEF ExecutedOnce
  <2>11. ClearedStayOut'
    BY <2>1, <2>2 DEF ClearedStayOut
  <2> QED BY <2>2, <2>7, <2>9, <2>10, <2>11 DEF ExecutedOnce
<1>5. ASSUME NEW w \in Worker, NEW x, EndTask(w, x) PROVE ExecutedOnce' /\ ClearedStayOut'
  <2>1. /\ \A v \in Worker : task'[v] = IF v = w THEN NoTask ELSE task[v]
        /\ UNCHANGED <<m_scheduler, begun, dropped>>
    BY <1>5 DEF EndTask, TypeOK
  <2> QED BY <2>1 DEF ExecutedOnce, ClearedStayOut
<1> QED BY <1>1, <1>2, <1>3, <1>4, <1>5, TasksAlone
     DEF Next, OwnerContinues, WorkerContinues, Return, Throw

(* Which workers run a task changes only when one takes or ends one.       *)
LEMMA RunningAlone ==
  ASSUME at \in [Worker -> WorkerAt],
         \/ \E n \in 0 .. MaxWorkers : Resize(n) \/ Wait(n)
         \/ WaitAgain \/ WaitTimesOut \/ Shutdown \/ TerminateAllWorkers
         \/ DrainAgain \/ Join \/ SpuriousOwner \/ UNCHANGED vars
         \/ Clear \/ ShutdownClears \/ (\E t \in Task : Schedule(t))
         \/ \E w \in Worker : \/ Leave(w) \/ Idle(w) \/ SpuriousWorker(w)
                              \/ Destructed(w) \/ Died(w) \/ Exit(w)
  PROVE  \A v \in Worker : at'[v] = "running" <=> at[v] = "running"
<1> DEFINE Same == \A v \in Worker : at'[v] = "running" <=> at[v] = "running"
<1> USE DEF counts, terminals, ghosts
<1>1. ASSUME UNCHANGED at PROVE Same
  BY <1>1
<1>2. ASSUME at' = AllWoken PROVE Same
  BY <1>2 DEF AllWoken
<1>3. ASSUME NEW w \in Worker, NEW x \in {"woken", "waiting", "leaving", "exiting",
             "none"}, at[w] # "running", at' = [at EXCEPT ![w] = x]
      PROVE  Same
  BY <1>3
<1>4. ASSUME NEW n \in 0 .. MaxWorkers, Resize(n) PROVE Same
  <2>1. CASE m_worker_count <= n
    <3>1. PICK new \in Started(at, m_worker_count, n) : at' = Start(at, new)
      BY <1>4, <2>1 DEF Resize
    <3> QED BY <3>1 DEF Started, Start
  <2> QED BY <1>2, <1>4, <2>1 DEF Resize
<1>5. ASSUME NEW t \in Task, Schedule(t) PROVE Same
  BY <1>1, <1>3, <1>5 DEF Schedule, NotifyOne
<1>6. ASSUME NEW w \in Worker, Died(w) PROVE Same
  <2> DEFINE left == [at EXCEPT ![w] = "exiting"]
  <2>1. at[w] = "throwing"
    BY <1>6 DEF Died
  <2>2. \A v \in Worker : left[v] = "running" <=> at[v] = "running"
    BY <2>1
  <2>3. CASE ~m_terminate_all_workers
    <3>1. PICK new \in Started(left, m_worker_count - 1, m_worker_count) :
            at' = Start(left, new)
      BY <1>6, <2>3 DEF Died
    <3> HIDE DEF left
    <3> QED BY <2>2, <3>1 DEF Started, Start
  <2> QED BY <1>6, <2>2, <2>3 DEF Died
<1>7. ASSUME NEW w \in Worker,
             Leave(w) \/ Idle(w) \/ SpuriousWorker(w) \/ Destructed(w) \/ Exit(w)
      PROVE  Same
  BY <1>3, <1>7 DEF Leave, Idle, SpuriousWorker, Destructed, Exit
<1>8. ASSUME \/ \E n \in 0 .. MaxWorkers : Wait(n)
             \/ WaitAgain \/ WaitTimesOut \/ Shutdown \/ DrainAgain \/ Join
             \/ SpuriousOwner \/ UNCHANGED vars \/ Clear \/ ShutdownClears
      PROVE  Same
  BY <1>1, <1>8 DEF Wait, WaitAgain, WaitTimesOut, Shutdown, DrainAgain, Join,
                    SpuriousOwner, vars, Clear, ShutdownClears
<1>9. ASSUME TerminateAllWorkers PROVE Same
  BY <1>2, <1>9 DEF TerminateAllWorkers
<1> QED BY <1>4, <1>5, <1>6, <1>7, <1>8, <1>9

(* A worker has a task just while it runs it, after every step.            *)
LEMMA WorkingStep ==
  ASSUME TypeOK, ExecutedOnce, Working, [Next]_vars PROVE Working'
<1> USE DEF counts, terminals, ghosts
<1>1. ASSUME \A v \in Worker : at'[v] = "running" <=> at[v] = "running",
             UNCHANGED <<task, begun, ended>>
      PROVE  Working'
  BY <1>1 DEF Working
<1>2. ASSUME \/ \E n \in 0 .. MaxWorkers : Resize(n) \/ Wait(n)
             \/ WaitAgain \/ WaitTimesOut \/ Shutdown \/ TerminateAllWorkers
             \/ DrainAgain \/ Join \/ SpuriousOwner \/ UNCHANGED vars
             \/ \E w \in Worker : \/ Leave(w) \/ Idle(w) \/ SpuriousWorker(w)
                                  \/ Destructed(w) \/ Died(w) \/ Exit(w)
      PROVE  Working'
  <2>1. UNCHANGED <<task, begun, ended>>
    BY <1>2, TasksAlone
  <2>2. \A v \in Worker : at'[v] = "running" <=> at[v] = "running"
    BY <1>2, RunningAlone DEF TypeOK
  <2> QED BY <1>1, <2>1, <2>2
<1>3. ASSUME Clear \/ ShutdownClears \/ \E t \in Task : Schedule(t)
      PROVE  Working'
  <2>1. UNCHANGED <<task, begun, ended>>
    BY <1>3 DEF Clear, ShutdownClears, Schedule
  <2>2. \A v \in Worker : at'[v] = "running" <=> at[v] = "running"
    BY <1>3, RunningAlone DEF TypeOK
  <2> QED BY <1>1, <2>1, <2>2
<1>4. ASSUME NEW w \in Worker, Fetch(w) PROVE Working'
  <2> DEFINE t == Head(m_scheduler)
  <2>1. /\ task' = [task EXCEPT ![w] = t] /\ ended' = ended
        /\ begun' = [begun EXCEPT ![t] = @ + 1]
        /\ at' = [at EXCEPT ![w] = "running"] /\ at[w] # "running"
        /\ m_scheduler # << >>
    BY <1>4 DEF Fetch
  <2>2. t \in Task /\ t # NoTask
    <3>1. t \in Task
      BY <2>1, TailFacts DEF TypeOK, ExecutedOnce, Range
    <3> QED BY <3>1, ConstantsAssumption
  <2> HIDE DEF t
  <2>3. \A u \in Task : /\ begun'[u] > 0 <=> (u = t \/ begun[u] > 0)
    BY <2>1, <2>2 DEF TypeOK
  <2>4. \A v \in Worker : /\ task'[v] = IF v = w THEN t ELSE task[v]
                          /\ at'[v] = IF v = w THEN "running" ELSE at[v]
    BY <2>1 DEF TypeOK
  <2>5. task[w] = NoTask /\ \A v \in Worker : task[v] \in Task \cup {NoTask}
    BY <2>1 DEF Working, TypeOK
  <2>6. \A v \in Worker : /\ task'[v] # NoTask <=> at'[v] = "running"
                          /\ task'[v] # NoTask => begun'[task'[v]] > 0
    BY <2>2, <2>3, <2>4, <2>5 DEF Working
  <2>7. \A u \in Task : begun'[u] > 0 =>
          u \in ended' \/ \E v \in Worker : task'[v] = u
    <3> SUFFICES ASSUME NEW u \in Task, begun'[u] > 0, u \notin ended'
                 PROVE  \E v \in Worker : task'[v] = u
      OBVIOUS
    <3>1. CASE u = t
      BY <2>4, <3>1
    <3>2. CASE u # t
      <4>1. PICK v \in Worker : task[v] = u
        BY <2>1, <2>3, <3>2 DEF Working
      <4>2. u # NoTask
        BY ConstantsAssumption
      <4> QED BY <2>4, <2>5, <4>1, <4>2
    <3> QED BY <3>1, <3>2
  <2> QED BY <2>6, <2>7 DEF Working
<1>5. ASSUME NEW w \in Worker, NEW x \in {"start", "throwing"}, EndTask(w, x)
      PROVE  Working'
  <2>1. /\ at[w] = "running" /\ begun' = begun /\ ended' = ended \cup {task[w]}
        /\ \A v \in Worker : /\ task'[v] = IF v = w THEN NoTask ELSE task[v]
                             /\ at'[v] = IF v = w THEN x ELSE at[v]
    BY <1>5 DEF EndTask, TypeOK
  <2>2. task[w] # NoTask /\ \A v \in Worker : task[v] = task[w] => v = w
    BY <2>1 DEF Working, ExecutedOnce
  <2>3. \A v \in Worker : /\ task'[v] # NoTask <=> at'[v] = "running"
                          /\ task'[v] # NoTask => begun'[task'[v]] > 0
    BY <2>1 DEF Working
  <2>4. \A u \in Task : begun'[u] > 0 =>
          u \in ended' \/ \E v \in Worker : task'[v] = u
    BY <2>1, <2>2 DEF Working
  <2> QED BY <2>3, <2>4 DEF Working
<1> QED BY <1>2, <1>3, <1>4, <1>5
     DEF Next, OwnerContinues, WorkerContinues, Return, Throw

(* The wait of the shutdown ends with an empty queue and no active worker, *)
(* and from then on no worker finds a task.                                *)
LEMMA QuietStep ==
  ASSUME TypeOK, CountersExact, Quiet, [Next]_vars PROVE Quiet'
<1> USE DEF counts, terminals, ghosts
<1>0. ShutdownPolicy' = ShutdownPolicy
  BY PoliciesStay
<1>1. ASSUME owner' \in Closed => owner \in Closed, UNCHANGED m_scheduler,
             \A v \in Worker : at'[v] = "running" => at[v] = "running"
      PROVE  Quiet'
  BY <1>0, <1>1 DEF Quiet
<1>2. Woken(owner) \in Closed <=> owner \in Closed
  BY DEF Woken, Closed
<1>3. ASSUME Clear \/ (\E t \in Task : Schedule(t)) \/ (\E n \in 0 .. MaxWorkers : Wait(n))
             \/ WaitAgain \/ WaitTimesOut \/ (\E n \in 0 .. MaxWorkers : Resize(n))
      PROVE  Quiet'
  <2>1. owner' \notin Closed
    BY <1>3 DEF Clear, Schedule, Wait, WaitAgain, WaitTimesOut, Resize, Closed
  <2> QED BY <2>1 DEF Quiet
<1>4. ASSUME Shutdown PROVE Quiet'
  <2>1. CASE Busy(0)
    BY <1>4, <2>1 DEF Shutdown, Quiet, Closed
  <2>2. CASE ~Busy(0)
    <3>1. m_active_worker_count = 0 /\ m_scheduler = << >>
      BY <2>2 DEF Busy
    <3>2. IsFiniteSet(Active) /\ Cardinality(Active) = 0
      <4>1. Active \subseteq Worker
        BY DEF Active
      <4> QED BY <3>1, <4>1, ConstantsAssumption, FS_Subset DEF CountersExact
    <3>3. Active = {}
      BY <3>2, FS_EmptySet
    <3>4. \A v \in Worker : at[v] # "running"
      BY <3>3 DEF Active
    <3> QED BY <1>0, <1>4, <3>1, <3>4 DEF Shutdown, Quiet
  <2> QED BY <2>1, <2>2
<1>5. ASSUME TerminateAllWorkers \/ DrainAgain \/ Join \/ SpuriousOwner
      PROVE  Quiet'
  <2>1. owner' \in Closed => owner \in Closed
    BY <1>2, <1>5 DEF TerminateAllWorkers, DrainAgain, Join, SpuriousOwner, Closed
  <2>2. UNCHANGED m_scheduler
    BY <1>5, TasksAlone
  <2>3. \A v \in Worker : at'[v] = "running" => at[v] = "running"
    BY <1>5, RunningAlone DEF TypeOK
  <2> QED BY <1>1, <2>1, <2>2, <2>3
<1>6. ASSUME NEW w \in Worker, Fetch(w) PROVE Quiet'
  BY <1>6 DEF Fetch, Quiet
<1>10. ASSUME ShutdownClears PROVE Quiet'
  <2>1. CASE ShutdownPolicy = "immediately"
    BY <1>0, <1>10, <2>1 DEF ShutdownClears, DropTasks, Quiet
  <2>2. CASE ShutdownPolicy # "immediately"
    <3>1. owner' \notin Closed
      BY <1>10, <2>2 DEF ShutdownClears, Closed
    <3> QED BY <3>1 DEF Quiet
  <2> QED BY <2>1, <2>2
<1>7. ASSUME NEW w \in Worker,
             Leave(w) \/ Idle(w) \/ SpuriousWorker(w) \/ Destructed(w)
             \/ Died(w) \/ Exit(w)
      PROVE  Quiet'
  <2>1. owner' = owner \/ owner' = Woken(owner)
    BY <1>7 DEF Leave, Idle, SpuriousWorker, Destructed, Died, Exit
  <2>2. UNCHANGED m_scheduler
    BY <1>7, TasksAlone
  <2>3. \A v \in Worker : at'[v] = "running" => at[v] = "running"
    BY <1>7, RunningAlone DEF TypeOK
  <2> QED BY <1>1, <1>2, <2>1, <2>2, <2>3
<1>8. ASSUME NEW w \in Worker, NEW x \in {"start", "throwing"}, EndTask(w, x)
      PROVE  Quiet'
  <2>1. \A v \in Worker : at'[v] = "running" => at[v] = "running"
    BY <1>8 DEF EndTask, TypeOK
  <2> QED BY <1>1, <1>8, <2>1 DEF EndTask
<1>9. ASSUME UNCHANGED vars PROVE Quiet'
  BY <1>0, <1>9 DEF vars, Quiet
<1> QED BY <1>3, <1>4, <1>5, <1>6, <1>7, <1>8, <1>9, <1>10
     DEF Next, OwnerContinues, WorkerContinues, Return, Throw

(* A worker goes to sleep only when the pool is not too large, and the     *)
(* steps that make it too large wake them all.                             *)
LEMMA SleepStep ==
  ASSUME TypeOK, NoneSleepsTooMany, [Next]_vars PROVE NoneSleepsTooMany'
<1> USE DEF counts, terminals, ghosts
<1>1. ASSUME TooMany' => TooMany,
             \A v \in Worker : at'[v] = "waiting" => at[v] = "waiting"
      PROVE  NoneSleepsTooMany'
  BY <1>1 DEF NoneSleepsTooMany
<1>2. ASSUME NEW n \in 0 .. MaxWorkers, Resize(n) PROVE NoneSleepsTooMany'
  <2>1. CASE m_worker_count <= n
    <3>1. PICK new \in Started(at, m_worker_count, n) :
            m_worker_count' = m_worker_count + Cardinality(new)
      BY <1>2, <2>1 DEF Resize
    <3>2. m_worker_count' <= n /\ m_target_worker_count' = n
      <4>1. m_worker_count + Cardinality(new) = n
              \/ m_worker_count + Cardinality(new) < n
        BY DEF Started
      <4> QED BY <1>2, <3>1, <4>1 DEF Resize
    <3>3. ~TooMany'
      <4>1. m_worker_count' \in Int
        BY <3>1, StartedNat, <2>1 DEF TypeOK
      <4> QED BY <3>2, <4>1 DEF TooMany
    <3> QED BY <3>3 DEF NoneSleepsTooMany
  <2>2. CASE ~(m_worker_count <= n)
    BY <1>2, <2>2 DEF Resize, AllWoken, NoneSleepsTooMany
  <2> QED BY <2>1, <2>2
<1>3. ASSUME TerminateAllWorkers PROVE NoneSleepsTooMany'
  BY <1>3 DEF TerminateAllWorkers, AllWoken, NoneSleepsTooMany
<1>4. ASSUME NEW t \in Task, Schedule(t) PROVE NoneSleepsTooMany'
  <2>1. \A v \in Worker : at'[v] = "waiting" => at[v] = "waiting"
    BY <1>4 DEF Schedule, NotifyOne, TypeOK
  <2> QED BY <1>1, <1>4, <2>1 DEF Schedule, TooMany
<1>5. ASSUME NEW w \in Worker, Idle(w) PROVE NoneSleepsTooMany'
  BY <1>5 DEF Idle, TooMany, NoneSleepsTooMany
<1>6. ASSUME NEW w \in Worker, Fetch(w) \/ Leave(w) \/ SpuriousWorker(w) \/ Exit(w)
      PROVE  NoneSleepsTooMany'
  <2>1. \A v \in Worker : at'[v] = "waiting" => at[v] = "waiting"
    BY <1>6 DEF Fetch, Leave, SpuriousWorker, Exit, TypeOK
  <2>2. UNCHANGED <<m_worker_count, m_target_worker_count>>
    BY <1>6 DEF Fetch, Leave, SpuriousWorker, Exit
  <2> QED BY <1>1, <2>1, <2>2 DEF TooMany
<1>7. ASSUME NEW w \in Worker, NEW x \in {"start", "throwing"}, EndTask(w, x)
      PROVE  NoneSleepsTooMany'
  <2>1. \A v \in Worker : at'[v] = "waiting" => at[v] = "waiting"
    BY <1>7 DEF EndTask, TypeOK
  <2> QED BY <1>1, <1>7, <2>1 DEF EndTask, TooMany
<1>8. ASSUME NEW w \in Worker, Destructed(w) PROVE NoneSleepsTooMany'
  <2>1. \A v \in Worker : at'[v] = "waiting" => at[v] = "waiting"
    BY <1>8 DEF Destructed, TypeOK
  <2>2. TooMany' => TooMany
    BY <1>8 DEF Destructed, TooMany, TypeOK
  <2> QED BY <1>1, <2>1, <2>2
<1>9. ASSUME NEW w \in Worker, Died(w) PROVE NoneSleepsTooMany'
  <2> DEFINE left == [at EXCEPT ![w] = "exiting"]
  <2>1. \A v \in Worker : left[v] = "waiting" => at[v] = "waiting"
    BY DEF TypeOK
  <2>2. CASE m_terminate_all_workers
    <3>1. TooMany' => TooMany
      BY <1>9, <2>2 DEF Died, TooMany, TypeOK
    <3> QED BY <1>1, <1>9, <2>1, <2>2, <3>1 DEF Died
  <2>3. CASE ~m_terminate_all_workers
    <3>1. PICK new \in Started(left, m_worker_count - 1, m_worker_count) :
            /\ m_worker_count' = m_worker_count - 1 + Cardinality(new)
            /\ m_target_worker_count' = m_worker_count
      BY <1>9, <2>3 DEF Died
    <3> HIDE DEF left
    <3>2. m_worker_count' = m_worker_count \/ m_worker_count' < m_worker_count
      BY <3>1 DEF Started
    <3>3. m_worker_count' \in Int /\ m_worker_count \in Int
      BY <3>1, StartedNat DEF TypeOK
    <3>4. ~TooMany'
      BY <3>1, <3>2, <3>3 DEF TooMany
    <3> QED BY <3>4 DEF NoneSleepsTooMany
  <2> QED BY <2>2, <2>3
<1>10. ASSUME Clear \/ ShutdownClears \/ (\E n \in 0 .. MaxWorkers : Wait(n))
              \/ WaitAgain \/ WaitTimesOut \/ Shutdown \/ DrainAgain \/ Join \/ SpuriousOwner
              \/ UNCHANGED vars
       PROVE  NoneSleepsTooMany'
  <2>1. UNCHANGED <<at, m_worker_count, m_target_worker_count>>
    BY <1>10 DEF Clear, ShutdownClears, Wait, WaitAgain, WaitTimesOut, Shutdown,
                 DrainAgain, Join, SpuriousOwner, vars
  <2> QED BY <2>1 DEF NoneSleepsTooMany, TooMany
<1> QED BY <1>2, <1>3, <1>4, <1>5, <1>6, <1>7, <1>8, <1>9, <1>10
     DEF Next, OwnerContinues, WorkerContinues, Return, Throw

(* No wake-up is lost.                                                     *)
Ready == {"start", "woken"}

NoneWaits(places) == \A v \in Worker : places[v] # "waiting"

Fits(places, pending) ==
  NoneWaits(places) \/ pending <= Cardinality(In(places, Ready))

(* The property of the sleepers, by the places.                            *)
LEMMA FitsIsNoneSleeps ==
  ASSUME TypeOK
  PROVE  NoneSleepsBesideATask <=> Fits(at, Len(m_scheduler))
<1>1. {w \in Worker : at[w] \in {"start", "woken"}} = In(at, Ready)
  BY DEF In, Ready
<1> QED BY <1>1 DEF NoneSleepsBesideATask, Fits, NoneWaits

(* A worker that moves without going to sleep, and the pending tasks.      *)
LEMMA FitsMove ==
  ASSUME at \in [Worker -> WorkerAt], NEW w \in Worker,
         NEW x \in WorkerAt \ {"waiting"}, NEW n \in Nat, NEW m \in Nat,
         Fits(at, n), m <= n - Weight(at[w], Ready) + Weight(x, Ready)
  PROVE  Fits([at EXCEPT ![w] = x], m)
<1> DEFINE moved == [at EXCEPT ![w] = x]
<1>1. Moved(at, w, x, moved)
  BY ExceptMoves, Zenon
<1> HIDE DEF moved
<1>2. Cardinality(In(moved, Ready)) =
        Cardinality(In(at, Ready)) - Weight(at[w], Ready) + Weight(x, Ready)
  BY <1>1, MoveCounts
<1>3. NoneWaits(at) => NoneWaits(moved)
  BY <1>1 DEF Moved, NoneWaits
<1>4. Cardinality(In(at, Ready)) \in Nat
  BY InFacts
<1>5. Weight(at[w], Ready) \in Int /\ Weight(x, Ready) \in Int
  BY DEF Weight
<1>6. Fits(moved, m)
  BY <1>2, <1>3, <1>4, <1>5 DEF Fits
<1> QED BY <1>6 DEF moved

(* Starting workers leaves no task without one.                            *)
LEMMA FitsStart ==
  ASSUME NEW places \in [Worker -> WorkerAt],
         NEW new \in SUBSET {w \in Worker : places[w] = "none"},
         NEW n \in Nat, Fits(places, n)
  PROVE  Fits(Start(places, new), n)
<1>1. Cardinality(In(Start(places, new), Ready)) =
        Cardinality(In(places, Ready)) + Cardinality(new)
  BY StartCounts DEF Ready
<1>2. Cardinality(new) \in Nat
  <2>1. new \subseteq Worker
    OBVIOUS
  <2> QED BY <2>1, FS_Subset, FS_CardinalityType, ConstantsAssumption
<1>3. Cardinality(In(places, Ready)) \in Nat
  BY InFacts
<1>4. NoneWaits(places) => NoneWaits(Start(places, new))
  BY DEF NoneWaits, Start
<1> QED BY <1>1, <1>2, <1>3, <1>4 DEF Fits

(* The weights of every place among those on the way to a task.            *)
LEMMA ReadyWeights ==
  /\ Weight("start", Ready) = 1 /\ Weight("woken", Ready) = 1
  /\ \A x \in WorkerAt \ Ready : Weight(x, Ready) = 0
BY DEF Weight, Ready

(* Every step leaves each pending task a worker on its way, or no sleeper: *)
(* one step per action.                                                    *)
LEMMA FitsStep ==
  ASSUME TypeOK, ExecutedOnce, NoneSleepsTooMany, Fits(at, Len(m_scheduler)),
         [Next]_vars
  PROVE  Fits(at', Len(m_scheduler'))
<1> DEFINE n == Len(m_scheduler)
           Ok == Fits(at', Len(m_scheduler'))
<1> USE DEF counts, terminals, ghosts
<1>0. at \in [Worker -> WorkerAt] /\ n \in Nat
  BY DEF TypeOK
<1>1. ASSUME UNCHANGED <<at, m_scheduler>> PROVE Ok
  BY <1>1
<1>2. ASSUME NoneWaits(at') PROVE Ok
  BY <1>2 DEF Fits
<1>3. ASSUME NEW w \in Worker, NEW x \in WorkerAt \ {"waiting"},
             at' = [at EXCEPT ![w] = x], m_scheduler' = m_scheduler,
             at[w] \notin Ready \/ x \in Ready
      PROVE  Ok
  <2>1. at[w] \in WorkerAt
    BY <1>0
  <2>2. n <= n - Weight(at[w], Ready) + Weight(x, Ready)
    BY <1>0, <1>3, <2>1 DEF Weight
  <2>3. Fits([at EXCEPT ![w] = x], n)
    BY <1>0, <2>2, FitsMove
  <2> QED BY <1>3, <2>3
<1>4. ASSUME NEW k \in 0 .. MaxWorkers, Resize(k) PROVE Ok
  <2>1. CASE m_worker_count <= k
    <3>1. PICK new \in Started(at, m_worker_count, k) : at' = Start(at, new)
      BY <1>4, <2>1 DEF Resize
    <3>2. new \in SUBSET {w \in Worker : at[w] = "none"}
      BY DEF Started
    <3>3. m_scheduler' = m_scheduler
      BY <1>4 DEF Resize
    <3> QED BY <1>0, <3>1, <3>2, <3>3, FitsStart
  <2>2. CASE ~(m_worker_count <= k)
    BY <1>2, <1>4, <2>2 DEF Resize, AllWoken, NoneWaits
  <2> QED BY <2>1, <2>2
<1>5. ASSUME NEW t \in Task, Schedule(t) PROVE Ok
  <2>1. Len(m_scheduler') = n + 1
    BY <1>5, PushFacts DEF Schedule, TypeOK, ExecutedOnce
  <2>2. CASE \E w \in Worker : at[w] = "waiting" /\ at' = [at EXCEPT ![w] = "woken"]
    <3>1. PICK w \in Worker : at[w] = "waiting" /\ at' = [at EXCEPT ![w] = "woken"]
      BY <2>2
    <3>2. Weight(at[w], Ready) = 0 /\ Weight("woken", Ready) = 1
      BY <3>1 DEF Weight, Ready
    <3>3. n + 1 <= n - Weight(at[w], Ready) + Weight("woken", Ready)
            /\ n + 1 \in Nat
      BY <1>0, <3>2
    <3> HIDE DEF n
    <3>4. Fits([at EXCEPT ![w] = "woken"], n + 1)
      BY <1>0, <3>3, FitsMove DEF WorkerAt, n
    <3> QED BY <2>1, <3>1, <3>4
  <2>3. CASE (\A w \in Worker : at[w] # "waiting") /\ UNCHANGED at
    BY <1>2, <2>3 DEF NoneWaits
  <2> QED BY <1>5, <2>2, <2>3 DEF Schedule, NotifyOne
<1>6. ASSUME Clear \/ ShutdownClears PROVE Ok
  <2>1. Len(m_scheduler') = 0 /\ at' = at
    BY <1>6, EmptyFacts DEF Clear, ShutdownClears, DropTasks
  <2> QED BY <2>1, InFacts DEF Fits
<1>7. ASSUME TerminateAllWorkers PROVE Ok
  BY <1>2, <1>7 DEF TerminateAllWorkers, AllWoken, NoneWaits
<1>8. ASSUME NEW w \in Worker, Fetch(w) PROVE Ok
  <2>1. /\ at[w] \in Ready /\ at' = [at EXCEPT ![w] = "running"]
        /\ m_scheduler # << >> /\ m_scheduler' = Tail(m_scheduler)
    BY <1>8 DEF Fetch, Popped, Ready
  <2>2. Len(m_scheduler') = n - 1 /\ n > 0
    BY <2>1, TailFacts DEF TypeOK, ExecutedOnce
  <2>3. Weight(at[w], Ready) = 1 /\ Weight("running", Ready) = 0
    BY <2>1 DEF Weight, Ready
  <2>4. n - 1 <= n - Weight(at[w], Ready) + Weight("running", Ready)
          /\ n - 1 \in Nat
    BY <1>0, <2>2, <2>3
  <2> HIDE DEF n
  <2>5. Fits([at EXCEPT ![w] = "running"], n - 1)
    BY <1>0, <2>4, FitsMove DEF WorkerAt, n
  <2> QED BY <2>1, <2>2, <2>5
<1>9. ASSUME NEW w \in Worker, Leave(w) PROVE Ok
  <2>1. NoneWaits(at')
    BY <1>9 DEF Leave, NoneSleepsTooMany, NoneWaits, TypeOK
  <2> QED BY <1>2, <2>1
<1>10. ASSUME NEW w \in Worker, Idle(w) PROVE Ok
  <2>1. Len(m_scheduler') = 0
    BY <1>10, EmptyFacts DEF Idle
  <2> QED BY <2>1, InFacts DEF Fits
<1>11. ASSUME NEW w \in Worker, SpuriousWorker(w) PROVE Ok
  BY <1>3, <1>11 DEF SpuriousWorker, Ready, WorkerAt
<1>12. ASSUME NEW w \in Worker, NEW x \in {"start", "throwing"}, EndTask(w, x)
       PROVE  Ok
  BY <1>3, <1>12 DEF EndTask, Ready, WorkerAt
<1>13. ASSUME NEW w \in Worker, Destructed(w) \/ Exit(w) PROVE Ok
  BY <1>3, <1>13 DEF Destructed, Exit, Ready, WorkerAt
<1>14. ASSUME NEW w \in Worker, Died(w) PROVE Ok
  <2> DEFINE left == [at EXCEPT ![w] = "exiting"]
  <2>1. Weight(at[w], Ready) = 0 /\ Weight("exiting", Ready) = 0
    BY <1>14 DEF Died, Weight, Ready
  <2>2. n <= n - Weight(at[w], Ready) + Weight("exiting", Ready)
    BY <1>0, <2>1
  <2>3. Fits(left, n)
    BY <1>0, <2>2, FitsMove DEF WorkerAt
  <2>4. left \in [Worker -> WorkerAt] /\ m_scheduler' = m_scheduler
    BY <1>0, <1>14 DEF Died, WorkerAt
  <2>5. CASE m_terminate_all_workers
    BY <1>14, <2>3, <2>4, <2>5 DEF Died
  <2>6. CASE ~m_terminate_all_workers
    <3>1. PICK new \in Started(left, m_worker_count - 1, m_worker_count) :
            at' = Start(left, new)
      BY <1>14, <2>6 DEF Died
    <3> HIDE DEF left
    <3>2. new \in SUBSET {v \in Worker : left[v] = "none"}
      BY DEF Started
    <3> QED BY <1>0, <2>3, <2>4, <3>1, <3>2, FitsStart
  <2> QED BY <2>5, <2>6
<1>15. ASSUME (\E k \in 0 .. MaxWorkers : Wait(k)) \/ WaitAgain \/ WaitTimesOut
              \/ Shutdown \/ DrainAgain \/ Join \/ SpuriousOwner \/ UNCHANGED vars
       PROVE  Ok
  BY <1>1, <1>15 DEF Wait, WaitAgain, WaitTimesOut, Shutdown, DrainAgain, Join,
                     SpuriousOwner, vars
<1> QED BY <1>4, <1>5, <1>6, <1>7, <1>8, <1>9, <1>10, <1>11, <1>12, <1>13, <1>14,
           <1>15 DEF Next, OwnerContinues, WorkerContinues, Return, Throw

-----------------------------------------------------------------------------
(* The theorems.                                                           *)

(* Every step keeps the inductive invariant.                               *)
LEMMA NextInv == IInv /\ [Next]_vars => IInv'
<1> SUFFICES ASSUME IInv, [Next]_vars PROVE IInv'
  OBVIOUS
<1> USE DEF IInv
<1>1. TypeOK'
  BY TypeStep
<1>2. CountersExact'
  <2>1. /\ at \in [Worker -> WorkerAt]
        /\ Counted(at, m_worker_count, m_active_worker_count)
    BY CountersExactByPlace DEF TypeOK
  <2>2. /\ at' \in [Worker -> WorkerAt]
        /\ Counted(at', m_worker_count', m_active_worker_count')
    BY <2>1, CountStep DEF Counted
  <2>3. /\ Members' = In(at', MemberPlaces)
        /\ Active' = In(at', ActivePlaces)
    BY <2>2 DEF Members, Active, In, MemberPlaces, ActivePlaces, WorkerAt
  <2> QED BY <2>2, <2>3 DEF CountersExact, Counted
<1>3. ExecutedOnce' /\ ClearedStayOut'
  BY ExecutedOnceStep
<1>4. Working' /\ Quiet' /\ NoneSleepsTooMany'
  BY WorkingStep, QuietStep, SleepStep
<1>5. NoneSleepsBesideATask'
  <2>1. Fits(at', Len(m_scheduler'))
    BY FitsIsNoneSleeps, FitsStep
  <2>2. {w \in Worker : at'[w] \in {"start", "woken"}} = In(at', Ready)
    BY DEF In, Ready
  <2> QED BY <2>1, <2>2 DEF NoneSleepsBesideATask, Fits, NoneWaits
<1> QED BY <1>1, <1>2, <1>3, <1>4, <1>5

(* The inductive invariant holds in every reachable state.                 *)
LEMMA Invariance == Spec => []IInv
BY InitInv, NextInv, PTL DEF Spec

(* The variables of pool, workers and owner keep their types.              *)
THEOREM PoolTypeCorrect == Spec => []TypeOK
<1>1. IInv => TypeOK
  BY DEF IInv
<1> QED BY <1>1, Invariance, PTL

(* The counters of workers and of active workers are exact, whatever the   *)
(* owner calls and however many workers and tasks there are.               *)
THEOREM PoolCountersExact == Spec => []CountersExact
<1>1. IInv => CountersExact
  BY DEF IInv
<1> QED BY <1>1, Invariance, PTL

(* No task is executed twice, and none that was cleared is executed.       *)
THEOREM TasksExecutedOnce == Spec => []ExecutedOnce
<1>1. IInv => ExecutedOnce
  BY DEF IInv
<1> QED BY <1>1, Invariance, PTL

(* When the shutdown is over nothing is pending, and when it has waited no *)
(* task is left behind.                                                    *)
THEOREM NoTaskLeftBehind == Spec => []NothingLeftBehind
<1>1. IInv => NothingLeftBehind
  <2> SUFFICES ASSUME IInv, owner \in Closed PROVE
                 /\ m_scheduler = << >>
                 /\ ShutdownPolicy # "immediately" =>
                      /\ \A t \in Task : begun[t] > 0 => t \in ended
                      /\ \A w \in Worker : at[w] # "running"
    BY DEF NothingLeftBehind
  <2>1. m_scheduler = << >>
    BY DEF IInv, Quiet
  <2>2. ASSUME ShutdownPolicy # "immediately"
        PROVE  /\ \A w \in Worker : at[w] # "running"
               /\ \A t \in Task : begun[t] > 0 => t \in ended
    <3>1. \A w \in Worker : at[w] # "running"
      BY <2>2 DEF IInv, Quiet
    <3>2. \A w \in Worker : task[w] = NoTask
      BY <3>1 DEF IInv, Working
    <3>3. ASSUME NEW t \in Task, begun[t] > 0 PROVE t \in ended
      BY <3>2, <3>3, ConstantsAssumption DEF IInv, Working
    <3> QED BY <3>1, <3>3
  <2> QED BY <2>1, <2>2
<1> QED BY <1>1, Invariance, PTL

(* No wake-up is lost: while a worker sleeps, every pending task has a     *)
(* worker of its own on the way to it.                                     *)
THEOREM NoLostWakeUp == Spec => []NoneSleepsBesideATask
<1>1. IInv => NoneSleepsBesideATask
  BY DEF IInv
<1> QED BY <1>1, Invariance, PTL

-----------------------------------------------------------------------------
(* The order in which main schedules the jobs.                             *)

USE DEF input, reports

Before(a, b) == \/ a[1] < b[1]
                \/ a[1] = b[1] /\ a[2] < b[2]
                \/ a[1] = b[1] /\ a[2] = b[2] /\ a[3] < b[3]

(* The traces and their sizes are counted from 1, the methods asked for    *)
(* are among those of a job.                                               *)
LEMMA SizesFacts ==
  /\ Len(mem_sizes) \in Nat /\ DOMAIN mem_sizes = 1 .. Len(mem_sizes)
  /\ \A k \in 1 .. Len(mem_sizes) : Len(mem_sizes[k]) \in Nat
  /\ Len(kMethods) \in Nat /\ Len(Asked) \in 1 .. Len(kMethods)
<1>1. /\ mem_sizes \in Seq(Seq(Nat)) /\ Len(kMethods) \in Nat
      /\ Len(kMethods) >= 1
  BY JobsAssumption
<1>2. /\ Len(mem_sizes) \in Nat /\ DOMAIN mem_sizes = 1 .. Len(mem_sizes)
      /\ \A k \in 1 .. Len(mem_sizes) : mem_sizes[k] \in Seq(Nat)
  BY <1>1
<1>3. \A s \in Seq(Nat) : Len(s) \in Nat
  OBVIOUS
<1>4. Len(<<FLAGS_method>>) = 1
  OBVIOUS
<1>5. Len(Asked) \in 1 .. Len(kMethods)
  BY <1>1, <1>4 DEF Asked
<1> QED BY <1>1, <1>2, <1>3, <1>5

(* What the three loops go through.                                        *)
LEMMA JobParts ==
  ASSUME NEW job \in Task
  PROVE  /\ job = <<job[1], job[2], job[3]>>
         /\ job[1] \in 1 .. Len(mem_sizes)
         /\ job[2] \in 1 .. Len(mem_sizes[job[1]])
         /\ job[3] \in 1 .. Len(kMethods)
<1>1. PICK k \in DOMAIN mem_sizes :
        job \in {k} \X (1 .. Len(mem_sizes[k])) \X (1 .. Len(kMethods))
  BY JobsAssumption
<1> QED BY <1>1, SizesFacts

(* A job is made of three indices.                                         *)
LEMMA PartsJob ==
  ASSUME NEW i \in 1 .. Len(mem_sizes), NEW j \in 1 .. Len(mem_sizes[i]),
         NEW k \in 1 .. Len(kMethods)
  PROVE  <<i, j, k>> \in Task /\ (k <= Len(Asked) => <<i, j, k>> \in Jobs)
<1>1. <<i, j, k>> \in {i} \X (1 .. Len(mem_sizes[i])) \X (1 .. Len(kMethods))
  OBVIOUS
<1>2. i \in DOMAIN mem_sizes
  BY SizesFacts
<1>3. <<i, j, k>> \in Task
  BY <1>1, <1>2, JobsAssumption
<1> QED BY <1>3 DEF Jobs

(* Jobs come one after the other, each once.                               *)
LEMMA BeforeOrder ==
  ASSUME NEW a \in Task, NEW b \in Task
  PROVE  /\ ~Before(a, a)
         /\ Before(a, b) => ~Before(b, a)
         /\ a = b \/ Before(a, b) \/ Before(b, a)
<1>1. /\ a[1] \in Int /\ a[2] \in Int /\ a[3] \in Int
      /\ b[1] \in Int /\ b[2] \in Int /\ b[3] \in Int
  BY JobParts, SizesFacts
<1>2. a[1] = b[1] /\ a[2] = b[2] /\ a[3] = b[3] => a = b
  BY JobParts
<1> QED BY <1>1, <1>2 DEF Before

(* Where the loop over the traces can be, with and without a job.          *)
Starts == {TraceStart(k) : k \in 1 .. Len(mem_sizes) + 1}

(* What is before the beginning of a trace belongs to an earlier trace.    *)
LEMMA StartFacts ==
  ASSUME NEW job \in Task, NEW k \in Int
  PROVE  Before(job, TraceStart(k)) <=> job[1] < k
<1>1. job[1] \in Int /\ job[2] \in Int /\ job[2] >= 1 /\ job[3] \in Int
        /\ job[3] >= 1
  BY JobParts, SizesFacts
<1> QED BY <1>1 DEF Before, TraceStart

(* The loops start with nothing behind them.                               *)
LEMMA FirstFacts == First \in Starts /\ \A job \in Task : ~Before(job, First)
<1>1. First \in Starts
  BY SizesFacts DEF First, Starts
<1>2. ASSUME NEW job \in Task PROVE ~Before(job, First)
  BY StartFacts, JobParts, SizesFacts DEF First
<1> QED BY <1>1, <1>2

(* When they end every job is behind.                                      *)
LEMMA FinishedFacts ==
  Finished \notin Task /\ \A job \in Task : Before(job, Finished)
<1>1. Finished \notin Task
  <2> SUFFICES ASSUME Finished \in Task PROVE FALSE
    OBVIOUS
  <2>1. Finished[1] \in 1 .. Len(mem_sizes)
    BY JobParts
  <2> QED BY <2>1, SizesFacts DEF Finished, TraceStart
<1>2. ASSUME NEW job \in Task PROVE Before(job, Finished)
  BY StartFacts, JobParts, SizesFacts DEF Finished
<1> QED BY <1>1, <1>2

(* A trace without a size has no job.                                      *)
LEMMA SkipFacts ==
  ASSUME NEW place \in Starts, place \notin Jobs, place # Finished
  PROVE  /\ TraceStart(place[1] + 1) \in Starts
         /\ \A job \in Task :
              Before(job, TraceStart(place[1] + 1)) <=> Before(job, place)
<1>1. PICK k \in 1 .. Len(mem_sizes) + 1 : place = TraceStart(k)
  BY DEF Starts
<1>2. place[1] = k /\ k \in 1 .. Len(mem_sizes)
  BY <1>1, SizesFacts DEF TraceStart, Finished
<1>3. mem_sizes[k] = <<>> \/ Len(mem_sizes[k]) = 0
  <2>1. 1 \notin 1 .. Len(mem_sizes[k])
    BY <1>1, <1>2, PartsJob, SizesFacts DEF TraceStart
  <2> QED BY <1>2, <2>1, SizesFacts
<1>4. TraceStart(place[1] + 1) \in Starts
  BY <1>2, SizesFacts DEF Starts
<1>5. ASSUME NEW job \in Task
      PROVE  Before(job, TraceStart(place[1] + 1)) <=> Before(job, place)
  <2>1. job[1] # k
    BY <1>2, <1>3, JobParts, SizesFacts
  <2>2. job[1] \in Int /\ k \in Int
    BY <1>2, JobParts, SizesFacts
  <2> QED BY <1>1, <1>2, <2>1, <2>2, StartFacts
<1> QED BY <1>4, <1>5

(* Each turn puts one job behind.                                          *)
LEMMA AfterFacts ==
  ASSUME NEW job \in Jobs
  PROVE  /\ After(job) \in Jobs \cup Starts
         /\ \A other \in Jobs :
              Before(other, After(job)) <=> (Before(other, job) \/ other = job)
<1> DEFINE i == job[1]
           j == job[2]
           k == job[3]
           sizes == Len(mem_sizes[i])
           asked == Len(Asked)
<1>1. /\ i \in 1 .. Len(mem_sizes) /\ j \in 1 .. sizes
      /\ k \in 1 .. asked /\ job = <<i, j, k>>
  BY JobParts, SizesFacts DEF Jobs
<1>2. After(job) = IF k < asked THEN <<i, j, k + 1>>
                   ELSE IF j < sizes THEN <<i, j + 1, 1>>
                   ELSE <<i + 1, 1, 1>>
  BY DEF After, TraceStart
<1>3. /\ Len(mem_sizes) \in Nat /\ sizes \in Nat
      /\ asked \in Nat /\ asked >= 1
      /\ \A a \in 1 .. asked : a \in 1 .. Len(kMethods)
  BY <1>1, SizesFacts
<1>4. \A b \in 1 .. sizes, c \in 1 .. asked : <<i, b, c>> \in Jobs
  BY <1>1, <1>3, PartsJob
<1>5. \A a \in 1 .. Len(mem_sizes) + 1 : <<a, 1, 1>> \in Starts
  BY DEF Starts, TraceStart
<1>6. ASSUME NEW other \in Jobs
      PROVE  /\ other = <<other[1], other[2], other[3]>>
             /\ other[1] \in Int /\ other[2] \in Int /\ other[2] >= 1
             /\ other[3] \in 1 .. asked
             /\ other[1] = i => other[2] <= sizes
  BY JobParts, SizesFacts DEF Jobs
<1> HIDE DEF i, j, k, sizes, asked
<1>7. After(job) \in Jobs \cup Starts
  <2>1. CASE k < asked
    BY <1>1, <1>2, <1>3, <1>4, <2>1
  <2>2. CASE k >= asked /\ j < sizes
    BY <1>1, <1>2, <1>3, <1>4, <2>2
  <2>3. CASE k >= asked /\ j >= sizes
    BY <1>1, <1>2, <1>3, <1>5, <2>3
  <2> QED BY <1>1, <1>3, <2>1, <2>2, <2>3
<1>8. ASSUME NEW other \in Jobs
      PROVE  Before(other, After(job)) <=> (Before(other, job) \/ other = job)
  <2> DEFINE x == other[1]
             y == other[2]
             z == other[3]
  <2>1. /\ x \in Int /\ y \in Int /\ y >= 1 /\ z \in 1 .. asked
        /\ other = <<x, y, z>> /\ (x = i => y <= sizes)
    BY <1>6
  <2>2. /\ Before(other, job) <=> \/ x < i
                                  \/ x = i /\ y < j
                                  \/ x = i /\ y = j /\ z < k
        /\ (other = job) <=> (x = i /\ y = j /\ z = k)
    BY <1>1, <2>1 DEF Before, i, j, k
  <2>3. \A a, b, c : Before(other, <<a, b, c>>) <=>
          x < a \/ (x = a /\ y < b) \/ (x = a /\ y = b /\ z < c)
    BY DEF Before
  <2> HIDE DEF x, y, z
  <2>4. CASE k < asked
    BY <1>1, <1>2, <1>3, <2>1, <2>2, <2>3, <2>4
  <2>5. CASE k >= asked /\ j < sizes
    BY <1>1, <1>2, <1>3, <2>1, <2>2, <2>3, <2>5
  <2>6. CASE k >= asked /\ j >= sizes
    <3>1. /\ k = asked /\ ~(k < asked) /\ j = sizes /\ ~(j < sizes)
          /\ i \in Int /\ sizes \in Int
      BY <1>1, <1>3, <2>6
    <3>2. After(job) = <<i + 1, 1, 1>>
      BY <1>2, <3>1
    <3>3. Before(other, After(job)) <=> x <= i
      BY <2>1, <2>3, <3>1, <3>2
    <3>4. Before(other, job) \/ other = job <=> x <= i
      BY <1>3, <2>1, <2>2, <3>1
    <3> QED BY <3>3, <3>4
  <2> QED BY <1>1, <1>3, <2>4, <2>5, <2>6
<1> QED BY <1>7, <1>8

-----------------------------------------------------------------------------
(* The main thread and its pool.                                           *)

(* What main has done so far shows in the owner's place: before it returns *)
(* it is between two calls, and before it sizes the pool there is nothing. *)
Driven ==
  /\ FLAGS_pool \in 0 .. MaxWorkers
  /\ next \in Jobs \cup Starts
  /\ main \in {"start", "scheduling", "returned"}
  /\ main = "start" => m_worker_count = 0
  /\ main # "returned" => owner = "ready"
  /\ main = "returned" => next = Finished
  /\ SchedulingPolicy = "fifo_scheduler"
  /\ ShutdownPolicy = "wait_for_all_tasks"

(* The pool never has more workers than asked for.                         *)
Sized == /\ m_worker_count <= FLAGS_pool
         /\ \A w \in Worker : at[w] # "throwing"

(* The jobs main has been past are those that wait or were begun.          *)
Scheduled ==
  /\ dropped = {}
  /\ \A job \in Jobs :
       Before(job, next) <=> (job \in Range(m_scheduler) \/ begun[job] > 0)
  /\ \A job \in Task :
       job \in Range(m_scheduler) \/ begun[job] > 0 => job \in Jobs

StepAt == {"idle", "simulating", "locking", "writing", "printing", "unlocking",
           "over"}
Holding == {"writing", "printing", "unlocking"}
Reporting == {"locking", "writing", "printing", "unlocking"}

(* A worker is somewhere in ReplaceJob::Run while it has a job, and holds  *)
(* the lock in the middle of it; its job has not ended.  Only a job of a   *)
(* supported method comes as far as the lock.                              *)
Stepped ==
  /\ step \in [Worker -> StepAt]
  /\ kReportLock \in Worker \cup {NoWorker}
  /\ \A w \in Worker : step[w] = "idle" <=> task[w] = NoTask
  /\ \A w \in Worker : kReportLock = w <=> step[w] \in Holding
  /\ \A w \in Worker : task[w] \notin ended
  /\ \A job \in ended : begun[job] > 0
  /\ \A w \in Worker : step[w] \in Reporting => Supported(task[w])

(* The line of a job has been written.                                     *)
Written(job) ==
  /\ Supported(job)
  /\ \/ job \in ended
     \/ \E w \in Worker : /\ task[w] = job
                          /\ step[w] \in {"printing", "unlocking", "over"}

SizesOf(f) == 1 .. Len(mem_sizes[f[1]])

(* A job has a line just when it has been written.                         *)
LinesCounted ==
  /\ results \in [Files -> Seq(Nat)]
  /\ \A f \in Files : results[f] \in Seq(SizesOf(f))
  /\ \A job \in Task : Lines(job) = IF Written(job) THEN 1 ELSE 0

(* Half of a report is on the console while its worker is between the two  *)
(* parts; it is the last thing there.                                      *)
Printing(w) == step[w] = "printing"
Printed ==
  /\ console \in Seq(Task \X {"head", "rest"})
  /\ ReportsContiguous
  /\ Len(console) % 2 = 1 <=> \E w \in Worker : Printing(w)
  /\ \A w \in Worker : Printing(w) => console[Len(console)] = <<task[w], "head">>

(* Jobs wait in the order in which main scheduled them, behind those that  *)
(* were begun.                                                             *)
Queued ==
  /\ \A i, j \in 1 .. Len(m_scheduler) :
       i < j => Before(m_scheduler[i], m_scheduler[j])
  /\ \A job \in Task, i \in 1 .. Len(m_scheduler) :
       begun[job] > 0 => Before(job, m_scheduler[i])

(* The job of a single worker is the last that was begun.                  *)
InTurn ==
  FLAGS_pool = 1 => \A w \in Worker, job \in Task :
    task[w] # NoTask /\ begun[job] > 0 /\ job # task[w] => Before(job, task[w])

JInv == /\ Driven /\ Sized /\ Scheduled /\ Stepped /\ LinesCounted /\ Printed
        /\ Queued /\ InTurn /\ OrderedWithOneWorker

(* main and the jobs start with the pool.                                  *)
LEMMA InitJobsInv == InitJobs => JInv
<1> SUFFICES ASSUME InitJobs PROVE JInv
  OBVIOUS
<1>1. Driven
  BY FirstFacts, ConstantsAssumption DEF InitJobs, Init, Driven
<1>2. Sized
  BY ConstantsAssumption DEF InitJobs, Init, Sized
<1>3. Scheduled
  BY FirstFacts, EmptyFacts DEF InitJobs, Init, Scheduled, Jobs
<1>4. Stepped
  BY JobsAssumption DEF InitJobs, Init, Stepped, StepAt, Holding, Reporting
<1>5. LinesCounted
  <2>1. /\ results = [f \in Files |-> <<>>] /\ task = [w \in Worker |-> NoTask]
        /\ ended = {}
    BY DEF InitJobs, Init
  <2>2. /\ results \in [Files -> Seq(Nat)]
        /\ \A f \in Files : results[f] \in Seq(SizesOf(f))
    BY <2>1
  <2>3. ASSUME NEW job \in Task PROVE Lines(job) = 0 /\ ~Written(job)
    <3>1. results[File(job)] = <<>>
      BY <2>1, JobParts, SizesFacts DEF File, Files
    <3>2. {i \in 1 .. Len(results[File(job)]) : results[File(job)][i] = job[2]} = {}
      BY <3>1
    <3>3. ~Written(job)
      BY <2>1, ConstantsAssumption DEF Written
    <3> QED BY <3>2, <3>3, FS_EmptySet DEF Lines
  <2> QED BY <2>2, <2>3 DEF LinesCounted
<1>6. Printed /\ Queued /\ InTurn
  BY DEF InitJobs, Init, Printed, Printing, ReportsContiguous, Queued, InTurn
<1>7. OrderedWithOneWorker
  BY DEF InitJobs, OrderedWithOneWorker
<1> QED BY <1>1, <1>2, <1>3, <1>4, <1>5, <1>6, <1>7 DEF JInv

(* The steps of the batch that the pool does not see.                      *)
Apart(w) == Simulate(w) \/ NotSupported(w) \/ LockReport(w) \/ WriteLine(w)
              \/ PrintSummary(w) \/ UnlockReport(w)

(* The steps of the pool that neither main nor a job takes.                *)
Within == \/ OwnerContinues \/ SpuriousOwner
          \/ \E w \in Worker : Leave(w) \/ Idle(w) \/ Destructed(w)
                                \/ Exit(w) \/ SpuriousWorker(w)

(* Every step is of one of these kinds.                                    *)
LEMMA Kinds ==
  ASSUME [NextJobs]_allVars
  PROVE  \/ SizePool \/ ScheduleJob \/ SkipTrace \/ ReturnFromMain
         \/ \E w \in Worker : TakeJob(w) \/ EndJob(w) \/ Apart(w)
         \/ Within /\ UNCHANGED jobVars
         \/ UNCHANGED vars /\ UNCHANGED jobVars
BY DEF NextJobs, MainContinues, JobContinues, ThreadContinues, Apart, Within,
       allVars

(* The arguments and the traces stay what they are.                        *)
LEMMA InputsStay ==
  ASSUME [NextJobs]_allVars
  PROVE  /\ FLAGS_pool' = FLAGS_pool
         /\ Asked' = Asked /\ Jobs' = Jobs
         /\ \A job : Supported(job)' <=> Supported(job)
<1>1. UNCHANGED <<FLAGS_pool, FLAGS_method, mTraceLength>>
  <2>1. ASSUME NEW w \in Worker, TakeJob(w) \/ EndJob(w) \/ Apart(w)
        PROVE  UNCHANGED <<FLAGS_pool, FLAGS_method, mTraceLength>>
    BY <2>1 DEF TakeJob, EndJob, Apart, Simulate, NotSupported, LockReport,
                WriteLine, PrintSummary, UnlockReport
  <2> QED BY <2>1, Kinds DEF SizePool, ScheduleJob, SkipTrace, ReturnFromMain,
                             jobVars
<1>2. Asked' = Asked
  BY <1>1 DEF Asked
<1> QED BY <1>1, <1>2 DEF Jobs, Supported

(* Every step of main and of the jobs is a step of the pool or leaves the  *)
(* pool alone.                                                             *)
LEMMA PoolStep ==
  ASSUME Driven, [NextJobs]_allVars
  PROVE  [Next]_vars
<1>1. CASE SizePool
  <2>1. FLAGS_pool \in 0 .. MaxWorkers
    BY DEF Driven
  <2> QED BY <1>1, <2>1 DEF SizePool, Next
<1>2. CASE ScheduleJob
  BY <1>2 DEF ScheduleJob, Jobs, Next
<1>7. CASE SkipTrace
  BY <1>7 DEF SkipTrace
<1>3. CASE ReturnFromMain
  BY <1>3 DEF ReturnFromMain, Next
<1>4. ASSUME NEW w \in Worker, TakeJob(w) \/ EndJob(w) PROVE Next
  BY <1>4 DEF TakeJob, EndJob, Next, WorkerContinues
<1>5. ASSUME NEW w \in Worker, Apart(w) PROVE UNCHANGED vars
  BY <1>5 DEF Apart, Simulate, NotSupported, LockReport, WriteLine,
              PrintSummary, UnlockReport
<1>6. CASE Within
  BY <1>6 DEF Within, Next, WorkerContinues
<1> QED BY Kinds, <1>1, <1>2, <1>3, <1>4, <1>5, <1>6, <1>7

(* The owner moves on only when main calls it.                             *)
LEMMA DrivenStep ==
  ASSUME IInv, IInv', Driven, [NextJobs]_allVars
  PROVE  Driven'
<1> USE DEF counts, terminals, ghosts, Driven
<1>1. UNCHANGED <<SchedulingPolicy, ShutdownPolicy, FLAGS_pool, Jobs>>
  BY PoolStep, PoliciesStay, InputsStay
<1>9. Starts' = Starts
  BY DEF Starts, TraceStart
<1>2. CASE SizePool
  BY <1>1, <1>2, <1>9 DEF SizePool, Resize
<1>3. CASE ScheduleJob
  <2>1. next' \in Jobs \cup Starts
    BY <1>3, AfterFacts DEF ScheduleJob
  <2> QED BY <1>1, <1>3, <1>9, <2>1 DEF ScheduleJob, Schedule
<1>10. CASE SkipTrace
  <2>1. next' \in Starts
    BY <1>10, SkipFacts DEF SkipTrace
  <2> QED BY <1>1, <1>9, <1>10, <2>1 DEF SkipTrace, vars
<1>4. CASE ReturnFromMain
  BY <1>1, <1>4, <1>9 DEF ReturnFromMain, Shutdown, Finished
<1>5. ASSUME NEW w \in Worker, TakeJob(w) \/ EndJob(w) PROVE Driven'
  BY <1>1, <1>5, <1>9 DEF TakeJob, EndJob, Fetch, Return, EndTask
<1>6. ASSUME NEW w \in Worker, Apart(w) PROVE Driven'
  BY <1>1, <1>6, <1>9 DEF Apart, Simulate, NotSupported, LockReport,
                          WriteLine, PrintSummary, UnlockReport, vars
<1>7. CASE Within /\ UNCHANGED jobVars
  <2>1. ASSUME OwnerContinues \/ SpuriousOwner
        PROVE  /\ m_worker_count' = m_worker_count
               /\ owner = "ready" => owner' = "ready"
    BY <2>1 DEF OwnerContinues, WaitAgain, Shutdown, TerminateAllWorkers,
                DrainAgain, Join, SpuriousOwner, Woken
  <2>2. ASSUME NEW w \in Worker,
               Leave(w) \/ Idle(w) \/ Exit(w) \/ SpuriousWorker(w)
        PROVE  /\ m_worker_count' = m_worker_count
               /\ owner = "ready" => owner' = "ready"
    BY <2>2 DEF Leave, Idle, Exit, SpuriousWorker, Woken
  <2>3. ASSUME NEW w \in Worker, Destructed(w)
        PROVE  /\ m_worker_count # 0
               /\ owner = "ready" => owner' = "ready"
    <3>1. m_worker_count' = m_worker_count - 1 /\ m_worker_count' \in Nat
      BY <2>3 DEF Destructed, IInv, TypeOK
    <3>2. m_worker_count # 0
      BY <3>1
    <3> QED BY <2>3, <3>2 DEF Destructed, Woken
  <2>4. /\ m_worker_count = 0 => m_worker_count' = 0
        /\ owner = "ready" => owner' = "ready"
    BY <1>7, <2>1, <2>2, <2>3 DEF Within
  <2>5. UNCHANGED <<main, next>>
    BY <1>7 DEF jobVars
  <2> QED BY <1>1, <1>9, <2>4, <2>5
<1>8. CASE UNCHANGED vars /\ UNCHANGED jobVars
  BY <1>1, <1>8, <1>9 DEF vars, jobVars
<1> QED BY Kinds, <1>2, <1>3, <1>4, <1>5, <1>6, <1>7, <1>8, <1>10

(* Workers are started once, at most as many as asked for, and never       *)
(* replaced.                                                               *)
LEMMA SizedStep ==
  ASSUME IInv, IInv', Driven, Sized, [NextJobs]_allVars
  PROVE  Sized'
<1> USE DEF counts, terminals, ghosts, Sized
<1>0. /\ at \in [Worker -> WorkerAt] /\ m_worker_count \in Nat
      /\ FLAGS_pool \in Int /\ m_worker_count' \in Nat
  BY ConstantsAssumption DEF IInv, TypeOK, Driven
<1>1. CASE SizePool
  <2>1. Resize(FLAGS_pool) /\ m_worker_count = 0 /\ FLAGS_pool' = FLAGS_pool
    BY <1>1 DEF SizePool, Driven
  <2>2. m_worker_count <= FLAGS_pool
    BY <1>0
  <2>3. PICK new \in Started(at, m_worker_count, FLAGS_pool) :
          /\ at' = Start(at, new)
          /\ m_worker_count' = m_worker_count + Cardinality(new)
    BY <2>1, <2>2 DEF Resize
  <2>4. \/ m_worker_count + Cardinality(new) = FLAGS_pool
        \/ m_worker_count + Cardinality(new) < FLAGS_pool
    BY <2>3 DEF Started
  <2>5. \A w \in Worker : at'[w] # "throwing"
    BY <2>3 DEF Start
  <2> QED BY <1>0, <2>1, <2>3, <2>4, <2>5
<1>2. CASE ScheduleJob
  <2>1. /\ UNCHANGED <<m_worker_count, FLAGS_pool>>
        /\ NotifyOne
    BY <1>2 DEF ScheduleJob, Schedule
  <2>2. \A w \in Worker : at'[w] # "throwing"
    BY <1>0, <2>1 DEF NotifyOne
  <2> QED BY <1>0, <2>1, <2>2
<1>3. CASE ReturnFromMain
  BY <1>3 DEF ReturnFromMain, Shutdown
<1>4. ASSUME NEW w \in Worker, TakeJob(w) \/ EndJob(w) PROVE Sized'
  BY <1>0, <1>4 DEF TakeJob, EndJob, Fetch, Return, EndTask
<1>5. ASSUME NEW w \in Worker, Apart(w) PROVE Sized'
  BY <1>5 DEF Apart, Simulate, NotSupported, LockReport, WriteLine,
              PrintSummary, UnlockReport, vars
<1>6. CASE Within /\ UNCHANGED jobVars
  <2>1. ASSUME OwnerContinues \/ SpuriousOwner
        PROVE  /\ m_worker_count' = m_worker_count
               /\ at' = at \/ at' = AllWoken
    BY <2>1 DEF OwnerContinues, WaitAgain, Shutdown, TerminateAllWorkers,
                DrainAgain, Join, SpuriousOwner
  <2>2. ASSUME NEW w \in Worker,
               Leave(w) \/ Idle(w) \/ Exit(w) \/ SpuriousWorker(w) \/ Destructed(w)
        PROVE  /\ m_worker_count' \in {m_worker_count, m_worker_count - 1}
               /\ \E x \in {"leaving", "waiting", "none", "woken", "exiting"} :
                    at' = [at EXCEPT ![w] = x]
    BY <2>2 DEF Leave, Idle, Exit, SpuriousWorker, Destructed
  <2>3. m_worker_count' <= m_worker_count
    BY <1>0, <1>6, <2>1, <2>2 DEF Within
  <2>4. \A w \in Worker : at'[w] # "throwing"
    BY <1>0, <1>6, <2>1, <2>2 DEF Within, AllWoken
  <2>5. FLAGS_pool' = FLAGS_pool
    BY <1>6 DEF jobVars
  <2> QED BY <1>0, <2>3, <2>4, <2>5
<1>7. CASE UNCHANGED vars /\ UNCHANGED jobVars
  BY <1>7 DEF vars, jobVars
<1>8. CASE SkipTrace
  BY <1>8 DEF SkipTrace, vars
<1> QED BY Kinds, <1>1, <1>2, <1>3, <1>4, <1>5, <1>6, <1>7, <1>8

(* The queue, the tasks and their state change only when main schedules a  *)
(* job or a worker takes or ends one.                                      *)
LEMMA TasksStay ==
  ASSUME Driven,
         \/ SizePool \/ SkipTrace \/ ReturnFromMain \/ Within
         \/ UNCHANGED vars \/ \E w \in Worker : Apart(w)
  PROVE  UNCHANGED <<m_scheduler, task, begun, ended, dropped>>
<1>1. CASE SizePool
  <2>1. FLAGS_pool \in 0 .. MaxWorkers /\ Resize(FLAGS_pool)
    BY <1>1 DEF Driven, SizePool
  <2> QED BY <2>1, TasksAlone
<1>2. CASE ReturnFromMain
  BY <1>2, TasksAlone DEF ReturnFromMain
<1>3. CASE Within
  BY <1>3, TasksAlone DEF Within, OwnerContinues
<1>4. ASSUME NEW w \in Worker, Apart(w) PROVE UNCHANGED vars
  BY <1>4 DEF Apart, Simulate, NotSupported, LockReport, WriteLine,
              PrintSummary, UnlockReport
<1>5. CASE SkipTrace
  BY <1>5, TasksAlone DEF SkipTrace
<1> QED BY <1>1, <1>2, <1>3, <1>4, <1>5, TasksAlone

(* A scheduled job goes to the end of the queue.                           *)
LEMMA ScheduleFacts ==
  ASSUME IInv, Driven, ScheduleJob
  PROVE  /\ next \in Jobs /\ next \in Task
         /\ begun[next] = 0 /\ next \notin Range(m_scheduler)
         /\ m_scheduler' = InsertAt(m_scheduler, Len(m_scheduler) + 1, next)
         /\ m_scheduler' \in Seq(Task)
         /\ Range(m_scheduler') = Range(m_scheduler) \cup {next}
         /\ next' = After(next)
         /\ UNCHANGED <<task, begun, ended, dropped, main, step, kReportLock,
                       FLAGS_pool, results, console>>
<1>1. next \in Jobs /\ next \in Task /\ Schedule(next)
  BY DEF ScheduleJob, Jobs
<1>2. /\ begun[next] = 0 /\ next \notin Range(m_scheduler)
      /\ UNCHANGED <<task, begun, ended, dropped>>
  BY <1>1 DEF Schedule, ghosts
<1>3. PICK i \in Places(next) : m_scheduler' = InsertAt(m_scheduler, i, next)
  BY <1>1 DEF Schedule
<1>4. i = Len(m_scheduler) + 1
  BY <1>3 DEF Places, AtBack, Driven
<1>5. /\ m_scheduler' \in Seq(Task)
      /\ Range(m_scheduler') = Range(m_scheduler) \cup {next}
  BY <1>1, <1>2, <1>3, PushFacts DEF IInv, TypeOK, ExecutedOnce
<1> QED BY <1>1, <1>2, <1>3, <1>4, <1>5 DEF ScheduleJob

(* A worker without a job takes the first of the queue.                    *)
LEMMA TakeFacts ==
  ASSUME IInv, NEW w \in Worker, TakeJob(w)
  PROVE  \E job \in Task :
           /\ job \in Range(m_scheduler) /\ m_scheduler # <<>>
           /\ job = Head(m_scheduler) /\ m_scheduler' = Tail(m_scheduler)
           /\ Range(m_scheduler') = Range(m_scheduler) \ {job}
           /\ begun[job] = 0
           /\ \A t \in Task : begun'[t] = IF t = job THEN 1 ELSE begun[t]
           /\ at[w] \in {"woken", "start"}
           /\ task[w] = NoTask
           /\ \A v \in Worker : task[v] # job
           /\ \A v \in Worker : task'[v] = IF v = w THEN job ELSE task[v]
           /\ step' = [step EXCEPT ![w] = "simulating"]
           /\ UNCHANGED <<ended, dropped, main, next, kReportLock, FLAGS_pool,
                         results, console>>
<1> DEFINE job == Head(m_scheduler)
<1>1. /\ m_scheduler # <<>> /\ m_scheduler' = Tail(m_scheduler)
      /\ task' = [task EXCEPT ![w] = job]
      /\ begun' = [begun EXCEPT ![job] = @ + 1]
      /\ at[w] \in {"woken", "start"}
      /\ UNCHANGED <<ended, dropped>>
  BY DEF TakeJob, Fetch, Popped
<1>2. /\ job \in Range(m_scheduler)
      /\ Range(m_scheduler') = Range(m_scheduler) \ {job}
  BY <1>1, TailFacts DEF IInv, TypeOK, ExecutedOnce
<1>3. job \in Task /\ begun[job] = 0
  BY <1>1, <1>2, TailFacts DEF IInv, TypeOK, ExecutedOnce, Range
<1> HIDE DEF job
<1>4. \A t \in Task : begun'[t] = IF t = job THEN 1 ELSE begun[t]
  BY <1>1, <1>3 DEF IInv, TypeOK
<1>5. \A v \in Worker : task'[v] = IF v = w THEN job ELSE task[v]
  BY <1>1 DEF IInv, TypeOK
<1>6. task[w] = NoTask /\ \A v \in Worker : task[v] # job
  BY <1>1, <1>3, ConstantsAssumption DEF IInv, Working
<1>7. /\ step' = [step EXCEPT ![w] = "simulating"]
      /\ UNCHANGED <<main, next, kReportLock, FLAGS_pool, results, console>>
  BY DEF TakeJob
<1> QED BY <1>1, <1>2, <1>3, <1>4, <1>5, <1>6, <1>7 DEF job

(* A worker ends the job it is alone in having.                            *)
LEMMA EndFacts ==
  ASSUME IInv, Stepped, NEW w \in Worker, EndJob(w)
  PROVE  /\ task[w] \in Task /\ step[w] = "over" /\ at[w] = "running"
         /\ begun[task[w]] > 0 /\ ended' = ended \cup {task[w]}
         /\ \A v \in Worker : v # w => task[v] # task[w]
         /\ \A v \in Worker : task'[v] = IF v = w THEN NoTask ELSE task[v]
         /\ step' = [step EXCEPT ![w] = "idle"]
         /\ UNCHANGED <<m_scheduler, begun, dropped, main, next, kReportLock,
                       FLAGS_pool, results, console>>
<1>1. /\ step[w] = "over" /\ at[w] = "running"
      /\ ended' = ended \cup {task[w]} /\ task' = [task EXCEPT ![w] = NoTask]
      /\ step' = [step EXCEPT ![w] = "idle"]
      /\ UNCHANGED <<m_scheduler, begun, dropped, main, next, kReportLock,
                    FLAGS_pool, results, console>>
  BY DEF EndJob, Return, EndTask
<1>2. task[w] # NoTask /\ task[w] \in Task
  BY <1>1 DEF IInv, Working, TypeOK
<1>3. begun[task[w]] > 0 /\ \A v \in Worker : v # w => task[v] # task[w]
  BY <1>2 DEF IInv, Working, ExecutedOnce
<1>4. \A v \in Worker : task'[v] = IF v = w THEN NoTask ELSE task[v]
  BY <1>1 DEF IInv, TypeOK
<1> QED BY <1>1, <1>2, <1>3, <1>4

(* main's place in its loops tells which jobs have been scheduled.         *)
LEMMA ScheduledStep ==
  ASSUME IInv, Driven, Scheduled, Stepped, [NextJobs]_allVars
  PROVE  Scheduled'
<1>0. Jobs' = Jobs
  BY InputsStay
<1>1. ASSUME UNCHANGED <<m_scheduler, begun, dropped, next>> PROVE Scheduled'
  BY <1>0, <1>1 DEF Scheduled
<1>2. CASE ScheduleJob
  BY <1>0, <1>2, ScheduleFacts, AfterFacts DEF Scheduled
<1>3. ASSUME NEW w \in Worker, TakeJob(w) PROVE Scheduled'
  <2>1. PICK job \in Task :
          /\ job \in Range(m_scheduler)
          /\ Range(m_scheduler') = Range(m_scheduler) \ {job}
          /\ \A t \in Task : begun'[t] = IF t = job THEN 1 ELSE begun[t]
          /\ UNCHANGED <<dropped, next>>
    BY <1>3, TakeFacts
  <2>2. \A t \in Task : (t \in Range(m_scheduler') \/ begun'[t] > 0)
                         <=> (t \in Range(m_scheduler) \/ begun[t] > 0)
    BY <2>1
  <2> QED BY <1>0, <2>1, <2>2 DEF Scheduled, Jobs
<1>4. ASSUME NEW w \in Worker, EndJob(w) PROVE Scheduled'
  BY <1>1, <1>4, EndFacts
<1>5. ASSUME \/ SizePool \/ ReturnFromMain \/ \E w \in Worker : Apart(w)
             \/ Within /\ UNCHANGED jobVars
             \/ UNCHANGED vars /\ UNCHANGED jobVars
      PROVE  Scheduled'
  <2>1. next' = next
    BY <1>5 DEF SizePool, ReturnFromMain, Apart, Simulate, NotSupported,
                LockReport, WriteLine, PrintSummary, UnlockReport, jobVars
  <2> QED BY <1>1, <1>5, <2>1, TasksStay
<1>6. CASE SkipTrace
  <2>1. /\ next \notin Jobs /\ next # Finished
        /\ next' = TraceStart(next[1] + 1)
    BY <1>6 DEF SkipTrace
  <2>2. next \in Starts
    BY <2>1 DEF Driven
  <2>3. \A job \in Task : Before(job, next') <=> Before(job, next)
    BY <2>1, <2>2, SkipFacts
  <2>4. UNCHANGED <<m_scheduler, begun, dropped>>
    BY <1>6, TasksStay
  <2> QED BY <1>0, <2>3, <2>4 DEF Scheduled, Jobs
<1> QED BY Kinds, <1>2, <1>3, <1>4, <1>5, <1>6

(* A worker's place in ReplaceJob::Run goes with its job and the lock.     *)
LEMMA SteppedStep ==
  ASSUME IInv, Driven, Stepped, [NextJobs]_allVars
  PROVE  Stepped'
<1>0. \A job : Supported(job)' <=> Supported(job)
  BY InputsStay
<1>1. ASSUME UNCHANGED <<task, begun, ended, step, kReportLock>> PROVE Stepped'
  BY <1>0, <1>1 DEF Stepped
<1>2. CASE ScheduleJob
  BY <1>1, <1>2, ScheduleFacts
<1>3. ASSUME NEW w \in Worker, TakeJob(w) PROVE Stepped'
  <2>1. PICK job \in Task :
          /\ begun[job] = 0 /\ task[w] = NoTask
          /\ \A t \in Task : begun'[t] = IF t = job THEN 1 ELSE begun[t]
          /\ \A v \in Worker : task'[v] = IF v = w THEN job ELSE task[v]
          /\ step' = [step EXCEPT ![w] = "simulating"]
          /\ UNCHANGED <<ended, kReportLock>>
    BY <1>3, TakeFacts
  <2>2. /\ step' \in [Worker -> StepAt]
        /\ \A v \in Worker : step'[v] = IF v = w THEN "simulating" ELSE step[v]
    BY <2>1 DEF Stepped, StepAt
  <2>3. job \notin ended /\ job # NoTask /\ step[w] = "idle" /\ ended \subseteq Task
    BY <2>1, ConstantsAssumption DEF Stepped, IInv, TypeOK
  <2>4. /\ \A v \in Worker : step'[v] = "idle" <=> task'[v] = NoTask
        /\ \A v \in Worker : kReportLock' = v <=> step'[v] \in Holding
    BY <2>1, <2>2, <2>3 DEF Stepped, Holding
  <2>5. /\ \A v \in Worker : task'[v] \notin ended'
        /\ \A t \in ended' : begun'[t] > 0
    BY <2>1, <2>3 DEF Stepped
  <2>6. \A v \in Worker : step'[v] \in Reporting => Supported(task'[v])
    BY <2>1, <2>2 DEF Stepped, Reporting
  <2> QED BY <1>0, <2>1, <2>2, <2>4, <2>5, <2>6 DEF Stepped
<1>4. ASSUME NEW w \in Worker, EndJob(w) PROVE Stepped'
  <2>1. /\ step[w] = "over"
        /\ begun[task[w]] > 0 /\ ended' = ended \cup {task[w]}
        /\ \A v \in Worker : v # w => task[v] # task[w]
        /\ \A v \in Worker : task'[v] = IF v = w THEN NoTask ELSE task[v]
        /\ step' = [step EXCEPT ![w] = "idle"]
        /\ UNCHANGED <<begun, kReportLock>>
        /\ task[w] \in Task
    BY <1>4, EndFacts
  <2>2. /\ step' \in [Worker -> StepAt]
        /\ \A v \in Worker : step'[v] = IF v = w THEN "idle" ELSE step[v]
    BY <2>1 DEF Stepped, StepAt
  <2>3. NoTask \notin ended \cup {task[w]}
    BY <2>1, ConstantsAssumption DEF IInv, TypeOK
  <2>4. /\ \A v \in Worker : step'[v] = "idle" <=> task'[v] = NoTask
        /\ \A v \in Worker : kReportLock' = v <=> step'[v] \in Holding
    BY <2>1, <2>2 DEF Stepped, Holding
  <2>5. /\ \A v \in Worker : task'[v] \notin ended'
        /\ \A t \in ended' : begun'[t] > 0
    BY <2>1, <2>3 DEF Stepped
  <2>6. \A v \in Worker : step'[v] \in Reporting => Supported(task'[v])
    BY <2>1, <2>2 DEF Stepped, Reporting
  <2> QED BY <1>0, <2>1, <2>2, <2>4, <2>5, <2>6 DEF Stepped
<1>5. ASSUME NEW w \in Worker, NEW x \in StepAt \ {"idle"}, step[w] # "idle",
             step' = [step EXCEPT ![w] = x],
             \A v \in Worker : kReportLock' = v <=> step'[v] \in Holding,
             kReportLock' \in Worker \cup {NoWorker},
             x \in Reporting => Supported(task[w]),
             UNCHANGED <<task, begun, ended>>
      PROVE  Stepped'
  BY <1>0, <1>5 DEF Stepped
<1>6. ASSUME NEW w \in Worker,
             Simulate(w) \/ NotSupported(w) \/ WriteLine(w) \/ PrintSummary(w)
      PROVE  Stepped'
  <2>1. PICK x \in StepAt \ {"idle"} :
          /\ step' = [step EXCEPT ![w] = x] /\ step[w] # "idle"
          /\ x \in Holding <=> step[w] \in Holding
          /\ x \in Reporting => Supported(task[w])
    BY <1>6 DEF Simulate, NotSupported, WriteLine, PrintSummary, StepAt,
                Holding, Reporting, Stepped
  <2>2. kReportLock' = kReportLock
    BY <1>6 DEF Simulate, NotSupported, WriteLine, PrintSummary
  <2>3. \A v \in Worker : kReportLock' = v <=> step'[v] \in Holding
    BY <2>1, <2>2 DEF Stepped
  <2> QED BY <1>5, <1>6, <2>1, <2>2, <2>3, TasksStay DEF Apart, Stepped
<1>7. ASSUME NEW w \in Worker, LockReport(w) PROVE Stepped'
  <2>1. /\ step[w] = "locking" /\ step' = [step EXCEPT ![w] = "writing"]
        /\ kReportLock = NoWorker /\ kReportLock' = w
    BY <1>7 DEF LockReport
  <2>2. \A v \in Worker : kReportLock' = v <=> step'[v] \in Holding
    BY <2>1, JobsAssumption DEF Stepped, Holding
  <2> QED BY <1>5, <1>7, <2>1, <2>2, TasksStay DEF Apart, StepAt, Stepped,
                                                   Reporting
<1>8. ASSUME NEW w \in Worker, UnlockReport(w) PROVE Stepped'
  <2>1. /\ step[w] = "unlocking" /\ step' = [step EXCEPT ![w] = "over"]
        /\ kReportLock' = NoWorker
    BY <1>8 DEF UnlockReport
  <2>2. \A v \in Worker : kReportLock' = v <=> step'[v] \in Holding
    BY <2>1, JobsAssumption DEF Stepped, Holding
  <2> QED BY <1>5, <1>8, <2>1, <2>2, TasksStay DEF Apart, StepAt, Reporting
<1>9. ASSUME \/ SizePool \/ SkipTrace \/ ReturnFromMain
             \/ Within /\ UNCHANGED jobVars
             \/ UNCHANGED vars /\ UNCHANGED jobVars
      PROVE  Stepped'
  <2>1. UNCHANGED <<step, kReportLock>>
    BY <1>9 DEF SizePool, SkipTrace, ReturnFromMain, jobVars
  <2> QED BY <1>1, <1>9, <2>1, TasksStay
<1>10. ASSUME NEW w \in Worker, Apart(w) PROVE Stepped'
  BY <1>6, <1>7, <1>8, <1>10 DEF Apart
<1> QED BY Kinds, <1>2, <1>3, <1>4, <1>9, <1>10

-----------------------------------------------------------------------------
(* The reports.                                                            *)

Occurrences(s, b) == Cardinality({i \in 1 .. Len(s) : s[i] = b})

(* Appending adds to the occurrences of what is appended.                  *)
LEMMA AppendCounts ==
  ASSUME NEW S, NEW s \in Seq(S), NEW a \in S, NEW b
  PROVE  Occurrences(Append(s, a), b) = Occurrences(s, b) + (IF a = b THEN 1 ELSE 0)
<1> DEFINE Old == {i \in 1 .. Len(s) : s[i] = b}
           New == {i \in 1 .. Len(Append(s, a)) : Append(s, a)[i] = b}
           n == Len(s) + 1
<1>1. /\ Len(s) \in Nat /\ Len(Append(s, a)) = n
      /\ \A i \in 1 .. n : Append(s, a)[i] = IF i = n THEN a ELSE s[i]
  OBVIOUS
<1>2. New = IF a = b THEN Old \cup {n} ELSE Old
  BY <1>1
<1>3. n \notin Old /\ Old \subseteq 1 .. Len(s)
  BY <1>1
<1> HIDE DEF Old, New, n
<1>4. IsFiniteSet(Old)
  <2>1. IsFiniteSet(1 .. Len(s))
    BY <1>1, FS_Interval
  <2> QED BY <1>3, <2>1, FS_Subset
<1>5. Cardinality(Old) \in Nat /\ Cardinality(Old \cup {n}) = Cardinality(Old) + 1
  BY <1>3, <1>4, FS_AddElement, FS_CardinalityType
<1>6. Cardinality(New) = Cardinality(Old) + (IF a = b THEN 1 ELSE 0)
  BY <1>2, <1>5
<1> QED BY <1>6 DEF Old, New, Occurrences

(* What a worker that writes its line knows of its job.                    *)
LEMMA WriterFacts ==
  ASSUME IInv, Driven, Stepped, LinesCounted, NEW w \in Worker, WriteLine(w)
  PROVE  /\ task[w] \in Task /\ File(task[w]) \in Files
         /\ task[w][2] \in SizesOf(File(task[w])) /\ Supported(task[w])
         /\ ~Written(task[w]) /\ kReportLock = w
         /\ step[w] = "writing" /\ step' = [step EXCEPT ![w] = "printing"]
         /\ \A f \in Files : results'[f] =
              IF f = File(task[w]) THEN Append(results[f], task[w][2])
              ELSE results[f]
         /\ results' \in [Files -> Seq(Nat)]
         /\ \A f \in Files : results'[f] \in Seq(SizesOf(f))
         /\ console' = Append(console, <<task[w], "head">>)
         /\ UNCHANGED <<m_scheduler, task, begun, ended>>
<1>1. /\ step[w] = "writing" /\ step' = [step EXCEPT ![w] = "printing"]
      /\ results' = [results EXCEPT ![File(task[w])] = Append(@, task[w][2])]
      /\ console' = Append(console, <<task[w], "head">>)
  BY DEF WriteLine
<1>2. /\ task[w] \in Task /\ task[w] # NoTask /\ kReportLock = w
      /\ Supported(task[w])
  BY <1>1 DEF Stepped, IInv, TypeOK, Holding, Reporting
<1>3. /\ File(task[w]) \in Files /\ task[w][2] \in SizesOf(File(task[w]))
      /\ task[w][2] \in Nat
  BY <1>2, JobParts, SizesFacts DEF File, Files, SizesOf
<1>4. ~Written(task[w])
  <2>1. \A v \in Worker : task[v] = task[w] => v = w
    BY <1>2 DEF IInv, ExecutedOnce
  <2> QED BY <1>1, <2>1 DEF Written, Stepped
<1> HIDE DEF File
<1>5. /\ results' \in [Files -> Seq(Nat)]
      /\ \A f \in Files : results'[f] =
           IF f = File(task[w]) THEN Append(results[f], task[w][2])
           ELSE results[f]
  BY <1>1, <1>3 DEF LinesCounted
<1>7. ASSUME NEW f \in Files PROVE results'[f] \in Seq(SizesOf(f))
  <2> DEFINE S == SizesOf(f)
             s == results[f]
             a == task[w][2]
  <2>1. s \in Seq(S)
    BY DEF LinesCounted
  <2>2. f = File(task[w]) => a \in S
    BY <1>3
  <2>3. results'[f] = IF f = File(task[w]) THEN Append(s, a) ELSE s
    BY <1>5
  <2> HIDE DEF S, s, a
  <2>4. f = File(task[w]) => Append(s, a) \in Seq(S)
    BY <2>1, <2>2
  <2> QED BY <2>1, <2>3, <2>4 DEF S
<1>6. UNCHANGED <<m_scheduler, task, begun, ended>>
  BY TasksStay DEF Apart
<1> QED BY <1>1, <1>2, <1>3, <1>4, <1>5, <1>6, <1>7

(* Only a job that writes its line changes which jobs have one.            *)
LEMMA WrittenStays ==
  ASSUME IInv, Driven, Stepped, [NextJobs]_allVars,
         ~\E w \in Worker : WriteLine(w)
  PROVE  results' = results /\ \A job \in Task : Written(job)' <=> Written(job)
<1> DEFINE Late == {"printing", "unlocking", "over"}
           Kept == results' = results
                     /\ \A job \in Task : Written(job)' <=> Written(job)
<1>0. \A job : Supported(job)' <=> Supported(job)
  BY InputsStay
<1>1. ASSUME UNCHANGED <<task, ended, results>>,
             \A w \in Worker : Supported(task[w]) =>
               (step'[w] \in Late <=> step[w] \in Late)
      PROVE  Kept
  BY <1>0, <1>1 DEF Written
<1>2. CASE ScheduleJob
  BY <1>1, <1>2, ScheduleFacts
<1>3. ASSUME NEW w \in Worker, TakeJob(w)
      PROVE  Kept
  <2>1. PICK new \in Task :
          /\ task[w] = NoTask /\ UNCHANGED <<ended, results>>
          /\ \A v \in Worker : task'[v] = IF v = w THEN new ELSE task[v]
          /\ step' = [step EXCEPT ![w] = "simulating"]
    BY <1>3, TakeFacts
  <2>2. \A v \in Worker : step'[v] = IF v = w THEN "simulating" ELSE step[v]
    BY <2>1 DEF Stepped
  <2>3. NoTask \notin Task
    BY ConstantsAssumption
  <2>4. \A job \in Task, v \in Worker :
          (task'[v] = job /\ step'[v] \in Late) <=> (task[v] = job /\ step[v] \in Late)
    BY <2>1, <2>2, <2>3
  <2> QED BY <1>0, <2>1, <2>4 DEF Written
<1>4. ASSUME NEW w \in Worker, EndJob(w)
      PROVE  Kept
  <2>1. /\ step[w] = "over" /\ ended' = ended \cup {task[w]}
        /\ \A v \in Worker : v # w => task[v] # task[w]
        /\ \A v \in Worker : task'[v] = IF v = w THEN NoTask ELSE task[v]
        /\ step' = [step EXCEPT ![w] = "idle"] /\ results' = results
    BY <1>4, EndFacts
  <2>2. \A v \in Worker : step'[v] = IF v = w THEN "idle" ELSE step[v]
    BY <2>1 DEF Stepped
  <2>3. NoTask \notin Task
    BY ConstantsAssumption
  <2> QED BY <1>0, <2>1, <2>2, <2>3 DEF Written
<1>5. ASSUME NEW w \in Worker, Apart(w)
      PROVE  Kept
  <2>1. /\ results' = results
        /\ \E x \in StepAt : /\ step' = [step EXCEPT ![w] = x]
                             /\ Supported(task[w]) =>
                                  (x \in Late <=> step[w] \in Late)
    BY <1>5 DEF Apart, Simulate, NotSupported, LockReport, WriteLine,
                PrintSummary, UnlockReport, StepAt
  <2>2. \A v \in Worker : Supported(task[v]) =>
          (step'[v] \in Late <=> step[v] \in Late)
    BY <2>1 DEF Stepped
  <2> QED BY <1>1, <1>5, <2>1, <2>2, TasksStay
<1>6. ASSUME \/ SizePool \/ SkipTrace \/ ReturnFromMain
             \/ Within /\ UNCHANGED jobVars
             \/ UNCHANGED vars /\ UNCHANGED jobVars
      PROVE  Kept
  <2>1. UNCHANGED <<step, results>>
    BY <1>6 DEF SizePool, SkipTrace, ReturnFromMain, jobVars
  <2> QED BY <1>1, <1>6, <2>1, TasksStay
<1> QED BY Kinds, <1>2, <1>3, <1>4, <1>5, <1>6

(* A job has one line when it has been written and none before.            *)
LEMMA LinesStep ==
  ASSUME IInv, Driven, Stepped, LinesCounted, [NextJobs]_allVars
  PROVE  LinesCounted'
<1>1. ASSUME NEW w \in Worker, WriteLine(w) PROVE LinesCounted'
  <2> DEFINE new == task[w]
  <2>1. /\ new \in Task /\ File(new) \in Files /\ new[2] \in Nat
        /\ ~Written(new) /\ Supported(new)
        /\ results' \in [Files -> Seq(Nat)]
        /\ \A f \in Files : results'[f] \in Seq(SizesOf(f))
        /\ \A f \in Files : results'[f] =
             IF f = File(new) THEN Append(results[f], new[2]) ELSE results[f]
        /\ step' = [step EXCEPT ![w] = "printing"] /\ step[w] = "writing"
        /\ UNCHANGED <<task, ended>>
    BY <1>1, WriterFacts, JobParts, SizesFacts
  <2>2. ASSUME NEW job \in Task
        PROVE  Lines(job)' = IF Written(job)' THEN 1 ELSE 0
    <3> DEFINE s == results[File(job)]
    <3>1. /\ File(job) \in Files /\ s \in Seq(Nat)
          /\ Lines(job) = Occurrences(s, job[2])
      BY JobParts, SizesFacts DEF File, Files, LinesCounted, Lines, Occurrences
    <3>2. Lines(job) = IF Written(job) THEN 1 ELSE 0
      BY DEF LinesCounted
    <3>3. Lines(job)' = Occurrences(results'[File(job)], job[2])
      BY DEF Lines, File, Occurrences
    <3>4. \A v \in Worker : step'[v] = IF v = w THEN "printing" ELSE step[v]
      BY <2>1 DEF Stepped
    <3>5. new = job <=> File(new) = File(job) /\ new[2] = job[2]
      BY <2>1, JobParts DEF File
    <3>6. Written(job)' <=> (Written(job) \/ job = new)
      BY <2>1, <3>4, InputsStay DEF Written
    <3>7. CASE File(job) = File(new)
      <4>1. results'[File(job)] = Append(s, new[2])
        BY <2>1, <3>1, <3>7
      <4> HIDE DEF s, new
      <4>2. Lines(job)' = Lines(job) + (IF new[2] = job[2] THEN 1 ELSE 0)
        <5>1. new[2] \in Nat /\ s \in Seq(Nat)
          BY <2>1, <3>1
        <5>2. Occurrences(Append(s, new[2]), job[2]) =
                Occurrences(s, job[2]) + (IF new[2] = job[2] THEN 1 ELSE 0)
          BY <5>1, AppendCounts
        <5> QED BY <3>1, <3>3, <4>1, <5>2
      <4> QED BY <2>1, <3>2, <3>5, <3>6, <3>7, <4>2
    <3>8. CASE File(job) # File(new)
      <4>1. results'[File(job)] = s
        BY <2>1, <3>1, <3>8
      <4> QED BY <3>1, <3>2, <3>3, <3>5, <3>6, <3>8, <4>1
    <3> QED BY <3>7, <3>8
  <2> QED BY <2>1, <2>2 DEF LinesCounted, SizesOf, Files
<1>2. CASE ~\E w \in Worker : WriteLine(w)
  <2>1. /\ results' = results
        /\ \A job \in Task : Written(job)' <=> Written(job)
    BY <1>2, WrittenStays
  <2>2. \A job \in Task : Lines(job)' = Lines(job)
    BY <2>1 DEF Lines, File
  <2> QED BY <2>1, <2>2 DEF LinesCounted, SizesOf, Files
<1> QED BY <1>1, <1>2

(* Only the holder of the lock prints, so a report is not interrupted.     *)
LEMMA PrintedStep ==
  ASSUME IInv, Driven, Stepped, LinesCounted, Printed, [NextJobs]_allVars
  PROVE  Printed'
<1>0. Len(console) \in Nat
  BY DEF Printed
<1>1. ASSUME console' = console,
             \A w \in Worker : /\ Printing(w)' <=> Printing(w)
                               /\ Printing(w) => task'[w] = task[w]
      PROVE  Printed'
  BY <1>1 DEF Printed, ReportsContiguous
<1>2. ASSUME NEW w \in Worker, TakeJob(w) \/ EndJob(w) PROVE Printed'
  <2>1. /\ console' = console /\ ~Printing(w)
        /\ \E x \in {"simulating", "idle"} : step' = [step EXCEPT ![w] = x]
        /\ \A v \in Worker : v # w => task'[v] = task[v]
    BY <1>2, TakeFacts, EndFacts DEF Printing, Stepped
  <2> QED BY <1>1, <2>1 DEF Printing, Stepped
<1>3. ASSUME NEW w \in Worker,
             Simulate(w) \/ NotSupported(w) \/ LockReport(w) \/ UnlockReport(w)
      PROVE  Printed'
  <2>1. /\ console' = console /\ ~Printing(w)
        /\ \E x \in StepAt \ {"printing"} : step' = [step EXCEPT ![w] = x]
    BY <1>3 DEF Simulate, NotSupported, LockReport, UnlockReport, Printing,
                StepAt
  <2>2. task' = task
    BY <1>3, TasksStay DEF Apart
  <2> QED BY <1>1, <2>1, <2>2 DEF Printing, Stepped
<1>4. ASSUME NEW w \in Worker, WriteLine(w) PROVE Printed'
  <2>1. /\ task[w] \in Task /\ kReportLock = w /\ step[w] = "writing"
        /\ step' = [step EXCEPT ![w] = "printing"] /\ task' = task
        /\ console' = Append(console, <<task[w], "head">>)
    BY <1>4, WriterFacts
  <2>2. \A v \in Worker : ~Printing(v) /\ (Printing(v)' <=> v = w)
    BY <2>1 DEF Stepped, Holding, Printing
  <2>3. Len(console) % 2 = 0
    BY <1>0, <2>2 DEF Printed
  <2> DEFINE n == Len(console) + 1
  <2>4. /\ console' \in Seq(Task \X {"head", "rest"}) /\ Len(console') = n
        /\ \A i \in 1 .. n :
             console'[i] = IF i = n THEN <<task[w], "head">> ELSE console[i]
    BY <2>1 DEF Printed
  <2>5. n % 2 = 1
    BY <1>0, <2>3
  <2>6. ReportsContiguous'
    <3>1. ASSUME NEW i \in 1 .. n
          PROVE  IF i % 2 = 1 THEN console'[i][2] = "head"
                 ELSE console'[i] = <<console'[i - 1][1], "rest">>
      <4>1. CASE i = n
        BY <2>4, <2>5, <4>1
      <4>2. CASE i # n
        <5>1. i \in 1 .. Len(console) /\ console'[i] = console[i]
          BY <1>0, <2>4, <4>2
        <5>2. i % 2 # 1 => i - 1 \in 1 .. n /\ i - 1 # n
          BY <1>0, <5>1
        <5> QED BY <2>4, <5>1, <5>2 DEF Printed, ReportsContiguous
      <4> QED BY <4>1, <4>2
    <3> QED BY <2>4, <3>1 DEF ReportsContiguous
  <2> QED BY <1>0, <2>1, <2>2, <2>4, <2>5, <2>6 DEF Printed
<1>5. ASSUME NEW w \in Worker, PrintSummary(w) PROVE Printed'
  <2>1. /\ Printing(w) /\ step' = [step EXCEPT ![w] = "unlocking"]
        /\ console' = Append(console, <<task[w], "rest">>)
    BY <1>5 DEF PrintSummary, Printing
  <2>2. task' = task /\ task[w] \in Task
    BY <1>5, <2>1, TasksStay DEF Apart, Stepped, Printing, IInv, TypeOK
  <2>3. \A v \in Worker : (Printing(v) <=> v = w) /\ ~Printing(v)'
    BY <2>1 DEF Stepped, Holding, Printing
  <2>4. Len(console) % 2 = 1 /\ console[Len(console)] = <<task[w], "head">>
    BY <2>1, <2>3 DEF Printed
  <2> DEFINE n == Len(console) + 1
  <2>5. /\ console' \in Seq(Task \X {"head", "rest"}) /\ Len(console') = n
        /\ \A i \in 1 .. n :
             console'[i] = IF i = n THEN <<task[w], "rest">> ELSE console[i]
    BY <2>1, <2>2 DEF Printed
  <2>6. n % 2 = 0 /\ Len(console) \in 1 .. n /\ n - 1 = Len(console)
    BY <1>0, <2>4
  <2>7. ReportsContiguous'
    <3>1. ASSUME NEW i \in 1 .. n
          PROVE  IF i % 2 = 1 THEN console'[i][2] = "head"
                 ELSE console'[i] = <<console'[i - 1][1], "rest">>
      <4>1. CASE i = n
        <5>1. console'[i - 1] = <<task[w], "head">>
          <6>1. i - 1 = Len(console) /\ Len(console) # n
            BY <1>0, <4>1
          <6>2. console'[Len(console)] = console[Len(console)]
            BY <2>5, <2>6, <6>1
          <6> QED BY <2>4, <6>1, <6>2
        <5> QED BY <2>5, <2>6, <4>1, <5>1
      <4>2. CASE i # n
        <5>1. i \in 1 .. Len(console) /\ console'[i] = console[i]
          BY <1>0, <2>5, <4>2
        <5>2. i % 2 # 1 => i - 1 \in 1 .. n /\ i - 1 # n
          BY <1>0, <5>1
        <5> QED BY <2>5, <5>1, <5>2 DEF Printed, ReportsContiguous
      <4> QED BY <4>1, <4>2
    <3> QED BY <2>5, <3>1 DEF ReportsContiguous
  <2> QED BY <1>0, <2>3, <2>5, <2>6, <2>7 DEF Printed
<1>6. ASSUME \/ SizePool \/ SkipTrace \/ ReturnFromMain \/ ScheduleJob
             \/ Within /\ UNCHANGED jobVars
             \/ UNCHANGED vars /\ UNCHANGED jobVars
      PROVE  Printed'
  <2>1. UNCHANGED <<step, console>>
    BY <1>6 DEF SizePool, SkipTrace, ReturnFromMain, ScheduleJob, jobVars
  <2>2. task' = task
    BY <1>6, TasksStay, ScheduleFacts
  <2> QED BY <1>1, <2>1, <2>2 DEF Printing
<1>7. ASSUME NEW w \in Worker, Apart(w) PROVE Printed'
  BY <1>3, <1>4, <1>5, <1>7 DEF Apart
<1> QED BY Kinds, <1>2, <1>6, <1>7

(* Main schedules the jobs in order and the scheduler keeps it.            *)
LEMMA QueuedStep ==
  ASSUME IInv, Driven, Scheduled, Stepped, Queued, [NextJobs]_allVars
  PROVE  Queued'
<1>0. m_scheduler \in Seq(Task)
  BY DEF IInv, TypeOK
<1>1. ASSUME UNCHANGED <<m_scheduler, begun>> PROVE Queued'
  BY <1>1 DEF Queued
<1>2. CASE ScheduleJob
  <2> DEFINE n == Len(m_scheduler) + 1
  <2>1. /\ next \in Task /\ begun[next] = 0 /\ next \notin Range(m_scheduler)
        /\ m_scheduler' = InsertAt(m_scheduler, n, next) /\ begun' = begun
    BY <1>2, ScheduleFacts
  <2>2. Len(m_scheduler) \in Nat /\ n \in 1 .. Len(m_scheduler) + 1
    BY <1>0
  <2>3. /\ Len(m_scheduler') = n
        /\ \A i \in 1 .. n :
             m_scheduler'[i] = IF i = n THEN next ELSE m_scheduler[i]
    <3>1. IsInjective(m_scheduler)
      BY DEF IInv, ExecutedOnce
    <3> HIDE DEF n
    <3>2. /\ Len(InsertAt(m_scheduler, n, next)) = Len(m_scheduler) + 1
          /\ \A j \in 1 .. Len(m_scheduler) + 1 :
               InsertAt(m_scheduler, n, next)[j] =
                 IF j < n THEN m_scheduler[j]
                 ELSE IF j = n THEN next ELSE m_scheduler[j - 1]
      BY <1>0, <2>1, <2>2, <3>1, InsertAtFacts
    <3> QED BY <2>1, <2>2, <3>2 DEF n
  <2>4. ASSUME NEW i \in 1 .. Len(m_scheduler) PROVE Before(m_scheduler[i], next)
    <3>1. m_scheduler[i] \in Range(m_scheduler) /\ m_scheduler[i] \in Task
      BY <1>0 DEF Range
    <3> QED BY <3>1 DEF Scheduled
  <2>5. ASSUME NEW job \in Task, begun[job] > 0 PROVE Before(job, next)
    BY <2>5 DEF Scheduled
  <2>6. \A i, j \in 1 .. n : i < j => Before(m_scheduler'[i], m_scheduler'[j])
    BY <2>2, <2>3, <2>4 DEF Queued
  <2>7. \A job \in Task, i \in 1 .. n : begun[job] > 0 => Before(job, m_scheduler'[i])
    BY <2>2, <2>3, <2>5 DEF Queued
  <2> QED BY <2>1, <2>3, <2>6, <2>7 DEF Queued
<1>3. ASSUME NEW w \in Worker, TakeJob(w) PROVE Queued'
  <2>1. PICK new \in Task :
          /\ m_scheduler # <<>> /\ new = Head(m_scheduler)
          /\ m_scheduler' = Tail(m_scheduler)
          /\ \A t \in Task : begun'[t] = IF t = new THEN 1 ELSE begun[t]
    BY <1>3, TakeFacts
  <2>2. /\ Len(m_scheduler) \in Nat /\ Len(m_scheduler') = Len(m_scheduler) - 1
        /\ \A i \in 1 .. Len(m_scheduler) - 1 :
             m_scheduler'[i] = m_scheduler[i + 1]
        /\ new = m_scheduler[1] /\ 1 \in 1 .. Len(m_scheduler)
    BY <1>0, <2>1
  <2>3. \A i, j \in 1 .. Len(m_scheduler') :
          i < j => Before(m_scheduler'[i], m_scheduler'[j])
    BY <2>2 DEF Queued
  <2>4. \A job \in Task, i \in 1 .. Len(m_scheduler') :
          begun'[job] > 0 => Before(job, m_scheduler'[i])
    <3> SUFFICES ASSUME NEW job \in Task, NEW i \in 1 .. Len(m_scheduler'),
                        begun'[job] > 0
                 PROVE  Before(job, m_scheduler'[i])
      OBVIOUS
    <3>1. /\ i + 1 \in 1 .. Len(m_scheduler) /\ 1 < i + 1
          /\ m_scheduler'[i] = m_scheduler[i + 1]
      BY <2>2
    <3>2. CASE job = new
      BY <2>2, <3>1, <3>2 DEF Queued
    <3>3. CASE job # new
      BY <2>1, <3>1, <3>3 DEF Queued
    <3> QED BY <3>2, <3>3
  <2> QED BY <2>3, <2>4 DEF Queued
<1>4. ASSUME NEW w \in Worker, EndJob(w) PROVE Queued'
  BY <1>1, <1>4, EndFacts
<1>5. ASSUME \/ SizePool \/ SkipTrace \/ ReturnFromMain
             \/ \E w \in Worker : Apart(w)
             \/ Within \/ UNCHANGED vars
      PROVE  Queued'
  BY <1>1, <1>5, TasksStay
<1> QED BY Kinds, <1>2, <1>3, <1>4, <1>5

(* A pool of one worker has at most one thread on its way round the loop.  *)
LEMMA OneMember ==
  ASSUME IInv, Driven, Sized, FLAGS_pool = 1,
         NEW v \in Members, NEW w \in Members
  PROVE  v = w
<1> SUFFICES ASSUME v # w PROVE FALSE
  OBVIOUS
<1>1. IsFiniteSet(Members) /\ Cardinality(Members) <= 1
  <2>1. Members \subseteq Worker
    BY DEF Members
  <2> QED BY <2>1, ConstantsAssumption, FS_Subset
       DEF IInv, TypeOK, CountersExact, Sized
<1>2. Cardinality({v}) = 1 /\ IsFiniteSet({v})
  BY FS_Singleton
<1>3. Cardinality({v} \cup {w}) = 2
  BY <1>2, FS_AddElement
<1>4. {v} \cup {w} \subseteq Members
  OBVIOUS
<1> HIDE DEF Members
<1>5. Cardinality({v} \cup {w}) <= Cardinality(Members)
  BY <1>1, <1>4, FS_Subset
<1>6. Cardinality(Members) \in Nat
  BY <1>1, FS_CardinalityType
<1> QED BY <1>1, <1>3, <1>5, <1>6

(* A single worker takes the jobs one by one, in the order of the queue.   *)
LEMMA InTurnStep ==
  ASSUME IInv, Driven, Sized, Stepped, Queued, InTurn, [NextJobs]_allVars
  PROVE  InTurn'
<1>0. FLAGS_pool' = FLAGS_pool
  BY InputsStay
<1>1. ASSUME UNCHANGED <<task, begun>> PROVE InTurn'
  BY <1>0, <1>1 DEF InTurn
<1>2. CASE ScheduleJob
  BY <1>1, <1>2, ScheduleFacts
<1>3. ASSUME NEW w \in Worker, TakeJob(w) PROVE InTurn'
  <2>1. PICK new \in Task :
          /\ m_scheduler # <<>> /\ new = Head(m_scheduler)
          /\ \A t \in Task : begun'[t] = IF t = new THEN 1 ELSE begun[t]
          /\ at[w] \in {"woken", "start"}
          /\ \A v \in Worker : task'[v] = IF v = w THEN new ELSE task[v]
    BY <1>3, TakeFacts
  <2>2. 1 \in 1 .. Len(m_scheduler) /\ m_scheduler[1] = new
    BY <2>1 DEF IInv, TypeOK
  <2>3. ASSUME FLAGS_pool = 1, NEW v \in Worker, task'[v] # NoTask PROVE v = w
    <3> SUFFICES ASSUME v # w PROVE FALSE
      OBVIOUS
    <3>1. at[v] = "running"
      BY <2>1, <2>3 DEF IInv, Working
    <3>2. v \in Members /\ w \in Members
      BY <2>1, <3>1 DEF Members
    <3> QED BY <2>3, <3>2, OneMember
  <2>4. \A job \in Task : begun'[job] > 0 /\ job # new => Before(job, new)
    BY <2>1, <2>2 DEF Queued
  <2> QED BY <1>0, <2>1, <2>3, <2>4 DEF InTurn
<1>4. ASSUME NEW w \in Worker, EndJob(w) PROVE InTurn'
  <2>1. /\ begun' = begun
        /\ \A v \in Worker : task'[v] = IF v = w THEN NoTask ELSE task[v]
    BY <1>4, EndFacts
  <2> QED BY <1>0, <2>1 DEF InTurn
<1>5. ASSUME \/ SizePool \/ SkipTrace \/ ReturnFromMain
             \/ \E w \in Worker : Apart(w)
             \/ Within \/ UNCHANGED vars
      PROVE  InTurn'
  BY <1>1, <1>5, TasksStay
<1> QED BY Kinds, <1>2, <1>3, <1>4, <1>5

(* What has a line has been begun.                                         *)
LEMMA LineBegun ==
  ASSUME IInv, Stepped, LinesCounted, NEW f \in Files,
         NEW i \in 1 .. Len(results[f])
  PROVE  /\ <<f[1], results[f][i], f[2]>> \in Task
         /\ Written(<<f[1], results[f][i], f[2]>>)
         /\ begun[<<f[1], results[f][i], f[2]>>] > 0
<1> DEFINE job == <<f[1], results[f][i], f[2]>>
           there == {j \in 1 .. Len(results[f]) : results[f][j] = results[f][i]}
<1>1. results[f] \in Seq(SizesOf(f))
  BY DEF LinesCounted
<1>2. job \in Task
  <2>1. f[1] \in 1 .. Len(mem_sizes) /\ f[2] \in 1 .. Len(kMethods)
    BY SizesFacts DEF Files
  <2>2. results[f][i] \in 1 .. Len(mem_sizes[f[1]])
    BY <1>1 DEF SizesOf
  <2> QED BY <2>1, <2>2, PartsJob
<1>3. File(job) = f /\ job[2] = results[f][i]
  BY DEF File, Files
<1>4. Lines(job) # 0
  <2>1. i \in there /\ there \subseteq 1 .. Len(results[f])
    OBVIOUS
  <2>2. Lines(job) = Cardinality(there)
    BY <1>3 DEF Lines
  <2> HIDE DEF there, job
  <2>3. IsFiniteSet(1 .. Len(results[f]))
    BY <1>1, FS_Interval
  <2>4. IsFiniteSet(there)
    BY <2>1, <2>3, FS_Subset
  <2>5. Cardinality(there) # 0
    BY <2>1, <2>4, FS_EmptySet
  <2> QED BY <2>2, <2>5
<1> HIDE DEF job
<1>5. Written(job)
  BY <1>2, <1>4 DEF LinesCounted
<1>6. begun[job] > 0
  <2>1. job # NoTask
    BY <1>2, ConstantsAssumption
  <2> QED BY <1>5, <2>1 DEF Written, Stepped, IInv, Working
<1> QED BY <1>2, <1>5, <1>6 DEF job

(* A single worker appends the sizes of a file in their order.             *)
LEMMA OrderStep ==
  ASSUME IInv, Driven, Sized, Stepped, LinesCounted, InTurn,
         OrderedWithOneWorker, [NextJobs]_allVars
  PROVE  OrderedWithOneWorker'
<1>0. FLAGS_pool' = FLAGS_pool /\ DOMAIN results = Files
  BY InputsStay DEF LinesCounted
<1>1. CASE ~\E w \in Worker : WriteLine(w)
  <2>1. results' = results
    BY <1>1, WrittenStays
  <2> QED BY <1>0, <2>1 DEF OrderedWithOneWorker
<1>2. ASSUME NEW w \in Worker, WriteLine(w) PROVE OrderedWithOneWorker'
  <2> DEFINE new == task[w]
  <2>1. /\ new \in Task /\ File(new) \in Files
        /\ ~Written(new) /\ new[2] \in Nat
        /\ results' \in [Files -> Seq(Nat)]
        /\ \A f \in Files : results'[f] =
             IF f = File(new) THEN Append(results[f], new[2]) ELSE results[f]
    BY <1>2, WriterFacts, JobParts, SizesFacts
  <2>2. new # NoTask
    BY <2>1, ConstantsAssumption
  <2> SUFFICES ASSUME FLAGS_pool = 1, NEW f \in Files,
                      NEW i \in 1 .. Len(results'[f]),
                      NEW j \in 1 .. Len(results'[f]), i < j
               PROVE  results'[f][i] < results'[f][j]
    BY <1>0, <2>1 DEF OrderedWithOneWorker
  <2>3. results[f] \in Seq(Nat)
    BY DEF LinesCounted
  <2>4. \A k, l \in 1 .. Len(results[f]) : k < l => results[f][k] < results[f][l]
    BY <1>0 DEF OrderedWithOneWorker
  <2>5. CASE f # File(new)
    BY <2>1, <2>4, <2>5
  <2>6. CASE f = File(new)
    <3> DEFINE n == Len(results[f]) + 1
    <3>1. /\ Len(results'[f]) = n /\ Len(results[f]) \in Nat
          /\ \A k \in 1 .. n :
               results'[f][k] = IF k = n THEN new[2] ELSE results[f][k]
      <4> DEFINE s == results[f]
                 a == new[2]
      <4>1. results'[f] = Append(s, a) /\ a \in Nat
        BY <2>1, <2>6
      <4>2. s \in Seq(Nat)
        BY <2>3
      <4> HIDE DEF s, a
      <4>3. /\ Len(Append(s, a)) = Len(s) + 1 /\ Len(s) \in Nat
            /\ \A k \in 1 .. Len(s) + 1 :
                 Append(s, a)[k] = IF k = Len(s) + 1 THEN a ELSE s[k]
        BY <4>1, <4>2
      <4> QED BY <4>1, <4>3 DEF s, a
    <3>2. i \in 1 .. Len(results[f]) /\ j \in 1 .. n
      BY <3>1
    <3>3. CASE j # n
      BY <2>4, <3>1, <3>2, <3>3
    <3>4. CASE j = n
      <4> DEFINE old == <<f[1], results[f][i], f[2]>>
      <4>1. old \in Task /\ Written(old) /\ begun[old] > 0
        BY <3>2, LineBegun
      <4>2. Before(old, new)
        <5>1. old # new
          BY <2>1, <4>1
        <5> QED BY <2>1, <2>2, <4>1, <5>1 DEF InTurn
      <4>3. old[1] = new[1] /\ old[3] = new[3] /\ old[2] = results[f][i]
        BY <2>6 DEF File
      <4>4. new[1] \in Int /\ new[3] \in Int
        BY <2>1, JobParts, SizesFacts
      <4> HIDE DEF old, new
      <4>5. old[2] < new[2]
        BY <4>2, <4>3, <4>4 DEF Before
      <4> QED BY <3>1, <3>2, <3>4, <4>3, <4>5
    <3> QED BY <3>3, <3>4
  <2> QED BY <2>5, <2>6
<1> QED BY <1>1, <1>2

-----------------------------------------------------------------------------
(* The theorems.                                                           *)

(* Pool and batch together keep their inductive invariants.                *)
LEMMA NextJobsInv == IInv /\ JInv /\ [NextJobs]_allVars => IInv' /\ JInv'
<1> SUFFICES ASSUME IInv, JInv, [NextJobs]_allVars PROVE IInv' /\ JInv'
  OBVIOUS
<1>1. IInv'
  BY PoolStep, NextInv DEF JInv
<1>2. Driven' /\ Sized'
  BY <1>1, DrivenStep, SizedStep DEF JInv
<1>3. Scheduled' /\ Stepped' /\ LinesCounted'
  BY ScheduledStep, SteppedStep, LinesStep DEF JInv
<1>4. Printed' /\ Queued' /\ InTurn'
  BY PrintedStep, QueuedStep, InTurnStep DEF JInv
<1>5. OrderedWithOneWorker'
  BY OrderStep DEF JInv
<1> QED BY <1>1, <1>2, <1>3, <1>4, <1>5 DEF JInv

(* Both hold in every state of the batch.                                  *)
LEMMA JobsInvariance == SpecJobs => [](IInv /\ JInv)
<1>1. InitJobs => IInv /\ JInv
  BY InitInv, InitJobsInv DEF InitJobs
<1> QED BY <1>1, NextJobsInv, PTL DEF SpecJobs

(* The batch mode implements the pool's specification: main calls the pool *)
(* as an owner may, and each of its steps and each of a job's is a step of *)
(* the pool or none.  What is proved about the pool holds in the program.  *)
THEOREM BatchUsesPool == SpecJobs => Spec
<1>1. InitJobs => Init
  BY DEF InitJobs
<1>2. JInv /\ [NextJobs]_allVars => [Next]_vars
  BY PoolStep DEF JInv
<1>3. IInv /\ JInv => JInv
  OBVIOUS
<1> QED BY <1>1, <1>2, <1>3, JobsInvariance, PTL DEF SpecJobs, Spec

(* No job is reported twice, and when the pool has shut down every job of  *)
(* a supported method has been reported, no other, for any traces with any *)
(* lists of sizes, any methods and any number of workers, also when some   *)
(* threads could not be started.                                           *)
THEOREM JobsAllReported == SpecJobs => []EveryJobReported
<1>1. IInv /\ JInv => EveryJobReported
  <2> SUFFICES ASSUME IInv, JInv PROVE EveryJobReported
    OBVIOUS
  <2>1. \A job \in Task : Lines(job) = IF Written(job) THEN 1 ELSE 0
    BY DEF JInv, LinesCounted
  <2>2. ASSUME owner = "done", NEW job \in Jobs, Supported(job)
        PROVE  Written(job)
    <3>1. next = Finished /\ ShutdownPolicy # "immediately" /\ job \in Task
      BY <2>2 DEF JInv, Driven, Jobs
    <3>2. m_scheduler = <<>> /\ \A w \in Worker : at[w] # "running"
      BY <2>2, <3>1 DEF IInv, Quiet, Closed
    <3>3. begun[job] > 0
      BY <3>1, <3>2, FinishedFacts, EmptyFacts DEF JInv, Scheduled
    <3>4. job # NoTask
      BY <3>1, ConstantsAssumption
    <3>5. job \in ended
      BY <3>1, <3>2, <3>3, <3>4 DEF IInv, Working
    <3> QED BY <2>2, <3>5 DEF Written
  <2>3. ASSUME NEW job \in Jobs, ~Supported(job) PROVE ~Written(job)
    BY <2>3 DEF Written
  <2> QED BY <2>1, <2>2, <2>3 DEF EveryJobReported, Jobs
<1> QED BY <1>1, JobsInvariance, PTL

(* Two reports never mix on the console, as far as reports print to it.    *)
THEOREM ReportsNeverMix == SpecJobs => []ReportsContiguous
<1>1. IInv /\ JInv => ReportsContiguous
  BY DEF JInv, Printed
<1> QED BY <1>1, JobsInvariance, PTL

(* With one worker the lines of a file are in the order of its sizes.      *)
THEOREM OneWorkerReportsInOrder == SpecJobs => []OrderedWithOneWorker
<1>1. IInv /\ JInv => OrderedWithOneWorker
  BY DEF JInv
<1> QED BY <1>1, JobsInvariance, PTL
=============================================================================
