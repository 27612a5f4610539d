---------------------------- MODULE Future_proofs ----------------------------
(***************************************************************************)
(* Proofs about futures, for any set of clients, which use the future in   *)
(* any way they like, and with or without failures.                        *)
(*                                                                         *)
(* A value is published in a fixed order: the function is called, m_result *)
(* is written, then m_ready is set and never reset.  The invariant states  *)
(* where the task must be for each of these to have happened, and that a   *)
(* client is past a test of m_ready only if m_ready is set.                *)
(***************************************************************************)
EXTENDS Future, TLAPS

(* The values the variables the argument depends on take.                  *)
Types ==
  /\ m_ready \in BOOLEAN /\ m_is_cancelled \in BOOLEAN
  /\ called \in BOOLEAN /\ inTime \in BOOLEAN
  /\ worker \in WorkerAt
  /\ at \in [Client -> ClientAt]
  /\ got \in [Client -> {Value}]

(* The task has been in its function.                                      *)
PastCall == {"calling", "returned", "writing", "publishing", "notifying"}

(* The order in which the task publishes.                                  *)
Published ==
  /\ m_ready => called /\ m_result = Value
  /\ worker = "publishing" => m_result = Value
  /\ worker \in PastCall => called
  /\ worker \in {"none", "queued", "begin"} => ~called

(* What a client knows after a test of m_ready, and what a refused or an   *)
(* early cancellation leaves behind.                                       *)
Tested ==
  /\ \A c \in Client : at[c] \in {"reading", "checking"} => m_ready
  /\ refused # {} => m_ready
  /\ inTime => m_is_cancelled /\ ~called

IInv == Types /\ Published /\ Tested

(* Nothing has happened to a new future.                                   *)
LEMMA InitIInv == Init => IInv
BY DEF Init, IInv, Types, Published, Tested, WorkerAt, ClientAt, PastCall

(* Being scheduled, lost, begun or ended publishes nothing.                *)
LEMMA QuietStepKeeps ==
  ASSUME IInv, Schedule \/ Drop \/ BeginTask \/ FunctionReturns
               \/ FunctionThrows \/ EnterSetValue \/ EndTask
  PROVE  IInv'
BY DEF Schedule, Drop, BeginTask, FunctionReturns, FunctionThrows,
       EnterSetValue, EndTask, Moves, fields, ghosts, IInv, Types, Published,
       Tested, WorkerAt, PastCall

(* The function is called only if no cancellation has come in time.        *)
LEMMA LookCancelledKeeps ==
  ASSUME IInv, LookCancelled
  PROVE  IInv'
<1>1. CASE TaskCancelled
  BY <1>1 DEF LookCancelled, Moves, fields, IInv, Types, Published, Tested,
              WorkerAt, PastCall
<1>2. CASE ~TaskCancelled
  <2>1. ~inTime
    BY <1>2 DEF TaskCancelled, IInv, Tested
  <2> QED BY <1>2, <2>1 DEF LookCancelled, Moves, fields, IInv, Types,
                            Published, Tested, WorkerAt, PastCall
<1> QED BY <1>1, <1>2

(* set_value writes the result, then the flag, then wakes the clients.     *)
LEMMA SetValueKeeps ==
  IInv /\ (WriteFields \/ LeaveSetValue) => IInv'
<1> SUFFICES ASSUME IInv, WriteFields \/ LeaveSetValue
             PROVE  IInv'
  OBVIOUS
<1>1. CASE WriteFields /\ worker = "writing"
  BY <1>1 DEF WriteFields, WritesResult, Moves, ghosts, IInv, Types,
              Published, Tested, WorkerAt, PastCall
<1>2. CASE WriteFields /\ worker = "publishing"
  BY <1>2 DEF WriteFields, WritesResult, Moves, ghosts, IInv, Types,
              Published, Tested, WorkerAt, PastCall
<1>3. CASE LeaveSetValue
  <2>1. /\ at' \in [Client -> ClientAt]
        /\ \A c \in Client : at'[c] = at[c] \/ at'[c] = "woken"
    BY <1>3 DEF LeaveSetValue, WokenAll, IInv, Types, ClientAt
  <2> QED BY <1>3, <2>1 DEF LeaveSetValue, Moves, fields, ghosts, IInv, Types,
                            Published, Tested, WorkerAt, PastCall
<1> QED BY <1>1, <1>2, <1>3 DEF WriteFields, Moves

(* What a step of client c does to the places of all clients.              *)
LEMMA OnlyOneGoes ==
  ASSUME Types, NEW c \in Client, NEW to \in ClientAt, Goes(c, to)
  PROVE  /\ at' \in [Client -> ClientAt] /\ at'[c] = to
         /\ \A d \in Client \ {c} : at'[d] = at[d]
BY DEF Types, Goes

(* A client that goes where it need not know anything about m_ready, or    *)
(* where it need and does, keeps the invariant while the task stands still *)
(* and nothing else changes.                                               *)
LEMMA ClientMoveKeeps ==
  ASSUME IInv, NEW c \in Client, NEW to \in ClientAt, Goes(c, to),
         to \in {"reading", "checking"} => m_ready,
         UNCHANGED <<fields, worker, ghosts>>
  PROVE  IInv'
<1>1. /\ at' \in [Client -> ClientAt] /\ at'[c] = to
      /\ \A d \in Client \ {c} : at'[d] = at[d]
  BY OnlyOneGoes DEF IInv
<1> QED BY <1>1 DEF fields, ghosts, IInv, Types, Published, Tested

(* wait, timed_wait and operator() test m_ready before they go on.         *)
LEMMA TestReadyKeeps ==
  ASSUME IInv, NEW c \in Client, TestReady(c),
         UNCHANGED <<fields, worker, ghosts>>
  PROVE  IInv'
<1>1. PICK to \in ClientAt : Goes(c, to) /\ (to = "reading" => m_ready)
                             /\ to # "checking"
  BY DEF TestReady, ClientAt, IInv, Types
<1> QED BY <1>1, ClientMoveKeeps

(* operator() reads the result only after it was written.                  *)
LEMMA ReadResultKeeps ==
  ASSUME IInv, NEW c \in Client, ReadResult(c)
  PROVE  IInv'
<1>1. /\ at' \in [Client -> ClientAt] /\ at'[c] = "idle"
      /\ \A d \in Client \ {c} : at'[d] = at[d]
  BY OnlyOneGoes DEF ReadResult, IInv, ClientAt
<1>2. got' \in [Client -> {Value}]
  BY DEF ReadResult, IInv, Types, Tested, Published
<1> QED BY <1>1, <1>2 DEF ReadResult, fields, IInv, Types, Published, Tested

(* A cancellation is refused by a client that has seen m_ready.            *)
LEMMA CheckExecutingKeeps ==
  ASSUME IInv, NEW c \in Client, CheckExecuting(c)
  PROVE  IInv'
<1>1. PICK to \in {"cancelling", "idle"} : Goes(c, to)
  BY DEF CheckExecuting
<1>2. /\ at' \in [Client -> ClientAt] /\ at'[c] = to
      /\ \A d \in Client \ {c} : at'[d] = at[d]
  BY <1>1, OnlyOneGoes DEF IInv, ClientAt
<1>3. m_ready
  BY DEF CheckExecuting, IInv, Tested
<1> QED BY <1>1, <1>2, <1>3 DEF CheckExecuting, fields, IInv, Types, Published,
                                Tested

(* A cancellation in time comes before the function is called.             *)
LEMMA SetCancelledKeeps ==
  ASSUME IInv, NEW c \in Client, SetCancelled(c)
  PROVE  IInv'
<1>1. /\ at' \in [Client -> ClientAt] /\ at'[c] = "idle"
      /\ \A d \in Client \ {c} : at'[d] = at[d]
  BY OnlyOneGoes DEF SetCancelled, IInv, ClientAt
<1>2. inTime' \in BOOLEAN /\ (inTime' => ~called)
  BY DEF SetCancelled, IInv, Types, Published, Tested
<1> QED BY <1>1, <1>2 DEF SetCancelled, IInv, Types, Published, Tested

(* Whatever a client does.                                                 *)
LEMMA ClientKeeps ==
  ASSUME IInv, NEW c \in Client, NextClient(c)
  PROVE  IInv'
<1>1. ASSUME NEW k \in {"wait", "timed", "get"}, CallWait(c, k) PROVE IInv'
  BY <1>1, TestReadyKeeps DEF CallWait
<1>2. CASE WaitAgain(c)
  BY <1>2, TestReadyKeeps DEF WaitAgain
<1>3. CASE CallCancel(c)
  <2>1. PICK to \in {"checking", "cancelling"} :
          Goes(c, to) /\ (to = "checking" => m_ready)
    BY <1>3 DEF CallCancel
  <2> QED BY <1>3, <2>1, ClientMoveKeeps DEF CallCancel, ClientAt
<1>4. CASE SpuriousWakeUp(c)
  BY <1>4, ClientMoveKeeps DEF SpuriousWakeUp, ClientAt
<1>5. CASE WaitTimesOut(c)
  BY <1>5, ClientMoveKeeps DEF WaitTimesOut, ClientAt
<1> QED BY <1>1, <1>2, <1>3, <1>4, <1>5, ReadResultKeeps, CheckExecutingKeeps,
           SetCancelledKeeps DEF NextClient, InCall

(* The invariant is inductive.                                             *)
LEMMA NextKeeps == IInv /\ [Next]_vars => IInv'
<1> SUFFICES ASSUME IInv, [Next]_vars PROVE IInv'
  OBVIOUS
<1>1. CASE Schedule \/ Drop
  BY <1>1, QuietStepKeeps
<1>2. CASE Task
  BY <1>2, QuietStepKeeps, LookCancelledKeeps, SetValueKeeps DEF Task
<1>3. ASSUME NEW c \in Client, NextClient(c) PROVE IInv'
  BY <1>3, ClientKeeps
<1>4. CASE UNCHANGED vars
  BY <1>4 DEF vars, fields, ghosts, IInv, Types, Published, Tested
<1> QED BY <1>1, <1>2, <1>3, <1>4 DEF Next

(* The invariant holds throughout.                                         *)
LEMMA AlwaysIInv == Spec => []IInv
BY InitIInv, NextKeeps, PTL DEF Spec

(* With any number of clients, a future that shows ready has the value the *)
(* task function returned, for good, and operator() returns nothing else   *)
(* (set_value, operator(): lines 75, 106, 115-116).                        *)
THEOREM ReadyIsFinal == Spec => []ReadyMeansValue
<1>1. IInv => ReadyMeansValue
  BY DEF IInv, Types, Published, ReadyMeansValue
<1> QED BY <1>1, AlwaysIInv, PTL

(* With any number of clients, a cancellation the task can see keeps the   *)
(* function from being called, and one that is refused finds a value       *)
(* (cancel, operator() of the task: lines 135, 196).                       *)
THEOREM CancellationsHonoured == Spec => []CancelHonoured
<1>1. IInv => CancelHonoured
  BY DEF IInv, Published, Tested, CancelHonoured
<1> QED BY <1>1, AlwaysIInv, PTL
=============================================================================
