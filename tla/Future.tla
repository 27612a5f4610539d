------------------------------- MODULE Future -------------------------------
(***************************************************************************)
(* A future of the thread pool library: future_impl and the task function  *)
(* that fills it (src/src/threadpool/threadpool/detail/future.hpp), made   *)
(* by schedule (future.hpp).  One worker runs the task; any number of      *)
(* clients hold the future and call wait, timed_wait, operator() and       *)
(* cancel, in any order and as often as they like.                         *)
(*                                                                         *)
(* m_ready, m_is_cancelled and m_executing are read and written by several *)
(* threads without the mutex, so each such access is a step of its own.    *)
(* What a thread does with m_monitor held is one step if nobody can see    *)
(* it half done; set_value, which ready() and cancel() can, is several,    *)
(* with `locked' in between.                                               *)
(*                                                                         *)
(* The pool is outside this module: it runs a queued task once, or drops   *)
(* it (clear), or has refused it (after its shutdown).                     *)
(***************************************************************************)
EXTENDS FiniteSets

CONSTANTS Client,
          Value,     (* what the task function returns                     *)
          Unset,     (* a Result nobody has written                        *)
          MayFail    (* the task may be lost, or its function throw        *)

ASSUME ConstantsAssumption == Value # Unset /\ MayFail \in BOOLEAN

VARIABLES m_ready, m_result, m_is_cancelled, m_executing,
          locked,    (* set_value holds m_monitor                          *)
          worker,    (* where the task is                                  *)
          at,        (* client -> where it is                              *)
          call,      (* client -> the waiting call it is in, or was last   *)
          got,       (* client -> what operator() returned last            *)
          refused,   (* clients whose cancel returned false                *)
          called,    (* the task function was called                       *)
          inTime     (* cancelled before the task looked                   *)

fields == <<m_ready, m_result, m_is_cancelled, m_executing>>
ghosts == <<got, refused, called, inTime>>
vars == <<fields, locked, worker, at, call, ghosts>>

WorkerAt == {"none",        (* schedule has not been called                *)
             "queued",      (* in the pool                                 *)
             "begin",       (* m_executing is set                          *)
             "calling",     (* in the task function                        *)
             "returned",    (* about to enter set_value                    *)
             "writing", "publishing", "notifying",  (* in set_value        *)
             "end",         (* about to reset m_executing                  *)
             "done",
             "lost"}        (* never run, or ended by an exception         *)

ClientAt == {"idle", "waiting", "woken",
             "reading",     (* operator(): about to read m_result          *)
             "checking",    (* cancel: about to read m_executing           *)
             "cancelling"}  (* cancel: about to set m_is_cancelled         *)

(* The constructor leaves m_executing and m_result as it finds them.       *)
Init ==
  /\ m_ready = FALSE /\ m_is_cancelled = FALSE
  /\ m_result = Unset /\ m_executing \in BOOLEAN
  /\ locked = FALSE /\ worker = "none"
  /\ at = [c \in Client |-> "idle"] /\ call = [c \in Client |-> "wait"]
  /\ got = [c \in Client |-> Value]
  /\ refused = {} /\ called = FALSE /\ inTime = FALSE

-----------------------------------------------------------------------------
(* The task: schedule, then operator() of future_impl_task_func. *)

Moves(from, to) == worker = from /\ worker' = to

(* schedule ignores whether the pool has taken the task.                   *)
Schedule == /\ \/ Moves("none", "queued")
               \/ MayFail /\ Moves("none", "lost")
            /\ UNCHANGED <<fields, locked, at, call, ghosts>>

(* Cleared from the pool's queue.                                          *)
Drop == /\ MayFail /\ Moves("queued", "lost")
        /\ UNCHANGED <<fields, locked, at, call, ghosts>>

BeginTask == /\ Moves("queued", "begin")
             /\ m_executing' = TRUE
             /\ UNCHANGED <<m_ready, m_result, m_is_cancelled, locked, at, call,
                            ghosts>>

(* Mutant: the task does not look whether it was cancelled.                *)
NotLooked == FALSE

TaskCancelled == m_is_cancelled

LookCancelled ==
  /\ IF TaskCancelled THEN Moves("begin", "end") /\ UNCHANGED called
     ELSE Moves("begin", "calling") /\ called' = TRUE
  /\ UNCHANGED <<fields, locked, at, call, got, refused, inTime>>

FunctionReturns == /\ Moves("calling", "returned")
                   /\ UNCHANGED <<fields, locked, at, call, ghosts>>

(* Nothing catches the exception here: m_executing stays set.              *)
FunctionThrows == /\ MayFail /\ Moves("calling", "lost")
                  /\ UNCHANGED <<fields, locked, at, call, ghosts>>

(* Lines 112-113.  A client holds the mutex within its steps only.         *)
EnterSetValue ==
  /\ IF ~m_ready /\ ~m_is_cancelled
     THEN Moves("returned", "writing") /\ locked' = TRUE
     ELSE Moves("returned", "end") /\ UNCHANGED locked
  /\ UNCHANGED <<fields, at, call, ghosts>>

(* Mutant: the flag is assigned before the result.                         *)
WritesResultSecond(place) == place = "publishing"

(* The first of the two assignments is that of the result.                 *)
WritesResult(place) == place = "writing"

(* Lines 115-116, one assignment in a step.                                *)
WriteFields ==
  /\ \/ Moves("writing", "publishing")
     \/ Moves("publishing", "notifying")
  /\ IF WritesResult(worker) THEN m_result' = Value /\ UNCHANGED m_ready
     ELSE m_ready' = TRUE /\ UNCHANGED m_result
  /\ UNCHANGED <<m_is_cancelled, m_executing, locked, at, call, ghosts>>

(* Mutant: notify_one.                                                     *)
WokenOne ==
  LET first == {c \in Client : at[c] = "waiting"}
      one == {CHOOSE c \in first : TRUE}
  IN  [c \in Client |-> IF first # {} /\ c \in one THEN "woken" ELSE at[c]]

(* m_condition_ready.notify_all.                                           *)
WokenAll == [c \in Client |-> IF at[c] = "waiting" THEN "woken" ELSE at[c]]

LeaveSetValue ==
  /\ Moves("notifying", "end")
  /\ at' = WokenAll
  /\ locked' = FALSE
  /\ UNCHANGED <<fields, call, ghosts>>

EndTask == /\ Moves("end", "done")
           /\ m_executing' = FALSE
           /\ UNCHANGED <<m_ready, m_result, m_is_cancelled, locked, at, call,
                          ghosts>>

Task == \/ BeginTask \/ LookCancelled \/ FunctionReturns \/ FunctionThrows
        \/ EnterSetValue \/ WriteFields \/ LeaveSetValue
        \/ EndTask

-----------------------------------------------------------------------------
(* The clients *)

Goes(c, to) == at' = [at EXCEPT ![c] = to]

(* The loop of wait and timed_wait: with the mutex, either the value is    *)
(* there or the thread sleeps, giving the mutex back.                      *)
TestReady(c) ==
  /\ ~locked
  /\ IF ~m_ready THEN Goes(c, "waiting")
     ELSE Goes(c, IF call'[c] = "get" THEN "reading" ELSE "idle")

CallWait(c, k) == /\ worker # "none" /\ at[c] = "idle"
                  /\ call' = [call EXCEPT ![c] = k]
                  /\ TestReady(c)
                  /\ UNCHANGED <<fields, locked, worker, ghosts>>

WaitAgain(c) == /\ at[c] = "woken"
                /\ UNCHANGED call
                /\ TestReady(c)
                /\ UNCHANGED <<fields, locked, worker, ghosts>>

SpuriousWakeUp(c) == /\ at[c] = "waiting"
                     /\ Goes(c, "woken")
                     /\ UNCHANGED <<fields, locked, worker, call, ghosts>>

(* Line 89: false, whether the value has come in the meantime or not.      *)
WaitTimesOut(c) == /\ at[c] = "waiting" /\ call[c] = "timed" /\ ~locked
                   /\ Goes(c, "idle")
                   /\ UNCHANGED <<fields, locked, worker, call, ghosts>>

(* Line 106, after the mutex is released.                                  *)
ReadResult(c) == /\ at[c] = "reading"
                 /\ Goes(c, "idle")
                 /\ got' = [got EXCEPT ![c] = m_result]
                 /\ UNCHANGED <<fields, locked, worker, call, refused, called,
                                inTime>>

CallCancel(c) == /\ worker # "none" /\ at[c] = "idle"
                 /\ Goes(c, IF m_ready THEN "checking" ELSE "cancelling")
                 /\ UNCHANGED <<fields, locked, worker, call, ghosts>>

CheckExecuting(c) ==
  /\ at[c] = "checking"
  /\ IF m_executing THEN Goes(c, "cancelling") /\ UNCHANGED refused
     ELSE Goes(c, "idle") /\ refused' = refused \cup {c}
  /\ UNCHANGED <<fields, locked, worker, call, got, called, inTime>>

SetCancelled(c) ==
  /\ at[c] = "cancelling"
  /\ Goes(c, "idle")
  /\ m_is_cancelled' = TRUE
  /\ inTime' = (inTime \/ worker \in {"queued", "begin"})
  /\ UNCHANGED <<m_ready, m_result, m_executing, locked, worker, call, got,
                 refused, called>>

InCall(c) == \/ WaitAgain(c) \/ ReadResult(c)
             \/ CheckExecuting(c) \/ SetCancelled(c)

NextClient(c) == \/ \E k \in {"wait", "timed", "get"} : CallWait(c, k)
                 \/ CallCancel(c) \/ SpuriousWakeUp(c) \/ WaitTimesOut(c)
                 \/ InCall(c)

Next == Schedule \/ Drop \/ Task \/ \E c \in Client : NextClient(c)

(* The worker runs what it has taken and the function ends; a client       *)
(* finishes the call it is in.  Nobody need cancel, call or time out, and  *)
(* the pool need not take the task.                                        *)
Fairness == /\ WF_vars(Task /\ worker # "queued")
            /\ \A c \in Client : WF_vars(InCall(c))

Spec == Init /\ [][Next]_vars /\ Fairness

-----------------------------------------------------------------------------
(* Correctness *)

(* Whoever sees m_ready can rely on m_result, although both are read with  *)
(* no mutex; operator() only ever returns what the task function returned; *)
(* and a value once published stays, whatever is cancelled afterwards.     *)
ReadyMeansValue ==
  /\ m_ready => m_result = Value
  /\ \A c \in Client : got[c] = Value

(* cancel reads two flags one after the other that set_value and the task  *)
(* write (lines 135, 116, 155).  A cancellation that the task can see when *)
(* it looks (line 196) keeps the function from being called and no client  *)
(* gets a value; when cancel returns false there is a value.               *)
CancelHonoured ==
  /\ inTime => ~called /\ ~m_ready
  /\ refused # {} => m_ready

Blocked(c) == at[c] \in {"waiting", "woken"}

(* No value will come: a task that was lost, or a cancellation.  Neither   *)
(* wakes the clients (lines 75-78, 135-138).                               *)
NoValue == ~m_ready /\ (m_is_cancelled \/ worker \in {"queued", "lost"})

(* Every client that waits returns, once the pool has taken the task, if   *)
(* the value comes at all: the notification is not lost, and a             *)
(* cancellation that comes too late does not leave anybody waiting.        *)
WaitersReturn == \A c \in Client : Blocked(c) ~> ~Blocked(c) \/ NoValue
=============================================================================
