------------------------------ MODULE PoolCore ------------------------------
(***************************************************************************)
(* The thread pool (src/src/threadpool/threadpool): pool_core with each of *)
(* its scheduling and shutdown policies and the static_size size policy,   *)
(* its workers, and one thread that owns the pool and calls it, as main of *)
(* main.cpp does.                                                          *)
(*                                                                         *)
(* Everything between two operations on the mutex m_monitor is one step:   *)
(* the critical sections are the actions.  A thread blocked on a condition *)
(* is "waiting"; a notification, or a spurious wake-up, makes it "woken",  *)
(* and its next step takes the mutex and tests its loop condition again.   *)
(* The owner joins terminated workers with the mutex held; it is the only  *)
(* time the mutex is held across steps.                                    *)
(*                                                                         *)
(* Boost.Thread may fail to create a thread (thread_resource_error), and a *)
(* task may throw; MayFail says whether they do.                           *)
(***************************************************************************)
EXTENDS Integers, Sequences, FiniteSets, SequencesExt

CONSTANTS Worker,      (* threads that can be alive at once                *)
          Task,        (* tasks, each scheduled at most once               *)
          NoTask,
          MaxWorkers,  (* bound on the argument of resize                  *)
          MayFail,
          Priority,    (* task -> its priority, for the prio_scheduler     *)
          SchedulingPolicies, ShutdownPolicies  (* the ones considered     *)

ASSUME ConstantsAssumption == /\ IsFiniteSet(Worker)
                              /\ MaxWorkers \in Nat
                              /\ MayFail \in BOOLEAN
                              /\ NoTask \notin Task
                              /\ Priority \in [Task -> Nat]
                              /\ SchedulingPolicies \subseteq
                                   {"fifo_scheduler", "lifo_scheduler",
                                    "prio_scheduler"}
                              /\ ShutdownPolicies \subseteq
                                   {"wait_for_all_tasks",
                                    "wait_for_active_tasks", "immediately"}

VARIABLES SchedulingPolicy, ShutdownPolicy,  (* template arguments         *)
          m_worker_count, m_target_worker_count, m_active_worker_count,
          m_scheduler,               (* pending tasks, the next one first  *)
          m_terminate_all_workers,
          m_terminated_workers,      (* workers the owner will join        *)
          at,        (* worker -> where its thread is                      *)
          task,      (* worker -> the task it executes                     *)
          owner,     (* where the owning thread is                         *)
          threshold, (* the argument of the wait the owner is in           *)
          begun,     (* task -> how often its function was called          *)
          ended,     (* tasks whose function returned or threw             *)
          dropped    (* tasks removed by clear                             *)

policies  == <<SchedulingPolicy, ShutdownPolicy>>
counts    == <<m_worker_count, m_target_worker_count, m_active_worker_count>>
terminals == <<m_terminate_all_workers, m_terminated_workers>>
ghosts    == <<begun, ended, dropped>>
vars == <<policies, counts, m_scheduler, terminals, at, task, owner, threshold,
          ghosts>>

WorkerAt == {"none",     (* no such thread                                 *)
             "start",    (* about to enter execute_task                    *)
             "waiting", "woken",   (* on m_task_or_terminate_workers_event *)
             "running",  (* in the task function                           *)
             "leaving",  (* execute_task returned false                    *)
             "throwing", (* the task function threw                        *)
             "exiting"}  (* past worker_destructed or died_unexpectedly    *)

OwnerAt == {"ready",                 (* between two calls                  *)
            "waiting", "woken",      (* in wait()                          *)
            "closing", "closing_woken",  (* in wait() called by shutdown   *)
            "terminate",             (* about to terminate_all_workers     *)
            "draining", "draining_woken", (* waiting for active workers    *)
            "joining",               (* joining terminated workers         *)
            "done"}                  (* shutdown has returned              *)

TypeOK ==
  /\ SchedulingPolicy \in SchedulingPolicies
  /\ ShutdownPolicy \in ShutdownPolicies
  /\ m_worker_count \in Nat /\ m_target_worker_count \in Nat
  /\ m_active_worker_count \in Nat
  /\ m_scheduler \in Seq(Task)
  /\ m_terminate_all_workers \in BOOLEAN
  /\ m_terminated_workers \subseteq Worker
  /\ at \in [Worker -> WorkerAt]
  /\ task \in [Worker -> Task \cup {NoTask}]
  /\ owner \in OwnerAt
  /\ threshold \in Nat
  /\ begun \in [Task -> Nat]
  /\ ended \subseteq Task /\ dropped \subseteq Task

Init ==
  /\ SchedulingPolicy \in SchedulingPolicies
  /\ ShutdownPolicy \in ShutdownPolicies
  /\ m_worker_count = 0 /\ m_target_worker_count = 0
  /\ m_active_worker_count = 0
  /\ m_scheduler = <<>>
  /\ m_terminate_all_workers = FALSE /\ m_terminated_workers = {}
  /\ at = [w \in Worker |-> "none"]
  /\ task = [w \in Worker |-> NoTask]
  /\ owner = "ready" /\ threshold = 0
  /\ begun = [t \in Task |-> 0] /\ ended = {} /\ dropped = {}

MonitorFree == owner # "joining"

(* m_worker_idle_or_terminated_event.notify_all: only the owner waits; the *)
(* mutant forgets it.                                                      *)
NotWoken(o) == o
Woken(o) == CASE o = "waiting"  -> "woken"
              [] o = "closing"  -> "closing_woken"
              [] o = "draining" -> "draining_woken"
              [] OTHER -> o

(* m_task_or_terminate_workers_event.notify_all; the mutant forgets it.    *)
NoneWoken == at
AllWoken == [w \in Worker |-> IF at[w] = "waiting" THEN "woken" ELSE at[w]]

-----------------------------------------------------------------------------
(* The owner's calls *)

(* The workers resize starts to get from `count' to n; fewer when a thread *)
(* cannot be created.                                                      *)
Started(places, count, n) ==
  {new \in SUBSET {w \in Worker : places[w] = "none"} :
     \/ count + Cardinality(new) = n
     \/ MayFail /\ count + Cardinality(new) < n}

Start(places, new) == [w \in Worker |-> IF w \in new THEN "start" ELSE places[w]]

Resize(n) ==
  /\ owner = "ready"
  /\ ~m_terminate_all_workers
  /\ m_target_worker_count' = n
  /\ IF m_worker_count <= n
     THEN \E new \in Started(at, m_worker_count, n) :
            /\ at' = Start(at, new)
            /\ m_worker_count' = m_worker_count + Cardinality(new)
            /\ m_active_worker_count' = m_active_worker_count + Cardinality(new)
     ELSE /\ at' = AllWoken
          /\ UNCHANGED <<m_worker_count, m_active_worker_count>>
  /\ UNCHANGED <<policies, m_scheduler, terminals, task, owner, threshold,
                 ghosts>>

(* m_task_or_terminate_workers_event.notify_one; the mutant forgets it.    *)
NotifyNone == UNCHANGED at
NotifyOne ==
  \/ \E w \in Worker : at[w] = "waiting" /\ at' = [at EXCEPT ![w] = "woken"]
  \/ (\A w \in Worker : at[w] # "waiting") /\ UNCHANGED at

(* prio_task_func::operator<.                                              *)
Less(t, u) == Priority[t] < Priority[u]

(* Where the schedulers put a task (AtFront is AtBack's mutant as well).   *)
(* Which of several tasks of one priority a priority_queue hands out first *)
(* is not specified.                                                       *)
AtFront(t) == {1}
AtBack(t) == {Len(m_scheduler) + 1}
ByPriority(t) == {i \in 1 .. Len(m_scheduler) + 1 :
                    \A j \in 1 .. Len(m_scheduler) :
                      IF j < i THEN ~Less(m_scheduler[j], t)
                      ELSE ~Less(t, m_scheduler[j])}

Places(t) == CASE SchedulingPolicy = "fifo_scheduler" -> AtBack(t)
               [] SchedulingPolicy = "lifo_scheduler" -> AtFront(t)
               [] OTHER -> ByPriority(t)

Schedule(t) ==
  /\ owner = "ready"
  /\ begun[t] = 0 /\ t \notin Range(m_scheduler) \cup dropped
  /\ \E i \in Places(t) : m_scheduler' = InsertAt(m_scheduler, i, t)
  /\ NotifyOne
  /\ UNCHANGED <<policies, counts, terminals, task, owner, threshold, ghosts>>

(* The scheduler's clear.                                                  *)
DropTasks == /\ m_scheduler' = <<>>
             /\ dropped' = dropped \cup Range(m_scheduler)

Clear ==
  /\ owner = "ready"
  /\ m_scheduler # <<>>
  /\ DropTasks
  /\ UNCHANGED <<policies, counts, terminals, at, task, owner, threshold,
                 begun, ended>>

(* The loop condition of wait; the mutants look at pending tasks only and  *)
(* at active workers only.                                                 *)
BusyIfPending(k) == k < Len(m_scheduler)
BusyIfActive(k) == k < m_active_worker_count
Busy(k) == IF k = 0 THEN m_active_worker_count # 0 \/ m_scheduler # <<>>
           ELSE k < m_active_worker_count + Len(m_scheduler)

Wait(k) ==
  /\ owner = "ready"
  /\ threshold' = k
  /\ owner' = IF Busy(k) THEN "waiting" ELSE "ready"
  /\ UNCHANGED <<policies, counts, m_scheduler, terminals, at, task, ghosts>>

WaitAgain ==
  /\ owner = "woken"
  /\ owner' = IF Busy(threshold) THEN "waiting" ELSE "ready"
  /\ UNCHANGED <<policies, counts, m_scheduler, terminals, at, task,
                 threshold, ghosts>>

(* The timed wait gives up.                                                *)
WaitTimesOut ==
  /\ owner \in {"waiting", "woken"}
  /\ owner' = "ready"
  /\ UNCHANGED <<policies, counts, m_scheduler, terminals, at, task,
                 threshold, ghosts>>

(* The last pool object is destroyed.  wait_for_active_tasks and           *)
(* immediately clear the queue first; another thread may take the mutex    *)
(* between that and what follows.                                          *)
ShutdownClears ==
  /\ owner = "ready"
  /\ ShutdownPolicy # "wait_for_all_tasks"
  /\ DropTasks
  /\ owner' = IF ShutdownPolicy = "immediately" THEN "terminate"
              ELSE "closing_woken"
  /\ UNCHANGED <<policies, counts, terminals, at, task, threshold, begun,
                 ended>>

(* The others wait, ...                                                    *)
Shutdown ==
  /\ \/ owner = "ready" /\ ShutdownPolicy = "wait_for_all_tasks"
     \/ owner = "closing_woken"
  /\ threshold' = 0
  /\ owner' = IF Busy(0) THEN "closing" ELSE "terminate"
  /\ UNCHANGED <<policies, counts, m_scheduler, terminals, at, task, ghosts>>

(* ... all tell the workers to go, and that is all immediately does: the   *)
(* others wait for the active workers ...                                  *)
TerminateAllWorkers ==
  /\ owner = "terminate"
  /\ m_terminate_all_workers' = TRUE
  /\ m_target_worker_count' = 0
  /\ at' = AllWoken
  /\ owner' = IF ShutdownPolicy = "immediately" THEN "done"
              ELSE IF m_active_worker_count > 0 THEN "draining" ELSE "joining"
  /\ UNCHANGED <<policies, m_worker_count, m_active_worker_count, m_scheduler,
                 m_terminated_workers, task, threshold, ghosts>>

DrainAgain ==
  /\ owner = "draining_woken"
  /\ owner' = IF m_active_worker_count > 0 THEN "draining" ELSE "joining"
  /\ UNCHANGED <<policies, counts, m_scheduler, terminals, at, task,
                 threshold, ghosts>>

(* ... and join those that have gone.                                      *)
Join ==
  /\ owner = "joining"
  /\ \A w \in m_terminated_workers : at[w] = "none"
  /\ m_terminated_workers' = {}
  /\ owner' = "done"
  /\ UNCHANGED <<policies, counts, m_scheduler, m_terminate_all_workers, at,
                 task, threshold, ghosts>>

SpuriousOwner ==
  /\ owner # Woken(owner)
  /\ owner' = Woken(owner)
  /\ UNCHANGED <<policies, counts, m_scheduler, terminals, at, task,
                 threshold, ghosts>>

-----------------------------------------------------------------------------
(* The workers: execute_task in a loop *)

TooMany == m_worker_count > m_target_worker_count

(* A woken worker counts as active again before it looks around; the       *)
(* mutant forgets line 429.                                                *)
AwakeUncounted(w) == m_active_worker_count
Awake(w) == m_active_worker_count + (IF at[w] = "woken" THEN 1 ELSE 0)

(* The queue without the task just taken; the mutant forgets line 434.     *)
Peeked == m_scheduler
Popped == Tail(m_scheduler)

Fetch(w) ==
  /\ at[w] = "woken" \/ (at[w] = "start" /\ ~TooMany)
  /\ MonitorFree
  /\ m_scheduler # <<>>
  /\ task' = [task EXCEPT ![w] = Head(m_scheduler)]
  /\ m_scheduler' = Popped
  /\ begun' = [begun EXCEPT ![Head(m_scheduler)] = @ + 1]
  /\ at' = [at EXCEPT ![w] = "running"]
  /\ m_active_worker_count' = Awake(w)
  /\ UNCHANGED <<policies, m_worker_count, m_target_worker_count, terminals,
                 owner, threshold, ended, dropped>>

(* execute_task returns false; the counts change in a later section.       *)
Leave(w) ==
  /\ \/ at[w] = "start"
     \/ at[w] = "woken" /\ m_scheduler = <<>>
  /\ MonitorFree
  /\ TooMany
  /\ at' = [at EXCEPT ![w] = "leaving"]
  /\ m_active_worker_count' = Awake(w)
  /\ UNCHANGED <<policies, m_worker_count, m_target_worker_count, m_scheduler,
                 terminals, task, owner, threshold, ghosts>>

(* Nothing to do: the worker is not active while it waits.                 *)
Idle(w) ==
  /\ at[w] \in {"start", "woken"}
  /\ MonitorFree
  /\ ~TooMany
  /\ m_scheduler = <<>>
  /\ at' = [at EXCEPT ![w] = "waiting"]
  /\ m_active_worker_count' = Awake(w) - 1
  /\ owner' = Woken(owner)
  /\ UNCHANGED <<policies, m_worker_count, m_target_worker_count, m_scheduler,
                 terminals, task, threshold, ghosts>>

SpuriousWorker(w) ==
  /\ at[w] = "waiting"
  /\ at' = [at EXCEPT ![w] = "woken"]
  /\ UNCHANGED <<policies, counts, m_scheduler, terminals, task, owner,
                 threshold, ghosts>>

(* The task function returns or throws; no mutex is held.                  *)
EndTask(w, place) ==
  /\ at[w] = "running"
  /\ at' = [at EXCEPT ![w] = place]
  /\ ended' = ended \cup {task[w]}
  /\ task' = [task EXCEPT ![w] = NoTask]
  /\ UNCHANGED <<policies, counts, m_scheduler, terminals, owner, threshold,
                 begun, dropped>>

Return(w) == EndTask(w, "start")
Throw(w)  == MayFail /\ EndTask(w, "throwing")

(* worker_destructed                                                       *)
Destructed(w) ==
  /\ at[w] = "leaving"
  /\ MonitorFree
  /\ at' = [at EXCEPT ![w] = "exiting"]
  /\ m_worker_count' = m_worker_count - 1
  /\ m_active_worker_count' = m_active_worker_count - 1
  /\ owner' = Woken(owner)
  /\ m_terminated_workers' = IF m_terminate_all_workers
                             THEN m_terminated_workers \cup {w}
                             ELSE m_terminated_workers
  /\ UNCHANGED <<policies, m_target_worker_count, m_scheduler,
                 m_terminate_all_workers, task, threshold, ghosts>>

(* worker_died_unexpectedly: the size policy asks for one worker more than *)
(* are left, whatever the target was.                                      *)
Died(w) ==
  /\ at[w] = "throwing"
  /\ MonitorFree
  /\ owner' = Woken(owner)
  /\ LET left == [at EXCEPT ![w] = "exiting"]
     IN  \/ /\ m_terminate_all_workers
            /\ at' = left
            /\ m_terminated_workers' = m_terminated_workers \cup {w}
            /\ m_worker_count' = m_worker_count - 1
            /\ m_active_worker_count' = m_active_worker_count - 1
            /\ UNCHANGED m_target_worker_count
         \/ /\ ~m_terminate_all_workers
            /\ m_target_worker_count' = m_worker_count
            /\ \E new \in Started(left, m_worker_count - 1, m_worker_count) :
                 /\ at' = Start(left, new)
                 /\ m_worker_count' = m_worker_count - 1 + Cardinality(new)
                 /\ m_active_worker_count' =
                      m_active_worker_count - 1 + Cardinality(new)
            /\ UNCHANGED m_terminated_workers
  /\ UNCHANGED <<policies, m_scheduler, m_terminate_all_workers, task,
                 threshold, ghosts>>

(* The thread function returns.                                            *)
Exit(w) ==
  /\ at[w] = "exiting"
  /\ at' = [at EXCEPT ![w] = "none"]
  /\ UNCHANGED <<policies, counts, m_scheduler, terminals, task, owner,
                 threshold, ghosts>>

-----------------------------------------------------------------------------
OwnerContinues == WaitAgain \/ (owner # "ready" /\ Shutdown)
                    \/ TerminateAllWorkers \/ DrainAgain \/ Join

WorkerContinues(w) == Fetch(w) \/ Leave(w) \/ Idle(w) \/ Destructed(w)
                        \/ Died(w) \/ Exit(w)

Next == \/ \E n \in 0 .. MaxWorkers : Resize(n) \/ Wait(n)
        \/ \E t \in Task : Schedule(t)
        \/ Clear \/ WaitTimesOut \/ ShutdownClears \/ Shutdown
        \/ OwnerContinues \/ SpuriousOwner
        \/ \E w \in Worker : \/ WorkerContinues(w) \/ SpuriousWorker(w)
                             \/ Return(w) \/ Throw(w)

Spec == Init /\ [][Next]_vars

(* Threads inside the pool's code run on; a task function returns or       *)
(* throws.  Nothing obliges the owner to make another call.                *)
Fairness == /\ \A w \in Worker : /\ WF_vars(WorkerContinues(w))
                                 /\ WF_vars(Return(w) \/ Throw(w))
            /\ WF_vars(OwnerContinues)

FairSpec == Spec /\ Fairness

-----------------------------------------------------------------------------
(* Properties *)

Members == {w \in Worker : at[w] \notin {"none", "exiting"}}
Active  == {w \in Worker : at[w] \in {"start", "running", "leaving", "throwing"}}
Closed  == {"terminate", "draining", "draining_woken", "joining", "done"}

(* The two counters, changed in six critical sections (lines 350, 373,     *)
(* 390, 426-429), always count the workers and the active ones: those not  *)
(* asleep and not woken yet.                                               *)
CountersExact == /\ m_worker_count = Cardinality(Members)
                 /\ m_active_worker_count = Cardinality(Active)

(* When the wait of the shutdown is over, every task that was scheduled    *)
(* and not cleared has run to its end: between the pop of a task and the   *)
(* end of its function there is no moment at which wait sees neither the   *)
(* task nor an active worker (lines 246-251, 409-440).  immediately does   *)
(* not wait, but no worker takes a task from the queue after it has        *)
(* returned; a task taken before that may still be about to be called.     *)
NothingLeftBehind == owner \in Closed =>
  /\ m_scheduler = <<>>
  /\ ShutdownPolicy # "immediately" =>
       /\ \A t \in Task : begun[t] > 0 => t \in ended
       /\ \A w \in Worker : at[w] # "running"

(* A task runs at most once and a cleared or pending one has not run       *)
(* (lines 178-195, 222, 433-440; "executed once only", line 178).          *)
ExecutedOnce ==
  /\ \A t \in Task : begun[t] <= 1
  /\ IsInjective(m_scheduler)
  /\ \A t \in Range(m_scheduler) \cup dropped : begun[t] = 0
  /\ \A v, w \in Worker : task[v] = task[w] /\ task[v] # NoTask => v = w

(* No wake-up is lost: while a worker sleeps, each pending task has a      *)
(* worker of its own on the way to it, although schedule notifies only one *)
(* and a notified worker may find the task taken (lines 186-189, 417-431). *)
NoneSleepsBesideATask ==
  (\E w \in Worker : at[w] = "waiting") =>
    Len(m_scheduler) <= Cardinality({w \in Worker : at[w] \in {"start", "woken"}})

(* terminate_all_workers cannot hang, neither its wait for active workers  *)
(* nor the join with the mutex held (lines 306-319), and whether or not it *)
(* waits every worker ends, the sleeping ones too, no begun task left      *)
(* half done ("all active tasks will be processed completely",             *)
(* shutdown_policies.hpp 66).                                              *)
AllGone == /\ \A w \in Worker : at[w] = "none"
           /\ \A t \in Task : begun[t] > 0 => t \in ended

ShutdownReturns == owner = "terminate" ~> owner = "done" /\ AllGone

(* What the comment of the wait_for_all_tasks policy promises: shutdown    *)
(* waits for "the worker termination afterwards" (shutdown_policies.hpp).  *)
ShutdownEndsWorkers == owner = "done" => \A w \in Worker : at[w] = "none"

(* What the comment of resize promises: its argument is "the new number of *)
(* worker threads"; when no worker is on its way out, there are as many.   *)
ResizeReachesTarget ==
  (\A w \in Worker : at[w] # "leaving") => m_worker_count >= m_target_worker_count
=============================================================================
