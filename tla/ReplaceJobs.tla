---------------------------- MODULE ReplaceJobs ----------------------------
(***************************************************************************)
(* The batch mode of main.cpp on top of the thread pool: main sizes the    *)
(* pool, schedules one ReplaceJob for every trace, memory size and method, *)
(* and returns; the destructor of the pool is what waits for the jobs.  A  *)
(* job runs the simulation and, holding kReportLock, appends its line to   *)
(* the result file of its trace and method and prints its summary.         *)
(*                                                                         *)
(* The jobs are the tasks of the pool.  The main thread is its owner.  In  *)
(* this program the pool is sized once and is never cleared or waited for  *)
(* before its destructor runs.  Threads may fail to start (MayFail); jobs  *)
(* do not throw here.                                                      *)
(***************************************************************************)
EXTENDS PoolCore

CONSTANTS mem_sizes,       (* for every trace the sequence of its sizes     *)
          kMethods,        (* the sequence of methods that "all" stands for *)
          FLAGS_methods,   (* the values of --method considered             *)
          TraceLengths,    (* the lengths of traces considered              *)
          NoWorker

(* A job is a trace, a size of that trace and a method, by their indices.  *)
ASSUME JobsAssumption ==
  /\ mem_sizes \in Seq(Seq(Nat))
  /\ Len(kMethods) \in Nat \ {0}
  /\ TraceLengths \subseteq Nat
  /\ Task = UNION {{k} \X (1 .. Len(mem_sizes[k])) \X (1 .. Len(kMethods)) :
                     k \in DOMAIN mem_sizes}
  /\ NoWorker \notin Worker

VARIABLES FLAGS_pool,   (* the --pool argument                             *)
          FLAGS_method, (* the --method argument                           *)
          mTraceLength, (* trace -> the number of its references           *)
          main,         (* "start", "scheduling", "returned"               *)
          started,      (* history: the workers resize could start         *)
          next,         (* the job main schedules next                     *)
          step,         (* worker -> how far it is with its job            *)
          kReportLock,  (* the worker that holds it, or NoWorker           *)
          results,      (* <<trace, method>> -> the lines of its file      *)
          console       (* what the reports printed                        *)

input   == <<FLAGS_pool, FLAGS_method, mTraceLength>>
reports == <<kReportLock, results, console>>
jobVars == <<input, main, started, next, step, reports>>
allVars == <<vars, jobVars>>

File(job) == <<job[1], job[3]>>
Files == (DOMAIN mem_sizes) \X (1 .. Len(kMethods))

(* The methods asked for, and the jobs for them.                           *)
Asked == IF FLAGS_method = "all" THEN kMethods ELSE <<FLAGS_method>>
Jobs == {job \in Task : job[3] <= Len(Asked)}

(* ReplaceJob::Run knows these methods and says "method not support" to    *)
(* any other name.                                                         *)
Supported(job) == Asked[job[3]] \in {"lru", "opt", "lirs", "arc", "lirs2"}

(* Each of them prints a scale of 20 dots before it simulates: on a        *)
(* shorter trace the step between two dots is 0 and that loop never ends.  *)
DOTS == 20
Endless(job) == Supported(job) /\ mTraceLength[job[1]] \in 1 .. DOTS - 1

(* The loops over traces, their sizes and the methods, the last innermost. *)
TraceStart(k) == <<k, 1, 1>>
First == TraceStart(1)
Finished == TraceStart(Len(mem_sizes) + 1)
After(job) ==
  IF job[3] < Len(Asked) THEN <<job[1], job[2], job[3] + 1>>
  ELSE IF job[2] < Len(mem_sizes[job[1]]) THEN <<job[1], job[2] + 1, 1>>
  ELSE TraceStart(job[1] + 1)

InitJobs == /\ Init
            /\ SchedulingPolicy = "fifo_scheduler"
            /\ ShutdownPolicy = "wait_for_all_tasks"
            /\ FLAGS_pool \in 0 .. MaxWorkers
            /\ FLAGS_method \in FLAGS_methods
            /\ mTraceLength \in [DOMAIN mem_sizes -> TraceLengths]
            /\ main = "start" /\ started = 0 /\ next = First
            /\ step = [w \in Worker |-> "idle"]
            /\ kReportLock = NoWorker
            /\ results = [f \in Files |-> <<>>]
            /\ console = <<>>

(* Whether resize could start the threads is not looked at.                *)
SizePool == /\ main = "start"
            /\ Resize(FLAGS_pool)
            /\ main' = "scheduling"
            /\ started' = m_worker_count'
            /\ UNCHANGED <<input, next, step, reports>>

ScheduleJob == /\ main = "scheduling" /\ next \in Jobs
               /\ Schedule(next)
               /\ next' = After(next)
               /\ UNCHANGED <<input, main, started, step, reports>>

(* The parameter file of a trace may be empty.                             *)
SkipTrace == /\ main = "scheduling" /\ next \notin Jobs /\ next # Finished
             /\ next' = TraceStart(next[1] + 1)
             /\ UNCHANGED <<vars, input, main, started, step, reports>>

ReturnFromMain == /\ main = "scheduling" /\ next = Finished
                  /\ Shutdown
                  /\ main' = "returned"
                  /\ UNCHANGED <<input, started, next, step, reports>>

TakeJob(w) == /\ Fetch(w)
              /\ step' = [step EXCEPT ![w] = "simulating"]
              /\ UNCHANGED <<input, main, started, next, reports>>

(* ReplaceJob::Run, in the order of its statements.  An endless simulation *)
(* takes no step.                                                          *)
Simulate(w) == /\ step[w] = "simulating"
               /\ Supported(task[w]) /\ ~Endless(task[w])
               /\ step' = [step EXCEPT ![w] = "locking"]
               /\ UNCHANGED <<vars, input, main, started, next, reports>>

(* "method not support": the job is over, without a report.                *)
NotSupported(w) == /\ step[w] = "simulating"
                   /\ ~Supported(task[w])
                   /\ step' = [step EXCEPT ![w] = "over"]
                   /\ UNCHANGED <<vars, input, main, started, next, reports>>

(* Mutant: the lock is not taken (line 84 missing).                        *)
LockReportAnyway(w) ==
  /\ step[w] = "locking"
  /\ kReportLock' = w
  /\ step' = [step EXCEPT ![w] = "writing"]
  /\ UNCHANGED <<vars, input, main, started, next, results, console>>

LockReport(w) == /\ step[w] = "locking"
                 /\ kReportLock = NoWorker
                 /\ kReportLock' = w
                 /\ step' = [step EXCEPT ![w] = "writing"]
                 /\ UNCHANGED <<vars, input, main, started, next, results,
                                console>>

(* Replace::Report: a line is appended to the file, then a summary of      *)
(* several lines is printed.                                               *)
WriteLine(w) ==
  /\ step[w] = "writing"
  /\ results' = [results EXCEPT ![File(task[w])] = Append(@, task[w][2])]
  /\ console' = Append(console, <<task[w], "head">>)
  /\ step' = [step EXCEPT ![w] = "printing"]
  /\ UNCHANGED <<vars, input, main, started, next, kReportLock>>

PrintSummary(w) == /\ step[w] = "printing"
                   /\ console' = Append(console, <<task[w], "rest">>)
                   /\ step' = [step EXCEPT ![w] = "unlocking"]
                   /\ UNCHANGED <<vars, input, main, started, next, kReportLock,
                                  results>>

UnlockReport(w) == /\ step[w] = "unlocking"
                   /\ kReportLock' = NoWorker
                   /\ step' = [step EXCEPT ![w] = "over"]
                   /\ UNCHANGED <<vars, input, main, started, next, results,
                                  console>>

EndJob(w) == /\ step[w] = "over"
             /\ Return(w)
             /\ step' = [step EXCEPT ![w] = "idle"]
             /\ UNCHANGED <<input, main, started, next, reports>>

MainContinues == SizePool \/ ScheduleJob \/ SkipTrace \/ ReturnFromMain
                   \/ (OwnerContinues /\ UNCHANGED jobVars)

JobContinues(w) == Simulate(w) \/ NotSupported(w) \/ LockReport(w)
                     \/ WriteLine(w) \/ PrintSummary(w) \/ UnlockReport(w)
                     \/ EndJob(w)

ThreadContinues(w) ==
  \/ TakeJob(w)
  \/ (Leave(w) \/ Idle(w) \/ Destructed(w) \/ Exit(w)) /\ UNCHANGED jobVars

NextJobs == \/ MainContinues
            \/ \E w \in Worker : JobContinues(w) \/ ThreadContinues(w)
            \/ (SpuriousOwner \/ \E w \in Worker : SpuriousWorker(w))
                 /\ UNCHANGED jobVars

(* Every thread keeps running, in an endless simulation without a step.    *)
(* The lock need not be fair: there are finitely many jobs to overtake a   *)
(* waiting one.                                                            *)
SpecJobs == /\ InitJobs /\ [][NextJobs]_allVars
            /\ WF_allVars(MainContinues)
            /\ \A w \in Worker : /\ WF_allVars(ThreadContinues(w))
                                 /\ WF_allVars(JobContinues(w))

-----------------------------------------------------------------------------
(* Properties *)

Lines(job) == Cardinality({i \in 1 .. Len(results[File(job)]) :
                             results[File(job)][i] = job[2]})

(* No job is ever reported twice, and when the process ends every memory   *)
(* size of every trace has exactly one line in the file of each method     *)
(* asked for, although main never waits for a job itself; a method that is *)
(* not supported has none (main.cpp 54-91, 190-218, 263; pool_core.hpp     *)
(* 241-260).                                                               *)
EveryJobReported ==
  \A job \in Jobs :
    LET due == IF Supported(job) THEN 1 ELSE 0
    IN  Lines(job) <= due /\ (owner = "done" => Lines(job) = due)

(* With one worker the lines of a file are in the order of the memory      *)
(* sizes in the parameter file, which a plot of the file relies on; with   *)
(* more, a later size can overtake an earlier one (main.cpp 205-217).      *)
OrderedWithOneWorker ==
  FLAGS_pool = 1 =>
    \A f \in DOMAIN results :
      \A i, j \in 1 .. Len(results[f]) : i < j => results[f][i] < results[f][j]

(* Two reports never mix on the console (main.cpp 84-86, replace.cc 7-52). *)
(* The console is what reports print; the lines main and a starting job    *)
(* print without the lock (main.cpp 55, 197-200) may still fall between.   *)
ReportsContiguous ==
  \A i \in 1 .. Len(console) :
    IF i % 2 = 1 THEN console[i][2] = "head"
    ELSE console[i] = <<console[i - 1][1], "rest">>

(* The program ends, its pool shut down, exactly when there is nothing to  *)
(* do or there are workers to do it and no job is endless: with --pool=0,  *)
(* or when no thread could be started, the destructor waits for ever, and  *)
(* so it does for a trace of fewer than 20 references (main.cpp 105, 263;  *)
(* replace_opt.cc 36 and the same loop in every engine).                   *)
ProgramEnds ==
  <>[](owner = "done" <=>
         Jobs = {} \/ (started > 0 /\ \A job \in Jobs : ~Endless(job)))
=============================================================================
