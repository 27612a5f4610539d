# A verification project for the LIRS2 cache simulator

The repository is a trace-driven simulator of page replacement: it replays a
trace of page numbers against a cache of `mem_size` frames under one of five
policies (LIRS2, LIRS, ARC, LRU, OPT) and reports the misses. In batch mode
the simulations are jobs of a thread pool. There are no tests. This directory
holds TLA+ models of the parts with the most intricate logic, the TLC runs
that check them and proofs checked by TLAPS.

Line numbers without a file name are those of the source the module models.

## 1. Inventory

All paths are below `src/src/`.

| Component | State | Operations | Status |
|---|---|---|---|
| LIRS2 engine (`replace_lirs2.*`) | page table, two list nodes per page, LIRS stack, resident HIR queue, `Rmax1`, `Rmax2`, `Cursor`, counters | `Run`: one reference | modelled |
| ARC engine (`replace_arc.*`) | lists T1, T2, B1, B2, their sizes, target `p`, page table | `Run`: one reference, cases I to IV | modelled |
| Pool core (`threadpool/.../detail/pool_core.hpp`, `worker_thread.hpp`, `*_policies.hpp`) | three counters, task queue, terminated workers, the threads, two condition variables | `schedule`, `clear`, `resize`, `wait`, timed `wait`, shutdown; a worker's `execute_task`, `worker_destructed`, `worker_died_unexpectedly` | modelled, with each scheduling and shutdown policy |
| Batch driver (`main.cpp`, `replace.cc`) | pool, `kReportLock`, result files, console | size the pool, schedule, `ReplaceJob::Run`, `Report`, destructor | modelled |
| LIRS engine (`replace_lirs_base.*`) | page table, one list node per page, LIRS stack, resident HIR queue, `LIR_LRU_block_ptr`, counters | `Run`: one reference | modelled |
| LRU engine (`replace_lru.*`) | one doubly linked list, by its pointers | `Run`: one reference | modelled |
| OPT engine (`replace_opt.*`) | page table, ordered set of resident pages, counters | constructor, scale of the progress display, `Run`: one reference | modelled |
| Trace reader (`trace_handle.*`) | file position, renumbering, trace, next positions, largest page | `Init`: one iteration of the reading loop, filling of `mNextPos` | modelled |
| Futures (`future.hpp`, `detail/future.hpp`) | result, three flags, monitor and condition | `schedule`, the task function, `set_value`, `cancel`, `wait`, `timed_wait`, `operator()` | modelled; unused by `main.cpp` |
| Task and pool adaptors (`task_adaptors.hpp`, `pool_adaptors.hpp`) | priority of a task | comparison of priorities; the rest forwards calls | partly: the comparison |
| Command line, manual mode (`main.cpp`) | flags, file lists | parse, run one job after the other | not modelled |
| Second pool (`ThreadPool.h`) | queue, stop flag, workers | `enqueue`, destructor | not modelled: no file includes it |
| Build files, traces, plots | none | none | not modelled |

How they interact: `main` reads flags, a list of traces and their parameter
files. Per trace it lets a `TraceHandle` read the whole trace, and then, per
memory size and method, makes a `ReplaceJob` that holds the handle and
schedules it. A worker of the pool runs the job: it builds the engine on the
handle, calls `Run`, and with `kReportLock` held calls `Report`. Engines share
the handle, which nobody changes any more (all read `mTrace` and `mVmSize`,
OPT also `mNextPos`); jobs share `kReportLock`, the result files and the
console. `main`
returns without waiting: the destructor of the pool waits for the jobs.

What is hard here:

* the engines are sequential, but a reference adjusts several lists, three
  pointers and half a dozen counters whose agreement is nowhere stated; a
  wrong one shows, if at all, after a long trace. Pointer walks have no end
  test and rely on a page of a certain kind being above;
* the pool changes its counters in six critical sections with unlocked gaps;
  workers sleep, are woken one at a time, wake spuriously, die of an
  exception, leave while the pool is resized; `terminate_all_workers` joins
  threads with the mutex held;
* a future's three flags are read and written by several threads without the
  mutex, so the order of every single access matters;
* the reader computes, while it reads, what OPT uses much later; OPT keeps its
  pages in a set ordered by a key that changes;
* the batch mode relies on the pool's shutdown to complete the work.

Each hazard, at its line, with the properties that cover it or the reason none
does, is in `PROJECT.json` under `hazards`.

What makes each component correct: an engine is a demand cache (faults are
counted once, frames never over- or under-used), follows no NULL pointer, and
keeps its lists, marks and counters in agreement with the recency order its
policy is about; the pool runs each task once, loses none, keeps its counters,
never sleeps beside work and ends when told to; the batch reports every job
once, in whole reports, before the program ends; LIRS implements its
policy as LIRS2 does, LRU keeps the recency order of the references, OPT never
has more misses than any demand cache; the reader delivers the references of
the file with exact next positions; a future that is ready has its value, a
cancellation means what it says, and no waiter is forgotten.

## 2. Modules

| Module | Models or states | Used by |
|---|---|---|
| `DemandCache` | what any engine promises to its caller | `ARC` |
| `LIRS2Policy` | LIRS2 as a policy over the recency history, no machinery | `LIRS2` |
| `LIRS2` | the LIRS2 engine | `MC_LIRS2`, `LIRS2_proofs` |
| `ARC` | the ARC engine | `ARCHistory` |
| `ARCHistory` | ARC beside the history of its references | `MC_ARC`, `ARC_proofs` |
| `LIRSPolicy` | LIRS as a policy over the recency history | `LIRS` |
| `LIRS` | the LIRS engine | `MC_LIRS`, `LIRS_proofs` |
| `LRUPolicy` | least recently used, without a list | `LRU` |
| `LRU` | the LRU engine | `MC_LRU`, `LRU_proofs` |
| `TraceHandle` | the trace reader | `MC_TraceHandle`, `OPT` |
| `OPT` | the OPT engine composed with the reader | `OPTRivals` |
| `OPTRivals` | OPT beside every other cache of its size | `MC_OPT`, `OPT_proofs` |
| `Future` | a future, its task and its clients | `MC_Future`, `Future_proofs` |
| `PoolCore` | pool, workers and the owning thread | `MC_PoolCore`, `ReplaceJobs` |
| `ReplaceJobs` | batch mode composed with the pool | `MC_ReplaceJobs`, `Pool_proofs` |
| `ListLemmas` | facts about sequences and cardinalities | most proofs |
| `LIRS2_proofs`, `ARC_proofs`, `LIRS_proofs`, `LRU_proofs`, `Future_proofs` | theorems and proofs | |
| `OPT_proofs` | theorems and proofs about the reader and OPT | |
| `Pool_proofs` | theorems and proofs about the pool and the batch | |

### LIRS2

One step is one iteration of the loop in `LIRS2_Replace::Run` with every
helper it calls; the trace is not fixed, any page may come next. Page `p` owns
the nodes `<<p, 1>>` and `<<p, 2>>`, its entries in `mPageTable1` and
`mPageTable2`. The stack and the queue are sequences of nodes, the head first;
`->LIRS_prev` is the neighbour to the left. Inside a step the handler works on
a record of the half-changed state, and its operators carry the names of the
functions (`findLastLirLru1`, `pruneLIRSstack`, ...). A walk that reaches the
end of the list yields `status = "segv"`, after which nothing happens.

`MissEvict`, `MissLoadLIR`, `MissLoadHIR`, `HitHIR` and `HitLIR` are the ways
through lines 321-342; each continues with `Touch` (`FirstTouch` or `Retouch`,
then the pruning).

The asserts are compiled out of the default release build, so they never stop
a step; the property `AssertionsHold` states them. Counters that are only
written, the eviction log and the progress dots are left out. The loop in
`pruneLIRSstack` is two turns, since a reference adds at most two nodes to a
stack within its limit; were that wrong, `StackBounded` would fail.

`LIRS2Policy` is the abstract specification: a history in which each page
stands twice, a set of LIR pages and a queue. `FollowsPolicy` maps the engine
onto it, so nodes, instance numbers, recency marks, `Rmax` pointers, `Cursor`
and the length counter are shown to be a correct implementation of "the page
whose second-last reference is more recent than some LIR page's becomes LIR".

### ARC

One step is one iteration of `ARC_Replace::Run`. The list functions exist in
four copies; they are one operator with the list as parameter, and `Check`
stands for the tests that end the program with `exit`. Unsigned arithmetic is
kept: `p - delta` wraps and `MIN(.., 0)` then resets the target, as in the
code (the published algorithm takes a maximum there; the engine
remains a sound demand cache, with a different target).

`ARCHistory` adds the references in order of recency, which the engine does
not keep, so that the order inside its lists can be stated.

### LIRS and LRU

`LIRS` is built like `LIRS2`, with one node per page, so its lists are
sequences of pages and there is one mark per page, one pointer and one length.
`LIRSPolicy` says what they implement: a page becomes LIR when its previous
reference is more recent than that of some LIR page. Caches of one and two
frames are left out (section 6).

`LRU` keeps the pointers as they are, because relinking a doubly linked list
is what could go wrong in it. `ListOrder` follows `LRU_next` from the head, and
`FollowsLRU` says that this is the recency order of `LRUPolicy` after every
reference. An engine that would write through NULL stops with `segv`, which
`StopsOnlyBelowTwoFrames` allows below two frames only.

### TraceHandle and OPT

`TraceHandle` starts with an arbitrary file: its numbers, and how it ends,
which decides whether `feof` is true after the last number (`ending`). One
step is one iteration of the reading loop; the last fills `mNextPos`.

`OPT` extends it: when the reader is done the constructor runs, then the loop
that prints a scale (every engine has this loop, and it may not end, so OPT's
is modelled), then one step per reference. `mCache` is a `std::set` ordered by
`fwd_distance`: an insertion with a key that is taken does nothing and an
erasure removes whatever has the key, and the model says so. Both return codes
the engine checks end in `exit`.

`OPTRivals` adds the variable `rivals`, which is not in the code and which no
action of `OPT` reads: while the engine replays the trace it records every
content and fault count that a demand cache of the same size can have by now,
whatever it evicts. `FewestFaults` compares the engine with the best of them.

### Future

Three flags are accessed without the mutex, so each access is a step: `cancel`
is three (`m_ready`, `m_executing`, set `m_is_cancelled`), the task function
is a step per flag, and `set_value` writes the result and the flag in two
steps with the mutex held (`locked`), since `ready` and `cancel` do not take
it. What a client does with the mutex is one step. Memory is sequentially
consistent: the flags are `volatile` and the mutex orders result and flag for
those that wait. The pool may refuse, drop, run or lose the task. A thread
that waits twice, times out, or cancels a future that is ready is an ordinary
sequence of a client's calls.

### PoolCore

The critical sections are the actions: everything a thread does between taking
and releasing `m_monitor` is one step. A thread blocked on a condition is
`waiting`; a notification or a spurious wake-up makes it `woken`, and its next
step tests its loop condition again. Tasks run with no mutex held. The owner's
calls come in any order until it shuts the pool down; it joins with the mutex
held, the only time a mutex spans steps, hence `MonitorFree`.

With `MayFail`, a thread may fail to be created (then the loop in `resize`
stops with a lower count than its target) and a task may throw. When it does,
the model follows the path in which the stack is unwound and the scope guard
calls `died_unexpectedly`; a Boost.Thread that terminates the process instead
has no further behaviour to speak of.

The template arguments are variables that never change, `SchedulingPolicy` and
`ShutdownPolicy`. A scheduler is a sequence whose head is executed next;
`Places` says where it inserts a task. `wait_for_active_tasks` and
`immediately` begin with `ShutdownClears`, the first then goes the way of
`wait_for_all_tasks`; `immediately` ends with `terminate_all_workers(false)`,
after which `owner` is `done` while workers may still run.

`begun`, `ended` and `dropped` are history variables: the code does not have
them and no action reads them, except that a task is scheduled once.

### ReplaceJobs

Extends `PoolCore` with the steps of `main` and of `ReplaceJob::Run`. The jobs
are the pool's tasks: a trace, one of the memory sizes in that trace's
parameter file (which may be empty) and a method. `--pool` may be 0, and a
thread may fail to start, which `main` does not look at. `--method` is `all` or
one name, and a name `ReplaceJob::Run` does not know ends the job with nothing
but a message (`NotSupported`). `Endless` says when a simulation never gets past
the scale every engine prints first: for a trace of 1 to 19 references. Such a
job keeps its worker and takes no step.

The traces in the list are taken to be distinct; a trace that is listed twice
has its sizes twice in the same files. `console` is what reports print. What
others print without the lock (a starting job, line 55, an unsupported one,
line 88, and `main`, lines 197-200) is not in it and can fall inside a report.
An engine that crashes or exits in the tiny caches its own module describes
takes the process with it; here simulations end or are endless. Jobs do not
throw.

## 3. Runs

| Run | Question | Bounds |
|---|---|---|
| `lirs2` | Does the engine keep its invariants, follow no NULL, and implement `LIRS2Policy`? | 5 pages, 4 frames of which 2 are for HIR pages, `MAX_S_LEN` 6, fault counter modulo 3 |
| `lirs2_small` | Does the assertion of line 427 hold with the code's minimum of 4 HIR frames in 3? (violation) | 3 pages, 3 frames |
| `arc` | Do lists, sizes, table and directory agree, is the directory ordered by recency, does it cover LRU, and is ARC a demand cache? | 7 pages, 3 frames |
| `lirs` | Does the engine keep its invariants, when can it follow NULL, and does it implement `LIRSPolicy`? | 7 pages, 3 to 6 frames of which 2 are for HIR pages, fault counter modulo 7 |
| `lru` | Do the pointers implement `LRUPolicy`, and when is NULL written through? | 5 pages, 0 to 4 frames |
| `opt` | Is the trace faithful to the file, does OPT take the fewest faults, and does the program end? | files of at most 6 numbers over 4 blocks, cut line none, 0 or 4, 1 to 3 frames, 3 dots |
| `trace_extra` | Has a trace as many references as its file has numbers? (violation) | files of at most 2 numbers |
| `future` | Does ready mean value, is a cancellation honoured, does every waiter return? | 3 clients, failures on |
| `pool` | Counters, single execution, completeness of the wait, no lost wake-up, shutdown returns and workers end | 3 threads, at most 2 asked for, 2 tasks, failures on, LIFO and priority scheduler, all shutdown policies |
| `pool_resize` | Does `resize` reach the number it is given? (violation) | 2 threads, 1 task |
| `pool_threads` | Has every worker ended when shutdown returns? (violation) | 2 threads, 1 task |
| `jobs` | Is every supported job reported once, in whole reports, before the program ends, and when does it end? | 3 traces with 2, 0 and 1 sizes, of 19 or 20 references each; all of 2 methods, a known one or an unknown one; 0 to 2 workers, failures on; FIFO scheduler |

Why the bounds are enough for the interesting cases:

* `lirs2`: pages outnumber frames, so evicted pages come back with their nodes
  still in the stack. With two LIR pages the walks have a choice; two HIR
  frames let Q be empty, single and linked. The
  code's stack limit is `8 * mem_size`, which a small instance reaches only
  with many pages. At 4, both nodes of two LIR pages fill a stack at its limit
  and the pruning finds no HIR node; the limit must be above that (section 4),
  and at 6 pruning still happens often. The stack never shrinks in the code: it holds two nodes per page
  ever referenced, which bounds the model. The counter wraps on purpose.
* `arc`: one page more than the directory holds, so every list is filled,
  drained and trimmed, T1 alone can fill the cache, and both ghost ratios
  exceed 1; `delta` wraps at 3 as a 16-bit value does at 65536.
* `lirs`: more pages than the largest cache has frames; the sizes give one LIR
  frame, where the code can crash, and two to four, where it must not.
* `lru`: more pages than frames; sizes on both sides of the two frames the code
  needs; with four frames the page that is hit can be head, tail, or in the
  middle of two others.
* `opt`: six references over four blocks in up to three frames make choices
  between victims with equal and different futures, pages that never come
  back, and immediate repetitions; the block 0 is the initial value of the
  reader's variable, which an empty file delivers; the cut line falls before,
  at and after the end. `TraceFaithful` quantifies over all positions,
  `FewestFaults` over all demand caches.
* `future`: three clients, so that one may wait, one time out and one cancel.
* `pool`: three threads while at most two are asked for, so a replacement
  starts beside an ending thread; two tasks of different priority, so one can
  be taken by another worker than the one notified; every order of owner
  calls. Argument values
  `0..2` of `wait` include the threshold 0 and a positive one.
* `jobs`: up to six jobs on two workers: reports compete for the lock, jobs of
  one file overtake each other, and one worker, the default, gives file order.
  The parameter file in the middle is empty. With one short trace of two, one
  worker may be lost to it while the other does the rest. No worker, one or two
  may have started.

Symmetry over the pages is used in the runs of ARC, LIRS and LIRS2, whose
properties are safety properties (the refinements have no fairness). The pool,
job, future and OPT runs check liveness and use no symmetry. Deadlock checking is off where a
behaviour may end: a program that ended, a pool that was shut down, a cache
that crashed.

Fairness: `pool` and `jobs` assume weak fairness for each thread that is
inside the pool's code, which a thread that is runnable and waits for no event
gets from the operating system. In `pool` it assumes that a task function ends.
In `jobs` a simulation, a loop over a finite trace, ends if the scale printed
before it does, that is unless the trace has 1 to 19 references: `Simulate` is
not enabled for an endless job, and `ProgramEnds` says that the program ends
exactly if there is no such job and somebody to do the others. The mutex is held for one step only (or during the
join, when the threads joined no longer need it), so weak fairness of a thread
suffices for the mutex (in `Future` too); for `kReportLock` it suffices because finitely many
jobs can overtake a waiting one. In `pool` the owner need not make another
call, so `ShutdownReturns` starts once the wait of the shutdown is over; that
this wait itself ends with workers and finite tasks is `ProgramEnds` in
`jobs`. `opt` is one sequential thread that keeps being scheduled, `WF(RivalNext)`,
which is enabled exactly when `OPT`'s `Next` is.
`future` assumes that the worker goes on with a task it has taken (the pool
need not give it to one) and that its function ends, and that a client
finishes the call it is in; nobody need time out, cancel or wake spuriously.

### What the violations show

* `lirs2_small`: `HIR_block_portion_limit` is at least 4 whatever `mem_size`,
  and line 427 subtracts it from the frames in unsigned arithmetic. In a cache
  of three the references a b c b c b promote b at the last one, with
  `num_LIR_pgs` at 1, and 3 - 4 wraps: a debug build stops at the assertion. The
  default build goes on and puts page a, which is HIR already, into Q a second
  time. (Other sequences never come to line 427: on a b a the walk of lines
  144-151 finds no LIR node and follows NULL in any build.) The memory
  sizes shipped with the repository are larger.
* `pool_resize`: two idle workers woken by `resize(1)` may both leave, because
  each decides on a count that the other has not yet been taken off.
* `pool_threads`: the comment of `wait_for_all_tasks` promises the termination
  of the workers, but the code waits for active ones only, and an idle worker
  is not active.
* `trace_extra`: the reading loop asks for the end of the file before it reads
  and ignores a failed read, so the last reference of a binary file, and of a
  text file with a newline at its end, is delivered twice.

## 4. Proofs

`LIRS2_proofs`, first part, for any pages, frames, rates, stack limit and counter width
with `HIR_block_portion_limit < mCacheMaxLimit` (`RoomForLIR`: a cache with
room for a LIR page, that is more than four frames; without it the run
`lirs2_small` shows what happens):

* `TypeCorrect`: `Spec => []TypeOK`. Needs that the free frames never fall
  below zero and that the Rmax pointers stand on nodes of the stack, without
  which the walks, and so the values they return, have no meaning.
* `FramesAlwaysAccounted`: `Spec => []FramesAccounted`. Resident pages and
  free frames add up, Q holds the resident HIR pages once each, `num_LIR_pgs`
  is the number of LIR pages. The inductive invariant adds what this depends
  on: which pages have nodes and that their two nodes carry the two numbers,
  that a page's nodes are in the stack once each, that the Rmax pointers stand
  on nodes of the stack, and that the page under `Rmax2` is LIR and so not in
  Q, without which a promotion could enter a page into Q twice. The argument
  follows one reference through its parts: one lemma per operator says what
  it preserves of the half-changed state.

Second part, with `StackDeepEnough` besides: `MAX_S_LEN` is more than twice the
number of frames for LIR pages. The code's `8 * mem_size` always is
(`CodeLimitDeepEnough`). TLC shows that the bound is exact: with one LIR frame
a limit of 2 crashes and 3 does not, with two 4 crashes and 5 does not.

* `NeverCrashing`, `InstancesAlwaysPaired`, `RmaxAlwaysLowest`,
  `MarksAlwaysMatchStack`, `StackAlwaysBounded`, `CursorAlwaysSkipsOnlyLIR`,
  `AssertionsAlwaysHold`: the other invariants of the run `lirs2`, all from
  one inductive invariant (`OInv`, `IInv` with `OrderOK`).
* `Ordered` states the order by positions: `Rmax1` at `a`, `Rmax2` at `b`,
  `Cursor` at `c`, each page's node numbered 1 above the other, no LIR node of
  the number below `a` or `b`, only LIR nodes between `c` and `b`, `b` the
  counted length and the marked nodes those down to `b`. What the
  properties do not say and the induction needs: `RealFirst`, a fake node is
  always numbered 2 (else the number of a page's only real
  reference could pass for two), and, during the warm-up, that a page in the
  stack has a frame, so that a page loaded as LIR is new to the stack.
* A walk ends because of the page just referenced: its two nodes have swapped
  numbers, so the one that was numbered 1 is now the LIR node numbered 2 the
  walk of `Rmax2` finds at the latest, and the one at the head that of `Rmax1`
  (`MoveToTopOrder`, `PromoteOrder`). The pruning finds a HIR node because a
  region that outgrew the limit is longer than the nodes of all LIR pages
  (`LIRRunShort`), and its second turn may start at the neighbour of the
  node it sank because what the first turn passed is LIR (`PruneOnceOrder`).

Third part, under the same two assumptions:

* `LIRS2ImplementsPolicy`: `Spec => FollowsPolicy`. The order invariant is what
  makes the mapping exact: the node numbered 2 is at the policy's `Older`
  position of its page, `Rmax2` at its `Bottom` (`PolicyOlder`,
  `PolicyBottom`), and a marked, real node numbered 2 is what `Promotable` asks
  for (`PolicyPromotable`).
* Each part of a reference is then compared with the operator of the policy it
  implements: the two nodes pushed or the lower one moved to the head with
  `Refresh` (`PolicyRefreshNew`, `PolicyRefreshKnown`), a turn of the pruning
  with `Sink` (`PolicySink`), both turns with `Trim` (`PolicyTrim`), and the
  branches of lines 321-342 with `Hit`, `LoadAsLIR`, `Load` and `Evict`. The
  page demoted is read off the bottom of the history as it stands after the
  move to the head and before the pruning, as in the code.

`ARC_proofs`, for any cache size, pages, counter width and trace, from
`ConstantsAssumption` only:

* `TypeCorrect`, `ListsAlwaysAgree`, `DirectoryAlwaysBounded` and
  `NeverExitsEver`: the invariants of the run `arc`, which together are
  inductive as they stand. Each needs the others: a test in a list function
  passes because the type and list a page is registered with agree with the
  lists, `TrimDirectory` finds something to drop because the directory is
  within its bounds, and REPLACE because the frames are accounted for.
* `ARCImplementsCache`: `Spec => ImplementsCache`. Every reference is a hit, a
  load or a replacement of `DemandCache`, whatever the target `p` was set to.
* `HalvesAlwaysInOrder` and `DirectoryAlwaysCoversLRU`: about `ARCHistory`.
  That the pages LRU would hold are in the directory follows from a count: a
  page leaves the directory only when `mCacheMaxLimit` others, the rest of its
  half and the page just referenced, were referenced later (`ForgottenIsOld`).

`LIRS_proofs`, for any cache larger than its HIR part, any pages, rates and
trace, from `ConstantsAssumption` only:

* `TypeCorrect`, `FramesAlwaysAccounted`, `MarksAlwaysMatchStack`,
  `StopsOnlyWithOneLIRFrameEver`: the invariants of the run `lirs`. They are
  not inductive as they stand: the inductive invariant adds that pages
  outside S are neither marked nor cached nor LIR, and that during the warm-up
  every page of S is LIR, without which the page loaded into the last LIR
  frame could be the only one the pointer can stand on.
* `LIRSImplementsPolicy`: `Spec => FollowsPolicy`. The recency history of
  `LIRSPolicy` is S itself, so marks, pointer and length drop out.
* The argument follows one reference through its parts: what the branches of
  lines 217-237 leave (`Taken`), what removing the page and putting it at the
  head of S leaves (`HasPlaced`), what the promotion and the new lowest LIR
  page make of it (`Settled`), and what the whole reference does
  (`HasTouched`). The walk of `findLastLirLru` ends because of a count: with
  two LIR pages one of them is above the one the pointer leaves.

`LRU_proofs`, for any finite set of pages, cache size (0 included) and trace,
from `ConstantsAssumption` only:

* `StopsOnlyBelowTwoFramesEver` and `LRUImplementsPolicy`. No variable of the
  engine holds the list, so the inductive invariant says that there is one
  (`Holds`) whose neighbours the pointers are (`Linked`). `PushHeadFacts`,
  `DropTailFacts` and `UnlinkFacts` say that the relinking of lines 60-65,
  71-79 and 82-90 turns the pointers of one list into those of the next, and
  `WalkFacts` that the walk from the head finds the list: it is there that a
  cycle, a lost tail or a stale pointer would show.

`Pool_proofs`, first part, for any finite set of threads, any tasks and priorities, any
scheduling and shutdown policy, any sequence of calls, with and without
failures, from `ConstantsAssumption` only:

* `PoolTypeCorrect`: no counter falls below zero, among other things.
* `PoolCountersExact`: the counters are the cardinalities of the sets of
  workers and active workers.
* `TasksExecutedOnce`, `NoTaskLeftBehind`, `NoLostWakeUp`: the safety
  properties of the run `pool`.

One inductive invariant carries them all. `CountersExact` ties the counters to
the threads; `Working` says a worker has a task exactly while it runs one and
a begun task is ended or being run; with it a zero `m_active_worker_count`
means no task runs, which is why the wait of the shutdown misses none (`Quiet`
keeps it true until the pool is gone, and for `immediately` keeps what is left
of it: an empty queue). No lost wake-up needs
`NoneSleepsTooMany` beside it: while there are more workers than asked for, no
worker sleeps, so one that leaves with tasks pending leaves no sleeper beside
them. Where a step may either leave a worker
asleep or start another, the count of workers on the way to a task is compared
through cardinality lemmas from `ListLemmas`.

`Future_proofs`, for any set of clients, with and without failures, from
`ConstantsAssumption` only:

* `ReadyIsFinal` and `CancellationsHonoured`: the two safety properties of the
  run `future`. The inductive invariant says at which places of the worker the
  result and the flag can have been written (`Published`) and what a client
  that is between two reads of `cancel` or `operator()` has already seen
  (`Tested`): a client at `reading` or `checking` has seen `m_ready`, which is
  never reset, and a task that passed its look at `m_is_cancelled` did so
  before any cancellation that counts as in time.

`Pool_proofs`, second part, for any traces, any list of memory sizes for each
and any methods, known or not, any number of workers from none up and any
threads that fail to start, from `ConstantsAssumption` and `JobsAssumption`:

* `BatchUsesPool`: `SpecJobs => Spec`. The batch mode is an implementation of
  the pool's specification: `main` calls the pool as an owner may, and every
  other step of the batch is a step of the pool or leaves it alone. With it
  the inductive invariant of the pool is at hand for the batch.
* `JobsAllReported`: from the pool's `Working` and `Quiet` and from
  `Scheduled`, that the jobs the loops of `main` are past are those in the
  queue or begun; a job has a line exactly from its write on (`LinesCounted`),
  and one of an unsupported method never writes.
* `ReportsNeverMix`: who is between the parts of a report holds the lock
  (`Stepped`), and then the console ends in its first part (`Printed`).
* `OneWorkerReportsInOrder`: the FIFO queue keeps the order of the loops
  (`Queued`), one worker asked for means one thread between taking and ending
  a job (`OneMember`, from the exact counters and `Sized`), so the job it has
  is the last one begun (`InTurn`).

`OPT_proofs`, first part, for any set of block numbers and length of the file,
any way it can end and any cut line, from `TraceAssumption` only:

* `TraceAlwaysFaithful`: `TraceSpec => []TraceFaithful`. No induction over the
  file is needed, since the reader is itself one: its inductive invariant
  (`TraceInv`) says what its tables are after every iteration. `ReadOK` places
  the loop in the file, a failed read at its end included; `NumbersOK` and
  `AppearInOrder` say that `dic` and `mRealTrace` are inverse and number the
  blocks as they appear; `LinksOK` says that `prevPos` has the latest
  reference to each block and that a position without an entry in `nextPos`
  has no later reference yet, which is what line 62 repairs one iteration at a
  time. `OPTTraceStaysFaithful` is the same with the engine behind the reader.

Second part, for any such trace and any cache of one frame or more, from
`OPTAssumption` besides:

* `OPTAlwaysFewestFaults`: `RivalSpec => []FewestFaults`, the optimality of the
  engine at every position of the trace. The inductive invariant `OPTInv` has
  two halves.
* `CacheOK`: the set holds exactly the resident pages, each under the position
  of its next reference (`NextAt`; a page that is not referenced again comes
  after all others). Two pages never share a key (`KeysApart`), so the set
  neither loses nor confuses one and the engine never ends in `exit`, and the
  last element of the set is a page needed no sooner than any other
  (`VictimIsLast`).
* `RivalsOK`: no rival is ahead (`Ahead`): of the pages used before any later
  position a rival has at most as many more than the engine as it has had more
  faults. That fewer faults are impossible is only the case of the current
  position; the later ones are what makes it inductive. A victim is among the
  pages used before some position only when all the engine's pages are
  (`EngineMoves`), and then a rival, with no more frames, can have no more of
  them; a rival gains at most one page for a fault (`RivalMoves`); together no
  reference lets one get ahead (`AheadStays`).

Model-checked only: liveness (`ShutdownReturns`, `ProgramEnds`,
`WaitersReturn`, `EndsUnlessShort`), which TLAPS cannot do. Every safety
property and every refinement that a passing run checks is proved.

## 5. Plan

The components of the program are modelled, and their safety invariants and
refinements are proved. What is left are facts behind the liveness properties
that need no fairness: for each loop a measure that its steps decrease (the
pages above the lowest LIR page, the jobs not yet reported, the workers a
shutdown still waits for), stated as action properties and proved.

## 6. Not modelled

* Flags, the list of traces and the parameter files, and the manual mode,
  which runs the same jobs one after the other.
* A negative `--pool`, which `resize` takes for a huge number, and files that
  do not exist.
* Log, result and progress output, except the loop that prints the scale of
  the progress display, which is in `OPT` and is the same in every engine.
* LIRS with one or two frames: no frame is left for a LIR page, a promotion
  links a page into the queue a second time, and the lists are no longer
  lists. LIRS's `pruneLIRSstack` and `insertLRUList`, which nobody calls;
  hence its stack limit, which is not enforced.
* OPT with no frame, which reads the last element of an empty set.
* Reading text that is no number without a cut line: the loop never ends and
  the trace grows for ever. `DecodeToFile`, which nobody calls.
* Tasks that call the pool they run in; several threads that own one pool;
  `looped_task_func` and the overloads of `schedule` that wrap a function.
* `ThreadPool.h` and its copy, which no file includes.

## 7. Running

    tlc -config MC_LIRS2.cfg MC_LIRS2        # about a minute
    tlapm Pool_proofs.tla

Every run and its properties are listed in `PROJECT.json`, as are, for every
property, a plausible bug in the code that makes it fail (`mutants`) and, for
every definition that models code, the lines it stands for (`map`).
