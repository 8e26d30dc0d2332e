# A TLA+ model of the AIPU driver

The repository is the Linux driver stack of a neural-network accelerator (AIPU):
a kernel-mode driver (KMD, `src/Linux/driver/kmd/src`) that owns the device, its
memory and the job queues, and a user-mode driver (UMD, `src/Linux/driver/umd/src`)
that loads graphs, builds jobs and talks to the KMD through `ioctl`, `mmap` and
`poll`.  This directory models both, checks the models with TLC and proves with TLAPS,
for every value of their constants, the safety properties of the KMD's job manager,
completion path, memory manager and life cycle and of the contexts, buffers, jobs and
simulator of the UMD.

## 1. Inventory

### Kernel-mode driver

| component | state | operations | interacts with |
|---|---|---|---|
| job manager (`aipu_job_manager.c`) | pending and scheduled queue, `sched_num`, per job `state`, `valid_flag`, `exception_flag` | schedule a new job, schedule a pending one, cancel the jobs of a session, kill a timed-out job, end a job (upper half), drain ended jobs (bottom half) | sessions, core, interrupt |
| session, jobs (`aipu_session.c`) | list of `session_job`s (ACTIVE/END, exception type), under `job_lock` | add, mark done, query one/all, delete all | ioctl, bottom half |
| session, buffers (`aipu_session.c`) | list of `session_buf`s, under `sbuf_lock` | add, detach, mmap, head | ioctl, release, memory manager |
| file operations (`aipu_fops.c`) | - | open, release, ioctl, mmap, poll | all of the above |
| interrupt (`aipu_irq.c`, `z1.c`, `z2.c`) | control and status register, one work item on a single-threaded workqueue | upper half, `schedulework`, bottom half | core, job manager |
| core (`aipu.c`, `zhouyi/`) | registers | trigger, is_idle, upper half | device |
| memory manager (`aipu_mm.c`) | per region: block list, `tot_free_bytes`, under the region's mutex | allocate, split, free, merge, free a session's buffers | REQBUF, FREEBUF, release |
| poll (`aipu_thread_waitqueue.c`, `aipu_session.c`) | per session: wait queue per thread, `single_thread_poll` | add a waiter, wake on completion | poll, bottom half |
| platform driver (`aipu_platform_driver.c`, `aipu.c`, `aipu_core.c`, `aipu_io.c`) | resources and pointers of the bound device | probe, remove | all constructors and destructors |
| SoC, sysfs, register access | clock and reset registers, debug files | show/store | core |

### User-mode driver

| component | state | operations |
|---|---|---|
| context references (`ctx_ref_map.cpp`) | handle -> context | create, destroy, look up |
| context (`context.cpp`) | graphs by id, under `gt_lock` | load/unload graph, parse it, dispatch, wait, poll, deinit |
| graph, jobs (`graph.cpp`) | jobs by id, `sched` queue, job states, `is_free` of the thread buffers | build, flush, wait, clean, update status |
| graph, buffers (`graph.cpp`) | text, static and thread buffers | load, alloc/free thread buffer, unload |
| device control (`device_ctrl.cpp`, `dev_op_wrapper.cpp`) | file descriptor; on x86 `simulation_malloc_top`, files, `glock` | open, malloc, free, schedule, poll, kill, run the simulator |
| APIs, printf, helpers, tests, out-of-box sample | - | - |

### What is hard

* The queues are shared by user threads (`ioctl`, `close`), the hard interrupt and
  a worker thread.  The bottom half *drops* the manager's lock for every completion
  it reports and keeps two list pointers across the gap.
* A job object has two parts with different owners (manager and session) and no
  reference count: `close` frees the session's part while the manager, the device or
  the bottom half may still use it.
* The upper half does not ask the device which job ended: it ends "the first SCHED
  job".  It works from one read of the status register on an edge-triggered line,
  while the next job may be started, and end, inside the handler.
* There is no timer: if nobody schedules a pending job when the device becomes idle,
  it waits for ever.
* Memory is split and merged under one mutex, found by address and size, and
  recorded in a list under another.
* `aipu_probe` has sixteen callees that may fail, and both probe and remove are open to
  interrupts and users half way.
* In user space job ids are reused, timeouts race with completions, statuses are handed out
  once by the kernel and applied by another thread, look-ups return bare pointers, and most fields of a
  graph are protected by no lock.
* Where a job finds its sections is computed by three components, in host addresses,
  device addresses and segment offsets.

The full list, at the lines where each bites, is `hazards` in `PROJECT.json`.

## 2. Modules

| module | models | built on |
|---|---|---|
| `AipuJobManager` | job manager, session job lists, RUNJOB/KILL/QUERYSTATUS, open and release, both interrupt halves, the device | |
| `AipuSession` | abstract specification: what the KMD promises about the jobs of a session | |
| `AipuSessionRefinement` | the mapping under which `AipuJobManager` implements `AipuSession` | both |
| `AipuJobManagerProofs` | theorems: types, device, queues, sessions, refinement | `AipuSessionRefinement` |
| `AipuMemory` | abstract specification: what a buffer allocator promises | |
| `AipuMm` | memory manager, session buffer lists, REQBUF, FREEBUF, release; implements `AipuMemory` | `AipuMemory` |
| `AipuMmProofs` | what split and merge do to a block list; theorems: block lists, buffers, refinement | `AipuMm` |
| `AipuUpperHalf` | the upper half register access by register access | |
| `AipuPoll` | poll, wait queues, wake-up | |
| `AipuCompletion` | RUNJOB to the return of poll(): the composition of the two | `AipuUpperHalf`, `AipuPoll` |
| `AipuCompletionProofs` | theorems: the end reported, the wake-up | `AipuCompletion` |
| `AipuDriver` | probe, remove, all constructors and destructors, interrupts and users meanwhile | |
| `AipuDriverProofs` | theorems: faults and leaks of the life cycle | `AipuDriver` |
| `UmdGraph` | the jobs of a graph and the threads that use them | `AipuSession` |
| `UmdGraphProofs` | theorems: statuses, buffers, waits | `UmdGraph` |
| `UmdContext` | context references, contexts, graph tables, API dispatch | |
| `UmdContextProofs` | theorems: life of contexts and graphs | `UmdContext` |
| `UmdBuffers` | the device buffers of a graph and every error path that frees them | |
| `UmdGraphBinary` | the parser of a graph file | |
| `UmdLayout` | section addresses, what a job's rodata says, segment registers | |
| `UmdLoadProofs` | theorems: leaks and memory of a job; the parser; the layout | `UmdBuffers`, `UmdGraphBinary`, `UmdLayout` |
| `UmdSimulator` | the x86 build: simulated memory, files, `glock` | |
| `UmdSimulatorProofs` | theorems: memory of graphs, outputs of jobs | `UmdSimulator` |

`MC...` modules hold the constants of the TLC instances.  Where a component is
looked at in several surroundings, those are records in a constant `Setups` (`Machines`, `Usages`,
`Sharings`, `Bounds`), one of which is chosen in `Init` and never changes.

### AipuJobManager

One element of `Jobs` is one RUNJOB request with the two kernel objects made for
it.  `state[j]` is `aipu_job.state` (plus `IDLE` before and `FREED` after the
object's life), `sjob[j]` the `session_job`, `session[s]` the progress of a file
descriptor through `aipu_release`, which is four critical sections and therefore
four actions.  An action is what one actor does between two points where another
can get in: a region under `job_manager->lock` or `session->job_lock`.

* RUNJOB is two actions (`SessionAddJob`, `ScheduleNewJob`) because the ioctl takes
  the two locks one after the other; the failure in between
  (`ScheduleNewJobNoMem`) leaves an orphan `session_job`, as in the code.
* The bottom half is `BhStart`, `BhScan`, then alternately `BhSessionJobDone`
  (without the lock) and `BhRelock`.  `BhLoop` is one pass of
  `list_for_each_entry_safe` up to the next point where the lock is dropped.
* A queue is a set with, for each member, the members that were ahead when it was
  linked (`before`, `older`).  Nodes are only added at one end, so this determines
  the list, and no sequence has to be rebuilt when a middle node is removed.
* Reads of freed memory are nondeterministic (`ReleaseCancel` may match a job whose
  session is gone or not); stores to freed memory are lost.
* The device is external: it ends the program it was given with a DONE or an EXCEP
  interrupt, and its idle bits become visible with the interrupt or, if `IdleLag`,
  later.

Left out of the actions: profiling data, register values, log messages, allocation
failure of a `session_job` (changes nothing).

`AipuSession` is what remains when queues, locks and cursors are forgotten: a job is
listed, queued, running, ended, delivered and collected, or cancelled on the way (then
"stale" while the device still has it).  `ImplementsSession` is that specification
under the mapping `JobPhase` of `AipuSessionRefinement`.

### AipuMm and AipuMemory

A region is a sequence of blocks.  `REQBUF` is `ReqBuf`, then per region an unlocked
look at `tot_free_bytes` (`ScanRegion`) and an attempt under the lock (`TryAlloc`,
`TryAllocFails`), then `AddBuf`.  `FREEBUF` is `DetachBuf` then `FreeBuf`;
`aipu_release` alternates `ReleaseFree` and `ReleaseDetach`.  Address arithmetic is
modulo `Word` (2^64 in the code).  `MmAssumption` requires every region to lie above
its own size, as in all device trees of the repository: for a region below it the
subtraction in the downward search could wrap and an oversized request would be
accepted.  It also says that regions are disjoint and whole pages, that alignments are
powers of two (`ALIGN` needs it), and that sizes and alignments are the `uint32_t` of the library
(`dev_op_wrapper.h:103`), so that no sum leaves the word.  `Alignment` is the 32-bit product of
`aipu_mm.c:405`, modulo `Word32`; alignments of 2^20 pages and more, which it makes 0, are left out.
`TryAllocFails` is the failure of the first block a split creates; the second one of a split in the middle
(lines 288-290), which the code dereferences untested, is taken to be there.  `tot_free_bytes` is the number of
addresses in free blocks (`FreeBytes`).  The order of a session's buffer list is abstracted to a set.
The build configuration fixes SRAM off and the compact flag (`config.h`).

`AipuMemory` is what a caller relies on: buffers are whole pages inside a region,
disjoint from every other buffer that is out, and come back one at a time.
`ImplementsMemory` is that specification under the mapping
`out <- Allocated` (the allocated blocks of all regions).

### AipuUpperHalf, AipuPoll and AipuCompletion

`AipuUpperHalf` splits the one step `UhUpdateJobState` of `AipuJobManager` into the
accesses of `zhouyi_v2_upper_half`: mask, read, one write-back per bit with the call of the
job manager after DONE and EXCEP, unmask.  The line is edge-triggered: `edge` is latched
when it rises.  The queues of the manager are reduced to submission order here.

`AipuPoll` is one session seen from poll(): `aipu_poll` is `PollEnter` (which chooses the
thread's own queue, the common one, or none), then `PollReady` or `PollSleep`; a woken
thread calls it again.  `JobDone` wakes what `single_thread_poll` tells it to.

`AipuCompletion` joins them: RUNJOB is `AddJob` of the session and then `ScheduleNewJob` of the
manager, the bottom half takes an ended `aipu_job` to `JobDone`, a kill keeps it from doing so.

### AipuDriver

`held` is the set of kernel resources, `ptr` the set of pointers that are not NULL; they
differ where a constructor fails half way.  Every constructor of `aipu_probe` and every
destructor of `deinit_aipu_priv` is an action; a use of what is not there is recorded in `fault`.
`held` counts what the code loses as well: the list heads of `aipu_init_mm`, the reference to the memory node,
the reserved and the DMA memory of a region that could not be added.
The setups are `Quiet` (one CPU, own line, no users during probe and
remove) and `Hostile` (the opposite in everything).

### UmdGraph

On top of `AipuSession`, whose steps are the kernel's.  Objects are `job_desc_t`s, numbered
as they are made; ids are reused as `create_job_id_inner` does.  An action ends where
another thread can get in: `job_queue_lock`, `job->lock`, a system call, or a field without a
lock.  A wait is direct (poll, query, update; on a time-out kill and TIMEOUT) or, with `poll_opt`, a sleep on
the condition variable while `Poller` collects (`QueryAll`) and applies statuses one by one (`BatchUpdate`).
The kernel's list of session jobs is a set with its order in `older`, which says of each job what
was listed before it; `Newest` and `Taken` read the list from its front.

### UmdContext

Every API function is the look-up of the context, the look-up of the graph and the
method, as three steps with bare pointers in between.  A graph has at most one job, enough for
`is_unload_ok` and `is_deinit_ok` to say no.  A job that has ended keeps its handle busy until it is cleaned, and so does
a `build_new_job` that was refused; `Graph::unload` then frees the first half of the graph and fails, and object and
entry stay (`UnloadHalf`).  `force_deinit` ignores that failure and clears the table.
`Allowed` is what the application sees to: it joins its threads before `AIPU_deinit_ctx`.  No other thread is then
between `is_deinit_ok` and `force_deinit`, which take the lock separately, so nothing is said about that gap.
`IdsLeft` bounds the graph ids of a context, in the code
any `uint32_t`.

### UmdBuffers

One thread, so an API call is one action; every REQBUF in it may fail, and every mmap after
one.  `Graph::unload` erases from the map it iterates over, which is undefined: the model lets
the loop end after any of the buffers (`LoopFrees`).

### UmdGraphBinary

A behaviour is one parse of one file; each field is chosen when it is read.  Header
arithmetic is modulo `Word`, and a field is any `uint32_t`, however small the file.  A sum that wraps passes the checks, so
`SectionsInFile` speaks of headers in which none does (`EndsFit`).  The specification is
`ParseSpec`, and `LayoutSpec` in `UmdLayout`: one module of proofs extends both with `UmdBuffers`.

### UmdLayout

Words are scaled to six bits and pages to two bytes.  Offsets, sizes and the products of `get_aligned_addr` are
`uint32_t`, modulo the word; a loop of `get_aligned_addr` that never ends, or a total that wraps to 0, leaves the
application where it is (`Stuck`).  Groups below 4 GB are recognised by the same offsets in exact arithmetic
(`Below4G`).  `AllocGroupBuffers` places the sections, `Loaded` is the
rodata a job starts with, `SegmentBases` and `StartPc` are what `zhouyi_v2_trigger` writes, and
`DeviceAddr` is how the core forms an address from them.  The start PC is the text's
address plus the graph's entry.  Jobs run one after the other on the same buffer, and the
device may leave anything in it.

### UmdSimulator

A load takes no lock, so every read and write of `simulation_malloc_top` is a step.  The top is a `uint32_t` that never
comes down; `Word` is where it goes round, and the history variable `wrapped` says that some sum has.  A
job writes its input
files and `runtime.cfg`, runs the simulator and loads the outputs back, each a step, under `glock`.

## 3. Runs

| run | instance | checks |
|---|---|---|
| `queue` | 3 jobs of 2 threads, 1 session, fairness | `TypeOK`, `OneJobOnDevice`, `EndedJobWillBeVisited`, `BhCursorsLinked`, `InOrder`, `EveryJobCompletes` |
| `sessions` | 2 jobs, 2 sessions of 2 threads, DONE and EXCEP, idle bits may lag | `EndFlagMatchesDevice`, `LiveJobsBacked`, `BhCallTargetActive`, `NoLostCompletion`, `ImplementsSession` |
| `mm` | 4 + 2 pages, 2 threads on two files or on one, 3 kinds of request | `BlocksTileRegion`, `BuffersAreBlocks`, `AllMemoryReturned`, `CandidateExact`, `ImplementsMemory` |
| `completion` | 3 jobs of 2 threads; all threads poll for their own jobs, or a third one for all | `EndIsTheJobs`, `NoLostWakeup`, `EveryPollReturns` |
| `driver` | 3 probes, 16 callees that may fail, `Quiet` and `Hostile` | `NoFault`, `NothingLeaks`, `DoneIsTaken` |
| `graph` | 3 jobs, 2 threads with a handle each (2 jobs with time-outs), or one thread with two | `EndIsTrue`, `BufferExclusive`, `NoStatusLost`, `WaitSucceeds`, `WaitReturns` |
| `context` | 2 threads; 1 context with 3 graphs, 2 contexts with 2 graphs, or a poller beside a loader | `PointersLive`, `OwnGraphLoaded`, `NoGraphLost` |
| `buffers` | 2 handles, 11 REQBUF calls, orderly and careless applications | `NoLeak`, `ScheduledMemoryHeld` |
| `binary` | headers over 6 values, and over 3 with sums that wrap; 2 sections of each kind with 2 sub-sections; 3 tensors | `SectionsInFile`, `RefsInRange`, `TensorsById` |
| `layout` | 8 section lists for each group, 3 of them too large, 5 addresses, flat and with ASID, 2 entries | `GroupsTiled`, `JobFindsSections` |
| `simulator` | 2 graphs in one context (2 loads, 3 jobs) or in two (2 loads, 4 jobs); 4 loads that go round the address space | `GraphsDisjoint`, `ResultIsOwn`, `JobsEnd` |
| `bh_freed` | as `sessions` | `JobDoneArgumentsExist`, which is violated |

In `bh_freed` TLC finds a comment contradicted by the code (quoted in `findings`): a job
ends, its session is closed (cancel skips END jobs), and the bottom half then calls
`aipu_session_job_done` on freed objects.

**Bounds.**  Three jobs are the fewest with which a job can be running, one ended
and one pending, or one visited, one saved as successor and one appended while the
lock is dropped; they also let an id be given to a new job while the old one is on its way.
Two sessions and two jobs are the fewest for one to be closed under the other.  Job
ids and threads are chosen so that two jobs share a thread and an id.  Four pages in a region
that starts off the alignment of the requests allow a free block with allocated neighbours on both
sides, and a split at either end and in the middle; nothing else bounds `AipuMm`, whose sessions may be closed and
opened again for ever.  Three probes let a bind follow a failed one and a remove.  Eleven
REQBUF calls are a load, two thread buffers, and a second load and buffer with a failure.
Three of the section lists have a total, a product or a loop that 32 bits are too few for.  The words of the simulator
are 32 pages, more than two loads take (each counts its data pages twice) and fewer than four.
Deadlock is checked where the system cannot stop: the job manager may stop only when
everything was served and closed (`Finished`), the allocator and the layout never.

**Fairness.**  KMD: the device ends what it was given; a raised interrupt is taken; the
worker runs; a probe or remove that has begun goes on; a thread inside RUNJOB or poll() runs.
User threads outside the kernel get none.  `EveryJobCompletes` is checked for idle
bits that do not lag: if they did, the upper half would find the device busy and nothing
would look at the pending queue until the next submission or interrupt.  UMD: a thread inside a wait or a flush
runs, the polling thread polls again and again, and the kernel serves what it was given, which
is what `EveryJobCompletes` and `EveryPollReturns` show of it.

**Mutants.**  For every property of a passing run `PROJECT.json` names a plausible
bug (a definition whose comment starts with "Mutant"), which violates the property.

## 4. Where the code does less than it says

The properties above state what holds, and their comments name the premise where one is
needed.  These are the situations the premises leave out, and lines at which the code does not do what is
said of it:

| statement | what the code does |
|---|---|
| `aipu_job_manager.c:411` "DO NOT call session API for invalid job" | the upper half reads `session_job` of a cancelled job (line 380), which may be freed |
| `standard_api.h:143` "job execution failed, encountering exception" | `aipu_session_job_done` (`aipu_session.c:512`) stores "no exception" whatever it is told |
| `aipu_job_manager.c:290` "invalidate all active jobs of this session" | line 270 compares pids, and cancels the jobs of other descriptors of the thread |
| `aipu_fops.c:75` "jobs should be cleared prior to buffer free" | a job on the device is only marked invalid and goes on |
| `aipu_session.c:580` the condition "is specific to the status of jobs of this session (fd-specific)" | `single_thread_poll` (line 732) is sticky: a thread without jobs is no longer woken |
| `aipu_platform_driver.c:93` "@return 0 if successful; others if failed." | a failed `of_address_to_resource` tears everything down and returns 0 |
| `aipu_io.h:52` "NULL if failed" | a failed ioremap returns the region, and leaves the reservation |
| `standard_api.h:142` DONE is "job execution successfully" | after a time-out whose kill came too late the id is reused and the new job gets the old status |
| `standard_api.h:427` "poll and update all jobs' status" | `context.cpp:1057` drops the rest of a batch at the first status it cannot apply |
| `standard_api.h:389` "in single thread application, application need no such" operations | a thread with two jobs that waits for the one still running gets an error |
| `status_string.cpp:48` the handle "is not a free one" | `graph.cpp:1203` tests and claims a handle without a lock |
| `status_string.cpp:37` "Job ID provided is never scheduled" | a refused RUNJOB returns success, and a wait without time-out for it never returns |
| `graph.cpp:884` unload "when no API reference this graph" | a polling thread refers to every graph of its context |
| `standard_api.h:238` AIPU_STATUS_ERROR_OPEN_DEV_FAIL | a failed open returns success with an uninitialised descriptor |
| `graph.cpp:1117` buffers "should be freed here" | the loop of `unload` erases what it iterates over and may leave buffers; a busy one makes it fail half way |
| `status_string.cpp:48` "Please clean it or use another handle." | a handle stays busy without a job when `build_new_job` refuses the parameter map |
| `context.cpp:180` "invalid IO tensor ID too large!" | the failure is not assigned to `ret`, and the graph is accepted |
| `graph.cpp:795` "meets all size & alignment requirements" | a section with a larger alignment than its group's first one may be misaligned |
| `aipu_mm.c:259` tests the block it creates | `aipu_mm.c:438-440` links the two blocks of a new region, and `aipu_mm.c:288-290` the second block of a split, without a test for NULL |
| `graph_v0_0_0_3.h:74` the "sub-section base address should be loaded" | with ASID and a host offset, host and device addresses are mixed |
| z2.c's segment 0, whose low base register is 0 | with ASID, when the lowest of entry, rodata and stack is not on a multiple of 4 GB, offsets are taken from the lowest address and the core adds only its high word (`z2.c:73,88,114`): with the text lowest and an entry that is not 0, `start_pc` is 0 and the core starts at the text's base instead of the entry |
| `aipu_mm.c:692` the end of `aipu_deinit_mm` | the two list heads that `aipu_init_mm` allocates are never freed |
| `aipu_platform_driver.c:192` the node is put after use | not when the probe fails (lines 183 and 190); `aipu_mm_add_region` keeps the reserved or DMA memory when it fails (`aipu_mm.c:112-138`, 710-730) |
| `aipu_mm.c:405` the alignment in bytes | a 32-bit product, 0 from 2^20 pages on |
| `status_string.cpp:48` the handle is busy, on `AIPU_unload_graph` | by then text and static buffers are freed (`graph.cpp:894-952`); the descriptor stays with half a graph (`context.cpp:820-824`) |
| `context.cpp:717` `deinit` asks `is_deinit_ok` | and tears down under another acquisition of the lock; a job flushed in between is torn down |
| `context.cpp:480`, 487, 495, 501 bounds of the parts | `uint32_t` sums; one that wraps lets the graph through |
| `context.cpp:410` "overflow" for what lies behind the section | the nodes of the linked list that follow (lines 413-419) are read without a test |
| `graph.cpp:795` sizes, `device_ctrl.cpp:382-390` | `uint32_t` sums and products: from 4 GB on a group may be too small for its sections, and `get_aligned_addr` may never end |
| `device_ctrl.h:97` `simulation_malloc_top` | a `uint32_t` that no unload brings down and that counts data pages twice; after 4 GB of loads it runs over graphs that are loaded |
| `graph.cpp:731` "No lock in load" | two loads into one context of the simulator may be given the same address |

## 5. Theorems

### Job manager

In `AipuJobManagerProofs`, for every set of jobs, sessions and
threads, every assignment of jobs to them, and lagging idle bits, from `ConstantsAssumption` only.

1. `TypeCorrect`: `Spec => []TypeOK`.
2. `DeviceMatchesManager`: `Spec => []OneJobOnDevice`.  The SCHED job is the one the
   core executes or the one whose interrupt is raised, there is at most one, and
   `sched_num` counts it.  So the upper half, which ends the first SCHED job it finds,
   ends the right one.
3. `EndFlagsCorrect`: `Spec => []EndFlagMatchesDevice`.
4. `ReleaseWithdrawsJobs`: `Spec => []LiveJobsBacked`.
5. `JobDoneOnce`: `Spec => []BhCallTargetActive`.
6. `CompletionsDelivered`: `Spec => []NoLostCompletion`.
7. `NoEndedJobStranded`: `Spec => []EndedJobWillBeVisited`.
8. `CursorsStayLinked`: `Spec => []BhCursorsLinked`.
9. `JobsInOrder`: `Spec => InOrder`, an action property.
10. `ManagerImplementsSession`: `Spec => ImplementsSession`, the refinement of `AipuSession`.

The argument is layered.  `ReachInv` says who can still reach a job object: a job
between the two halves of RUNJOB is in no queue (`CallFresh`), and the bottom half's
cursor is an ended, valid job that no cancel touches (`CursorEnded`).  `DeviceInv`
adds to `OneJobOnDevice` (restated as `OneSched` and `HwRunsSched`) the fact that no job is ahead of itself
in a queue, without which `IrqJob` might find nothing, and `EndFlagMatchesDevice`, without which a job could be
triggered twice.  Neither is inductive without the other.  What the operators shared
by several actions do to one job is stated once (`InvalidateEffect`,
`ScheduleEffect`, `ScheduleCases`, `BhLoopEffect`).

`SessionInv`, on top of both, relates the two parts of a job object.  `LiveJobsBacked` and
`NoLostCompletion` are not inductive: an ended, valid job is owed to its session until the
bottom half has called `aipu_session_job_done` (`EndedJobsOwed`), which it has done when it
takes the lock again (`CursorDelivered`), and a session not yet opened has no jobs
(`ClosedIsEmpty`).  The device layer is needed because an outcome may only change while
the job is SCHED.

`QueueInv` is about order.  The queues are total orders (`Ordered`); the bottom half's
two cursors are linked and one behind the other (`BhCursorsLinked`); nothing in front of
the cursor is left over, unless another walk was asked for (`CursorFirst`,
`EndedJobWillBeVisited`); and what waits is valid (`WaitingIsValid`).  For the refinement,
each action is shown to be a step of `AipuSession` or a stutter under `JobPhase`, job by
job; the steps that need an invariant are those where the code acts on a job because it
stands in a queue, and the abstract step wants the phase.

### Completion path

In `AipuCompletionProofs`, for any number of jobs and threads.

11. `EndsAreTheJobs`: `OneCause => (Spec => []EndIsTheJobs)`.  `OneCause` says that the
    device ends a job with DONE or with EXCEP, not both.  Every interleaving of the handler's register accesses with the
    device, the submissions and the kills is covered.  `HandlerInv` adds to it what a raised
    status bit (`DeviceOK`), and a status the handler has read but not acted upon
    (`SignalsOK`), say about the job that has ended.
12. `NoWakeupIsLost`: `SharedProperly => (Spec => []NoLostWakeup)`.  `SharedProperly` says
    that the threads of a descriptor either poll for their own jobs or are without jobs
    and poll for all; the mixed use is refuted by `single_thread_poll`
    being sticky (section 4).  `PollInv` adds that a sleeper is on the queue that
    `JobDone` wakes (`OnItsQueue`).

Each hypothesis is a condition on a constant that the run's own instances satisfy.

### Memory manager

In `AipuMmProofs`, for all regions, page sizes, sessions, threads and requests that
`MmAssumption` admits.

13. `MmInvariant`: `Spec => []MmInv`.
14. `BlocksAlwaysTileRegion`, `BuffersAlwaysBlocks`, `MemoryAlwaysReturned`: the invariants
    `BlocksTileRegion`, `BuffersAreBlocks` and `AllMemoryReturned`.
15. `SearchAlwaysExact`: `CandidateExact`.  A search fails only if there is no room, and finds the
    first (or last) aligned place otherwise.
16. `MmImplementsMemory`: `Spec => ImplementsMemory`.

The first part has what the operators do to one block list, without a recursion over it: a
split and a merge replace a stretch of the list by another (`SplitEffect`,
`MergeEffect`), so that a list stays contiguous if the stretches have the same ends, and
the bytes outside stay as they were.  `MmInv` is: types (`MmTypeOK`), the
lists (`RegionOK`), what a thread inside REQBUF or FREEBUF knows of its block
(`ThreadOK`), what a session's record says (`SessionOK`), `BuffersAreBlocks`, and that
whatever is allocated is in a session's list or in a thread's hands.  The last one makes
`AllMemoryReturned` inductive, and `ThreadOK` is why no two threads free one
block: a buffer is detached from its list, under one lock, before it is freed, under the other.

### Contexts

In `UmdContextProofs`, for any number of threads, contexts, graphs and setups.

17. `PointersAreLive`: `PollApart => (Spec => []PointersLive)`.
18. `GraphsAreKept`: `PollApart => (Spec => []OwnGraphLoaded)`.
19. `NoGraphIsLost`: `PollApart => (Spec => []NoGraphLost)`.

`PollApart`: no thread polls beside one that unloads.  `AIPU_poll_jobs_status` takes graphs from the table that
the thread did not load itself, and nothing keeps them (section 4).  Nothing
in the code keeps a context or graph alive for the holder of a pointer either; `CtxInv`
therefore says who else may be there.  An entry of a table is a loaded graph or one thread is about to put it
right (`EntryOK`); what a thread found in its look-up is still what the table says
(`CallOK`, `ChangeOK`); what it has loaded is loaded (`MineOK`); and what two threads
work on is apart (`Apart`).  On top of it, `Kept` says where a graph that is not unloaded
can be found (`NoGraphLost`) and who can have left one half unloaded (`HalfOK`).

### Buffers

In `UmdLoadProofs`, for any set of handles, any number of REQBUF calls and any setups.

20. `BuffersInvariant`: `Spec => []BufInv`.
21. `NothingIsLeaked`: `Spec => []NoLeak`.
22. `JobMemoryIsHeld`: `Spec => []ScheduledMemoryHeld`.

`BufInv` adds to `NoLeak` that buffers not yet given out are above `used` and all others below, so
that nothing fresh can be shared (`BufTypeOK`); that a handle's three buffers are distinct, held, and its
own (`Whole`); that an orderly application has the text and static data it loaded
(`TextHeld`); and that the handle of a job is marked used (`JobsMarked`), without which
`free_thread_buffer` could take the memory of a job on the device.

### Jobs of a graph

In `UmdGraphProofs`, for any number of jobs, threads and handles and any setups.

23. `GraphInvariant`: `HandlesApart => (Spec => []GraphInv)`.
24. `EndsAreTrue`, `BuffersAreExclusive`, `StatusesArrive`, `WaitsSucceed`:
    `HandlesApart => (Spec => []P)` for `EndIsTrue`, `BufferExclusive`, `NoStatusLost` and
    `WaitSucceeds`.

`HandlesApart`: in a setup without timeouts each thread has handles of its own and the kernel
refuses no job.  About setups with timeouts it says nothing; there the properties themselves speak only of
one thread that polls for itself (`Alone`).  The invariant `CoreInv` is about these two cases (`Core`).
Every step goes through an id, and ids are reused.  `FreeId` shows that `create_job_id_inner` finds one that no
job in use has: there are as many ids as jobs, and one job is still to be made.  `TableOK`
says that a job in use has its entry, `OwnersOK` that it belongs to one thread, `ThreadOK`
what a thread knows of the job it holds a pointer to.  Without timeouts `OwnOK` adds that a
job keeps its entry and its buffer until its thread cleans it, `JobsOK` that the state of a job
follows its phase in the kernel, and `WaitOK` how far the job of a waiting thread is.  None of
them is inductive alone: `NoStatusLost` needs to know whose pointer a job is, which rests on the ids, which
rests on no status being applied to the wrong job.  A step of one thread leaves the others' jobs
alone (`OtherThread`), and the kernel's and the poller's steps only move jobs on (`CalmThread`,
`BackgroundStep`).

### Life cycle of the driver

In `AipuDriverProofs`, for every set of setups: whichever calls may fail, with or without users,
a shared interrupt line and a second processor.  `NoFault` excepts three calls during a probe: the two that
fail before the sysfs files exist, and the blocks of `aipu_init_region`.

25. `TypeCorrect`: `Spec => []TypeOK`.
26. `NoFaultEver`: `Spec => []NoFault`.
27. `NothingLeaksEver`: `Spec => []NothingLeaks`.

The invariant `Inv` says of every resource at which places of `aipu_probe`, `aipu_remove` and
`deinit_aipu_priv` it can be held, and which pointer finds it there (`HeldInv`); that the line
and the work queue come and go with core0 (`IrqInv`); and when the job manager and the driver
data are there (`BoundInv`).  `While` has the one place that is not what it seems: a
probe whose `of_address_to_resource` fails undoes everything and returns 0, so that the
device is bound and holds nothing but the list heads.  What a failed call has lost is in `LostBy`, and `HeldInv` says
at each place which of it can be there.  For setups in which nobody disturbs a probe or a remove, `PeacefulInv` adds that jobs and
files exist only while the device is bound.

### Simulator

In `UmdSimulatorProofs`, for any number of graphs and contexts and any sizes and alignment of the parts.

28. `GraphsDisjointEver`: `LoadersApart => (Spec => []GraphsDisjoint)`, where `GraphsDisjoint` speaks of the time until
    an address or a sum goes beyond a `uint32_t`.
29. `ResultIsOwnEver`: `OwnDirectories /\ TensorsApart => (Spec => []ResultIsOwn)`.

`LoadersApart`: the graphs of a context are loaded one at a time.
`simulation_malloc_top` is read and written back in two steps without a lock.
`OwnDirectories`: contexts write to different directories; a file is named after the id of a
graph, which is unique in a context only.  `TensorsApart`: the output tensors of a graph do not
overlap.  `MCUmdSimulator` assumes all three of the run's instances, so TLC evaluates them.

`ControlInv` says where in its calls a thread can be with what its graph has.  On top of it the invariant is
`wrapped \/ Memory`: what has wrapped stays so, and until then the sums are exact (`SmallMod`).
`Memory` says what lies below the top while a graph is loaded, part after part (`Climbs`), that
a loaded graph is one stack of parts below it (`Stacked`), and that of two graphs of a context one is below the
other, or below the first address of the one being loaded (`Above`).  `Jobs` says which of its files a job has
written at each step between the lock and the unlock; no other job can have replaced one, because in a context one job has the
lock and in another one the names differ.

### Parser

In `UmdLoadProofs`, for any number of sections, sub-sections, tensors and
nodes and any values of the fields, all of them any `uint32_t` (`BinaryAssumption`).

30. `ParserInvariant`: `ParseSpec => []ParserInv`.
31. `HeaderIsSafe`: `ParseSpec => []SectionsInFile`, whose premise `EndsFit` is that no offset and size add up to 2^32.
32. `ReferencesAreSafe`: `ParseSpec => []RefsInRange`.
33. `TensorsAreNumbered`: `ParseSpec => []TensorsById`.

`HeaderChecked` says what the checks behind each place of `parse_graph_header` have established; the parts
then follow one another in the file.  `References` says of every parameter and tensor that its section is in the table or
is the one being read, which comes next in it: the entry is made before the section it refers to is.
`Tensors` says that the lists hold what the file describes, as many as it describes, until they
are sorted.  When their ids are a permutation, some tensor has the id of each place: it is stored there, or it is there
already, so that each place ends with its own and the list keeps its length.

### Layout

In `UmdLoadProofs`, for any lists of sections, any page and word size and any addresses the kernel
gives, under `LayoutAssumption`: sizes and alignments are positive words and shared memory lies above its offset.

34. `LayoutInvariant`: `LayoutSpec => []LayoutInv`.
35. `GroupsAreTiled`: `LayoutSpec => []GroupsTiled`.
36. `JobsFindTheirSections`: `LayoutSpec => []JobFindsSections`.

`GroupsTiled` speaks of groups below 4 GB, in which the `uint32_t` offsets are the exact ones; a section is aligned relative
to the group's start.

The offsets are a recursive function over the sections.  `OffsetsExist` shows that it has a value: a shortest
prefix without offsets could be computed from the one before it.  `OffsetsStep` and `OffsetsEnd` bound the values in the same way, and
`NewGroup` turns them into the tiling.  `LayoutInv` adds which groups and code are in
place at each step, and that nothing a job was built from changes before it ends (`JobKept`).

`SegmentsFit`, a premise inside `JobFindsSections` (that rodata is fresh needs none), is
there because `sub_sec_pa` has 32 bits.  Without ASID the core has one window of 4 GB, so
every group must lie in that of the entry.  With ASID an offset has 30 bits, so a group is at most 1 GB;
the loaded word subtracts the group's host address from a device address, which is right only when
`host_aipu_shm_offset` is a multiple of 4 GB; and the entry is within 4 GB of rodata and stack.  The first of these
leaves out a displaced shared memory with ASID; with it the code does go wrong (section 4).  That a job starts at its entry
is said with ASID only of a lowest address on a multiple of 4 GB.  The machines of the run are `Flat`, within one word above
an offset, and `AsidAt`, without an offset, with an entry at the text's start and one behind it.

### Only model-checked

* Liveness: `EveryJobCompletes`, `EveryPollReturns`, `DoneIsTaken`, `WaitReturns`,
  `JobsEnd`.  Fairness and ENABLED are out of the prover's reach.
* `JobDoneArgumentsExist` is violated, see section 3.

## 6. Plan

Done: the core of the KMD with its theorems, its abstract specifications and
refinements, interrupt, poll and their composition, the driver's life cycle, and the UMD's jobs,
contexts, buffers, parser, layout and simulator, with a theorem for every safety property
that a run checks.  Left:

1. mmap of buffers and their life time against FREEBUF.
2. The debug files of sysfs with the SoC reset and clock gating registers.

## 7. Checking

`tlc -config X.cfg M` for a run's module `M` and cfg `X`; `tlapm P.tla` for the proofs,
with `P` each of `AipuJobManagerProofs`, `AipuCompletionProofs`, `AipuMmProofs`, `AipuDriverProofs`,
`UmdContextProofs`, `UmdLoadProofs`, `UmdGraphProofs` and `UmdSimulatorProofs`.

## 8. Not modelled

* mmap of a session's buffers (`aipu_session.c`): the kernel's page tables.
* The stores and shows of sysfs, the SoC's reset and clock gating, bandwidth profiling,
  the error map, hardware version and configuration reads: register traffic
  and formatting on request, with no state that the rest of the driver relies on.
* Dumps, debug information and printf of the UMD, profiling counters: they copy and format what other
  components hold.
* The high- and low-level APIs (wrappers), helpers, device trees, build scripts,
  tests and samples.
* Failures that the code does not test for and the models take not to happen: the second block of a split in the middle
  (`aipu_mm.c:288-290`).
* Two threads on one handle in `UmdGraph`, and a handle left busy by a refused `build_new_job` there (it is in `UmdContext`).
* Allocation policies that the shipped configuration switches off (SRAM, non-compact groups).
