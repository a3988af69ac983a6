# TLA+ models of the CS518 operating-system programs

The repository holds two programs of some substance, each in several versions:

* a **user-level thread library** with a multi-level feedback queue and a
  paged memory manager under it (`src/hw2/code/multiQ/my_pthread_t.c`,
  `memlib.c`), and its forerunners `multiQ/test.c` and
  `src/hw2/code/my_pthread_t.c`;
* a **FUSE file system** (`src/src/sfs.c`, `inode.c`, `block.c`), and its
  forerunners in `src/assignment3`.

This directory models them in TLA+, checks small instances with TLC and proves
with TLAPS, for every value of the constants, most of the safety properties of
both: of the scheduler, its linked queues and its context switches, the memory
manager, the allocator inside a frame, a client and an earlier scheduler,
and of the file system, its formatting and its requests in several threads. The
small programs in which signals, alarms, contexts and user-level threads were
tried out and tested are modelled as far as they keep state.

Contents: [Inventory](#inventory) · [Modules](#modules) · [Runs](#runs) ·
[Fairness](#fairness) · [Proofs](#proofs) · [Findings](#findings) ·
[Known behaviours](#known-behaviours) ·
[Simplifications](#simplifications-and-their-limits) ·
[Not modelled](#not-modelled) · [Plan](#plan)

## Inventory

### Scheduler and thread library (`my_pthread_t.c`)

*State.* One `scheduler` structure (running thread, number of threads, number
of pending threads), `QUEUELEVEL` = 4 linked queues of ready threads, a queue
of finished threads, and per thread a state, a priority, a run counter, a
`ucontext_t` and a page table. Mutexes are one `flag` each.

*Operations.* `my_pthread_create`, `_yield`, `_exit`, `_join`,
`my_pthread_mutex_lock`/`_unlock`; the `SIGPROF` handler; `schedule()`, which
runs on a context of its own; `start()`, which the first create calls.

*How the parts interact.* All code runs on one kernel thread. A thread gives
the processor up by `swapcontext` (yield), by `setcontext` (exit), or because a
tick runs the handler, which degrades the thread and enters `schedule()`.
`schedule()` runs with `SIGPROF` blocked: it requeues the thread that just ran,
now and then adjusts the priorities, closes and opens page frames with
`page_protect`, and loads the next thread. The spin loops of lock and join call
yield. `main()` is not a thread of the library: nothing saves its context, and
the first tick abandons it wherever it stands.

*What is hard.* A tick between any two statements of a thread, of `start()`, of
`main()`'s creates, of the exit path, and inside the C library's context
switches; counts kept by hand in two places and trusted in a third; starvation
under strict priorities; spin loops that depend on the scheduler.

*What makes it correct.* No thread lost or queued twice; the count equals the
queues; no empty queue popped; joins return only after the thread has left its
stack, and do return; mutual exclusion; each thread sees only its own frame;
every ready thread runs again; the process ends exactly when all threads have
exited; a saved context resumes the thread it was saved for.

### Memory manager (`memlib.c`)

*State.* `MAX_PAGE` frames with an owner and a use bit, `MAX_FILE_PAGE` file
pages, a page table per thread, the frames under `PROT_NONE`, and inside each
frame a heap of tagged blocks.

*Operations.* `page_malloc`/`page_free` inside a frame (first fit, split,
coalesce, extend); `page_malloc` from frame to frame (`allocateFrame`,
`swap_frame`, `mem_to_file`); the `SIGSEGV` handler, which brings a page back
from another frame or a file page; `page_protect` at every switch.

*What is hard.* The same page is moved by its owner's faults, by other threads'
requests and by their faults, and its owner knows only what its page table
says; every path opens and closes frames by hand.

*What makes it correct.* Inside a frame: the blocks tile the heap, payloads
neither overlap nor cover tags, free neighbours are merged. Across frames: a
page is where its table says, with its client's data; a thread never runs with
a frame open in which another's page lives; a page that is touched comes back.

### Client programs (`test1`, `test2`, `testcase.c`)

*State.* An unprotected counter, one mutex. *What is hard.* Increments that a
tick cuts in two, a barrier that spins on them, a wait while holding a lock.

### File system (`src/src`)

*State.* A disk file with a superblock, an inode bitmap, `SFS_INODES_NUM` = 80
inode blocks of `SFS_PTR_NUM_PER_INODE` = 8 slots, and a data bitmap that is
never used; in the daemon the global `ino`, the inode in which names are looked
up. A directory that has filled its inode continues in a *link* inode, named
by the last slot.

*Operations.* Format and mount, unmount, `getattr`, `create`, `release`. The
other callbacks (`open`, `read`, `write`, `unlink`, `mkdir`, `rmdir`, ...) look
a path up and read an inode; they change no state in this version.

*How the parts interact.* FUSE calls the callbacks, in several threads unless
told `-s`; the kernel's directory lock keeps some of them apart. The callbacks
share `ino` and the disk.

*What is hard.* A create is a series of block writes, each inode on the way to
the end of the directory being written back from a copy read earlier; a crash
or another thread's request can come between any two; the bitmap is written
last; inodes run out; formatting is a long series of writes that is never
repeated.

*What makes it correct.* The bitmap agrees with the tree; a created file
arrives and no file is lost; the chain of link inodes ends; a request answers
about the file it was asked about; a disk that is served has been formatted.

### The rest

Older versions of both programs, with other queues and fewer callbacks; the
signal, alarm and context experiments of `labULT`, `timer`, `Ucontext` and
`hw1`, and the tests of a user-level thread library in `labULT`, whose library
itself is a stub; first exercises; build files. `PROJECT.json`
lists all of them, and the hazards of the code line by line.

## Modules

| module | models | size of the step |
|---|---|---|
| `Scheduler` | the thread library: creates, ticks, `schedule()`, yield, lock, unlock, join, exit, frames given at creation, `page_protect` | one C function, or the part of it that nothing can interrupt |
| `ThreadPool` | what a scheduler promises its clients (abstract) | one scheduling decision |
| `SchedulerProofs` | theorems about `Scheduler` | |
| `Startup` | `start()`, `my_pthread_create` and the linked queues | one C statement |
| `FifoQueues` | counted FIFO queues (abstract) | one push or pop |
| `StartupProofs` | theorems about `Startup`, among them that it implements `FifoQueues` | |
| `Contexts` | what each `ucontext_t` resumes | one C library step |
| `ContextsProofs` | theorems about `Contexts` | |
| `PageHeap` | the allocator inside one frame, word by word | one call |
| `PageHeapProofs` | theorems about `PageHeap` | |
| `Memory` | frames, page tables, swapping, file pages, protection | one frame's turn in `page_malloc`, one fault, one access, one switch |
| `MemoryProofs` | theorems about `Memory` | |
| `Clients` | `test1`, `test2`, `testcase.c` over any scheduler that `Scheduler` implements | one load, store or test |
| `DemoSize` | the numbers in the demo programs and the tests | |
| `LockDemo` | the `test2` that both older libraries run | one load, store or test |
| `FirstLibrary` | `hw2/code/my_pthread_t.c`: a circular list, taken in turn | one C function; `insertNode` in two |
| `EarlierQueues` | `multiQ/test.c`: multi-level queues without a finished state | one C function |
| `Signals` | `interrupt.c` under its programs, `timer.c`, `undead_code.c`, `context.c`, and the kernel's signals | one statement or signal |
| `DemosProofs` | theorems about `Clients` and `EarlierQueues` | |
| `ThreadTests` | `basicThreadTests.c`, `doTest.c` and `doTest2.c` over the library that `ULT.h` asks for | one library call, or one step of `tryMovePotato` |
| `Sfs` | the disk and the daemon of the file system | one request's reads, then one block write each |
| `Directory` | the directory the file system promises (abstract) | one new file |
| `SfsProofs` | theorems about the links of `Sfs`'s directory and its files, through crashes, and about its tree and bitmap, until a crash | |
| `Requests` | `Sfs` with requests in several FUSE threads | one read or write of shared state |
| `Mount` | format, mount, unmount, failed writes and crashes | one `pwrite` |
| `RequestsProofs` | theorems about `Requests` and `Mount` | |
| `SfsEarlier`, `SfsFirst` | the file systems of `assignment3/src` and `assignment3/srccpy`, on `Mount` | one callback |
| `MC...` | constants for TLC; `MCDemos` and `MCRequests` put components that share nothing side by side, one of them in each behaviour | |

`Scheduler`, `Startup` and `Contexts` are three views of the same C file, each
with the detail the others leave out. `Scheduler` has the whole life of a
program, but takes the ready queues as sequences and a create as one step.
`Startup` justifies that: it keeps the pointers of the linked lists and the
statements of `start()` and `my_pthread_create`, and shows that the lists are
FIFO queues (`ListsAreQueues`) except after a first tick between the two pointer
updates of a push. `Contexts` shows that "load the context of thread `t`" does
resume `t`, which the other two assume, and where this fails. `Memory` and
`Clients` in turn take the scheduler for what `Scheduler` shows it to be: it
switches to any thread at any time, and to each again and again.

### Scheduler and the code

Variables have the names of the C fields. `context` tells which code holds the
processor; `schedule()` is three actions in a row, `HandleRunningThread` (lines
412–440), `threadPriority_scan` if it is due (443–447), and `Dispatch` or
`FinishAll`. Nothing interleaves with them because `SIGPROF` is blocked there.

| action | code |
|---|---|
| `my_pthread_create`, `MainTick` | `my_pthread_create` by `main()`; the first tick |
| `signal_handler(t)` | the `SIGPROF` handler, in `t`'s code or in a library call of `t` |
| `my_pthread_yield(t)` | `swapcontext` of yield, called by the client or by a spin loop |
| `my_pthread_mutex_lock(t)` | one test-and-set and its test |
| `my_pthread_join(t)` | one look into the finished queue |
| `my_pthread_exit(t)`, `ExitSwitch(t)` | `state = TERMINATED`, then the switch: a tick may come between |
| `CallLock`, `CallJoin` | the client decides to call |

`round` is kept modulo `RoundPeriod`, a common multiple of all `n*QUEUECHECK+1`:
`schedule()` only asks whether it is a multiple of one of those numbers.
`runningCounter` is saturated at 1, since the scan only asks whether it is 0.

### Memory and the code

A page is a pair (thread, frame number): that thread's `pageTable` entry.
`pageTable` gives its place, which is nowhere, a frame, or a file page
(`in_use_state`, `in_memory_state`, `page_redirect`). `pages` and `filePages`
are the `memoryManager` records: the `threadPtr` back to the entry, the use bit,
and the pages of which the frame has bytes, old ones included: `swap_frame`
copies nothing from a frame that is not in use (426–435), and `mem_to_file`
clears the record but not the bytes (296–317). `asks[t]` is the frame that `t`'s
`page_malloc` looks into, `touches[t]` the page its client is about to use,
`killer` the thread whose wild access has ended the process.

`taken` is a history variable. `page_malloc` sets it when it takes what a client
counts on, in one of the three ways that `Takes` names: it starts a page at an
address where the client has one already; it takes an unused frame that belongs
to another thread; it moves a page to a free frame in which a page is that no
table knows (546 makes such pages). The code asks none of these.

| action | code |
|---|---|
| `myallocate`, `page_init`, `page_malloc` | the request, its success in a fresh frame, and its move to the next frame: `TakeUnused` (523–528), `SwapWithFree` (530–543), `MoveToFile` (544–548) |
| `pageProtect_handler` | the `SIGSEGV` handler: `OpenUnused`, `BringFromFile`, `BringFromFrame` |
| `MemoryFull` | neither a frame nor a file page is free: `page_malloc` returns NULL (555) |
| `WildFault`, `NullPage` | the accesses that end the process: `filePages[-1]` in the handler (769), `GET_FREE_PAGE` of the page after the last (524) |
| `Touch`, `Access` | the client goes to a page, and gets there |
| `Switch` | `page_protect(1)` for the thread that leaves, `page_protect(0)` for the next |

### Sfs, Requests, Mount and the code

An inode is a record: its own number, flag, named entries and link. `num_link`
is the number of entries, plus one with a link. A request computes, from what it
reads, the list `todo` of block writes it is going to make, in the code's
order; `WriteBlock` makes the next one, and `Crash` drops the rest.
`create_inode_real` recurses along the links; `LinksFrom` is that path (the
sequence that `FollowsLinks`: each inode the link of the one before, no inode
twice, up to an inode without a link), `AddEntry` and `AddLink` are its two
ends, and the write-backs of the callers follow in reverse order.

`Requests` extends `Sfs`: a `getattr` is a lookup, the assignment to `ino`, and
the read of the inode that `ino` says by then; other threads' requests come in
between, and between the block writes of a create. What the kernel's directory
lock excludes is excluded by `DirectoryFree`.

`Mount` has the blocks of the disk (`image`), each with a label for its content.
`FormatDisk` is the list of writes that `sfs_init` makes, padding included;
`StartDaemon` and `StopDaemon` are its `sfs_init` and `sfs_destroy`.
`PWriteFails` is the failure that `block_write` prints and ignores.

### The experiments

`Signals` gives the kernel one pending signal of each kind; a signal that is
not blocked is delivered before the process's next step, runs the handler with
that signal blocked, or kills the process if there is no handler. `experiment`
says which program runs, `helper` which other process sends it signals.

The functions of `ULT.c` (14–35) are stubs that assert 0. `Signals` has what
`doTest2` does with them: it aborts at its first library call. `ThreadTests` runs
the same tests over an assumed library, which is not code of this repository: it
does what `ULT.h` and the calls of the tests leave open, so `ULT_ANY` may choose
any other thread, and any thread may run after one that ends. What is checked is
code that exists, `tryMovePotato` between the ticks. Each test is a sequence of
calls with the results its assertions let them return, `assert(alarmIsEnabled())`
among them; any other result sets `failed` and ends the process. With the alarm
of `doTest2` a tick may switch threads between any two steps. The assumed handler
gives a thread its own signal mask back, as `setcontext` does, so that only the
handler runs with the alarm masked.

## Runs

All runs are exhaustive for their constants.

| run | instance | states | shows |
|---|---|---|---|
| `sched_safety` | 3 threads, 4 levels, 2 frames | 268,850 | under ticks, yields, locks, joins and exits in any order: no thread lost, exact count, joins and mutex correct, frames apart, highest level first; refinement of `ThreadPool`'s safety |
| `sched_live` | 2 threads, 3 levels | 2,725 | what the timer alone guarantees: the fair `ThreadPool`, the process ends; for clients that get on with their calls also that joins return and the mutex is released |
| `sched_debug` | 2 threads, `debug` = 1 | 58,818 | with the priority scan: it comes round for ever, and no thread starves |
| `startup` | 4 threads, 2 levels | 54,242 | the linked lists are FIFO queues; with a first tick at any statement of a create the count stays covered by the lists, and at most one thread is lost |
| `contexts` | 4 threads, ticks inside `swapcontext` | 5,160 | saved contexts resume their own threads |
| `contexts_restore` | 2 threads, ticks inside `setcontext` | violation | a thread's context is replaced by `schedule()`'s |
| `page_heap` | frame of 96 bytes, 5 request sizes | 178,327 | blocks tile the heap, payloads apart, free neighbours merged |
| `memory` | 2 threads that ask in any order, 3 pages each, 4 frames, 2 file pages | 33,575 | until `page_malloc` takes what a client counts on: tables true, others' frames closed; touched pages with an entry come back, or the process ends in a named way |
| `memory_early` | 2 threads, 4 frames, 1 file page | violation | a thread runs with its neighbour's frame and page open |
| `sfs` | 9 inodes of 3 slots, two crashes | 343,046 | bitmap, arrival, refinement of `Directory`; after crashes the links still end, and files are lost only in one named way |
| `requests` | 5 inodes, 3 threads, 2 names; 4 + 3 blocks, 2 faults; the older copies | 875,220 | wherever `ino` is moved, answers are of the root or of files that exist, and no half-made inode is read; a served disk is formatted, for good |
| `demos` | 3 threads; 2 levels; tests with 3 threads and 2 slots | 32,217 | the demo programs of all three libraries, the signal experiments; in the tests of `labULT` never two slots have the potato, and one has it when the mutex is free |

### Why these bounds are enough

* **Threads, levels, frames.** Three threads are the fewest with a holder, a
  spinning waiter and a third one to be scheduled between them; two frames for
  three threads leave one thread without. The four levels are the source's.
  The liveness runs have two threads, the fewest that can starve or block each
  other, and three levels, so that a thread is degraded twice and there is a
  level it can be lifted from and to. What matters most of the safety part is
  proved for every value (below).
* **`Startup`.** Four threads and two levels: the first tick can fall after
  any number of complete pushes, and each list empties and fills again with
  more than one node in it. Node numbers are reused when nothing points to
  them any more; the code never frees one.
* **`PageHeap`.** 96 bytes are room for an odd and an even number of blocks of
  16, 24 and 40 bytes, exact fits, splits that leave just a minimal block and
  splits that must not be made, all four coalescing cases, and extensions that
  stop at the end of the frame. Sizes 0 and 200 are those the code declines.
* **`Memory`.** Four frames for two threads leave two that nobody has at first, so
  that requests take an unused frame, swap with a free one, and, when none is
  left, go to a file. Two file pages let one page come back from a file while
  another one goes there, and are few enough to run out. Three requests per
  client fill memory and file together, in every order of the clients; a third
  thread adds no kind of step. The theorems leave all four numbers open.
* **`Sfs`.** What counts is how the inodes divide into directory inodes and
  files: 80 = 1 + 7 + 9·(1 + 7) in the source, and 9 = 1 + 2 + 2·(1 + 2) with
  three slots, so that the inodes run out exactly when a link inode is full, as
  in the source, and the directory is spread over three inodes. `Reserve` stops
  the clients in time. Two crashes per behaviour, at any block write of any
  create: the second can hit what the first one left behind.
* **`Requests`.** Two threads race for `ino`, a third one releases or creates
  meanwhile; two names tell one file from another; five inodes make the directory link once. `Mount` needs two blocks
  of each kind to tell the first from the rest, and two faults so that a failed
  write and a crash, or two crashes, meet in one format.
* **Demos.** Three threads: one holds, one spins, one arrives late. Two levels,
  so that a thread degraded twice leaves them (there is no floor). `EnterLimit`
  is the source's. The tests need a library they can fill: three threads are
  `main` and two more, enough to create one `hello` and then one more
  (`NumHello` = 1), to run out of Tids, and to have a choice at `ULT_ANY`. Two
  slots pass the potato to and fro; `LastQuiet` = 0 has one of them yield in its
  loop and one not.

## Fairness

* `TimerFairness` of `Scheduler`: `WF(schedule)`, because `schedule()` is
  straight-line code with the timer blocked; `SF(Tick)`, because `ITIMER_PROF`
  is periodic and counts the time this process runs, and a tick that falls due
  while it is blocked is delivered as soon as it is not. Weak fairness of ticks
  would be too little: they are disabled whenever `schedule()` runs. Nothing is
  assumed of the threads, which may loop for ever. `NoStarvation`,
  `ImplementsPool`, `EndsWhenAllDone` and, in a debug build, `PeriodicScan`
  need no more.
* `ClientFairness`, used only as the antecedent of `JoinReturns` and
  `MutexReleased`: a quantum is long enough for a library call to get on, and a
  client that has locked unlocks. A thread that is stopped at every attempt or
  never unlocks refutes neither.
* `Memory` and `Clients` (`AccessReturns`, `EndsUnlessLost`): every thread is
  scheduled again and again, which is `Scheduler`'s `NoStarvation`, and a thread
  that again and again could take its next step does take it. The fault, the
  retried access and the increment are each a few instructions, against quanta
  of milliseconds; strong fairness says no more than that not every quantum
  ends just before them.
* `FirstLibrary` (`RobinReachesAll`): weak fairness of the timer, which this
  library never blocks; nothing of the threads.
* `Signals` (`GoesOn`): the process runs, a deliverable signal is delivered, and
  an alarm that is set expires: weak fairness each, as none of them can be
  disabled by another process except by the death of this one. Nothing is
  assumed of the other process.

The other components have safety properties only, and all runs have deadlock
checking on.

## Proofs

`tlapm` checks every leaf. Each theorem holds for every value of the constants
that its hypotheses leave open: any number of threads, levels, frames, file
pages, any size of a frame and of a request, any number of inodes, slots, blocks, failed writes and crashes.

| theorem | says | assumes |
|---|---|---|
| `TypeCorrect` | `[]TypeOK`, and no scan without a waiting thread | nothing |
| `MutexCorrect` | `[]MutualExclusion` | nothing |
| `QueueCorrect`, `CountCorrect` | `NoThreadLost`, `FinishedQueueSound`, `PendingCount`, `NoNullPop`, `FinishedMeansDone` | nothing |
| `FramesCorrect` | `[]FrameIsolation` | nothing |
| `JoinCorrect`, `ExitIsFinal`, `HighestLevelFirst` | the action properties `JoinWaits`, `TerminatedForGood`, `HighestFirst` | nothing |
| `PrioritiesOnlyFall` | the action property `PriorityNeverRises` | `Debug = FALSE` |
| `PoolRefinement` | `Spec => Pool!Spec`, stated as `PoolSafety` | nothing |
| `ContextsCorrect`, `RightThreadCorrect` | `ContextKept` and `RightThreadRuns` | no tick inside `schedule()`'s `setcontext`; `main()` does not yield |
| `MemoryTypeCorrect`, `TablesTrueCorrect`, `OthersClosedCorrect` | `TypeOK`, `TablesTrue`, `OthersClosed` | nothing |
| `BlocksTileHeapCorrect`, `PayloadsApartCorrect`, `FullyCoalescedCorrect` | `BlocksTileHeap`, `PayloadsApart`, `FullyCoalesced` | `PageAssumption`: a frame is some double words, two at least |
| `ListsAreQueuesCorrect` | the refinement `ListsAreQueues` | nothing |
| `CountCoveredCorrect`, `AtMostOneLostCorrect` | `CountCovered`, `AtMostOneLost`, wherever the first tick comes | nothing |
| `BarriersHoldCorrect` | `[]BarriersHold` of `test1` | nothing |
| `StaysQueuedCorrect` | `[]StaysQueued` of `test.c` | nothing |
| `DirectoryEndsCorrect` | `[]DirectoryEnds`, through crashes | `Reserve >= 2` |
| `FilesKeptCorrect` | `FilesKept`, through any number of crashes amid creates | `Reserve >= 2` |
| `BitmapMatchesTreeCorrect`, `CreateArrivesCorrect` | `BitmapMatchesTree`, `CreateArrives` | `Reserve >= 2` |
| `ImplementsDirectoryCorrect` | `Spec => ImplementsDirectory`: each block write is a step of `Directory` or none, until a crash | `Reserve >= 2` |
| `AnswersExistCorrect`, `WholeInodesCorrect` | `AnswersExist`, `WholeInodes`, in any number of FUSE threads | `Reserve >= 2` |
| `ServesFormattedCorrect`, `FormattedForGoodCorrect` | `ServesFormatted` and the action property `FormattedForGood` | nothing |

*Hypotheses.* `Debug = FALSE` is the build as shipped; a debug build's scan does
raise priorities, so `PrioritiesOnlyFall` needs it. Lemma `ScanNeverDue` is the
arithmetic behind it: `round` stays 1, and 1 is no multiple of
`pending*QUEUECHECK+1`. The two hypotheses of
`ContextsCorrect` cannot be dropped: `contexts_restore` violates the property
without the first, and a `main()` that yields violates it too. `Reserve >= 2` is what the last create
may need, a link inode and a file: with fewer free inodes `findFreeInode`
answers 0, and the directory is linked to its own root.

### The scheduler

None of the queue properties is inductive by itself.
`NoThreadLost` speaks of the thread that holds the processor; that a requeue
does not queue a thread twice needs to know that this thread is in no queue,
which needs `Ownership` (which thread runs in which context, and in which state
it can be there; an exiting thread is `TERMINATED` already, so that a tick does
not queue it). That the pop of the highest level gives a `READY` thread needs
the queue contents, and that there is one to pop needs the count. So the
invariant is

    IInv == TypeOK /\ Due /\ Ownership /\ QueueInv /\ CountInv /\ FinishedQueueSound

with a lemma per conjunct (`OwnershipStep`, `QueueStep`, `CountStep`,
`FinishedStep`), each with one step per action. `PushLemma`, `PopLemma`,
`PushKeepsQueues`, `PopKeepsQueues` and `DispatchEffect` say once what the queue
operations do.

The priority scan of a debug build empties every queue and fills it again.
`ScanKeepsQueues` says that each thread is in one place afterwards as before,
one level up if it was raised, with its priority. It rests on what the
recursive function `Among` selects from a queue (`AmongKeeps`). That is an
induction over the positions of the queue; the library's induction theorems
take an operator, so `Induct` states it for a set: the positions up to which
the claim holds, if they are not all, leave out a least one. `Due` says that a
thread is waiting when the scan is over.

`FrameInv` adds what is closed while nobody runs, `MutexInv` the
types of the two variables it speaks of. In `Contexts`, `IInv` adds what a
thread's context can resume (its own code or the middle of its own yield), that
the scheduler's is always its entry, and where the processor can be.

### The linked queues

The invariant names no walk along a list. `StartupInv` says that there is, for
each level, a sequence of cells from the sentinel along `next` to `Nil`
(`Chain`), that no thread is twice in them (`Distinct`, so no cell is), and how
tails, count, states and `main()`'s place stand to them:

    Fits(p, lost) == Kinds /\ Chains /\ Tails /\ Counted /\ NoneMissing /\ InMainOnly /\ Others

A tail is the last cell of its chain, or, after a tick between the two pointer
updates of a push, the one before it (`Behind`); the count is then one short.
A push at such a tail drops the last node: that thread is `lost`, but from then
on the count is exact. That is why there is never more than one lost thread, and
why `AtMostOneLost` allows one: either one is lost, or the count is one short
and the last queued thread is not popped. `PushKeepsChains`, `PushQueues`
and `PopKeepsChains` say what a push and a pop make of the chains. The two
recursive functions of the model, the cells that `NewNode` cannot take and
`Contents`, exist by `Iterates` and agree with the chains by `NewNodeIsNew` and
`ContentsHold`; both go by `Induct`, induction over the numbers stated about a
set, which needs no operator parameter. For the refinement, `LinkIsPush` and
`DispatchIsPop` are the two steps that move a queue, and `StaysTheSame` is all
the others.

### Memory

    MemoryInv == TypeOK /\ (taken \/ Sound)
    Sound     == Linked /\ Kept /\ Written /\ Open

The theorems have no hypothesis about the clients or the ticks; where they cannot
hold they say so themselves, by `~ taken`. `TablesTrue` speaks of the pages that
have an entry. That they stay true needs the other direction, the records of the
manager (`Linked`), and what an entry says before its client has the page
(`Kept`): the frame it was given, not in use. A faulting thread takes over the old
record of a frame, so `OthersClosed` needs that an open frame in use has its own
place's page of the running thread, or one that no table knows (`Open`); and as
bytes stay behind in a frame, that nothing has bytes of a page that its client
does not have (`Written`). There is a lemma for each way in which a step moves
pages (`SwapKeeps`, `TakeUnusedKeeps`, `MoveToFileKeeps`, `BringFromFileKeeps`), in
frames and file pages that are named once; `TypeStep` keeps the types also after
`taken`.

### The heap inside a frame

The properties speak of what the walk over the headers finds, which is a
recursive function of the memory. The invariant does without the walk: `HeapInv`
says that there is a set `P` of bounds so that from each to the next
(`Adjacent`) there is a block with its tags at both ends, that the blocks of the
clients have room for what was asked (`Roomy`), and that no two free ones are
neighbours (`Merged`). A step changes `P` in one of three ways: bounds inside a
block go (`Joined`, for `coalesce`), one comes (`Split`, for `place`), or a block
follows the last (`Grown`, for `extend_heap`); `CoalesceLays` is all four cases
of `coalesce`. `Kept` says that the blocks that others hold stay as they are.
Only `WalkFinds` is about the walk: it finds `P` without the end. `WalkExists`
gives the recursive function its existence, as what belongs to every set that is
closed under going on, and the least number whose bound is wrong its value.

### The demo programs

`ClientsInv` says that the counter of `test1`, and every register, is at most
the number of increments that have been stored (`Stores`, a sum of two
cardinalities): a lost increment makes it less. A barrier that is open has
therefore been reached by all, and stays open.

`QueuesInv`, about `test.c`, needs more than `StaysQueued` says: that a
`RUNNING` thread which does not run has returned or yielded (`Idling`). What
`schedule()` pops is then `READY` and put back, or it is one of those or the
running thread. And the processor runs the code of the running thread, leaving
if and only if the context saved last is (`OnCPU`), for else a tick could save
an innocent context over a yielded one.

### The file system

*Links.* `LinksInv`: an inode's link is later than the inode itself. That holds
because the free inodes are the last ones (`InOrder`), `findFreeInode` takes the
first of them, and a directory inode is marked used before it is linked from
another. As a create makes its writes one by one, `ToCome` says of each write
still to be made what makes it harmless whenever it comes: a `MarkUsed(i)` has
everything below `i` in use by then, a directory inode written is in use by
then. Since every part of a `todo` may be dropped, crashes are no special case.
From rising links, `ChainsEnd` and `OneEnd` show that `LinksFrom` exists, is
unique, ends, and fits the bound in its definition.

*Tree and bitmap.* Until a crash, the disk is being formatted, or is at rest,
or a create is amid its writes:

    TreeInv == Dirs /\ (Formatting \/ Settled \/ Unfinished)

`Settled` is `BitmapMatchesTree` with all files written and only write-backs of
unchanged directory inodes to come. `Unfinished` lists for each of the four
states of `AddEntry` and the five of `AddLink` the writes to come (`Begins`) and
how far bitmap and tree are apart: by the new file, the new link, or both. One
lemma per write (`AddingStep`, `LinkingStep`) leads from each to the next, and
shows what the abstract directory sees of it. `Keeps` adds that no file loses
its inode.

*Crashes.* `FilesKept` speaks of what a crash leaves, where `TreeInv` is gone: an
inode may be in use and hold zeros, a name may lead to an inode never written or
to one that a later create makes a link (both `TornCreate`, the second
`TornLink`), and `ino` need not be in the tree. `CrashInv` holds on top of
`LinksInv` and says what is left:

    CrashInv == InodeKinds /\ Plans /\ (opening # {} => mounted) /\ (mounted => InoKnown)

`InodeKinds`: only the root is a directory with entries, files hold nothing,
links lead to link inodes. `Plans`: the writes to come are those of `AddEntry`
(`Growing`) or `AddLink` (`Stretching`) for a directory inode anywhere on the
disk, from some write on, or those of a format (`Blanking`), followed by
write-backs of blocks as they are (`Ahead`). `InoKnown`: `ino` is in the tree, or an
entry leads to a link, or the names are looked up in a block that stays empty
(`Stranded`). What a write does to the entries of the tree follows from these:
it keeps them, or `TornCreate` holds, as when a name without an inode reads as
the root and a create in it writes the root anew with nothing but its own entry.

*Requests.* A whole number is that of the root or of a file with an entry and
its inode written. `RequestsInv` adds to `LinksInv` and `TreeInv` that `ino` is
whole at all times, wherever requests move it, that what each request has looked
up or answered is whole and has its flag (`Fine`), that the root stays a
directory, that only one thread serves the lookup behind a create, and that the first slot of each name
the kernel knows is that of a whole file (`KnownFiles`): such names are looked
up without the directory's lock, amid the writes of a create. The new entry,
which is on disk before its inode, comes behind all known ones.

*Mount.* `MountInv` is what is true of every disk (`AnyDisk`: a disk file without
its size holds zeros, and so does the root's inode while writes are to come) and
what is true until a fault hits a format (`SoundDisk`: the number of writes made
says which of the first three blocks are in place, and a disk without writes to
come is formatted). `FormatShape` says what the `k`-th write of a format is.

### Only model-checked

* Liveness and everything that rests on fairness: `ImplementsPool`,
  `JoinReturns`, `MutexReleased`, `EndsWhenAllDone`, `NoStarvation`,
  `PeriodicScan`, `AccessReturns`, `EndsUnlessLost`, `RobinReachesAll`, `GoesOn`.
* `OnePotato`, which is about programs of fixed length: an inductive invariant
  would be the list of their places with what holds at each.

## Findings

Each is a run that TLC finds violated; `PROJECT.json` has the lines.

1. **A thread's context is lost** (`contexts_restore`) when a tick fell due
   during `schedule()` and is delivered inside its `setcontext`.
2. **A thread runs with another's page open** (`memory_early`). `page_malloc`
   takes the next frame if its use bit is clear, but the bit is set by the
   owner's first request, not when the frame is given to it. `test1` can do
   this: it counts an arrival before the allocation, so its barrier does not
   keep the order.

## Known behaviours

What the models show of the code and no document denies. Where a property
below has an exception, this is the exception.

* **No priority scan** in the build as shipped: `round++` is an argument of a
  debug `printf`. Nobody starves all the same, since every tick degrades the
  thread it catches, so that all end on the lowest level, which is round robin.
* **A thread is lost** when the first tick falls in `main()`'s push between the
  link and the count. A first tick between the push and the page table
  dereferences it uninitialised, and one inside `start()`, whose timer is armed
  before `file_init` and `mem_init`, finds nothing to run and ends the process.
  A missing `hardDrive` file crashes `file_init`.
* **A yield or join by `main()`** before the first tick overwrites the
  scheduler's context, and nothing is ever scheduled. `testcase.c` has its
  joins commented out.
* **Memory.** What a hand-over leaves in a frame is not erased: `swap_frame` copies
  nothing over it and `mem_to_file` clears the record only, so the thread that
  gets the frame can read the old owner's bytes. A client that asks again while
  the next frame holds a page of its own loses that page's table entry. The page
  that is started after `MoveToFile` is in no table: it is never brought back,
  and another page may be moved over it. A tick inside `page_malloc` lets the
  thread that just lost a frame fault it back before `page_init`, and lets a
  thread open an unused frame (765) that another is about to use. With memory
  and file full `page_malloc` returns NULL, which `test1` writes to; a fault that
  needs a file page when none is free indexes `filePages[-1]` (769). After the
  last frame `getNextPage` is NULL.
* **`test.c`.** A thread that yields twice in a row is popped `RUNNING` and drops
  out of the queues; priorities have no floor and become −1; a thread whose
  function has returned can be run again and then ends the process.
* **First library.** A thread that has yielded goes on yielding for ever. A
  first tick inside `insertNode` makes the round robin search for ever; one
  between two creates abandons `main()` until a thread returns into it.
* **File system.** Inodes run out unnoticed: `findFreeInode` answers 0, and the
  directory is linked to its own root. A second `stat` of a file looks for it
  inside itself and is told there is none. A `getattr` raced by another answers
  the other file's attributes (`AnswersExist` says that they are some file's),
  and can turn a create that succeeded into `EIO`. `open` always
  answers `ENOENT`, and `readdir` lists nothing. A crash inside `sfs_init` leaves
  a disk that counts as formatted. A crash between an entry and its inode
  leaves a name for a block of zeros, which reads as the root, and a later
  create writes over the root.
* **Tests.** `doTest2` runs `basicThreadTests` with the alarm on. A tick there
  can run a thread that the test's counts do not expect, and an assertion of the
  test fails, whatever the library.
* **Experiments.** A signal before `registerHandler`, or of a kind without a
  handler, kills; `doTest2` aborts at the first call of the `ULT` stub.

## Simplifications and their limits

* `Scheduler` takes the first tick between two creates; `Startup` takes it
  anywhere. In both `main()` creates all threads, as the file's `main()` does;
  a thread that creates threads could be preempted inside a push as well.
* There is one mutex, and its clients lock and unlock it properly, never
  exit, join or lock again while they hold it. They may join any thread, also
  one that never exits, and themselves.
* `page_protect` failing, `malloc` failing and `exit()` by a client are left out.
* The C library's context switches (`swapcontext`, `setcontext`) are external:
  they save, change the signal mask, and load, in this order.
* `memlib.c` does not compile as it stands: line 545 declares a variable inside
  a condition, lines 546 and 769 call `mem_to_file` with one of its two
  arguments. `Memory` takes the call that is prepared there. It starts when
  `schedule()` first switches to a thread, all threads having been created.
* `Sfs` takes requests one at a time and crashes amid creates; `Requests` takes
  them in threads and without crashes; `Mount` has the crashes and failed
  writes of formatting. Partial `pwrite`s and a failing `stat` are left out.
* `block_write(SFS_INODE, &ino_root)` copies a block from a smaller variable, so
  that 384 bytes of the stack follow the root into inodes 1 to 3. They are
  overwritten when these inodes are created; `Sfs` has zeros there.
* Names in `Sfs` are model values of at most four bytes; `create_inode_real`
  copies only `sizeof(SFS_PTR_NAME_MAX_LENGTH)`, four bytes (`inode.c:97`),
  while the slot has eight (`inode.h:51`). `Stored` is that conversion.
* `assignment3/src` does not link as committed, and `srccpy` builds without its
  `inode.c`: the models are of the callbacks as written. In both any call may
  come at any time; the kernel, which sees no regular file there, makes fewer.
* `undead_code.c` is modelled for the 32-bit build whose addresses its comments
  give.
* `ThreadTests` leaves out `startAlarmHelper` and the times that the tests print
  and wait for. `setFlag`, whose critical section does nothing another thread
  could disturb, is one step. All Tids that are negative or too big are one, `NoSuch`, and so are 16 and 42, which no test
  has made (`Unused`).

Some statements one would like to make are false of this code, and are left
out rather than weakened: that a file which exists is found, and answered for
with its own attributes; that a file can be opened; that the tree survives a
crash; that a create notices that the inodes have run out; that a frame which is
handed over holds nothing of its old owner.

## Not modelled

* **Logging and parameters** (`log.c`, `params.h`): no state others read.
* **Functions nothing calls**: `my_pthread_exit` and `my_pthread_join` of the two
  older libraries (the first one's `removeNode` never ends, `test.c`'s does
  nothing), `findThread_priority`, the `test_*` functions of `memlib.c`, the empty
  `update_address_shuffle_page`.
* **`parseUcontext.c`**, which prints addresses.
* **The list of `src/test`** (`list.h`, `main.c`): the list is the Linux kernel's,
  its client does not compile.
* **First exercises** (`fibonacci.c`, `hanoi.c`, `struct.c`): no state that lasts.
* **Build files, `fuse.h`, `list.h` of the Linux kernel**: generated or vendored.

## Plan

Done, in this order: `Scheduler` with `ThreadPool`, its runs and its proofs;
`Startup` with `FifoQueues`; `Contexts` and its proof; `PageHeap`; `Sfs` with
`Directory`; `Memory`; `Clients`; `Requests` and `Mount`; the older libraries and
file systems; `Signals` and `ThreadTests`; the proofs about `Mount`, `Clients`,
`Memory`, `Sfs` with its crashes, `Requests`, `PageHeap`, `EarlierQueues` and
`Startup`. Every safety property of a passing run but `OnePotato` is proved.

To check a module by hand: `tlc -config MCScheduler.cfg MCScheduler`, and
`tlapm SchedulerProofs.tla`.
