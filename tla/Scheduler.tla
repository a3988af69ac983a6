------------------------------ MODULE Scheduler ------------------------------
(***************************************************************************)
(* The user-level thread library of src/hw2/code/multiQ/my_pthread_t.c:    *)
(* one kernel thread runs main(), every my_pthread and the scheduler in    *)
(* turn.  A multi-level feedback queue chooses the next thread; a          *)
(* profiling timer (SIGPROF) preempts the running one.                     *)
(*                                                                         *)
(* schedule() runs with SIGPROF blocked (scheduler_init, line 580), so     *)
(* nothing interleaves with the three actions that model it; `context'     *)
(* says which code holds the processor.  Everything else -- main(), a      *)
(* thread's own code, the spin loops inside my_pthread_mutex_lock and      *)
(* my_pthread_join, the middle of my_pthread_exit -- can be interrupted    *)
(* between any two of its actions by a tick.                               *)
(*                                                                         *)
(* The states RESUME, BLOCKED and WAITING of the header are never assigned *)
(* (CONTEXT_INTERRUPTION is never set), so they have no counterpart here.  *)
(***************************************************************************)
EXTENDS Integers, FiniteSets, SequencesExt

CONSTANTS
    NumThreads,   \* how many threads main() creates (5 in main())
    MAX_THREADS,  \* the limit asserted by my_pthread_create
    QUEUELEVEL,   \* priority levels; QUEUELEVEL-1 is the highest
    QUEUECHECK,   \* how rarely the priorities are adjusted
    MAX_PAGE,     \* physical page frames
    Debug,        \* the global `debug'
    RoundPeriod   \* bound on `round': only round modulo this number is kept

ASSUME ThreadsAssumption ==
    /\ MAX_THREADS \in Nat
    /\ NumThreads \in 1 .. MAX_THREADS

ASSUME QueueAssumption ==
    /\ QUEUELEVEL \in Nat \ {0}
    /\ QUEUECHECK \in Nat \ {0}

ASSUME FrameAssumption == MAX_PAGE \in Nat

\* schedule() only asks whether `round' is a multiple of pending*QUEUECHECK+1,
\* so keeping it modulo a common multiple of those numbers loses nothing.
ASSUME RoundAssumption ==
    /\ Debug \in BOOLEAN
    /\ RoundPeriod \in Nat /\ RoundPeriod > 1
    /\ \A n \in 1 .. NumThreads : RoundPeriod % (n * QUEUECHECK + 1) = 0

Threads  == 0 .. NumThreads - 1   \* a thread is its _self_id
NoThread == -1                    \* the _self_id of schedule_thread
Levels   == 0 .. QUEUELEVEL - 1
Frames   == 0 .. MAX_PAGE - 1
NoFrame  == -1

VARIABLES
    context,             \* which code runs, see Contexts below
    runningThread,       \* scheduler.runningThread
    total_thread,        \* scheduler.total_thread
    state,               \* my_pthread_t.state, "NEW" before creation
    priority,            \* my_pthread_t.priority
    runningCounter,      \* my_pthread_t.runningCounter, saturated at 1
    pendingThreadQueue,  \* one FIFO queue per level
    total_pendingThread, \* scheduler.total_pendingThread
    finishedThreadQueue,
    round,               \* the static `round' of schedule()
    frame,               \* the frame my_pthread_create gave the thread
    protected,           \* frames under PROT_NONE
    flag,                \* my_pthread_mutex_t.flag of one mutex
    pc,                  \* where a thread stands in the library
    target,              \* the thread a my_pthread_join waits for
    inCrit               \* TRUE between a thread's lock and its unlock

threadVars == <<state, priority, runningCounter>>
queueVars  == <<pendingThreadQueue, total_pendingThread, finishedThreadQueue>>
memVars    == <<frame, protected>>
clientVars == <<flag, pc, target, inCrit>>
vars == <<context, runningThread, total_thread, threadVars, queueVars, round,
          memVars, clientVars>>

Contexts == {"main", "thread", "schedule", "pick", "dispatch", "finished"}
States   == {"NEW", "READY", "RUNNING", "TERMINATED"}
PCs      == {"user", "lock", "lockYield", "join", "joinYield", "exit"}

Created == {t \in Threads : state[t] # "NEW"}

-----------------------------------------------------------------------------
(* The queues.  An operator named X_Bug is X with the bug its name tells:  *)
(* nothing uses it, and swapped in for X it must be noticed by a property. *)

multiQueue_empty == \A l \in Levels : pendingThreadQueue[l] = <<>>

multiQueue_push_TopLevel(t, l) ==
    /\ pendingThreadQueue' = [pendingThreadQueue EXCEPT ![QUEUELEVEL - 1] = Append(@, t)]
    /\ total_pendingThread' = total_pendingThread + 1
multiQueue_push_Uncounted(t, l) ==
    /\ pendingThreadQueue' = [pendingThreadQueue EXCEPT ![l] = Append(@, t)]
    /\ UNCHANGED total_pendingThread
multiQueue_push_AtHead(t, l) ==
    /\ pendingThreadQueue' = [pendingThreadQueue EXCEPT ![l] = <<t>> \o @]
    /\ total_pendingThread' = total_pendingThread + 1

multiQueue_push(t, l) ==
    /\ pendingThreadQueue' = [pendingThreadQueue EXCEPT ![l] = Append(@, t)]
    /\ total_pendingThread' = total_pendingThread + 1

IsTopLevel_Lowest(l) ==
    /\ pendingThreadQueue[l] # <<>>
    /\ \A k \in Levels : pendingThreadQueue[k] # <<>> => k >= l

\* multiQueue_pop takes the oldest node of the highest level that has one.
IsTopLevel(l) ==
    /\ pendingThreadQueue[l] # <<>>
    /\ \A k \in Levels : pendingThreadQueue[k] # <<>> => k <= l

multiQueue_pop(l) ==
    /\ pendingThreadQueue' = [pendingThreadQueue EXCEPT ![l] = Tail(@)]
    /\ total_pendingThread' = total_pendingThread - 1

SomethingPending_MoreThanOne == total_pendingThread > 1

SomethingPending == total_pendingThread > 0

queue_push(t) == finishedThreadQueue' = Append(finishedThreadQueue, t)

queue_findThread_AnyThread(t) == finishedThreadQueue # <<>>
queue_findThread_MissesTail(t) ==
    \E i \in 1 .. Len(finishedThreadQueue) - 1 : finishedThreadQueue[i] = t

queue_findThread(t) == Contains(finishedThreadQueue, t)

-----------------------------------------------------------------------------
(* Memory, as far as the scheduler touches it.                             *)

Owned(f) == \E t \in Threads : frame[t] = f

\* find_free_frame returns the first frame without an owner, or NoFrame.
find_free_frame(f) ==
    \/ f \in Frames /\ ~ Owned(f) /\ \A g \in 0 .. f - 1 : Owned(g)
    \/ f = NoFrame /\ \A g \in Frames : Owned(g)

\* page_protect(flag) acts on every frame its thread may not use.
NotUsable(t) == {f \in Frames : frame[t] # f}

AfterUnprotect_Skipped == protected

\* page_protect(1), called before a switch unless it leaves main() behind.
AfterUnprotect ==
    IF runningThread = NoThread THEN protected
    ELSE protected \ NotUsable(runningThread)

-----------------------------------------------------------------------------
Init ==
    /\ context = "main"
    /\ runningThread = NoThread
    /\ total_thread = 0
    /\ state = [t \in Threads |-> "NEW"]
    /\ priority = [t \in Threads |-> QUEUELEVEL - 1]
    /\ runningCounter = [t \in Threads |-> 0]
    /\ pendingThreadQueue = [l \in Levels |-> <<>>]
    /\ total_pendingThread = 0
    /\ finishedThreadQueue = <<>>
    /\ round = 1
    /\ frame = [t \in Threads |-> NoFrame]
    /\ protected = {}
    /\ flag = 0
    /\ pc = [t \in Threads |-> "user"]
    /\ target = [t \in Threads |-> NoThread]
    /\ inCrit = [t \in Threads |-> FALSE]

-----------------------------------------------------------------------------
(* main(): create threads until the first tick; main's own context is      *)
(* never saved, so that tick ends it for good.                             *)

my_pthread_create ==
    /\ context = "main"
    /\ total_thread < NumThreads
    /\ total_thread' = total_thread + 1
    /\ state' = [state EXCEPT ![total_thread] = "READY"]
    /\ priority' = [priority EXCEPT ![total_thread] = QUEUELEVEL - 1]
    /\ runningCounter' = [runningCounter EXCEPT ![total_thread] = 0]
    /\ multiQueue_push(total_thread, QUEUELEVEL - 1)
    /\ \E f \in Frames \cup {NoFrame} :
          /\ find_free_frame(f)
          /\ frame' = [frame EXCEPT ![total_thread] = f]
    /\ UNCHANGED <<context, runningThread, finishedThreadQueue, round,
                   protected, clientVars>>

MainTick ==
    /\ context = "main"
    /\ context' = "schedule"
    /\ UNCHANGED <<runningThread, total_thread, threadVars, queueVars, round,
                   memVars, clientVars>>

-----------------------------------------------------------------------------
(* The timer.                                                              *)

Runs(t) == context = "thread" /\ runningThread = t

Preempted(s) == IF s = "RUNNING" THEN "READY" ELSE s

Degraded_NoFloor(p) == p - 1

Degraded(p) == IF p >= 1 THEN p - 1 ELSE p

signal_handler(t) ==
    /\ Runs(t)
    /\ state' = [state EXCEPT ![t] = Preempted(@)]
    /\ priority' = [priority EXCEPT ![t] = Degraded(@)]
    /\ context' = "schedule"
    /\ UNCHANGED <<runningThread, total_thread, runningCounter, queueVars,
                   round, memVars, clientVars>>

-----------------------------------------------------------------------------
(* schedule(), in the order of its code: dispose of the thread that just   *)
(* ran, adjust the priorities if it is time to, switch to the next thread. *)

NextRound_Never == round

\* `round++' is an argument of the debug printf.
NextRound == IF Debug THEN (round + 1) % RoundPeriod ELSE round

HandleRunningThread ==
    /\ context = "schedule"
    /\ \/ /\ runningThread = NoThread
          /\ UNCHANGED <<state, queueVars>>
       \/ /\ runningThread # NoThread
          /\ state[runningThread] \in {"READY", "RUNNING"}
          /\ state' = [state EXCEPT ![runningThread] = "READY"]
          /\ multiQueue_push(runningThread, priority[runningThread])
          /\ UNCHANGED finishedThreadQueue
       \/ /\ runningThread # NoThread
          /\ state[runningThread] = "TERMINATED"
          /\ queue_push(runningThread)
          /\ UNCHANGED <<state, pendingThreadQueue, total_pendingThread>>
    /\ round' = NextRound
    /\ context' = "pick"
    /\ UNCHANGED <<runningThread, total_thread, priority, runningCounter,
                   memVars, clientVars>>

ScanDue == round % (total_pendingThread * QUEUECHECK + 1) = 0

\* threadPriority_scan(queue, 1): a waiting thread that has not run since the
\* last scan moves up one level, behind the threads that were already there
\* (those are popped, and pushed back, first).
Raised(t) == runningCounter[t] < 1 /\ priority[t] < QUEUELEVEL - 1

\* The threads of queue s that are in S, in the order of s.
Among(s, S) ==
    LET upTo[i \in 0 .. Len(s)] ==
          IF i = 0 THEN <<>>
          ELSE IF s[i] \in S THEN Append(upTo[i - 1], s[i]) ELSE upTo[i - 1]
    IN  upTo[Len(s)]

AfterScan(l) ==
    LET raised == {t \in Threads : Raised(t)}
    IN  Among(pendingThreadQueue[l], Threads \ raised)
          \o (IF l = 0 THEN <<>> ELSE Among(pendingThreadQueue[l - 1], raised))

threadPriority_scan ==
    LET queued == UNION {ToSet(pendingThreadQueue[l]) : l \in Levels}
    IN  /\ context = "pick"
        /\ SomethingPending
        /\ ScanDue
        /\ pendingThreadQueue' = [l \in Levels |-> AfterScan(l)]
        /\ priority' = [t \in Threads |->
             IF t \in queued /\ Raised(t) THEN priority[t] + 1 ELSE priority[t]]
        /\ runningCounter' = [t \in Threads |->
             IF t \in queued THEN 0 ELSE runningCounter[t]]
        /\ context' = "dispatch"
        /\ UNCHANGED <<runningThread, total_thread, state, total_pendingThread,
                       finishedThreadQueue, round, memVars, clientVars>>

\* multiQueue_pop of an empty queue would return NULL, which the code then
\* dereferences: there is no such step, and NoNullPop says it is never due.
Dispatch ==
    /\ \/ context = "dispatch"
       \/ context = "pick" /\ SomethingPending /\ ~ ScanDue
    /\ \E l \in Levels :
         LET next == Head(pendingThreadQueue[l])
         IN  /\ IsTopLevel(l)
             /\ multiQueue_pop(l)
             /\ runningThread' = next
             /\ state' = [state EXCEPT ![next] = "RUNNING"]
             /\ runningCounter' = [runningCounter EXCEPT ![next] = 1]
             /\ protected' = AfterUnprotect \cup NotUsable(next)
    /\ context' = "thread"
    /\ UNCHANGED <<total_thread, priority, finishedThreadQueue, round, frame,
                   clientVars>>

FinishAll_Waits ==
    /\ context = "pick"
    /\ ~ SomethingPending
    /\ UNCHANGED vars

\* "finish all schedule": schedule() returns, its uc_link is NULL, and the
\* process exits.
FinishAll ==
    /\ context = "pick"
    /\ ~ SomethingPending
    /\ context' = "finished"
    /\ UNCHANGED <<runningThread, total_thread, threadVars, queueVars, round,
                   memVars, clientVars>>

-----------------------------------------------------------------------------
(* The library calls a running thread makes.                               *)

At(t, where) == Runs(t) /\ pc[t] = where
Goto(t, where) == pc' = [pc EXCEPT ![t] = where]

schedulerVars == <<runningThread, total_thread, threadVars, queueVars, round,
                   memVars>>

\* The swapcontext of my_pthread_yield: called by the thread's own code, or
\* by the two spin loops, which then test their condition again.
my_pthread_yield(t) ==
    /\ \/ At(t, "user") /\ UNCHANGED pc
       \/ At(t, "lockYield") /\ Goto(t, "lock")
       \/ At(t, "joinYield") /\ Goto(t, "join")
    /\ context' = "schedule"
    /\ UNCHANGED <<schedulerVars, flag, target, inCrit>>

CallLock(t) ==
    /\ At(t, "user") /\ ~ inCrit[t]
    /\ Goto(t, "lock")
    /\ UNCHANGED <<context, schedulerVars, flag, target, inCrit>>

my_pthread_mutex_lock_NoTest(t) ==
    /\ At(t, "lock")
    /\ flag' = 1
    /\ Goto(t, "user")
    /\ inCrit' = [inCrit EXCEPT ![t] = TRUE]
    /\ UNCHANGED <<context, schedulerVars, target>>

\* __sync_lock_test_and_set: one atomic instruction, then the test.
my_pthread_mutex_lock(t) ==
    /\ At(t, "lock")
    /\ flag' = 1
    /\ \/ flag = 0 /\ Goto(t, "user") /\ inCrit' = [inCrit EXCEPT ![t] = TRUE]
       \/ flag = 1 /\ Goto(t, "lockYield") /\ UNCHANGED inCrit
    /\ UNCHANGED <<context, schedulerVars, target>>

my_pthread_mutex_unlock_KeepsFlag(t) ==
    /\ At(t, "user") /\ inCrit[t]
    /\ inCrit' = [inCrit EXCEPT ![t] = FALSE]
    /\ UNCHANGED <<context, schedulerVars, flag, pc, target>>

my_pthread_mutex_unlock(t) ==
    /\ At(t, "user") /\ inCrit[t]
    /\ flag' = 0
    /\ inCrit' = [inCrit EXCEPT ![t] = FALSE]
    /\ UNCHANGED <<context, schedulerVars, pc, target>>

CallJoin(t, u) ==
    /\ At(t, "user") /\ ~ inCrit[t]
    /\ Goto(t, "join")
    /\ target' = [target EXCEPT ![t] = u]
    /\ UNCHANGED <<context, schedulerVars, flag, inCrit>>

my_pthread_join(t) ==
    /\ At(t, "join")
    /\ \/ /\ queue_findThread(target[t])
          /\ Goto(t, "user")
          /\ target' = [target EXCEPT ![t] = NoThread]
       \/ ~ queue_findThread(target[t]) /\ Goto(t, "joinYield") /\ UNCHANGED target
    /\ UNCHANGED <<context, schedulerVars, flag, inCrit>>

\* The thread's function returned (my_pthread_startup_function) or called
\* my_pthread_exit: the state changes first, the switch comes second.
my_pthread_exit(t) ==
    /\ At(t, "user") /\ ~ inCrit[t]
    /\ state' = [state EXCEPT ![t] = "TERMINATED"]
    /\ Goto(t, "exit")
    /\ UNCHANGED <<context, runningThread, total_thread, priority,
                   runningCounter, queueVars, round, memVars, flag, target, inCrit>>

ExitSwitch(t) ==
    /\ At(t, "exit")
    /\ context' = "schedule"
    /\ UNCHANGED <<schedulerVars, clientVars>>

-----------------------------------------------------------------------------
\* The process has exited.
Done == context = "finished" /\ UNCHANGED vars

schedule == HandleRunningThread \/ threadPriority_scan \/ Dispatch \/ FinishAll

\* Steps inside a library call, as opposed to a thread's choice to make one.
LibraryStep(t) ==
    \/ my_pthread_mutex_lock(t)
    \/ my_pthread_join(t)
    \/ pc[t] # "user" /\ my_pthread_yield(t)
    \/ ExitSwitch(t)

ThreadStep(t) ==
    \/ my_pthread_yield(t)
    \/ CallLock(t)
    \/ my_pthread_mutex_lock(t)
    \/ my_pthread_mutex_unlock(t)
    \/ \E u \in Created : CallJoin(t, u)
    \/ my_pthread_join(t)
    \/ my_pthread_exit(t)
    \/ ExitSwitch(t)

Tick == MainTick \/ \E t \in Threads : signal_handler(t)

Next ==
    \/ my_pthread_create
    \/ Tick
    \/ schedule
    \/ \E t \in Threads : ThreadStep(t)
    \/ Done

Spec == Init /\ [][Next]_vars

\* The scheduler's code runs on once entered; ticks keep coming because
\* ITIMER_PROF counts the time this process runs, and one that falls due
\* while schedule() has them blocked is delivered at the next switch.
TimerFairness == WF_vars(schedule) /\ SF_vars(Tick)

\* A quantum is long enough for a thread to get on with a library call, and
\* the clients' critical sections end.
ClientFairness ==
    \A t \in Threads :
        SF_vars(LibraryStep(t)) /\ SF_vars(my_pthread_mutex_unlock(t))

TimedSpec == Spec /\ TimerFairness
-----------------------------------------------------------------------------
(* Properties.                                                             *)

TypeOK ==
    /\ context \in Contexts
    /\ runningThread \in Threads \cup {NoThread}
    /\ total_thread \in 0 .. NumThreads
    /\ state \in [Threads -> States]
    /\ priority \in [Threads -> Levels]
    /\ runningCounter \in [Threads -> 0 .. 1]
    /\ pendingThreadQueue \in [Levels -> Seq(Threads)]
    /\ total_pendingThread \in Nat
    /\ finishedThreadQueue \in Seq(Threads)
    /\ round \in 0 .. RoundPeriod - 1
    /\ frame \in [Threads -> Frames \cup {NoFrame}]
    /\ protected \in SUBSET Frames
    /\ flag \in 0 .. 1
    /\ pc \in [Threads -> PCs]
    /\ target \in [Threads -> Threads \cup {NoThread}]
    /\ inCrit \in [Threads -> BOOLEAN]

\* The thread that has the processor and has not been handed back to a queue.
Holds(t) == context \in {"thread", "schedule"} /\ runningThread = t

Queued(t) == \E l \in Levels : Contains(pendingThreadQueue[l], t)

\* No thread is lost and none is queued twice: across ticks, yields and
\* exits in any order, exactly the READY threads that do not hold the
\* processor are queued, once, at the level of their priority.
NoThreadLost ==
    /\ \A t \in Threads : Queued(t) <=> state[t] = "READY" /\ ~ Holds(t)
    /\ \A l \in Levels : \A i, j \in DOMAIN pendingThreadQueue[l] :
          /\ priority[pendingThreadQueue[l][i]] = l
          /\ pendingThreadQueue[l][i] = pendingThreadQueue[l][j] => i = j

\* The finished queue, where my_pthread_join looks, holds the threads that
\* have exited and switched away for the last time.
FinishedQueueSound ==
    \A t \in Threads :
        Contains(finishedThreadQueue, t) <=> state[t] = "TERMINATED" /\ ~ Holds(t)

\* total_pendingThread, kept by hand in push and pop, is the number of queued
\* threads; schedule() trusts it to decide whether anything is left to run.
PendingCount == total_pendingThread = Cardinality({t \in Threads : Queued(t)})

\* schedule() never pops the empty queues (it would dereference NULL).
NoNullPop ==
    context = "dispatch" \/ (context = "pick" /\ total_pendingThread > 0)
      => ~ multiQueue_empty

\* schedule() ends the process only after every created thread has exited.
FinishedMeansDone ==
    context = "finished" => \A t \in Created : state[t] = "TERMINATED"

\* At most one thread is between its lock and its unlock, and the flag is
\* raised exactly as long.
MutualExclusion ==
    /\ \A t, u \in Threads : inCrit[t] /\ inCrit[u] => t = u
    /\ flag = 1 <=> \E t \in Threads : inCrit[t]

\* While a thread runs, page_protect has left its own frame open and the
\* frames of all the others closed, and no frame has two owners.
FrameIsolation ==
    /\ \A t, u \in Threads : frame[t] = frame[u] /\ t # u => frame[t] = NoFrame
    /\ context = "thread" => protected = NotUsable(runningThread)

\* A switch goes to a thread of the highest level that has a ready one.
HighestFirst ==
    [][context # "thread" /\ context' = "thread" =>
         \A t \in Threads :
            state'[t] = "READY" => priority'[t] <= priority'[runningThread']]_vars

\* A thread that has exited never runs again.
TerminatedForGood ==
    [][\A t \in Threads : state[t] = "TERMINATED" => state'[t] = "TERMINATED"]_vars

\* my_pthread_join returns only when the thread it names has exited and left
\* its stack.
JoinWaits ==
    [][\A t \in Threads : pc[t] = "join" /\ pc'[t] = "user" =>
         state[target[t]] = "TERMINATED" /\ ~ Holds(target[t])]_vars

\* With `debug' off the priority of a created thread never rises.
PriorityNeverRises ==
    [][\A t \in Created : priority'[t] <= priority[t]]_vars

\* Every ready thread runs again, whatever the others do.
NoStarvation == \A t \in Threads : state[t] = "READY" ~> Runs(t)

\* A thread that joins one that has exited returns from my_pthread_join, if
\* quanta are long enough.
JoinReturns ==
    ClientFairness => \A t \in Threads : \A u \in Threads :
        pc[t] = "join" /\ target[t] = u /\ state[u] = "TERMINATED" ~> pc[t] = "user"

\* A mutex is released again although its holder is preempted and the
\* waiters spin: a yield lets the holder on.  (The clients must unlock.)
MutexReleased == ClientFairness => flag = 1 ~> flag = 0

\* Once main() is gone and every created thread has exited, the process ends.
EndsWhenAllDone ==
    context # "main" /\ (\A t \in Created : state[t] = "TERMINATED")
      ~> context = "finished"

\* The thread pool this scheduler implements: whoever holds the processor is
\* current until schedule() has disposed of it.
Pool == INSTANCE ThreadPool WITH
    Thread  <- Threads,
    None    <- NoThread,
    ready   <- {t \in Threads : state[t] = "READY" /\ ~ Holds(t)},
    current <- IF context \in {"thread", "schedule"} THEN runningThread ELSE NoThread,
    exited  <- {t \in Threads : state[t] = "TERMINATED" /\ ~ Holds(t)},
    phase   <- IF context = "main" THEN "setup"
               ELSE IF context = "finished" THEN "over" ELSE "running"

\* Every step of the library is a step of such a pool, or invisible there.
PoolSafety == Pool!Spec

\* Under the timer's fairness it also keeps the pool's promises: who waits is
\* chosen, who runs is stopped, and a program with nothing left to run ends.
ImplementsPool == Pool!FairSpec

\* "Periodically adjust priority of threads" (my_pthread_t.c:443): priorities
\* are adjusted again and again as long as the process runs.
PeriodicScan == <>(context = "finished") \/ []<><<threadPriority_scan>>_vars
=============================================================================
