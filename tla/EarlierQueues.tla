---------------------------- MODULE EarlierQueues ---------------------------
(***************************************************************************)
(* src/hw2/code/multiQ/test.c: the multi-level queues before               *)
(* my_pthread_t.c, under the program of its main().                        *)
(*                                                                         *)
(* schedule() puts the thread it takes back into its queue before it runs, *)
(* a tick lowers the running thread's priority without a floor, and a      *)
(* function that returns goes straight to schedule().  No thread is ever   *)
(* TERMINATED (my_pthread_exit does nothing), so the finished queue, which *)
(* is not initialised, is not used; my_pthread_join, findThread and the    *)
(* queue heads are not called.  A create is one step here: what a tick     *)
(* inside a push does is the subject of module Startup.                    *)
(***************************************************************************)
EXTENDS LockDemo, Sequences

CONSTANT QUEUELEVEL   \* at least 1

VARIABLES
    total_thread,
    pendingThreadQueue,
    total_pendingThread,
    state,               \* "READY" or "RUNNING"
    priority,
    runningThread,       \* Main: the dummy record with id -1
    saved,
    returned,            \* history: threads whose function has returned
    over                 \* "no", "finished" or "crashed"

queuesVars == <<cpu, enterTime, flag, total_thread, pendingThreadQueue,
    total_pendingThread, state, priority, runningThread, saved, returned, over>>

Levels == 0 .. QUEUELEVEL - 1

EmptyQueues == [l \in Levels |-> <<>>]

Init ==
    /\ DemoInit
    /\ total_thread = 0
    /\ pendingThreadQueue = EmptyQueues
    /\ total_pendingThread = 0
    /\ state = [t \in Threads |-> "READY"]
    /\ priority = [t \in Threads |-> QUEUELEVEL - 1]
    /\ runningThread = Main
    /\ saved = [t \in Threads |-> Start(t)]
    /\ returned = {}
    /\ over = "no"

-----------------------------------------------------------------------------
my_pthread_create ==
    /\ over = "no" /\ cpu = InMain
    /\ total_thread < NumThreads
    /\ total_thread' = total_thread + 1
    /\ pendingThreadQueue' = [pendingThreadQueue EXCEPT
                                ![QUEUELEVEL - 1] = Append(@, total_thread + 1)]
    /\ total_pendingThread' = total_pendingThread + 1
    /\ UNCHANGED <<cpu, enterTime, flag, state, priority, runningThread, saved,
                   returned, over>>

IsTopLevel(l) ==
    /\ pendingThreadQueue[l] # <<>>
    /\ \A k \in Levels : k > l => pendingThreadQueue[k] = <<>>

multiQueue_pop(l) == [pendingThreadQueue EXCEPT ![l] = Tail(@)]

\* What schedule() does with the popped thread t, in the states st and with
\* the priorities pr of that moment; queue[-1] is no queue.
PushBack(t, queue, st, pr) ==
    \/ /\ st[t] = "READY" /\ pr[t] \in Levels
       /\ pendingThreadQueue' = [queue EXCEPT ![pr[t]] = Append(@, t)]
       /\ UNCHANGED <<total_pendingThread, over>>
    \/ /\ st[t] = "READY" /\ pr[t] \notin Levels
       /\ pendingThreadQueue' = queue
       /\ over' = "crashed"
       /\ UNCHANGED total_pendingThread
    \/ /\ st[t] = "RUNNING"
       /\ pendingThreadQueue' = queue
       /\ total_pendingThread' = total_pendingThread - 1
       /\ UNCHANGED over

schedule(contexts, st, pr) ==
    \/ /\ total_pendingThread > 0
       /\ \E l \in Levels :
            LET t == Head(pendingThreadQueue[l]) IN
            /\ IsTopLevel(l)
            /\ PushBack(t, multiQueue_pop(l), st, pr)
            /\ runningThread' = t
            /\ state' = [st EXCEPT ![t] = "RUNNING"]
            /\ cpu' = contexts[t]
    \/ /\ total_pendingThread = 0
       /\ over' = "finished"
       /\ state' = st
       /\ UNCHANGED <<pendingThreadQueue, total_pendingThread, runningThread, cpu>>

Preempted_StaysRunning == state

Preempted == [state EXCEPT ![runningThread] = "READY"]

signal_handler ==
    /\ over = "no"
    /\ \/ /\ runningThread # Main
          /\ saved' = [saved EXCEPT ![runningThread] = cpu]
          /\ priority' = [priority EXCEPT ![runningThread] = @ - 1]
          /\ schedule(saved', Preempted, priority')
       \/ /\ runningThread = Main
          /\ schedule(saved, state, priority)
          /\ UNCHANGED <<saved, priority>>
    /\ UNCHANGED <<enterTime, flag, total_thread, returned>>

\* As in FirstLibrary the thread will only ever go on from "leaving".
my_pthread_yield ==
    /\ over = "no"
    /\ total_thread > 1
    /\ GoesOn("yield", "leaving")
    /\ state' = Preempted
    /\ saved' = [saved EXCEPT ![runningThread] = cpu']
    /\ UNCHANGED <<enterTime, flag, total_thread, pendingThreadQueue,
                   total_pendingThread, priority, runningThread, returned, over>>

LeaveForScheduler ==
    /\ over = "no"
    /\ cpu.at = "leaving"
    /\ schedule(saved, state, priority)
    /\ UNCHANGED <<enterTime, flag, total_thread, priority, saved, returned>>

\* The first return goes to schedule().  It overwrites its own return address,
\* so that a thread which is run again ends the process if it returns again.
Return ==
    /\ over = "no"
    /\ cpu.at = "return"
    /\ \/ /\ runningThread \notin returned
          /\ schedule(saved, state, priority)
       \/ /\ runningThread \in returned
          /\ over' = "crashed"
          /\ UNCHANGED <<cpu, pendingThreadQueue, total_pendingThread, state, runningThread>>
    /\ returned' = returned \cup {runningThread}
    /\ UNCHANGED <<enterTime, flag, total_thread, priority, saved>>

ClientStep ==
    \/ /\ over = "no"
       /\ test2
       /\ UNCHANGED <<total_thread, pendingThreadQueue, total_pendingThread, state,
                      priority, runningThread, saved, returned, over>>
    \/ my_pthread_yield \/ LeaveForScheduler \/ Return

Ended == over # "no" /\ UNCHANGED queuesVars

Next == my_pthread_create \/ signal_handler \/ ClientStep \/ Ended
-----------------------------------------------------------------------------
QueuedAt(t) ==
    {place \in Levels \X (1 .. NumThreads) :
        LET queue == pendingThreadQueue[place[1]]
        IN  place[2] <= Len(queue) /\ queue[place[2]] = t}

\* A created thread stays in the queues, once, the running one included, until
\* schedule() pops it RUNNING, which happens to no thread but one that has
\* returned or one that has yielded and then goes on from "leaving".
StaysQueued ==
    over = "no" =>
        \A t \in 1 .. total_thread :
            /\ t \in returned \/ saved[t].at = "leaving" \/ QueuedAt(t) # {}
            /\ \A x, y \in QueuedAt(t) : x = y
=============================================================================
