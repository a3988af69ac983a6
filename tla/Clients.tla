------------------------------ MODULE Clients -------------------------------
(***************************************************************************)
(* The demo programs of src/hw2/code/multiQ: test1 and test2 at the end of *)
(* my_pthread_t.c, and testcase.c, which runs the same test2.              *)
(*                                                                         *)
(* Both count arrivals in a plain static counter and spin on it.  The      *)
(* increment is a load and a store, and a tick may come in between.  The   *)
(* scheduler is taken for what module Scheduler proves it to be: it        *)
(* switches to any thread at any time and back again and again.            *)
(***************************************************************************)
EXTENDS DemoSize

Threads == 0 .. NumThreads - 1

VARIABLES
    program,         \* the function main gives to every thread
    times,           \* test1's `times', test2's `enterTime'
    pc,
    register,        \* what the thread loaded last
    locked,          \* countLock.flag
    runningThread,
    lost             \* history: a store has wiped out another thread's

clientVars == <<program, times, pc, register, locked, runningThread, lost>>

InitClients ==
    /\ program \in {"test1", "test2"}
    /\ times = 0
    /\ pc = [t \in Threads |-> "arrive"]
    /\ register = [t \in Threads |-> 0]
    /\ locked = FALSE
    /\ runningThread \in Threads
    /\ lost = FALSE

-----------------------------------------------------------------------------
At(t, label) == runningThread = t /\ pc[t] = label
Goto(t, label) == pc' = [pc EXCEPT ![t] = label]

Load(t, from, to) ==
    /\ At(t, from)
    /\ register' = [register EXCEPT ![t] = times]
    /\ Goto(t, to)
    /\ UNCHANGED <<program, times, locked, runningThread, lost>>

Store(t, from, to) ==
    /\ At(t, from)
    /\ times' = register[t] + 1
    /\ lost' = (lost \/ times # register[t])
    /\ Goto(t, to)
    /\ UNCHANGED <<program, register, locked, runningThread>>

\* A step that only looks at the counter or the mutex.
Pass(t, from, to) ==
    /\ At(t, from)
    /\ Goto(t, to)
    /\ UNCHANGED <<program, times, register, locked, runningThread, lost>>

-----------------------------------------------------------------------------
(* test1: two barriers on one counter, the first page before the first     *)
(* barrier, thread 0's second page and thread 1's read between the two.    *)

FirstBarrier_OneEarly(t) ==
    times >= NumThreads - 1 /\ Pass(t, "first_barrier", "depart")

FirstBarrier(t) == times >= NumThreads /\ Pass(t, "first_barrier", "depart")

SecondBarrier(t) == times >= 2 * NumThreads /\ Pass(t, "second_barrier", "done")

test1(t) ==
    /\ program = "test1"
    /\ \/ Load(t, "arrive", "arrived")
       \/ Store(t, "arrived", "first_page")
       \/ Pass(t, "first_page", "first_barrier")
       \/ FirstBarrier(t)
       \/ Load(t, "depart", "departed")
       \/ Store(t, "departed", "second_page")
       \/ Pass(t, "second_page", "second_barrier")
       \/ SecondBarrier(t)

-----------------------------------------------------------------------------
(* test2: count, lock, wait for the others while holding the lock.  A      *)
(* thread that finds the lock taken yields, which is a Switch.             *)

my_pthread_mutex_lock(t) ==
    /\ At(t, "lock")
    /\ ~ locked
    /\ locked' = TRUE
    /\ Goto(t, "wait")
    /\ UNCHANGED <<program, times, register, runningThread, lost>>

my_pthread_mutex_unlock_Forgotten(t) ==
    /\ At(t, "unlock")
    /\ Goto(t, "done")
    /\ UNCHANGED <<program, times, register, locked, runningThread, lost>>

my_pthread_mutex_unlock(t) ==
    /\ At(t, "unlock")
    /\ locked' = FALSE
    /\ Goto(t, "done")
    /\ UNCHANGED <<program, times, register, runningThread, lost>>

WaitForAll(t) == times >= EnterLimit /\ Pass(t, "wait", "unlock")

test2(t) ==
    /\ program = "test2"
    /\ \/ Load(t, "arrive", "arrived")
       \/ Store(t, "arrived", "lock")
       \/ my_pthread_mutex_lock(t)
       \/ WaitForAll(t)
       \/ my_pthread_mutex_unlock(t)

-----------------------------------------------------------------------------
Switch(u) ==
    /\ runningThread' = u
    /\ UNCHANGED <<program, times, pc, register, locked, lost>>

NextClients ==
    \/ \E t \in Threads : test1(t) \/ test2(t)
    \/ \E u \in Threads : Switch(u)

\* Scheduler's NoStarvation, with quanta that let a thread get on.
FairClients ==
    \A t \in Threads : /\ SF_clientVars(Switch(t))
                       /\ SF_clientVars(test1(t) \/ test2(t))

SpecClients == InitClients /\ [][NextClients]_clientVars /\ FairClients
-----------------------------------------------------------------------------
HasArrived(t) == pc[t] \notin {"arrive", "arrived"}
HasDeparted(t) == pc[t] \in {"second_page", "second_barrier", "done"}

\* However many increments are lost, nobody gets past a barrier of test1
\* before all have arrived there: a lost update delays, it never opens early.
BarriersHold ==
    program = "test1" =>
        \A t, u \in Threads :
            /\ pc[t] \in {"depart", "departed"} \/ HasDeparted(t) => HasArrived(u)
            /\ pc[t] = "done" => HasDeparted(u)

\* The only thing that keeps a demo from ending is a lost increment: no other
\* interleaving leaves the threads at a barrier or at the lock for ever.
EndsUnlessLost ==
    <>(lost \/ \A t \in Threads : pc[t] = "done")
=============================================================================
