---------------------------- MODULE FirstLibrary ----------------------------
(***************************************************************************)
(* src/hw2/code/my_pthread_t.c: one circular list of threads, taken in     *)
(* turn, under the program of its main().                                  *)
(*                                                                         *)
(* Node i of the list is thread i.  Node 0 is the head: a copy of the      *)
(* scheduler's own record, into which the first tick saves main, and to    *)
(* which every thread function returns (uc_link).  The ids make the order  *)
(* of the list, so the list is its length.  State and priority are only    *)
(* written, never read, and are left out, as are my_pthread_exit (its      *)
(* removeNode never ends), my_pthread_join and findThread_priority, which  *)
(* nothing calls.                                                          *)
(***************************************************************************)
EXTENDS LockDemo

VARIABLES
    total_thread,    \* counts the head too, and is counted before linking
    nodes,           \* threads linked into the list
    runningThread,
    saved,           \* the ucontext_t of each node
    stuck            \* the scheduler searches an id that is not in the list

firstVars == <<cpu, enterTime, flag, total_thread, nodes, runningThread, saved, stuck>>

\* The end of the process: schedule() returned, and its uc_link is NULL.
Nowhere == [InMain EXCEPT !.at = "ended"]

Init ==
    /\ DemoInit
    /\ total_thread = 1 /\ nodes = 0
    /\ runningThread = 0
    /\ saved = [i \in {Main} \cup Threads |-> InMain]
    /\ stuck = FALSE

Alive == ~ stuck /\ cpu # Nowhere

-----------------------------------------------------------------------------
(* insertNode, called by main: the count first, then the links.            *)

CountNode ==
    /\ cpu = InMain
    /\ total_thread = nodes + 1 /\ nodes < NumThreads
    /\ total_thread' = total_thread + 1
    /\ UNCHANGED <<cpu, enterTime, flag, nodes, runningThread, saved, stuck>>

LinkNode ==
    /\ cpu = InMain
    /\ total_thread = nodes + 2
    /\ nodes' = nodes + 1
    /\ saved' = [saved EXCEPT ![nodes + 1] = Start(nodes + 1)]
    /\ UNCHANGED <<cpu, enterTime, flag, total_thread, runningThread, stuck>>

-----------------------------------------------------------------------------
(* schedule(), from a tick or from my_pthread_yield.                       *)

findThread_robin_PastTheEnd ==
    IF runningThread = total_thread THEN 1 ELSE runningThread + 1

findThread_robin ==
    IF runningThread = total_thread - 1 THEN 1 ELSE runningThread + 1

\* contexts are the nodes' contexts at that moment.
schedule(contexts) ==
    \/ /\ total_thread > 1 /\ findThread_robin <= nodes
       /\ runningThread' = findThread_robin
       /\ cpu' = contexts[findThread_robin]
       /\ UNCHANGED stuck
    \/ /\ total_thread > 1 /\ findThread_robin > nodes
       /\ stuck' = TRUE
       /\ UNCHANGED <<cpu, runningThread>>
    \/ /\ total_thread = 1
       /\ cpu' = Nowhere
       /\ UNCHANGED <<runningThread, stuck>>

signal_handler ==
    /\ Alive
    /\ saved' = [saved EXCEPT ![runningThread] = cpu]
    /\ schedule(saved')
    /\ UNCHANGED <<enterTime, flag, total_thread, nodes>>

\* getcontext: the thread will go on from "leaving", which is setcontext to
\* the scheduler, so that whoever has yielded once yields whenever it runs.
my_pthread_yield ==
    /\ Alive
    /\ total_thread > 1
    /\ GoesOn("yield", "leaving")
    /\ saved' = [saved EXCEPT ![runningThread] = cpu']
    /\ UNCHANGED <<enterTime, flag, total_thread, nodes, runningThread, stuck>>

LeaveForScheduler ==
    /\ Alive
    /\ cpu.at = "leaving"
    /\ schedule(saved)
    /\ UNCHANGED <<enterTime, flag, total_thread, nodes, saved>>

\* A function that returns goes on with what node 0 holds: main.
Return ==
    /\ Alive
    /\ cpu.at = "return"
    /\ cpu' = saved[Main]
    /\ UNCHANGED <<enterTime, flag, total_thread, nodes, runningThread, saved, stuck>>

ClientStep ==
    \/ /\ Alive
       /\ test2
       /\ UNCHANGED <<total_thread, nodes, runningThread, saved, stuck>>
    \/ my_pthread_yield \/ LeaveForScheduler \/ Return

Ended == ~ Alive /\ UNCHANGED firstVars

Next == (Alive /\ (CountNode \/ LinkNode)) \/ signal_handler \/ ClientStep \/ Ended
-----------------------------------------------------------------------------
\* Every thread in the list has its turn again and again, on the timer alone,
\* unless the first tick cut insertNode between the count and the links.
RobinReachesAll ==
    \A i \in Threads :
        nodes >= i ~> runningThread = i \/ total_thread # nodes + 1
=============================================================================
