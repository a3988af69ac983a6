------------------------------ MODULE Startup ------------------------------
(***************************************************************************)
(* The start of a program on the thread library, with my_pthread_create    *)
(* and multiQueue_push taken statement by statement and the ready queues   *)
(* as the linked lists they are (src/hw2/code/multiQ/my_pthread_t.c).      *)
(*                                                                         *)
(* The handler saves no context for main(): the first tick abandons it     *)
(* wherever it stands, in the middle of a push included, and schedule()    *)
(* goes on with the lists as they are.  Later pushes and pops are made by  *)
(* schedule() with SIGPROF blocked and are single steps.  Module Scheduler *)
(* takes the first tick between two creates only; this module shows that   *)
(* its sequences are then what the lists hold, and what happens otherwise. *)
(***************************************************************************)
EXTENDS Integers, FiniteSets, Sequences

CONSTANTS
    NumThreads,   \* how many threads main() creates
    QUEUELEVEL    \* priority levels

ASSUME StartupAssumption ==
    /\ NumThreads \in Nat \ {0}
    /\ QUEUELEVEL \in Nat \ {0}

Threads == 0 .. NumThreads - 1
Levels  == 0 .. QUEUELEVEL - 1
NoThread == -1

\* A list cell: the sentinel of level l, which is queue[l]->head, is called l;
\* the nodes that multiQueue_push allocates follow.  The code never frees a
\* node, so a node that nothing points to any more may stand for a new one.
Nodes == QUEUELEVEL .. 2 * QUEUELEVEL + NumThreads
Cells == Levels \cup Nodes
Nil   == -1

VARIABLES
    context,             \* which code runs: "main", "thread", "schedule" ...
    step,                \* main()'s place inside start() and my_pthread_create; kept once main() is left
    runningThread,
    total_thread,
    state,
    priority,
    hasTable,            \* the thread's page table has been allocated
    next,                \* Node.next, and head->next for a sentinel
    thread,              \* Node.thread
    tail,                \* Queue.tail
    total_pendingThread

listVars == <<next, thread, tail, total_pendingThread>>
vars == <<context, step, runningThread, total_thread, state, priority,
          hasTable, listVars>>

Last == total_thread - 1   \* the thread main() is creating

\* malloc: a node that no chain from a sentinel or a tail reaches.
NewNode ==
    LET reach[k \in 0 .. Cardinality(Nodes)] ==
          IF k = 0 THEN Levels \cup {tail[l] : l \in Levels}
          ELSE reach[k - 1] \cup {next[c] : c \in reach[k - 1] \ {Nil}}
        free == Nodes \ reach[Cardinality(Nodes)]
    IN  CHOOSE n \in free : \A m \in free : n <= m

\* scheduler_init and threadQueue_init have run.
Init ==
    /\ context = "main"
    /\ step = "unarmed"
    /\ runningThread = NoThread
    /\ total_thread = 0
    /\ state = [t \in Threads |-> "NEW"]
    /\ priority = [t \in Threads |-> QUEUELEVEL - 1]
    /\ hasTable = [t \in Threads |-> FALSE]
    /\ next = [c \in Cells |-> Nil]
    /\ thread = [n \in Nodes |-> NoThread]
    /\ tail = [l \in Levels |-> l]
    /\ total_pendingThread = 0

-----------------------------------------------------------------------------
(* multiQueue_push in three statements, and multiQueue_pop.  An operator   *)
(* named X_Bug is X with the bug its name tells; nothing uses it.          *)

LinkNode(t, l, node) ==
    /\ thread' = [thread EXCEPT ![node] = t]
    /\ next' = [next EXCEPT ![node] = Nil, ![tail[l]] = node]

MoveTail(l, node) == tail' = [tail EXCEPT ![l] = node]

CountPush == total_pendingThread' = total_pendingThread + 1

\* schedule() pushes with SIGPROF blocked: the whole of multiQueue_push.
multiQueue_push(t) ==
    LET node == NewNode
    IN  /\ LinkNode(t, priority[t], node)
        /\ MoveTail(priority[t], node)
        /\ CountPush

TailAfterPop_Kept(l, node) == tail

TailAfterPop(l, node) == IF tail[l] = node THEN [tail EXCEPT ![l] = l] ELSE tail

IsTopLevel(l) == next[l] # Nil /\ \A k \in Levels : k > l => next[k] = Nil

multiQueue_pop_Uncounted(l) ==
    /\ IsTopLevel(l)
    /\ next' = [next EXCEPT ![l] = next[next[l]]]
    /\ tail' = TailAfterPop(l, next[l])
    /\ UNCHANGED <<thread, total_pendingThread>>

multiQueue_pop(l) ==
    /\ IsTopLevel(l)
    /\ next' = [next EXCEPT ![l] = next[next[l]]]
    /\ tail' = TailAfterPop(l, next[l])
    /\ total_pendingThread' = total_pendingThread - 1
    /\ UNCHANGED thread

SomethingPending_MoreThanOne == total_pendingThread > 1

SomethingPending == total_pendingThread > 0

-----------------------------------------------------------------------------
(* main(): start() and my_pthread_create, one action per statement that a  *)
(* tick may separate from the next.                                        *)

InMain(from, to) ==
    /\ context = "main"
    /\ step = from
    /\ step' = to

\* From here on a tick may come, although the memory is not there yet.
signal_init ==
    /\ InMain("unarmed", "armed")
    /\ UNCHANGED <<context, runningThread, total_thread, state, priority,
                   hasTable, listVars>>

\* "hardDrive" is opened for update only: without it fseek takes a NULL.
file_init ==
    /\ \/ InMain("armed", "files") /\ UNCHANGED context
       \/ InMain("armed", "armed") /\ context' = "crashed"
    /\ UNCHANGED <<runningThread, total_thread, state, priority, hasTable, listVars>>

mem_init ==
    /\ InMain("files", "between")
    /\ UNCHANGED <<context, runningThread, total_thread, state, priority,
                   hasTable, listVars>>

Register ==
    /\ InMain("between", "registered")
    /\ total_thread < NumThreads
    /\ total_thread' = total_thread + 1
    /\ state' = [state EXCEPT ![total_thread] = "READY"]
    /\ priority' = [priority EXCEPT ![total_thread] = QUEUELEVEL - 1]
    /\ UNCHANGED <<context, runningThread, hasTable, listVars>>

Link ==
    /\ InMain("registered", "linked")
    /\ LinkNode(Last, priority[Last], NewNode)
    /\ UNCHANGED <<context, runningThread, total_thread, state, priority,
                   hasTable, tail, total_pendingThread>>

AdvanceTail ==
    /\ InMain("linked", "appended")
    /\ MoveTail(priority[Last], next[tail[priority[Last]]])
    /\ UNCHANGED <<context, runningThread, total_thread, state, priority,
                   hasTable, next, thread, total_pendingThread>>

Count ==
    /\ InMain("appended", "pushed")
    /\ CountPush
    /\ UNCHANGED <<context, runningThread, total_thread, state, priority,
                   hasTable, next, thread, tail>>

GetPageTable ==
    /\ InMain("pushed", "between")
    /\ hasTable' = [hasTable EXCEPT ![Last] = TRUE]
    /\ UNCHANGED <<context, runningThread, total_thread, state, priority, listVars>>

MainTick ==
    /\ context = "main" /\ step # "unarmed"
    /\ context' = "schedule"
    /\ UNCHANGED <<step, runningThread, total_thread, state, priority,
                   hasTable, listVars>>

-----------------------------------------------------------------------------
(* Afterwards: a thread runs until a tick, a yield or its exit brings      *)
(* schedule() in.                                                          *)

LeaveThread(t) ==
    /\ context = "thread" /\ runningThread = t
    /\ context' = "schedule"
    /\ UNCHANGED <<step, runningThread, total_thread, hasTable, listVars>>

signal_handler(t) ==
    /\ LeaveThread(t)
    /\ state' = [state EXCEPT ![t] = "READY"]
    /\ priority' = [priority EXCEPT ![t] = IF @ >= 1 THEN @ - 1 ELSE @]

my_pthread_yield(t) == LeaveThread(t) /\ UNCHANGED <<state, priority>>

my_pthread_exit(t) ==
    /\ LeaveThread(t)
    /\ state' = [state EXCEPT ![t] = "TERMINATED"]
    /\ UNCHANGED priority

HandleRunningThread ==
    /\ context = "schedule"
    /\ IF runningThread # NoThread /\ state[runningThread] # "TERMINATED"
       THEN /\ state' = [state EXCEPT ![runningThread] = "READY"]
            /\ multiQueue_push(runningThread)
       ELSE UNCHANGED <<state, listVars>>
    /\ context' = "pick"
    /\ UNCHANGED <<step, runningThread, total_thread, priority, hasTable>>

\* page_protect(0) follows the page table of the next thread: without one the
\* entries are whatever was in main()'s stack, and it may crash or may not.
Dispatch ==
    /\ context = "pick"
    /\ SomethingPending
    /\ \E l \in Levels :
          /\ multiQueue_pop(l)
          /\ runningThread' = thread[next[l]]
    /\ state' = [state EXCEPT ![runningThread'] = "RUNNING"]
    /\ \/ context' = "thread"
       \/ context' = "crashed" /\ ~ hasTable[runningThread']
    /\ UNCHANGED <<step, total_thread, priority, hasTable>>

FinishAll ==
    /\ context = "pick"
    /\ ~ SomethingPending
    /\ context' = "finished"
    /\ UNCHANGED <<step, runningThread, total_thread, state, priority,
                   hasTable, listVars>>

Over == context \in {"finished", "crashed"} /\ UNCHANGED vars

-----------------------------------------------------------------------------
Start  == signal_init \/ file_init \/ mem_init
Create == Register \/ Link \/ AdvanceTail \/ Count \/ GetPageTable

Next ==
    \/ Start
    \/ Create
    \/ MainTick
    \/ \E t \in Threads : signal_handler(t) \/ my_pthread_yield(t) \/ my_pthread_exit(t)
    \/ HandleRunningThread
    \/ Dispatch
    \/ FinishAll
    \/ Over

Spec == Init /\ [][Next]_vars
-----------------------------------------------------------------------------
(* Properties.                                                             *)

TypeOK ==
    /\ context \in {"main", "thread", "schedule", "pick", "finished", "crashed"}
    /\ step \in {"unarmed", "armed", "files",
                "between", "registered", "linked", "appended", "pushed"}
    /\ runningThread \in Threads \cup {NoThread}
    /\ total_thread \in 0 .. NumThreads
    /\ state \in [Threads -> {"NEW", "READY", "RUNNING", "TERMINATED"}]
    /\ priority \in [Threads -> Levels]
    /\ hasTable \in [Threads -> BOOLEAN]
    /\ next \in [Cells -> Nodes \cup {Nil}]
    /\ thread \in [Nodes -> Threads \cup {NoThread}]
    /\ tail \in [Levels -> Cells]
    /\ total_pendingThread \in 0 .. NumThreads

\* What the list of a level holds, from the node after the sentinel on.
Contents(l) ==
    LET from[k \in 0 .. Cardinality(Nodes)] ==
          [c \in Nodes \cup {Nil} |->
             IF c = Nil \/ k = 0 THEN <<>> ELSE <<thread[c]>> \o from[k - 1][next[c]]]
    IN  from[Cardinality(Nodes)][next[l]]

\* A push cut off before its count leaves the count one short for ever.
Queues == INSTANCE FifoQueues WITH
    Thread <- Threads, Level <- Levels,
    queue  <- [l \in Levels |-> Contents(l)],
    count  <- total_pendingThread + (IF step \in {"linked", "appended"} THEN 1 ELSE 0)

TailBehind == context # "main" /\ step = "linked"

\* The linked lists implement FIFO queues, whatever the order of pushes and
\* pops: what is pushed onto an emptied list is found at its head again.
\* Only a tick between the two pointer updates of main()'s push breaks them.
ListsAreQueues == Queues!Init /\ [][TailBehind \/ Queues!Next]_(Queues!fifoVars)

\* Even with a push cut off in its middle, the count never exceeds the number
\* of threads in the lists, so schedule() pops no empty list (it would
\* dereference NULL).
CountCovered ==
    context # "main" =>
      total_pendingThread <= Cardinality({t \in Threads :
          \E l \in Levels : \E i \in DOMAIN Contents(l) : Contents(l)[i] = t})

\* A create that the first tick cuts off costs at most one thread its run; if
\* the tick falls between two creates, every thread has exited in the end.
AtMostOneLost ==
    context = "finished" =>
      Cardinality({t \in Threads : state[t] \in {"READY", "RUNNING"}})
        <= IF step = "between" THEN 0 ELSE 1

\* "finish all schedule" (my_pthread_t.c:473): a thread whose my_pthread_create
\* returned has exited when schedule() says so.
AllScheduled ==
    context = "finished" => \A t \in Threads : hasTable[t] => state[t] = "TERMINATED"
=============================================================================
