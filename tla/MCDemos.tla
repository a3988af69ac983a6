------------------------------ MODULE MCDemos -------------------------------
(***************************************************************************)
(* Each version of the thread library under the demo program of its main(),*)
(* the experiments with signals, and the tests of labULT: `version' says   *)
(* which a behaviour is of.                                                *)
(***************************************************************************)
EXTENDS Clients

CONSTANT QUEUELEVEL

ASSUME QueuesAssumption == QUEUELEVEL \in Nat \ {0}

VARIABLES
    version,
    \* FirstLibrary and EarlierQueues
    cpu, enterTime, flag, total_thread, saved,
    nodes, stuck,
    pendingThreadQueue, total_pendingThread, state, priority, returned, over,
    \* Signals
    experiment, at, interrupted, hasBeenCalled, blocked, pending, alarmed, helper,
    \* ThreadTests
    tests, runner, body, line, slot, made, posix_mutex, flagVal, potato, failed

onlyClients == <<program, times, pc, register, locked, lost>>
onlyFirst   == <<nodes, stuck>>
onlyQueues  == <<pendingThreadQueue, total_pendingThread, state, priority, returned, over>>
earlier     == <<cpu, enterTime, flag, total_thread, saved>>
signals     == <<experiment, at, interrupted, hasBeenCalled, blocked, pending,
                 alarmed, helper>>
libraries   == <<onlyClients, onlyFirst, onlyQueues, earlier, runningThread>>
labULT      == <<tests, runner, body, line, slot, made, posix_mutex, flagVal, potato,
                 failed>>
vars == <<version, libraries, signals, labULT>>

First   == INSTANCE FirstLibrary
Queues  == INSTANCE EarlierQueues
Trials  == INSTANCE Signals
Tests   == INSTANCE ThreadTests

\* What the variables of the versions that do not run hold.
NoClients == /\ program = "none" /\ times = 0 /\ pc = <<>> /\ register = <<>>
             /\ locked = FALSE /\ lost = TRUE
NoFirst   == nodes = 0 /\ stuck = FALSE
NoQueues  == /\ pendingThreadQueue = <<>> /\ total_pendingThread = 0 /\ state = <<>>
             /\ priority = <<>> /\ returned = {} /\ over = "unused"
NoEarlier == /\ cpu = <<>> /\ enterTime = 0 /\ flag = FALSE
             /\ total_thread = 0 /\ saved = <<>>
NoSignals == /\ experiment = "none" /\ at = "done" /\ interrupted = "nowhere"
             /\ hasBeenCalled = FALSE /\ blocked = FALSE /\ pending = {}
             /\ alarmed = FALSE /\ helper = "none"

NoTests   == /\ tests = "none" /\ runner = 0 /\ body = <<>> /\ line = <<>> /\ slot = <<>>
             /\ made = <<>> /\ posix_mutex = FALSE /\ flagVal = 0 /\ potato = <<>>
             /\ failed = FALSE

NoLibrary == NoClients /\ NoFirst /\ NoQueues /\ NoEarlier /\ runningThread = 0

Init ==
    \/ /\ version = "current" /\ InitClients
       /\ NoFirst /\ NoQueues /\ NoEarlier /\ NoSignals /\ NoTests
    \/ version = "first"   /\ First!Init /\ NoClients /\ NoQueues /\ NoSignals /\ NoTests
    \/ version = "queues"  /\ Queues!Init /\ NoClients /\ NoFirst /\ NoSignals /\ NoTests
    \/ version = "signals" /\ Trials!InitSignals /\ NoLibrary /\ NoTests
    \/ version = "tests"   /\ Tests!InitTests /\ NoLibrary /\ NoSignals

Next ==
    /\ \/ /\ version = "current" /\ NextClients
          /\ UNCHANGED <<onlyFirst, onlyQueues, earlier, signals, labULT>>
       \/ version = "first"   /\ First!Next /\ UNCHANGED <<onlyClients, onlyQueues, signals, labULT>>
       \/ version = "queues"  /\ Queues!Next /\ UNCHANGED <<onlyClients, onlyFirst, signals, labULT>>
       \/ version = "signals" /\ Trials!NextSignals /\ UNCHANGED <<libraries, labULT>>
       \/ version = "tests"   /\ Tests!NextTests /\ UNCHANGED <<libraries, signals>>
    /\ UNCHANGED version

\* The timer never stops; the current library schedules every thread; a process
\* runs, and its alarm expires.
Fairness ==
    /\ \A t \in 0 .. NumThreads - 1 :
         /\ SF_vars(version = "current" /\ Switch(t)
                        /\ UNCHANGED <<version, onlyFirst, onlyQueues, earlier, signals, labULT>>)
         /\ SF_vars(version = "current" /\ (test1(t) \/ test2(t))
                        /\ UNCHANGED <<version, onlyFirst, onlyQueues, earlier, signals, labULT>>)
    /\ WF_vars(version = "first" /\ First!signal_handler
                        /\ UNCHANGED <<version, onlyClients, onlyQueues, signals, labULT>>)
    /\ WF_vars(version = "signals" /\ (Trials!Process \/ Trials!Deliver)
                        /\ UNCHANGED <<version, libraries, labULT>>)
    /\ WF_vars(version = "signals" /\ Trials!Expire /\ UNCHANGED <<version, libraries, labULT>>)

Spec == Init /\ [][Next]_vars /\ Fairness

RobinReachesAll == First!RobinReachesAll
StaysQueued     == Queues!StaysQueued
OnePotato       == version = "tests" => Tests!OnePotato
GoesOn          == version = "signals" => Trials!GoesOn
=============================================================================
