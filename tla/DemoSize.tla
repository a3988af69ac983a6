------------------------------ MODULE DemoSize ------------------------------
(***************************************************************************)
(* The numbers written into the demo programs of the thread libraries and  *)
(* into the tests of labULT.                                               *)
(***************************************************************************)
EXTENDS Integers

CONSTANTS
    NumThreads,      \* threads that main creates; thread_num of test1
    EnterLimit       \* test2 waits for so many arrivals

ASSUME DemoAssumption ==
    /\ NumThreads \in Nat \ {0}
    /\ EnterLimit \in 1 .. NumThreads

CONSTANTS
    MaxThreads,      \* ULT_MAX_THREADS (1024)
    NumHello,        \* NTHREAD of basicThreadTests (10)
    NumPotato,       \* NPOTATO (10)
    LastQuiet        \* doPotato does not yield in the slots up to this one (4)

ASSUME ThreadTestsAssumption ==
    /\ MaxThreads \in Nat /\ NumHello \in Nat /\ NumPotato \in Nat \ {0}
    /\ NumHello + 1 < MaxThreads /\ NumPotato < MaxThreads
    /\ LastQuiet \in Nat
=============================================================================
