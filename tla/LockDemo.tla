------------------------------ MODULE LockDemo ------------------------------
(***************************************************************************)
(* test2 as the two earlier libraries run it (src/hw2/code/my_pthread_t.c  *)
(* and multiQ/test.c): count the arrival, lock, wait for everybody while   *)
(* holding the lock, unlock, return.  The increment is a load and a store. *)
(*                                                                         *)
(* cpu is the running context: whose function it is, where that stands and *)
(* what it has loaded.  A library call leaves it at "yield", "leaving" or  *)
(* "return", for the modules that extend this one to go on from.           *)
(***************************************************************************)
EXTENDS DemoSize

VARIABLES cpu, enterTime, flag

Threads == 1 .. NumThreads
Main    == 0

Start(t) == [who |-> t, at |-> "arrive", seen |-> 0]
InMain   == [who |-> Main, at |-> "main", seen |-> 0]

DemoInit == cpu = InMain /\ enterTime = 0 /\ flag = FALSE

GoesOn(from, to) == cpu.at = from /\ cpu' = [cpu EXCEPT !.at = to]

Load ==
    /\ cpu.at = "arrive"
    /\ cpu' = [cpu EXCEPT !.at = "arrived", !.seen = enterTime]
    /\ UNCHANGED <<enterTime, flag>>

Store ==
    /\ GoesOn("arrived", "lock")
    /\ enterTime' = cpu.seen + 1
    /\ UNCHANGED flag

\* __sync_lock_test_and_set; a thread that finds the flag set yields.
my_pthread_mutex_lock ==
    /\ \/ ~ flag /\ GoesOn("lock", "wait")
       \/ flag /\ GoesOn("lock", "yield")
    /\ flag' = TRUE
    /\ UNCHANGED enterTime

WaitForAll ==
    /\ enterTime >= EnterLimit
    /\ GoesOn("wait", "unlock")
    /\ UNCHANGED <<enterTime, flag>>

my_pthread_mutex_unlock ==
    /\ GoesOn("unlock", "return")
    /\ flag' = FALSE
    /\ UNCHANGED enterTime

test2 == Load \/ Store \/ my_pthread_mutex_lock \/ WaitForAll \/ my_pthread_mutex_unlock
=============================================================================
