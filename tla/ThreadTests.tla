---------------------------- MODULE ThreadTests -----------------------------
(***************************************************************************)
(* The tests of src/hw2/labULT, basicThreadTests.c, as doTest.c and        *)
(* doTest2.c run them, over an assumed library.  The functions of ULT.c    *)
(* (14-35) are stubs that assert 0: as committed the tests end at their    *)
(* first call, as module Signals shows.  The library here is what ULT.h    *)
(* and the tests leave open: ULT_ANY may choose any other thread, a thread *)
(* that ends may be followed by any.                                       *)
(*                                                                         *)
(* doTest2.c has registered the handler of the alarm before its tests: a   *)
(* tick may switch threads between any two steps.  A tick amid             *)
(* basicThreadTests makes some of its assertions fail, and ends the tests. *)
(***************************************************************************)
EXTENDS DemoSize, Sequences

VARIABLES
    tests,        \* "doTest" or "doTest2"
    runner,       \* the thread that runs, or Nobody when the process has ended
    body,         \* the function of each thread; "none" where there is no thread
    line,         \* the statement each thread is at
    slot,         \* the argument of doPotato
    made,         \* main's ret, children and ret: the threads it keeps the Tid of
    posix_mutex,  \* is locked
    flagVal,
    potato,
    failed        \* an assertion has failed

threads  == <<body, line, slot, made>>
shared   == <<posix_mutex, flagVal, potato>>
testVars == <<tests, runner, threads, shared, failed>>

Tids       == 0 .. MaxThreads - 1
Slots      == 0 .. NumPotato - 1
ULT_ANY    == -1
ULT_SELF   == -2
ULT_INVALID == -3
ULT_NONE   == -4
ULT_NOMORE == -5
Nobody     == -1

-----------------------------------------------------------------------------
(* The programs: statements, the values their assertions let them return,  *)
(* and, of the calls that take a Tid, the Tid or its place in `made'.      *)

Call(f, tid, ok)   == [call |-> f, tid |-> tid, of |-> 0, ok |-> ok]
CallOf(f, k, ok)   == [call |-> f, tid |-> ULT_ANY, of |-> k, ok |-> ok]
ULT_isOKRet        == Tids
Unasserted         == Tids \cup {ULT_INVALID, ULT_NONE, ULT_NOMORE}
Times(n, s)        == [i \in 1 .. n |-> s]

NoSuch  == MaxThreads + 1000
Unused  == MaxThreads - 1   \* 16 and 42
FullUp  == Times(MaxThreads - 1, Call("create fact", 0, ULT_isOKRet))
RunAll(first) == [i \in 1 .. MaxThreads |->
                    Call("yield", i - 1, IF i = 1 THEN first ELSE Unasserted)]

basicThreadTests ==
    <<Call("yield", ULT_SELF, ULT_isOKRet), Call("yield", 0, ULT_isOKRet),
      Call("yield", ULT_ANY, {ULT_NONE}), Call("yield", NoSuch, {ULT_INVALID}),
      Call("yield", Unused, {ULT_INVALID}),
      Call("create hello", 0, ULT_isOKRet), CallOf("yield", 1, ULT_isOKRet)>>
    \o Times(NumHello, Call("create hello", 0, ULT_isOKRet))
    \o [i \in 1 .. NumHello |-> CallOf("yield", 1 + i, ULT_isOKRet)]
    \o [i \in 1 .. NumHello + 1 |-> CallOf("destroy", i, ULT_isOKRet)]
    \o FullUp \o <<Call("create fact", 0, {ULT_NOMORE})>> \o RunAll(ULT_isOKRet)
    \o FullUp \o Times((MaxThreads + 1) \div 2, Call("destroy", ULT_ANY, ULT_isOKRet))
    \o RunAll(Unasserted)
    \o <<Call("destroy", ULT_ANY, {ULT_NONE}), Call("destroy", Unused, {ULT_INVALID}),
         Call("destroy", NoSuch, {ULT_INVALID}),
         Call("setFlag", 0, Unasserted), Call("create suicide", 0, ULT_isOKRet),
         CallOf("yield", NumHello + 2, ULT_isOKRet), Call("setFlag", 0, {1}),
         CallOf("yield", NumHello + 2, {ULT_INVALID})>>

\* assert(0) behind a call that does not return.
grandFinale == <<Call("create finale", 0, ULT_isOKRet), Call("destroy", ULT_SELF, {})>>

preemptiveTests ==
    <<Call("serve", 0, Unasserted)>>
    \o Times(NumPotato, Call("create doPotato", 0, ULT_isOKRet))
    \o <<Call("spin", 0, Unasserted)>>
    \o Times(NumPotato, Call("destroy", ULT_ANY, ULT_isOKRet))

hello   == Times(2, Call("yield", ULT_SELF, ULT_isOKRet)) \o <<Call("yield", ULT_ANY, Unasserted)>>
suicide == <<Call("setFlag", 1, {0}), Call("destroy", ULT_SELF, {})>>
finale  == Times(2, Call("yield", ULT_ANY, {ULT_NONE}))

\* The higher slots yield some times between two tries.
doPotato(i) ==
    <<Call("alarmIsEnabled", 0, {1}), Call("lock", 0, Unasserted), Call("take", 0, Unasserted),
      Call("pass", 0, Unasserted), Call("unlock", 0, Unasserted)>>
    \o Times(IF i > LastQuiet THEN i - LastQuiet ELSE 0, Call("yield", ULT_ANY, ULT_isOKRet))

Code(t) ==
    CASE body[t] = "main"     -> basicThreadTests \o (IF tests = "doTest" THEN grandFinale ELSE preemptiveTests)
      [] body[t] = "hello"    -> hello
      [] body[t] = "suicide"  -> suicide
      [] body[t] = "finale"   -> finale
      [] body[t] = "doPotato" -> doPotato(slot[t])
      [] body[t] = "fact"     -> <<>>

Statement(t) == Code(t)[line[t]]
AtCall(t, f) == runner = t /\ ~ failed /\ line[t] \in DOMAIN Code(t) /\ Statement(t).call = f

\* The thread has the result r of its call and goes on; hello starts over.
Goes(t, r) ==
    /\ failed' = (r \notin Statement(t).ok)
    /\ line' = IF body[t] = "hello" /\ line[t] = Len(hello) THEN line
               ELSE IF body[t] = "doPotato" /\ line[t] = Len(Code(t)) THEN [line EXCEPT ![t] = 1]
               ELSE [line EXCEPT ![t] = line[t] + 1]

-----------------------------------------------------------------------------
(* The library.                                                            *)

Alive == {t \in Tids : body[t] # "none"}

Target(t) == IF Statement(t).of = 0 THEN Statement(t).tid ELSE made[Statement(t).of]

\* The threads that a Tid or a control code may stand for.
Meant(t) ==
    CASE Target(t) = ULT_SELF -> {t}
      [] Target(t) = ULT_ANY  -> Alive \ {t}
      [] OTHER                -> {Target(t)} \cap Alive

NobodyMeant(t) == IF Target(t) = ULT_ANY THEN ULT_NONE ELSE ULT_INVALID

\* The caller learns who took over when it runs again.
ULT_Yield(t) ==
    /\ AtCall(t, "yield")
    /\ \/ \E u \in Meant(t) : runner' = u /\ Goes(t, u)
       \/ Meant(t) = {} /\ Goes(t, NobodyMeant(t)) /\ UNCHANGED runner
    /\ UNCHANGED <<tests, body, slot, made, shared>>

\* Another thread runs when one ends, and the process ends with its last one.
Successor(u) ==
    IF Alive = {u} THEN runner' = Nobody ELSE runner' \in Alive \ {u}

Ends(u) == body' = [body EXCEPT ![u] = "none"] /\ slot' = [slot EXCEPT ![u] = 0]

ULT_DestroyThread(t) ==
    /\ AtCall(t, "destroy")
    /\ \/ t \in Meant(t) /\ Ends(t) /\ Successor(t) /\ UNCHANGED <<line, failed>>
       \/ \E u \in Meant(t) \ {t} : Ends(u) /\ Goes(t, u) /\ UNCHANGED runner
       \/ Meant(t) = {} /\ Goes(t, NobodyMeant(t)) /\ UNCHANGED <<body, slot, runner>>
    /\ UNCHANGED <<tests, made, shared>>

Creates == [fact |-> "create fact", hello |-> "create hello", suicide |-> "create suicide",
            finale |-> "create finale", doPotato |-> "create doPotato"]

\* main keeps the Tids of the threads it will ask for by name.
ULT_CreateThread(t, f) ==
    /\ AtCall(t, Creates[f])
    /\ \/ \E u \in Tids \ Alive :
            /\ body' = [body EXCEPT ![u] = f]
            /\ failed' = (u \notin Statement(t).ok)
            /\ line' = [line EXCEPT ![t] = line[t] + 1, ![u] = 1]
            /\ slot' = IF f = "doPotato"
                       THEN [slot EXCEPT ![u] = line[t] - Len(basicThreadTests) - 2] ELSE slot
            /\ made' = IF f \in {"hello", "suicide"} THEN Append(made, u) ELSE made
       \/ Alive = Tids /\ Goes(t, ULT_NOMORE) /\ UNCHANGED <<body, slot, made>>
    /\ UNCHANGED <<tests, runner, shared>>

\* A function returns to the stub that destroys its thread; main to exit().
Return(t) ==
    /\ runner = t /\ ~ failed
    /\ line[t] \notin DOMAIN Code(t)
    /\ \/ body[t] = "main" /\ runner' = Nobody /\ UNCHANGED <<body, slot>>
       \/ body[t] # "main" /\ Ends(t) /\ Successor(t)
    /\ UNCHANGED <<tests, line, made, shared, failed>>

\* The handler of doTest2.c yields.
Tick ==
    /\ tests = "doTest2" /\ ~ failed
    /\ \E u \in Alive \ {runner} : runner' = u
    /\ runner # Nobody
    /\ UNCHANGED <<tests, threads, shared, failed>>

-----------------------------------------------------------------------------
(* What the tests share.                                                   *)

\* In its critical section it does nothing another thread could disturb.
setFlag(t) ==
    /\ AtCall(t, "setFlag")
    /\ ~ posix_mutex
    /\ flagVal' = Statement(t).tid
    /\ Goes(t, flagVal)
    /\ UNCHANGED <<tests, runner, body, slot, made, posix_mutex, potato>>

\* preemptiveTests gives the potato to slot 0.
Serve(t) ==
    /\ AtCall(t, "serve")
    /\ potato' = [i \in Slots |-> IF i = 0 THEN 1 ELSE 0]
    /\ Goes(t, 0)
    /\ UNCHANGED <<tests, runner, body, slot, made, posix_mutex, flagVal>>

\* For as long as it takes.
spin(t) ==
    /\ AtCall(t, "spin")
    /\ Goes(t, 0)
    /\ UNCHANGED <<tests, runner, body, slot, made, shared>>

\* Only the handler runs with the alarm masked, and the thread that it resumes
\* has its own mask again.
alarmIsEnabled(t) ==
    /\ AtCall(t, "alarmIsEnabled")
    /\ Goes(t, 1)
    /\ UNCHANGED <<tests, runner, body, slot, made, shared>>

Lock_WhetherFree(t) == AtCall(t, "lock") /\ posix_mutex' = TRUE /\ Goes(t, 0) /\ UNCHANGED potato

\* A thread that finds the mutex locked waits in the kernel, and with it the
\* process, until a tick switches to another thread.
Lock(t) ==
    /\ AtCall(t, "lock")
    /\ ~ posix_mutex /\ posix_mutex' = TRUE
    /\ Goes(t, 0)
    /\ UNCHANGED potato

\* The potato is taken from this slot and then put into the next.
Take(t) ==
    /\ AtCall(t, "take")
    /\ \/ potato[slot[t]] = 1 /\ potato' = [potato EXCEPT ![slot[t]] = 0] /\ Goes(t, 0)
       \/ /\ potato[slot[t]] = 0
          /\ line' = [line EXCEPT ![t] = line[t] + 2]
          /\ UNCHANGED <<potato, failed>>
    /\ UNCHANGED posix_mutex

Pass(t) ==
    /\ AtCall(t, "pass")
    /\ potato' = [potato EXCEPT ![(slot[t] + 1) % NumPotato] = 1]
    /\ Goes(t, 0)
    /\ UNCHANGED posix_mutex

Unlock(t) ==
    /\ AtCall(t, "unlock")
    /\ posix_mutex' = FALSE
    /\ Goes(t, 0)
    /\ UNCHANGED potato

tryMovePotato(t) ==
    /\ Lock(t) \/ Take(t) \/ Pass(t) \/ Unlock(t)
    /\ UNCHANGED <<tests, runner, body, slot, made, flagVal>>

-----------------------------------------------------------------------------
InitTests ==
    /\ tests \in {"doTest", "doTest2"}
    /\ runner = 0
    /\ body = [t \in Tids |-> IF t = 0 THEN "main" ELSE "none"]
    /\ line = [t \in Tids |-> 1]
    /\ slot = [t \in Tids |-> 0]
    /\ made = <<>>
    /\ posix_mutex = FALSE /\ flagVal = 0 /\ potato = [i \in Slots |-> 0]
    /\ failed = FALSE

Over == (failed \/ runner = Nobody) /\ UNCHANGED testVars

NextTests ==
    \/ \E t \in Alive :
         \/ ULT_Yield(t) \/ ULT_DestroyThread(t) \/ \E f \in DOMAIN Creates : ULT_CreateThread(t, f)
         \/ Return(t) \/ setFlag(t) \/ Serve(t) \/ spin(t)
         \/ alarmIsEnabled(t) \/ tryMovePotato(t)
    \/ Tick \/ Over

-----------------------------------------------------------------------------
Served == tests = "doTest2" /\ line[0] > Len(basicThreadTests) + 1

Hot == {i \in Slots : potato[i] = 1}

\* Wherever a tick takes a thread from the processor, amid the moves of the
\* potato too, no two slots have it, and while nobody holds the posix mutex one
\* has: the take and the put (basicThreadTests.c:374-375) are two steps, and
\* only the mutex keeps the other threads from looking in between.
OnePotato ==
    Served => /\ \A i, j \in Hot : i = j
              /\ ~ posix_mutex => Hot # {}
=============================================================================
