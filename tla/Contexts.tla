------------------------------ MODULE Contexts ------------------------------
(***************************************************************************)
(* Which machine context is saved where, and which one the processor loads *)
(* (src/hw2/code/multiQ/my_pthread_t.c).  There is one ucontext_t per      *)
(* thread and one for schedule(); scheduler.runningThread says into which  *)
(* of them my_pthread_yield and the SIGPROF handler save.                  *)
(*                                                                         *)
(* A context is abstracted to the place it resumes: a record [who, at].    *)
(* swapcontext and setcontext are the C library's: the first saves, then   *)
(* changes the signal mask, then loads; the second changes the mask, then  *)
(* loads.  A tick may fall between those steps (TickIn).                   *)
(*                                                                         *)
(* Priorities do not matter here: the ready threads form one FIFO queue.   *)
(* main() has created its threads when the behaviour starts.               *)
(***************************************************************************)
EXTENDS Integers, FiniteSets, SequencesExt

CONSTANTS
    Threads,
    Scheduler,   \* the identity of schedule_thread
    Main,        \* main(), which has no my_pthread_t of its own
    TickIn,      \* subset of {"swap", "restore"}: library code a tick may hit
    MainYields   \* does main() call my_pthread_yield (or spin in a join)?

ASSUME ContextsAssumption ==
    /\ Scheduler \notin Threads /\ Main \notin Threads /\ Main # Scheduler
    /\ IsFiniteSet(Threads)
    /\ TickIn \subseteq {"swap", "restore"}
    /\ MainYields \in BOOLEAN

VARIABLES
    cpu,            \* the place the processor is at
    saved,          \* _ucontext_t of every thread and of schedule_thread
    runningThread,
    ready,          \* the pending threads, oldest first
    exited,
    pending         \* a SIGPROF waits to be delivered

vars == <<cpu, saved, runningThread, ready, exited, pending>>

\* Places: a thread's (or main's) own code; the middle of its swapcontext;
\* the entry of schedule(); the middle of schedule()'s last setcontext; its end.
Place(p, where) == [who |-> p, at |-> where]
Entry == Place(Scheduler, "entry")

Init ==
    /\ cpu = Place(Main, "user")
    /\ saved = [p \in Threads \cup {Scheduler} |->
                  IF p = Scheduler THEN Entry ELSE Place(p, "user")]
    /\ runningThread = Scheduler
    /\ ready \in SetToSeqs(Threads)   \* in the order main() created them
    /\ exited = {}
    /\ pending = FALSE

-----------------------------------------------------------------------------
(* The timer.  An operator named X_Bug is X with the bug its name tells.   *)

Masked_Nowhere == {"finished"}

\* schedule() has SIGPROF in its signal mask; its setcontext takes it out
\* again before it loads the registers.
Masked == {"entry", "finished"}

Expire ==
    /\ ~ pending /\ cpu.at # "finished"
    /\ pending' = TRUE
    /\ UNCHANGED <<cpu, saved, runningThread, ready, exited>>

AfterHandler_SavesMain == [saved EXCEPT ![runningThread] = cpu]

\* The handler stores the interrupted context in runningThread, unless that
\* is schedule_thread.
AfterHandler ==
    IF runningThread = Scheduler THEN saved
    ELSE [saved EXCEPT ![runningThread] = cpu]

signal_handler ==
    /\ pending
    /\ cpu.at \notin Masked
    /\ cpu.at \in {"swap", "restore"} => cpu.at \in TickIn
    /\ saved' = AfterHandler
    /\ cpu' = saved[Scheduler]
    /\ pending' = FALSE
    /\ UNCHANGED <<runningThread, ready, exited>>

-----------------------------------------------------------------------------
(* Calls.                                                                  *)

\* my_pthread_yield, first half: swapcontext saves the caller's context in
\* runningThread, whoever the caller is.
my_pthread_yield(p) ==
    /\ cpu = Place(p, "user")
    /\ p = Main => MainYields
    /\ saved' = [saved EXCEPT ![runningThread] = cpu]
    /\ cpu' = Place(p, "swap")
    /\ UNCHANGED <<runningThread, ready, exited, pending>>

\* Second half: the scheduler's mask and registers are loaded.
FinishSwap ==
    /\ cpu.at = "swap"
    /\ cpu' = saved[Scheduler]
    /\ UNCHANGED <<saved, runningThread, ready, exited, pending>>

my_pthread_exit(t) ==
    /\ cpu = Place(t, "user")
    /\ exited' = exited \cup {t}
    /\ cpu' = saved[Scheduler]
    /\ UNCHANGED <<saved, runningThread, ready, pending>>

-----------------------------------------------------------------------------
(* schedule(), from its entry to its setcontext.                           *)

Requeued ==
    IF runningThread \in Threads \ exited THEN Append(ready, runningThread)
    ELSE ready

AfterPop == Tail(Requeued)

schedule ==
    /\ cpu = Entry
    /\ \/ /\ Requeued # <<>>
          /\ runningThread' = Head(Requeued)
          /\ ready' = AfterPop
          /\ cpu' = Place(Scheduler, "restore")
       \/ /\ Requeued = <<>>
          /\ cpu' = Place(Scheduler, "finished")
          /\ UNCHANGED <<runningThread, ready>>
    /\ UNCHANGED <<saved, exited, pending>>

\* A context saved in the middle of this setcontext brings the processor
\* back there, with the stack that schedule() has used since.
LoadRegisters ==
    /\ cpu.at = "restore"
    /\ cpu' = saved[runningThread]
    /\ UNCHANGED <<saved, runningThread, ready, exited, pending>>

Finished == cpu.at = "finished" /\ UNCHANGED vars

-----------------------------------------------------------------------------
LibraryStep == FinishSwap \/ schedule \/ LoadRegisters

Next ==
    \/ Expire
    \/ signal_handler
    \/ \E p \in Threads \cup {Main} : my_pthread_yield(p)
    \/ \E t \in Threads : my_pthread_exit(t)
    \/ LibraryStep
    \/ Finished

Spec == Init /\ [][Next]_vars

\* Library code runs on; the timer expires again and again, and a pending
\* tick is delivered once nothing masks it for good.
FairSpec ==
    Spec /\ WF_vars(LibraryStep) /\ WF_vars(Expire) /\ SF_vars(signal_handler)
-----------------------------------------------------------------------------
(* Properties.                                                             *)

TypeOK ==
    /\ cpu.who \in Threads \cup {Scheduler, Main}
    /\ cpu.at \in {"user", "swap", "entry", "restore", "finished"}
    /\ DOMAIN saved = Threads \cup {Scheduler}
    /\ runningThread \in Threads \cup {Scheduler}
    /\ ready \in Seq(Threads) /\ IsInjective(ready)
    /\ exited \subseteq Threads
    /\ pending \in BOOLEAN

\* "store the context of running thread" (my_pthread_t.c:492): the context
\* saved for a thread always resumes that thread.
ContextKept == \A t \in Threads : saved[t].who = t

\* The processor never runs a thread other than runningThread, and what it
\* loads for the scheduler is the entry of schedule().
RightThreadRuns ==
    /\ cpu.who \in Threads => cpu.who = runningThread
    /\ saved[Scheduler] = Entry

\* "the current context be swapped out and another be scheduled"
\* (my_pthread_t.c:290-291): after a yield, main()'s included, another one runs.
AnotherScheduled ==
    cpu = Place(Main, "swap") ~> \E t \in Threads : cpu = Place(t, "user")
=============================================================================
