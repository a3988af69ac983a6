--------------------------- MODULE ContextsProofs ---------------------------
(***************************************************************************)
(* Contexts are kept for any number of threads, provided no tick waits for *)
(* schedule() to unmask it ("restore") and main() does not yield.  The     *)
(* run of MCContexts_restore.cfg shows what becomes of a thread's context  *)
(* without the first of the two hypotheses.                                *)
(***************************************************************************)
EXTENDS Contexts, FiniteSetTheorems, TLAPS

\* Where the processor can be, given runningThread.
CpuPlace ==
    \/ cpu = Place(Main, "user") /\ runningThread = Scheduler
    \/ /\ runningThread \in Threads
       /\ cpu \in {Place(runningThread, "user"), Place(runningThread, "swap"),
                   Place(Scheduler, "restore")}
    \/ cpu = Entry
    \/ cpu = Place(Scheduler, "finished")

\* The inductive invariant: a thread's context resumes its own code or the
\* middle of its own yield, and the scheduler's is never overwritten.
IInv ==
    /\ runningThread \in Threads \cup {Scheduler}
    /\ ready \in Seq(Threads)
    /\ DOMAIN saved = Threads \cup {Scheduler}
    /\ saved[Scheduler] = Entry
    /\ \A t \in Threads : saved[t] \in {Place(t, "user"), Place(t, "swap")}
    /\ CpuPlace

\* The inductive invariant holds when main() has created its threads.
LEMMA InvInit == Init => IInv
  <1>. SUFFICES ASSUME Init PROVE IInv
    OBVIOUS
  <1>1. ready \in Seq(Threads)
    <2>1. PICK n : n = Cardinality(Threads)
      OBVIOUS
    <2>2. n \in Nat
      BY <2>1, ContextsAssumption, FS_CardinalityType
    <2>3. ready \in [1 .. n -> Threads]
      BY <2>1 DEF Init, SetToSeqs
    <2>. QED
      BY <2>2, <2>3
  <1>. QED
    BY <1>1, ContextsAssumption DEF Init, IInv, CpuPlace, Entry, Place

\* Every step keeps it, if no tick falls into schedule()'s setcontext and
\* main() does not yield.
LEMMA InvStep ==
  ASSUME "restore" \notin TickIn, MainYields = FALSE, IInv, [Next]_vars
  PROVE  IInv'
  <1>. USE ContextsAssumption DEF Place, Entry
  <1>1. CASE Expire
    BY <1>1 DEF Expire, IInv, CpuPlace
  <1>2. CASE signal_handler
    <2>1. \/ cpu = Place(Main, "user") /\ runningThread = Scheduler
          \/ /\ runningThread \in Threads
             /\ cpu \in {Place(runningThread, "user"), Place(runningThread, "swap")}
      BY <1>2 DEF signal_handler, Masked, IInv, CpuPlace
    <2>2. saved' = [saved EXCEPT ![runningThread] = cpu] \/ saved' = saved
      BY <1>2 DEF signal_handler, AfterHandler
    <2>3. runningThread = Scheduler => saved' = saved
      BY <1>2 DEF signal_handler, AfterHandler
    <2>4. cpu' = Entry
      BY <1>2 DEF signal_handler, IInv
    <2>. QED
      BY <1>2, <2>1, <2>2, <2>3, <2>4 DEF signal_handler, IInv, CpuPlace
  <1>3. ASSUME NEW p \in Threads \cup {Main}, my_pthread_yield(p)
        PROVE  IInv'
    <2>1. p \in Threads /\ runningThread = p
      BY <1>3 DEF my_pthread_yield, IInv, CpuPlace
    <2>. QED
      BY <1>3, <2>1 DEF my_pthread_yield, IInv, CpuPlace
  <1>4. ASSUME NEW t \in Threads, my_pthread_exit(t)
        PROVE  IInv'
    BY <1>4 DEF my_pthread_exit, IInv, CpuPlace
  <1>5. CASE FinishSwap
    BY <1>5 DEF FinishSwap, IInv, CpuPlace
  <1>6. CASE schedule
    <2>1. Requeued \in Seq(Threads)
      BY DEF Requeued, IInv
    <2>2. CASE Requeued # <<>>
      <3>1. Head(Requeued) \in Threads /\ Tail(Requeued) \in Seq(Threads)
        BY <2>1, <2>2
      <3>. QED
        BY <1>6, <2>2, <3>1 DEF schedule, AfterPop, IInv, CpuPlace
    <2>3. CASE Requeued = <<>>
      BY <1>6, <2>3 DEF schedule, IInv, CpuPlace
    <2>. QED
      BY <2>2, <2>3
  <1>7. CASE LoadRegisters
    BY <1>7 DEF LoadRegisters, IInv, CpuPlace
  <1>8. CASE UNCHANGED vars
    BY <1>8 DEF vars, IInv, CpuPlace
  <1>. QED
    BY <1>1, <1>2, <1>3, <1>4, <1>5, <1>6, <1>7, <1>8
       DEF Next, LibraryStep, Finished

\* The context saved for a thread resumes that thread (ContextKept), the
\* processor runs no thread but runningThread and schedule() can always be
\* entered (RightThreadRuns): the handler's and my_pthread_yield's saves never
\* go astray, for ticks in user code and inside swapcontext.
THEOREM ContextsCorrect ==
  ASSUME "restore" \notin TickIn, MainYields = FALSE
  PROVE  Spec => [](ContextKept /\ RightThreadRuns)
  <1>1. IInv => ContextKept /\ RightThreadRuns
    BY ContextsAssumption DEF IInv, CpuPlace, ContextKept, RightThreadRuns, Place, Entry
  <1>2. IInv /\ [Next]_vars => IInv'
    BY InvStep
  <1>. QED
    BY InvInit, <1>1, <1>2, PTL DEF Spec

\* The processor is never in the code of a thread other than runningThread: what
\* the handler takes for the interrupted thread is the interrupted thread.
THEOREM RightThreadCorrect ==
  ASSUME "restore" \notin TickIn, MainYields = FALSE
  PROVE  Spec => []RightThreadRuns
  <1>1. IInv => RightThreadRuns
    BY ContextsAssumption DEF IInv, CpuPlace, RightThreadRuns, Place, Entry
  <1>. QED
    BY InvInit, InvStep, <1>1, PTL DEF Spec
=============================================================================
