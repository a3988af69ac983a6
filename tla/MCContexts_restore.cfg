\* A tick that waits for schedule() to unmask it.
SPECIFICATION Spec
CONSTANTS
    t1 = t1
    t2 = t2
    t3 = t3
    t4 = t4
    Threads    <- TwoThreads
    Scheduler  = scheduler
    Main       = main
    TickIn     = {"restore"}
    MainYields = FALSE
INVARIANT
    ContextKept
