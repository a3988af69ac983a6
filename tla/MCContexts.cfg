\* Ticks anywhere except in the middle of schedule()'s setcontext.
SPECIFICATION Spec
CONSTANTS
    t1 = t1
    t2 = t2
    t3 = t3
    t4 = t4
    Threads    <- FourThreads
    Scheduler  = scheduler
    Main       = main
    TickIn     = {"swap"}
    MainYields = FALSE
INVARIANTS
    ContextKept
    RightThreadRuns
