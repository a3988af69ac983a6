----------------------------- MODULE ThreadPool -----------------------------
(***************************************************************************)
(* What a thread library owes its clients, without queues, priorities,     *)
(* signals or contexts: threads share one processor, nobody is lost,       *)
(* nobody waits for ever, and the program is over when all have exited.    *)
(* Scheduler implements this specification.                                *)
(***************************************************************************)
CONSTANTS
    Thread,
    None    \* not a thread

VARIABLES
    ready,    \* the threads that wait for the processor
    current,  \* the thread that has it, or None
    exited,   \* the threads that have exited
    phase     \* "setup", then "running", then "over"

poolVars == <<ready, current, exited, phase>>

Init ==
    /\ ready = {}
    /\ current = None
    /\ exited = {}
    /\ phase = "setup"

Create(t) ==
    /\ phase = "setup"
    /\ t \notin ready
    /\ ready' = ready \cup {t}
    /\ UNCHANGED <<current, exited, phase>>

Start ==
    /\ phase = "setup"
    /\ phase' = "running"
    /\ UNCHANGED <<ready, current, exited>>

Dispatch(t) ==
    /\ phase = "running"
    /\ current = None
    /\ t \in ready
    /\ current' = t
    /\ ready' = ready \ {t}
    /\ UNCHANGED <<exited, phase>>

\* The current thread gives the processor back, willingly or not ...
Release ==
    /\ current # None
    /\ ready' = ready \cup {current}
    /\ current' = None
    /\ UNCHANGED <<exited, phase>>

\* ... or exits.
Exit ==
    /\ current # None
    /\ exited' = exited \cup {current}
    /\ current' = None
    /\ UNCHANGED <<ready, phase>>

Finish ==
    /\ phase = "running"
    /\ current = None
    /\ ready = {}
    /\ phase' = "over"
    /\ UNCHANGED <<ready, current, exited>>

Next ==
    \/ \E t \in Thread : Create(t) \/ Dispatch(t)
    \/ Start \/ Release \/ Exit \/ Finish

Spec == Init /\ [][Next]_poolVars

\* Whoever waits is chosen in the end, whoever runs is stopped in the end,
\* and a program with nothing left to run ends.
Fairness ==
    /\ \A t \in Thread : SF_poolVars(Dispatch(t))
    /\ WF_poolVars(Release \/ Exit)
    /\ WF_poolVars(Finish)

FairSpec == Spec /\ Fairness
=============================================================================
