------------------------------- MODULE Signals ------------------------------
(***************************************************************************)
(* The small programs that try out signals and contexts before a library   *)
(* uses them: interrupt.c under showHandler.c, doTest2.c and a threads     *)
(* package, with alarmHelper.c or signalme.c sending it signals;           *)
(* timer/timer.c; hw1/undead_code.c; Ucontext/context.c.                   *)
(*                                                                         *)
(* The kernel keeps one pending signal of each kind, delivers what is not  *)
(* blocked before the process takes its next step, blocks a signal while   *)
(* its handler runs, and kills the process if there is no handler.         *)
(***************************************************************************)
VARIABLES
    experiment,
    at,            \* where the process is, in main or in a handler
    interrupted,   \* where main goes on when the handler returns, or "nowhere"
    hasBeenCalled, \* the handler is registered
    blocked,       \* the handled signal is in the signal mask
    pending,       \* signals sent and not delivered
    alarmed,       \* an alarm or a timer is set
    helper         \* the other process

signalsVars == <<experiment, at, interrupted, hasBeenCalled, blocked, pending,
                 alarmed, helper>>

OfInterrupt == {"showHandler", "doTest2", "package"}

HandledSignal == IF experiment = "undead" THEN "SIGSEGV" ELSE "SIGALRM"

Alive == at \notin {"killed", "aborted", "done"}

InitSignals ==
    /\ experiment \in OfInterrupt \cup {"timer", "undead", "hello"}
    /\ at = IF experiment = "hello" THEN "puts" ELSE "start"
    /\ interrupted = "nowhere"
    /\ hasBeenCalled = FALSE /\ blocked = FALSE /\ alarmed = FALSE
    /\ pending = {}
    /\ helper \in {"none", "alarmHelper", "signalMe"}

-----------------------------------------------------------------------------
(* The kernel and the other processes.                                     *)

Deliverable == pending \ (IF blocked THEN {HandledSignal} ELSE {})

\* A step of the process itself, from one place to the next.
Step(from, to) ==
    /\ at = from /\ Deliverable = {}
    /\ at' = to
    /\ UNCHANGED <<experiment, helper, pending>>

Handled(s) == s = HandledSignal /\ hasBeenCalled

Deliver ==
    /\ Alive
    /\ \E s \in Deliverable :
         /\ pending' = pending \ {s}
         /\ \/ Handled(s) /\ at' = "handler" /\ interrupted' = at /\ blocked' = TRUE
            \/ ~ Handled(s) /\ at' = "killed" /\ UNCHANGED <<interrupted, blocked>>
    /\ UNCHANGED <<experiment, hasBeenCalled, alarmed, helper>>

Return ==
    /\ Step("return", interrupted)
    /\ interrupted' = "nowhere" /\ blocked' = FALSE
    /\ UNCHANGED <<hasBeenCalled, alarmed>>

\* alarm() rings once, setitimer's timer again and again.
Expire ==
    /\ Alive /\ alarmed
    /\ pending' = pending \cup {"SIGALRM"}
    /\ alarmed' = (experiment = "timer")
    /\ UNCHANGED <<experiment, at, interrupted, hasBeenCalled, blocked, helper>>

\* The other process stops when kill() finds nobody.
Kill(signal) ==
    /\ \/ Alive /\ pending' = pending \cup {signal} /\ UNCHANGED helper
       \/ ~ Alive /\ helper' = "stopped" /\ UNCHANGED pending
    /\ UNCHANGED <<experiment, at, interrupted, hasBeenCalled, blocked, alarmed>>

alarmHelper == helper = "alarmHelper" /\ Kill("SIGALRM")
signalMe    == helper = "signalMe" /\ Kill("SIGUSR1")

-----------------------------------------------------------------------------
(* interrupt.c, and the programs that use it.                              *)

Assert(p, from, to) == Step(from, IF p THEN to ELSE "aborted")

setAlarm(from, to) ==
    /\ Step(from, to)
    /\ alarmed' = TRUE
    /\ UNCHANGED <<interrupted, hasBeenCalled, blocked>>

registerHandler ==
    /\ experiment \in OfInterrupt
    /\ \/ /\ Assert(~ hasBeenCalled, "start", "arm")
          /\ hasBeenCalled' = TRUE
          /\ UNCHANGED <<interrupted, blocked, alarmed>>
       \/ setAlarm("arm", "loop")

interruptHandler_ArmsOnce ==
    /\ experiment \in OfInterrupt
    /\ Assert(blocked, "handler", "return")
    /\ UNCHANGED <<interrupted, hasBeenCalled, blocked, alarmed>>

interruptHandler ==
    /\ experiment \in OfInterrupt
    /\ \/ /\ Assert(blocked, "handler", "rearm")
          /\ UNCHANGED <<interrupted, hasBeenCalled, blocked, alarmed>>
       \/ setAlarm("rearm", "return")

alarmIsEnabled == ~ blocked

showHandler ==
    /\ experiment = "showHandler"
    /\ Assert(alarmIsEnabled, "loop", "loop")
    /\ UNCHANGED <<interrupted, hasBeenCalled, blocked, alarmed>>

\* Still to be written, and called by the first test.
ULT_Yield == Assert(FALSE, "loop", "loop")
basicThreadTests == ULT_Yield

doTest2 ==
    /\ experiment = "doTest2"
    /\ basicThreadTests
    /\ UNCHANGED <<interrupted, hasBeenCalled, blocked, alarmed>>

\* What interrupt.c offers to a package: a critical section without ticks.
interruptsOff ==
    /\ experiment = "package"
    /\ Step("loop", "critical")
    /\ blocked' = TRUE
    /\ UNCHANGED <<interrupted, hasBeenCalled, alarmed>>

interruptsOn ==
    /\ experiment = "package"
    /\ Step("critical", "loop")
    /\ blocked' = FALSE
    /\ UNCHANGED <<interrupted, hasBeenCalled, alarmed>>

-----------------------------------------------------------------------------
(* The other programs.                                                     *)

timer ==
    /\ experiment = "timer"
    /\ \/ /\ Step("start", "arm")
          /\ hasBeenCalled' = TRUE
          /\ UNCHANGED <<interrupted, blocked, alarmed>>
       \/ setAlarm("arm", "pause")

scheduleAlgorithm ==
    /\ experiment = "timer"
    /\ Step("handler", "return")
    /\ UNCHANGED <<interrupted, hasBeenCalled, blocked, alarmed>>

\* The load of address 0 faults, and faults again if the handler returns to it.
undead ==
    /\ experiment = "undead"
    /\ \/ /\ Step("start", "load")
          /\ hasBeenCalled' = TRUE
          /\ UNCHANGED <<interrupted, blocked, alarmed>>
       \/ /\ Step("load", "handler")
          /\ interrupted' = "load" /\ blocked' = TRUE
          /\ UNCHANGED <<hasBeenCalled, alarmed>>
       \/ /\ Step("live again", "done")
          /\ UNCHANGED <<interrupted, hasBeenCalled, blocked, alarmed>>

\* In the build whose addresses its comments give: the saved program counter
\* goes past the two bytes of the load.
segment_fault_handler ==
    /\ experiment = "undead"
    /\ Step("handler", "return")
    /\ interrupted' = "live again"
    /\ UNCHANGED <<hasBeenCalled, blocked, alarmed>>

\* getcontext, puts, sleep, and setcontext back to behind getcontext.
hello ==
    /\ experiment = "hello"
    /\ Step("puts", "sleep") \/ Step("sleep", "puts")
    /\ UNCHANGED <<interrupted, hasBeenCalled, blocked, alarmed>>

-----------------------------------------------------------------------------
Process ==
    \/ registerHandler \/ interruptHandler \/ showHandler \/ doTest2
    \/ interruptsOff \/ interruptsOn
    \/ timer \/ scheduleAlgorithm \/ undead \/ segment_fault_handler \/ hello
    \/ Return

Dead == ~ Alive /\ helper \in {"none", "stopped"} /\ UNCHANGED signalsVars

NextSignals == Process \/ Deliver \/ Expire \/ alarmHelper \/ signalMe \/ Dead

\* While it lives the process ticks again and again, the one of undead_code.c
\* outlives its fault, the one of context.c prints again; it is killed only by
\* a signal of another process, and no tick falls into a critical section.
GoesOn ==
    /\ \A place \in {"loop", "pause"} : at = place ~> at = "handler" \/ ~ Alive
    /\ at = "load" ~> at = "live again" \/ ~ Alive
    /\ at = "sleep" ~> at = "puts" \/ ~ Alive
    /\ [](at = "killed" => helper # "none")
    /\ [](at = "handler" => interrupted # "critical")
=============================================================================
