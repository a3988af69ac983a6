----------------------------- MODULE FifoQueues -----------------------------
(***************************************************************************)
(* What the ready queues promise: one FIFO queue per level, a pop that     *)
(* takes the oldest thread of the highest level that has one, and a count  *)
(* of the threads that wait.                                               *)
(***************************************************************************)
EXTENDS Integers, Sequences

CONSTANTS Thread, Level

VARIABLES queue, count

fifoVars == <<queue, count>>

Init ==
    /\ queue = [l \in Level |-> <<>>]
    /\ count = 0

Push(t, l) ==
    /\ queue' = [queue EXCEPT ![l] = Append(@, t)]
    /\ count' = count + 1

Pop(l) ==
    /\ queue[l] # <<>>
    /\ \A k \in Level : k > l => queue[k] = <<>>
    /\ queue' = [queue EXCEPT ![l] = Tail(@)]
    /\ count' = count - 1

Next == \E l \in Level : Pop(l) \/ \E t \in Thread : Push(t, l)

Spec == Init /\ [][Next]_fifoVars
=============================================================================
