------------------------------ MODULE FifoLock ------------------------------
(***************************************************************************)
(* What spin_lock and spin_unlock (core/inc/spinlock.h and the ports)       *)
(* promise on the ports with a ticket lock: the CPUs that asked stand in    *)
(* line, and the lock passes from the head of the line to the next one.     *)
(***************************************************************************)
EXTENDS Naturals, Sequences

CONSTANT CPU

VARIABLES
    queue,   \* the CPUs that asked for the lock, in the order they asked
    held     \* whether the head of the line has the lock

vars == <<queue, held>>

Init ==
    /\ queue = <<>>
    /\ held = FALSE

Ask(c) ==
    /\ \A i \in 1 .. Len(queue) : queue[i] # c
    /\ queue' = Append(queue, c)
    /\ UNCHANGED held

Grant ==
    /\ queue # <<>>
    /\ ~held
    /\ held' = TRUE
    /\ UNCHANGED queue

Release ==
    /\ held
    /\ held' = FALSE
    /\ queue' = Tail(queue)

Next == Grant \/ Release \/ \E c \in CPU : Ask(c)

Spec == Init /\ [][Next]_vars

=============================================================================
