------------------------------ MODULE Barrier ------------------------------
(***************************************************************************)
(* What a synchronisation token promises (core/inc/cpu.h): rounds.  A CPU   *)
(* enters its next round only after it left the previous one, and leaves a  *)
(* round only after every CPU has entered it.                               *)
(***************************************************************************)
EXTENDS Naturals

CONSTANT CPU

VARIABLES
    entered,   \* entered[c]: the rounds c has entered
    left       \* left[c]: the rounds c has left

vars == <<entered, left>>

Init ==
    /\ entered = [c \in CPU |-> 0]
    /\ left = [c \in CPU |-> 0]

Enter(c) ==
    /\ entered[c] = left[c]
    /\ entered' = [entered EXCEPT ![c] = @ + 1]
    /\ UNCHANGED left

Leave(c) ==
    /\ left[c] < entered[c]
    /\ \A d \in CPU : entered[d] >= entered[c]
    /\ left' = [left EXCEPT ![c] = @ + 1]
    /\ UNCHANGED entered

Next == \E c \in CPU : Enter(c) \/ Leave(c)

Spec == Init /\ [][Next]_vars

=============================================================================
