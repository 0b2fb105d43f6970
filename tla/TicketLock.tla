----------------------------- MODULE TicketLock -----------------------------
(***************************************************************************)
(* The ticket spinlock of the Armv8 ports (arch/armv8/aarch64 and aarch32)  *)
(* and of the RISC-V port, which every lock of the hypervisor is.  A lock   *)
(* is two 32-bit counters.  The field names are those of the Arm code:      *)
(* "ticket" is the number the next CPU draws, "next" the number being       *)
(* served (the RISC-V code uses the two names the other way round).         *)
(*                                                                          *)
(* A CPU draws with an exclusive load/store loop (Arm) or an amoadd         *)
(* (RISC-V), either of which is one atomic step.  The release is a plain    *)
(* load, an addition and a store, which is two steps here: it is correct    *)
(* only because nobody but the holder writes "next".                        *)
(***************************************************************************)
EXTENDS Naturals, FiniteSets, Sequences

CONSTANTS
    CPU,      \* the CPUs that use the lock
    TICKETS   \* how many values a counter has: 2^32 in the code

(* PLAT_CPU_NUM is far below 2^32 (cpumap_t has one bit per CPU).           *)
ASSUME TicketAssumption ==
    /\ IsFiniteSet(CPU)
    /\ TICKETS \in Nat
    /\ Cardinality(CPU) < TICKETS

VARIABLES
    ticket,   \* lock->ticket, the number the next arrival draws
    next,     \* lock->next, the number being served
    my,       \* my[c]: the register that holds the number c drew
    temp,     \* temp[c]: the register spin_unlock increments
    pc        \* pc[c]: where c is in spin_lock / spin_unlock

vars == <<ticket, next, my, temp, pc>>

Value == 0 .. TICKETS - 1

(* The 32-bit "add 1".                                                      *)
Incr(x) == IF x = TICKETS - 1 THEN 0 ELSE x + 1

Init ==
    /\ ticket = 0
    /\ next = 0
    /\ my = [c \in CPU |-> 0]
    /\ temp = [c \in CPU |-> 0]
    /\ pc = [c \in CPU |-> "idle"]

(* Mutant: the draw does not advance the counter, as if the exclusive store *)
(* had failed and the loop had not been repeated.                           *)
GetTicketLostStore(c) ==
    /\ pc[c] = "idle"
    /\ my' = [my EXCEPT ![c] = ticket]
    /\ pc' = [pc EXCEPT ![c] = "wait"]
    /\ UNCHANGED <<ticket, next, temp>>

(* spin_lock, first loop: draw a number.                                    *)
GetTicket(c) ==
    /\ pc[c] = "idle"
    /\ my' = [my EXCEPT ![c] = ticket]
    /\ ticket' = Incr(ticket)
    /\ pc' = [pc EXCEPT ![c] = "wait"]
    /\ UNCHANGED <<next, temp>>

(* spin_lock, second loop: leave it when the number is served.              *)
Acquire(c) ==
    /\ pc[c] = "wait"
    /\ next = my[c]
    /\ pc' = [pc EXCEPT ![c] = "critical"]
    /\ UNCHANGED <<ticket, next, my, temp>>

(* spin_unlock: read the number being served ...                            *)
LoadNext(c) ==
    /\ pc[c] = "critical"
    /\ temp' = [temp EXCEPT ![c] = Incr(next)]
    /\ pc' = [pc EXCEPT ![c] = "release"]
    /\ UNCHANGED <<ticket, next, my>>

(* Mutant: the release forgets the increment.                               *)
StoreNextStale(c) ==
    /\ pc[c] = "release"
    /\ pc' = [pc EXCEPT ![c] = "idle"]
    /\ UNCHANGED <<ticket, next, my, temp>>

(* ... and store its successor.                                             *)
StoreNext(c) ==
    /\ pc[c] = "release"
    /\ next' = temp[c]
    /\ pc' = [pc EXCEPT ![c] = "idle"]
    /\ UNCHANGED <<ticket, my, temp>>

Step(c) == GetTicket(c) \/ Acquire(c) \/ LoadNext(c) \/ StoreNext(c)

Next == \E c \in CPU : Step(c)

(* A spinning CPU keeps executing, and every critical section of the code   *)
(* is bounded.  Nobody is obliged to ask for the lock.                      *)
Fairness ==
    \A c \in CPU : WF_vars(Acquire(c) \/ LoadNext(c) \/ StoreNext(c))

Spec == Init /\ [][Next]_vars

FairSpec == Spec /\ Fairness

----------------------------------------------------------------------------
TypeOK ==
    /\ ticket \in Value
    /\ next \in Value
    /\ my \in [CPU -> Value]
    /\ temp \in [CPU -> Value]
    /\ pc \in [CPU -> {"idle", "wait", "critical", "release"}]

(* The CPUs that drew a number and have not given it back.                  *)
Holding == {c \in CPU : pc[c] # "idle"}

(* How far a number is from the one being served.                           *)
Ahead(x) == IF x >= next THEN x - next ELSE x + TICKETS - next

(* Mutual exclusion: two CPUs are never between the end of spin_lock and    *)
(* the store of spin_unlock at the same time, also when the counters wrap.  *)
MutualExclusion ==
    \A c, d \in CPU :
        /\ pc[c] \in {"critical", "release"}
        /\ pc[d] \in {"critical", "release"}
        => c = d

(* The numbers in circulation are exactly those from "next" up to "ticket", *)
(* one per CPU, and a CPU past spin_lock holds the one being served.  This  *)
(* is what makes the wrap-around of the counters harmless.                  *)
TicketWindow ==
    /\ \A c \in Holding : Ahead(my[c]) < Ahead(ticket)
    /\ \A c, d \in Holding : my[c] = my[d] => c = d
    /\ Ahead(ticket) = Cardinality(Holding)
    /\ \A c \in CPU : pc[c] \in {"critical", "release"} => my[c] = next
    /\ \A c \in CPU : pc[c] = "release" => temp[c] = Incr(next)

(* No CPU starves in the second loop of spin_lock.                          *)
NoStarvation == \A c \in CPU : pc[c] = "wait" ~> pc[c] = "critical"

(* The waiting line the two counters stand for, in the order of the draws.  *)
WaitingLine ==
    [i \in 1 .. Ahead(ticket) |->
        CHOOSE c \in CPU : pc[c] # "idle" /\ Ahead(my[c]) = i - 1]

Fifo == INSTANCE FifoLock WITH
            queue <- WaitingLine,
            held <- \E c \in CPU : pc[c] \in {"critical", "release"}

(* The two counters implement a first-come first-served lock: the CPUs      *)
(* obtain the lock in the order they drew their numbers, one at a time.     *)
ImplementsFifo == Fifo!Spec

=============================================================================
