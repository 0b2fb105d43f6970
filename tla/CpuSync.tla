------------------------------ MODULE CpuSync ------------------------------
(***************************************************************************)
(* Synchronisation tokens (core/inc/cpu.h): cpu_sync_init,                  *)
(* cpu_sync_barrier and cpu_sync_and_clear_msgs.  A token counts arrivals   *)
(* and is never reset: an arriving CPU computes the count at which its      *)
(* round is complete and spins until the counter gets there, while faster   *)
(* CPUs may already be counted for the next round.                          *)
(*                                                                          *)
(* Every CPU runs the same sequence of synchronisations (Program) and may   *)
(* send messages in between, as the initialisation code does; interrupts    *)
(* are masked then, and messages are handled only by                        *)
(* cpu_sync_and_clear_msgs.  The section under the token's spinlock is one  *)
(* step (module TicketLock), the loops that poll the token are not.  The    *)
(* message queue is the mailbox module CpuMsg shows it to be, and a message *)
(* is the position in Program at which its sender was.                      *)
(***************************************************************************)
EXTENDS Naturals, Sequences, FiniteSets

CONSTANTS
    CPU,       \* the CPUs that share the token
    Master,    \* the one that initialises it
    Program,   \* the operations each CPU performs on the token
    MAX_SEND   \* bound: messages sent in a behaviour

ASSUME SyncAssumption ==
    /\ IsFiniteSet(CPU)
    /\ Master \in CPU
    /\ Program \in Seq({"barrier", "clear"})
    /\ MAX_SEND \in Nat

n == Cardinality(CPU)

VARIABLES
    ready,        \* token->ready
    count,        \* token->count
    next_count,   \* next_count[c]: the local variable
    pc,           \* where each CPU is
    at,           \* at[c]: the position of c in Program
    box,          \* box[c]: the messages queued for c
    handling_msgs,\* handling_msgs[c]: cpu()->handling_msgs
    sent,         \* messages sent so far
    entered,      \* history: the rounds of the token c has entered ...
    left          \* ... and left

token == <<ready, count, next_count>>

mail == <<box, handling_msgs, sent>>

rounds == <<entered, left>>

vars == <<token, pc, at, mail, rounds>>

CountersOK ==
    /\ count \in Nat
    /\ next_count \in [CPU -> Nat]
    /\ at \in [CPU -> Nat]
    /\ sent \in 0 .. MAX_SEND
    /\ entered \in [CPU -> Nat]
    /\ left \in [CPU -> Nat]

ControlOK ==
    /\ ready \in BOOLEAN
    /\ handling_msgs \in [CPU -> BOOLEAN]
    /\ pc \in [CPU -> {"work", "spin", "spin handler", "last handler", "again", "wait"}]

MailOK == box \in [CPU -> Seq(Nat)]

TypeOK == CountersOK /\ ControlOK /\ MailOK

(* The token is zeroed memory until the master initialises it.              *)
Init ==
    /\ ready = FALSE
    /\ count = 0
    /\ next_count = [c \in CPU |-> 0]
    /\ pc = [c \in CPU |-> "work"]
    /\ at = [c \in CPU |-> 1]
    /\ box = [c \in CPU |-> <<>>]
    /\ handling_msgs = [c \in CPU |-> FALSE]
    /\ sent = 0
    /\ entered = [c \in CPU |-> 0]
    /\ left = [c \in CPU |-> 0]

(* The macro of lib/inc/util.h, for any positive "to".                      *)
ALIGN(val, to) == ((val + to - 1) \div to) * to

Goto(c, where) == pc' = [pc EXCEPT ![c] = where]

(* The master initialises the token before it first uses it; "ready" is the *)
(* last field written.                                                      *)
cpu_sync_init ==
    /\ pc[Master] = "work"
    /\ ~ready
    /\ count' = 0
    /\ ready' = TRUE
    /\ UNCHANGED <<next_count, pc, at, mail, rounds>>

(* c sends t a message from its position in the program (cpu_send_msg).     *)
Send(c, t) ==
    /\ pc[c] = "work"
    /\ at[c] <= Len(Program)
    /\ sent < MAX_SEND
    /\ sent' = sent + 1
    /\ box' = [box EXCEPT ![t] = Append(@, at[c])]
    /\ UNCHANGED <<token, pc, at, handling_msgs, rounds>>

(* Mutant: the round is computed from the counter before the increment.     *)
ArriveStale(c) ==
    /\ ready
    /\ count' = count + 1
    /\ next_count' = [next_count EXCEPT ![c] = ALIGN(count, n)]
    /\ entered' = [entered EXCEPT ![c] = @ + 1]
    /\ UNCHANGED <<ready, at, mail, left>>

(* Mutant: an arrival does not wait for the token to be initialised.        *)
ArriveUnready(c) ==
    /\ count' = count + 1
    /\ next_count' = [next_count EXCEPT ![c] = ALIGN(count + 1, n)]
    /\ entered' = [entered EXCEPT ![c] = @ + 1]
    /\ UNCHANGED <<ready, at, mail, left>>

(* An arrival: wait for the token to be ready, then count under its lock.   *)
Arrive(c) ==
    /\ ready
    /\ count' = count + 1
    /\ next_count' = [next_count EXCEPT ![c] = ALIGN(count + 1, n)]
    /\ entered' = [entered EXCEPT ![c] = @ + 1]
    /\ UNCHANGED <<ready, at, mail, left>>

(* The first half of either operation.                                      *)
Enter(c) ==
    /\ pc[c] = "work"
    /\ at[c] <= Len(Program)
    /\ Arrive(c)
    /\ Goto(c, IF Program[at[c]] = "barrier" THEN "wait" ELSE "spin")

(* The end of cpu_sync_barrier, and with it of cpu_sync_and_clear_msgs.     *)
Leave(c) ==
    /\ pc[c] = "wait"
    /\ count >= next_count[c]
    /\ at' = [at EXCEPT ![c] = @ + 1]
    /\ left' = [left EXCEPT ![c] = @ + 1]
    /\ Goto(c, "work")
    /\ UNCHANGED <<token, mail, entered>>

(* The loop of cpu_sync_and_clear_msgs: cpu_msg_handler between two looks   *)
(* at the counter.                                                          *)
SpinOn(c) ==
    /\ pc[c] = "spin"
    /\ count < next_count[c]
    /\ ~handling_msgs[c]
    /\ handling_msgs' = [handling_msgs EXCEPT ![c] = TRUE]
    /\ Goto(c, "spin handler")
    /\ UNCHANGED <<token, at, box, sent, rounds>>

(* Mutant: the messages are not handled again once the round is complete.   *)
SpinOverNoHandler(c) ==
    /\ pc[c] = "spin"
    /\ count >= next_count[c]
    /\ Goto(c, "again")
    /\ left' = [left EXCEPT ![c] = @ + 1]
    /\ UNCHANGED <<token, at, box, sent, handling_msgs, entered>>

(* The end of that loop, after which cpu_msg_handler runs once more.        *)
SpinOver(c) ==
    /\ pc[c] = "spin"
    /\ count >= next_count[c]
    /\ ~handling_msgs[c]
    /\ handling_msgs' = [handling_msgs EXCEPT ![c] = TRUE]
    /\ left' = [left EXCEPT ![c] = @ + 1]
    /\ Goto(c, "last handler")
    /\ UNCHANGED <<token, at, box, sent, entered>>

InHandler(c) == pc[c] \in {"spin handler", "last handler"}

(* One message in cpu_msg_handler.                                          *)
HandleMsg(c) ==
    /\ InHandler(c)
    /\ box[c] # <<>>
    /\ box' = [box EXCEPT ![c] = Tail(@)]
    /\ UNCHANGED <<token, pc, at, handling_msgs, sent, rounds>>

(* cpu_msg_handler returns.                                                 *)
HandlerReturns(c) ==
    /\ InHandler(c)
    /\ box[c] = <<>>
    /\ handling_msgs' = [handling_msgs EXCEPT ![c] = FALSE]
    /\ Goto(c, IF pc[c] = "spin handler" THEN "spin" ELSE "again")
    /\ UNCHANGED <<token, at, box, sent, rounds>>

(* The cpu_sync_barrier at the end of cpu_sync_and_clear_msgs.              *)
EnterAgain(c) ==
    /\ pc[c] = "again"
    /\ Arrive(c)
    /\ Goto(c, "wait")

Step(c) ==
    \/ Enter(c)
    \/ Leave(c)
    \/ SpinOn(c)
    \/ SpinOver(c)
    \/ HandleMsg(c)
    \/ HandlerReturns(c)
    \/ EnterAgain(c)

Finished == \A c \in CPU : at[c] = Len(Program) + 1

Next ==
    \/ cpu_sync_init
    \/ \E c \in CPU : Step(c) \/ \E t \in CPU : Send(c, t)
    \/ Finished /\ UNCHANGED vars

Spec == Init /\ [][Next]_vars

(* The CPUs of a platform all run; none is descheduled.  In the loop of     *)
(* cpu_sync_and_clear_msgs a CPU looks at the counter again and again.      *)
FairSpec ==
    /\ Spec
    /\ WF_vars(cpu_sync_init)
    /\ \A c \in CPU : WF_vars(Step(c))

----------------------------------------------------------------------------
Rounds == INSTANCE Barrier

(* The counter that is never reset implements a reusable barrier: a CPU     *)
(* leaves a round only when all CPUs have entered it, although fast CPUs    *)
(* are counted for the next round while slow ones still look at this one.   *)
ImplementsBarrier == Rounds!Spec

(* When a CPU is past a cpu_sync_and_clear_msgs, every message that any CPU *)
(* sent before its own call of it has been handled.                         *)
MessagesCleared ==
    \A c, d \in CPU :
        \A i \in 1 .. Len(box[d]) :
            \A k \in 1 .. Len(Program) :
                Program[k] = "clear" /\ at[c] > k => box[d][i] > k

(* The CPUs that entered the round after the p-th.                          *)
Late(p) == {c \in CPU : entered[c] = p + 1}

(* The state of the token between rounds: with p complete rounds, the CPUs  *)
(* counted for the next one are those that entered it, none of which can    *)
(* have left, and every waiting CPU waits for the end of its own round.     *)
RoundInProgress(p) ==
    /\ \A c \in CPU : entered[c] \in {p, p + 1}
    /\ Late(p) # CPU
    /\ count = n * p + Cardinality(Late(p))
    /\ \A c \in Late(p) : left[c] = p

TokenConsistent ==
    /\ \E p \in 0 .. count : RoundInProgress(p)
    /\ ~ready => count = 0
    /\ \A c \in CPU :
           IF pc[c] \in {"wait", "spin", "spin handler"}
           THEN entered[c] = left[c] + 1 /\ next_count[c] = n * entered[c]
           ELSE entered[c] = left[c]

(* No CPU is left behind in a barrier.                                      *)
EveryoneFinishes == <>Finished

=============================================================================
