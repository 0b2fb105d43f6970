------------------------------- MODULE CpuMsg -------------------------------
(***************************************************************************)
(* Messages between CPUs (core/cpu.c): cpu_send_msg puts a message into the *)
(* target's queue and raises an inter-processor interrupt (IPI); the target *)
(* empties its queue when it takes the interrupt, or when it finds it       *)
(* pending on the way out of a low-power state.                             *)
(*                                                                          *)
(* The hypervisor runs with interrupts masked, so a CPU takes an IPI only   *)
(* while it runs its guest or after it sleeps.  When the pending IPI is     *)
(* withdrawn depends on the port.  The Arm GIC driver acknowledges it       *)
(* before the handler runs (gic_handle) and the RH850 driver clears it      *)
(* there (ipir_handle): ackFirst.  On RISC-V with a PLIC or an APLIC,       *)
(* interrupts_arch_handle clears SSIP after the handler: ~ackFirst.         *)
(*                                                                          *)
(* A message is reduced to what its handler does to the CPU: "wake" resumes *)
(* a vCPU blocked on an emulated access (remio_cpu_post_work), "on" turns   *)
(* the vCPU on (psci_wake_from_off, HART_START), "relay" makes the handler  *)
(* send a message itself (vgic_ipi_handler), "note" does none of these.     *)
(* cpu()->handling_msgs, which only cpu_sync_and_clear_msgs reads, is in    *)
(* module CpuSync.                                                          *)
(***************************************************************************)
EXTENDS Naturals, FiniteSets, Sequences

CONSTANTS
    CPU,        \* the physical CPUs
    NoCpu,      \* no target
    Capacity,   \* IPI_MAX_EVENTS
    NoMsg,      \* no message
    Ports,      \* the ports under consideration: the values of ackFirst
    Idle,       \* the CPUs that were assigned no vCPU
    Kinds,      \* the kinds of messages the guests cause
    MAX_SEND    \* bound: messages sent in a behaviour

Kind == {"wake", "on", "relay", "note"}

(* Every message carries a number, so that two messages are never equal.    *)
Msg == [kind : Kind, num : 1 .. MAX_SEND]

(* core/inc/cpu.h asserts that IPI_MAX_EVENTS is positive and fits an int.  *)
ASSUME CpuMsgAssumption ==
    /\ Capacity \in Nat
    /\ Capacity > 0
    /\ NoCpu \notin CPU
    /\ Ports \subseteq BOOLEAN
    /\ Idle \subseteq CPU
    /\ Kinds \subseteq Kind
    /\ MAX_SEND \in Nat
    /\ NoMsg \notin Msg

INSTANCE CircularQueue WITH Elem <- Msg, NoElem <- NoMsg

VARIABLES
    ackFirst, \* the port withdraws the IPI before the handler runs, not after
    msgs,    \* msgs[c]: cpu_if(c)->msgs, the queue of messages for c
    ipi,     \* ipi[c]: the IPI of c is pending at the interrupt controller
    target,  \* target[c]: c pushed a message there and has yet to raise the IPI
    cur,     \* cur[c]: the message c popped and is handling
    vcpu,    \* vcpu[c]: "none" (cpu()->vcpu == NULL), "off" or "on"
    active,  \* active[c]: cpu()->vcpu->active
    pc,      \* where each CPU is
    sent     \* how many messages were sent, which numbers them

vars == <<ackFirst, msgs, ipi, target, cur, vcpu, active, pc, sent>>

MailOK ==
    /\ \A c \in CPU : Valid(msgs[c])
    /\ msgs \in [CPU -> Queue]
    /\ cur \in [CPU -> Msg \cup {NoMsg}]
    /\ target \in [CPU -> CPU \cup {NoCpu}]
    /\ sent \in 0 .. MAX_SEND

ControlOK ==
    /\ ackFirst \in BOOLEAN
    /\ ipi \in [CPU -> BOOLEAN]
    /\ vcpu \in [CPU -> {"none", "off", "on"}]
    /\ active \in [CPU -> BOOLEAN]
    /\ pc \in [CPU -> {"guest", "standby", "powerdown", "check", "clear",
                       "drain", "irq", "eoi"}]

TypeOK == MailOK /\ ControlOK

(* After vmm_init: an assigned CPU runs its guest, the others are powered   *)
(* down (vmm.c).                                                            *)
Init ==
    /\ ackFirst \in Ports
    /\ msgs = [c \in CPU |-> circular_queue_init]
    /\ ipi = [c \in CPU |-> FALSE]
    /\ target = [c \in CPU |-> NoCpu]
    /\ cur = [c \in CPU |-> NoMsg]
    /\ vcpu = [c \in CPU |-> IF c \in Idle THEN "none" ELSE "on"]
    /\ active = [c \in CPU |-> TRUE]
    /\ pc = [c \in CPU |-> IF c \in Idle THEN "powerdown" ELSE "guest"]
    /\ sent = 0

(* Mutant: a full queue overwrites its oldest message.                      *)
SendOverwrites(c, t, kind) ==
    /\ sent < MAX_SEND
    /\ sent' = sent + 1
    /\ msgs' = [msgs EXCEPT ![t] = Push(@, [kind |-> kind, num |-> sent + 1])]
    /\ target' = [target EXCEPT ![c] = t]

(* Mutant: the message is pushed and no IPI follows.                        *)
SendWithoutIpi(c, t, kind) ==
    /\ sent < MAX_SEND
    /\ sent' = sent + 1
    /\ IF circular_queue_is_full(msgs[t])
       THEN UNCHANGED msgs
       ELSE msgs' = [msgs EXCEPT ![t] = Push(@, [kind |-> kind, num |-> sent + 1])]
    /\ UNCHANGED target

(* cpu_send_msg up to the fence: the message is pushed, or dropped with a   *)
(* warning when the queue is full.                                          *)
cpu_send_msg(c, t, kind) ==
    /\ sent < MAX_SEND
    /\ sent' = sent + 1
    /\ IF circular_queue_is_full(msgs[t])
       THEN UNCHANGED <<msgs, target>>
       ELSE /\ msgs' = [msgs EXCEPT ![t] = Push(@, [kind |-> kind, num |-> sent + 1])]
            /\ target' = [target EXCEPT ![c] = t]

(* cpu_send_msg after the fence: interrupts_cpu_sendipi.                    *)
SendIpi(c) ==
    /\ target[c] # NoCpu
    /\ ipi' = [ipi EXCEPT ![target[c]] = TRUE]
    /\ target' = [target EXCEPT ![c] = NoCpu]
    /\ UNCHANGED <<ackFirst, msgs, cur, vcpu, active, pc, sent>>

(* c is at a point of its program and not in the middle of cpu_send_msg.    *)
At(c, where) == pc[c] = where /\ target[c] = NoCpu

Goto(c, where) == pc' = [pc EXCEPT ![c] = where]

(* A trap of the guest makes the hypervisor send a message.                 *)
GuestSend(c, t, kind) ==
    /\ At(c, "guest")
    /\ cpu_send_msg(c, t, kind)
    /\ UNCHANGED <<ackFirst, ipi, cur, vcpu, active, pc>>

(* The guest accesses an emulated device whose answer is not there yet:     *)
(* remio_mmio_emul_handler, then the standby of aborts_sync_handler.        *)
GuestBlocks(c) ==
    /\ At(c, "guest")
    /\ active' = [active EXCEPT ![c] = FALSE]
    /\ Goto(c, "standby")
    /\ UNCHANGED <<ackFirst, msgs, ipi, target, cur, vcpu, sent>>

(* The guest turns its CPU off: psci_cpu_off_handler.                       *)
GuestOff(c) ==
    /\ At(c, "guest")
    /\ vcpu' = [vcpu EXCEPT ![c] = "off"]
    /\ Goto(c, "powerdown")
    /\ UNCHANGED <<ackFirst, msgs, ipi, target, cur, active, sent>>

(* The guest is interrupted by the IPI and cpu_msg_handler starts.          *)
TakeIpi(c) ==
    /\ At(c, "guest")
    /\ ipi[c]
    /\ ipi' = [ipi EXCEPT ![c] = ~ackFirst]
    /\ Goto(c, "irq")
    /\ UNCHANGED <<ackFirst, msgs, target, cur, vcpu, active, sent>>

(* A low-power state ends, because of the IPI or of anything else, in       *)
(* cpu_standby_wakeup or cpu_powerdown_wakeup.                              *)
Wake(c) ==
    /\ pc[c] \in {"standby", "powerdown"}
    /\ Goto(c, "check")
    /\ UNCHANGED <<ackFirst, msgs, ipi, target, cur, vcpu, active, sent>>

(* Where vcpu_run takes a CPU; without a vCPU it goes back to sleep.        *)
RunTarget(c) ==
    CASE vcpu[c] = "on" /\ active[c]  -> "guest"
      [] vcpu[c] = "on" /\ ~active[c] -> "standby"
      [] OTHER                        -> "powerdown"

(* interrupts_ipi_check: without an IPI straight to vcpu_run.               *)
CheckIpi(c) ==
    /\ At(c, "check")
    /\ Goto(c, IF ipi[c] THEN "clear" ELSE RunTarget(c))
    /\ UNCHANGED <<ackFirst, msgs, ipi, target, cur, vcpu, active, sent>>

(* interrupts_ipi_clear, after which cpu_msg_handler starts.                *)
ClearIpi(c) ==
    /\ At(c, "clear")
    /\ ipi' = [ipi EXCEPT ![c] = FALSE]
    /\ Goto(c, "drain")
    /\ UNCHANGED <<ackFirst, msgs, target, cur, vcpu, active, sent>>

InHandler(c) == pc[c] \in {"irq", "drain"} /\ target[c] = NoCpu

(* cpu_get_msg with a message there.                                        *)
cpu_get_msg(c) ==
    /\ InHandler(c)
    /\ cur[c] = NoMsg
    /\ ~circular_queue_is_empty(msgs[c])
    /\ cur' = [cur EXCEPT ![c] = Head0(msgs[c])]
    /\ msgs' = [msgs EXCEPT ![c] = Pop(@)]
    /\ UNCHANGED <<ackFirst, ipi, target, vcpu, active, pc, sent>>

(* Mutant: the message that resumes the vCPU does not mark it active.       *)
HandleForgetsWake(c) ==
    /\ InHandler(c)
    /\ cur[c] # NoMsg
    /\ cur' = [cur EXCEPT ![c] = NoMsg]
    /\ UNCHANGED <<ackFirst, msgs, ipi, target, vcpu, active, pc, sent>>

(* ipi_cpumsg_handlers[msg.handler](msg.event, msg.data).                   *)
Handle(c) ==
    /\ InHandler(c)
    /\ cur[c] # NoMsg
    /\ cur' = [cur EXCEPT ![c] = NoMsg]
    /\ active' = [active EXCEPT ![c] = @ \/ cur[c].kind = "wake"]
    /\ vcpu' = [vcpu EXCEPT ![c] = IF cur[c].kind = "on" /\ @ = "off" THEN "on" ELSE @]
    /\ \/ /\ cur[c].kind = "relay"
          /\ \E t \in CPU : cpu_send_msg(c, t, "note")
       \/ /\ cur[c].kind = "relay" => sent = MAX_SEND
          /\ UNCHANGED <<msgs, target, sent>>
    /\ UNCHANGED <<ackFirst, ipi, pc>>

(* cpu_get_msg finds the queue empty and cpu_msg_handler returns.           *)
HandlerReturns(c) ==
    /\ InHandler(c)
    /\ cur[c] = NoMsg
    /\ circular_queue_is_empty(msgs[c])
    /\ Goto(c, CASE pc[c] = "drain"           -> RunTarget(c)
                 [] pc[c] = "irq" /\ ackFirst -> "guest"
                 [] OTHER                     -> "eoi")
    /\ UNCHANGED <<ackFirst, msgs, ipi, target, cur, vcpu, active, sent>>

(* RISC-V: csrs_sip_clear(SIP_SSIP) once interrupts_handle has returned.    *)
ClearAfterHandler(c) ==
    /\ At(c, "eoi")
    /\ ipi' = [ipi EXCEPT ![c] = FALSE]
    /\ Goto(c, "guest")
    /\ UNCHANGED <<ackFirst, msgs, target, cur, vcpu, active, sent>>

(* What the hypervisor does on a CPU without being asked by the guest.      *)
Hypervisor(c) ==
    \/ SendIpi(c)
    \/ TakeIpi(c)
    \/ CheckIpi(c)
    \/ ClearIpi(c)
    \/ cpu_get_msg(c)
    \/ Handle(c)
    \/ HandlerReturns(c)
    \/ ClearAfterHandler(c)

Next ==
    \E c \in CPU :
        \/ Hypervisor(c)
        \/ Wake(c)
        \/ GuestBlocks(c)
        \/ GuestOff(c)
        \/ \E t \in CPU, kind \in Kinds : GuestSend(c, t, kind)

(* A CPU in the hypervisor keeps executing, an unmasked interrupt is taken, *)
(* and a pending interrupt ends a low-power state.  A CPU may also wake up  *)
(* for no reason, and the guest may do what it likes, or nothing.           *)
Fairness ==
    \A c \in CPU : WF_vars(Hypervisor(c)) /\ WF_vars(ipi[c] /\ Wake(c))

Spec == Init /\ [][Next]_vars

FairSpec == Spec /\ Fairness

----------------------------------------------------------------------------
Mailbox == INSTANCE MsgFifo WITH
               box <- [c \in CPU |-> Contents(msgs[c])],
               taken <- cur

(* The ring buffers behave as bounded first-in first-out mailboxes: nothing *)
(* accepted is lost, duplicated, altered or overtaken.                      *)
ImplementsMailbox == Mailbox!Spec

(* While the queue of c is not empty, c is emptying it or about to, or the  *)
(* IPI that makes it do so is pending or about to be raised by a sender     *)
(* that already pushed.                                                     *)
Attended(c) ==
    ~circular_queue_is_empty(msgs[c]) =>
        \/ ipi[c]
        \/ pc[c] \in {"irq", "drain", "clear"}
        \/ \E d \in CPU : target[d] = c

(* No queued message is ever stranded, if the IPI is withdrawn before       *)
(* cpu_msg_handler empties the queue ...                                    *)
NoStrandedMessage == ackFirst => \A c \in CPU : Attended(c)

(* ... and on every port: what cpu_send_msg relies on when it raises one    *)
(* IPI per message and never looks again.                                   *)
NoneStrandedOnAnyPort == \A c \in CPU : Attended(c)

Queued(n) == \E c \in CPU : \E i \in 1 .. Length(msgs[c]) : Contents(msgs[c])[i].num = n

(* Every message accepted is eventually taken out of its queue.             *)
MessagesAreHandled == \A n \in 1 .. MAX_SEND : ackFirst /\ Queued(n) ~> ~Queued(n)

(* A vCPU blocked on an emulated access runs again once the message that    *)
(* carries the answer was accepted.                                         *)
BlockedVcpuResumes ==
    \A c \in CPU :
        (/\ ackFirst
         /\ vcpu[c] = "on"
         /\ pc[c] = "standby"
         /\ \E i \in 1 .. Length(msgs[c]) : Contents(msgs[c])[i].kind = "wake")
        ~> pc[c] = "guest"

=============================================================================
