-------------------------------- MODULE Psci --------------------------------
(***************************************************************************)
(* The PSCI calls of an Arm guest: arch/armv8/psci.c, with the low-power    *)
(* states of armv8-a/psci.c and armv8-a/cpu.c.  The vCPUs of one VM, each   *)
(* on its own CPU, turn each other on and themselves off.  A section under  *)
(* psci_ctx.lock is one step.                                               *)
(*                                                                          *)
(* The message queue is the bounded mailbox of module MsgFifo, which drops  *)
(* a message when it is full, and the IPI is pending while there are        *)
(* messages (module CpuMsg, ackFirst).  The other users of the queue are    *)
(* "note" messages.  An entry point stands for the pair of entry point and  *)
(* context identifier, which travel together.                               *)
(***************************************************************************)
EXTENDS Naturals, Sequences

CONSTANTS
    VCPU,       \* the vCPUs of the VM
    Boot,       \* the one with identifier 0
    Entry,      \* the entry points callers may give
    NoEntry,    \* none
    NoTarget,   \* no target
    Capacity,   \* IPI_MAX_EVENTS
    MAX_CALL    \* bound: calls that the guests make

ASSUME PsciAssumption ==
    /\ Boot \in VCPU
    /\ NoEntry \notin Entry
    /\ NoTarget \notin VCPU
    /\ Capacity \in Nat \ {0}
    /\ MAX_CALL \in Nat

VARIABLES
    state,        \* state[v]: psci_ctx.state
    entrypoint,   \* entrypoint[v]: psci_ctx.entrypoint and .context_id
    regs,         \* regs[v]: where the guest's registers were last reset to
    box,          \* box[v]: the messages queued for v's CPU
    target,       \* target[v]: the vCPU that v is about to send PSCI_MSG_ON
    pc,           \* where each CPU is
    calls,        \* calls made so far
    dropped       \* history: the vCPUs whose PSCI_MSG_ON met a full queue

vars == <<state, entrypoint, regs, box, target, pc, calls, dropped>>

TypeOK ==
    /\ state \in [VCPU -> {"OFF", "ON_PENDING", "ON"}]
    /\ entrypoint \in [VCPU -> Entry \cup {NoEntry}]
    /\ regs \in [VCPU -> Entry \cup {NoEntry}]
    /\ box \in [VCPU -> Seq({"ON", "note"})]
    /\ \A v \in VCPU : Len(box[v]) <= Capacity
    /\ target \in [VCPU -> VCPU \cup {NoTarget}]
    /\ pc \in [VCPU -> {"guest", "suspended", "powerdown", "check", "drain"}]
    /\ calls \in 0 .. MAX_CALL
    /\ dropped \subseteq VCPU

(* vcpu_arch_init, and vcpu_run at the end of vmm_init.                     *)
Init ==
    /\ state = [v \in VCPU |-> IF v = Boot THEN "ON" ELSE "OFF"]
    /\ entrypoint = [v \in VCPU |-> NoEntry]
    /\ regs = [v \in VCPU |-> NoEntry]
    /\ box = [v \in VCPU |-> <<>>]
    /\ target = [v \in VCPU |-> NoTarget]
    /\ pc = [v \in VCPU |-> IF v = Boot THEN "guest" ELSE "powerdown"]
    /\ calls = 0
    /\ dropped = {}

Goto(v, where) == pc' = [pc EXCEPT ![v] = where]

(* The guest of v makes a call.                                             *)
Call(v) ==
    /\ pc[v] = "guest"
    /\ target[v] = NoTarget
    /\ calls < MAX_CALL
    /\ calls' = calls + 1

(* psci_cpu_on_handler up to the message: PSCI_E_ALREADY_ON unless the      *)
(* target is off.                                                           *)
psci_cpu_on_handler(v, t, e) ==
    /\ Call(v)
    /\ IF state[t] = "OFF"
       THEN /\ state' = [state EXCEPT ![t] = "ON_PENDING"]
            /\ entrypoint' = [entrypoint EXCEPT ![t] = e]
            /\ target' = [target EXCEPT ![v] = t]
       ELSE UNCHANGED <<state, entrypoint, target>>
    /\ UNCHANGED <<regs, box, pc, dropped>>

(* cpu_send_msg and the end of psci_cpu_on_handler.                         *)
SendOn(v) ==
    LET t == target[v]
    IN  /\ t # NoTarget
        /\ target' = [target EXCEPT ![v] = NoTarget]
        /\ IF Len(box[t]) < Capacity
           THEN box' = [box EXCEPT ![t] = Append(@, "ON")] /\ UNCHANGED dropped
           ELSE dropped' = dropped \cup {t} /\ UNCHANGED box
        /\ UNCHANGED <<state, entrypoint, regs, pc, calls>>

(* Another subsystem queues a message for t.                                *)
Note(v, t) ==
    /\ Call(v)
    /\ box' = IF Len(box[t]) < Capacity THEN [box EXCEPT ![t] = Append(@, "note")] ELSE box
    /\ UNCHANGED <<state, entrypoint, regs, target, pc, dropped>>

(* psci_cpu_off_handler; cpu_powerdown does not return to it.               *)
psci_cpu_off_handler(v) ==
    /\ Call(v)
    /\ state' = [state EXCEPT ![v] = "OFF"]
    /\ Goto(v, "powerdown")
    /\ UNCHANGED <<entrypoint, regs, box, target, dropped>>

(* psci_cpu_suspend_handler for a power-down state; for a standby state the *)
(* guest just waits.                                                        *)
psci_cpu_suspend_handler(v, e) ==
    /\ Call(v)
    /\ entrypoint' = [entrypoint EXCEPT ![v] = e]
    /\ Goto(v, "suspended")
    /\ UNCHANGED <<state, regs, box, target, dropped>>

(* psci_power_down returns: the platform only stands by.                    *)
SuspendReturns(v) ==
    /\ pc[v] = "suspended"
    /\ Goto(v, "guest")
    /\ UNCHANGED <<state, entrypoint, regs, box, target, calls, dropped>>

(* The CPU was powered down and wakes up, for any reason:                   *)
(* psci_wake_from_powerdown, then cpu_powerdown_wakeup.                     *)
psci_wake_from_powerdown(v) ==
    /\ pc[v] \in {"suspended", "powerdown"}
    /\ regs' = [regs EXCEPT ![v] = entrypoint[v]]
    /\ Goto(v, "check")
    /\ UNCHANGED <<state, entrypoint, box, target, calls, dropped>>

(* The power-down state was a mere wait for interrupts: cpu_arch_powerdown  *)
(* goes on to cpu_powerdown_wakeup by itself.                               *)
WaitIsOver(v) ==
    /\ pc[v] = "powerdown"
    /\ Goto(v, "check")
    /\ UNCHANGED <<state, entrypoint, regs, box, target, calls, dropped>>

(* vcpu_run.                                                                *)
RunTarget(v) == IF state[v] = "ON" THEN "guest" ELSE "powerdown"

(* interrupts_ipi_check and interrupts_ipi_clear.                           *)
CheckIpi(v) ==
    /\ pc[v] = "check"
    /\ Goto(v, IF box[v] # <<>> THEN "drain" ELSE RunTarget(v))
    /\ UNCHANGED <<state, entrypoint, regs, box, target, calls, dropped>>

(* psci_wake_from_off.                                                      *)
psci_wake_from_off(v) ==
    IF state[v] = "ON_PENDING"
    THEN /\ regs' = [regs EXCEPT ![v] = entrypoint[v]]
         /\ state' = [state EXCEPT ![v] = "ON"]
    ELSE UNCHANGED <<regs, state>>

(* cpu_msg_handler, on the way out of the power-down state or in an         *)
(* interrupt of the guest: one message.                                     *)
HandleMsg(v) ==
    /\ pc[v] = "drain" \/ (pc[v] = "guest" /\ target[v] = NoTarget)
    /\ box[v] # <<>>
    /\ box' = [box EXCEPT ![v] = Tail(@)]
    /\ IF Head(box[v]) = "ON" THEN psci_wake_from_off(v) ELSE UNCHANGED <<regs, state>>
    /\ UNCHANGED <<entrypoint, target, pc, calls, dropped>>

(* cpu_msg_handler returns to cpu_powerdown_wakeup.                         *)
HandlerReturns(v) ==
    /\ pc[v] = "drain"
    /\ box[v] = <<>>
    /\ Goto(v, RunTarget(v))
    /\ UNCHANGED <<state, entrypoint, regs, box, target, calls, dropped>>

Wake(v) == psci_wake_from_powerdown(v) \/ WaitIsOver(v)

Hypervisor(v) == SendOn(v) \/ CheckIpi(v) \/ HandleMsg(v) \/ HandlerReturns(v)

Next ==
    \E v \in VCPU :
        \/ Hypervisor(v)
        \/ Wake(v)
        \/ SuspendReturns(v)
        \/ psci_cpu_off_handler(v)
        \/ \E t \in VCPU : Note(v, t) \/ \E e \in Entry : psci_cpu_on_handler(v, t, e)
        \/ \E e \in Entry : psci_cpu_suspend_handler(v, e)

Spec == Init /\ [][Next]_vars

(* The hypervisor keeps running on a CPU, and a pending interrupt ends its  *)
(* sleep.                                                                   *)
FairSpec ==
    /\ Spec
    /\ \A v \in VCPU : WF_vars(Hypervisor(v)) /\ WF_vars(box[v] # <<>> /\ Wake(v))

----------------------------------------------------------------------------
(* A vCPU that left the suspended state but is not in the guest yet.        *)
Resuming(v) == state[v] = "ON" /\ pc[v] = "suspended"

Power == INSTANCE VcpuPower WITH
    power <- [v \in VCPU |-> CASE state[v] = "OFF" -> "off"
                               [] state[v] = "ON_PENDING" -> "pending"
                               [] Resuming(v) -> "suspended"
                               [] OTHER -> "on"],
    entry <- [v \in VCPU |-> IF state[v] = "ON_PENDING" \/ Resuming(v)
                             THEN entrypoint[v] ELSE NoEntry],
    start <- [v \in VCPU |-> IF state[v] = "ON" THEN regs[v] ELSE NoEntry]

(* The guest's view is that of module VcpuPower, however calls, messages    *)
(* and wake-ups interleave: one caller turns a vCPU on, and it starts from  *)
(* that caller's entry point, although a wake-up without a reason resets    *)
(* the registers of a vCPU that is off to an older one.                     *)
ImplementsVcpuPower == Power!Spec

(* A vCPU that waits to be started has its message: on the way, queued, or  *)
(* lost to a full queue.  Nobody could turn it on otherwise, as CPU_ON is   *)
(* refused from now on.                                                     *)
PendingHasMessage ==
    \A v \in VCPU :
        state[v] = "ON_PENDING" =>
            \/ v \in dropped
            \/ \E u \in VCPU : target[u] = v
            \/ \E k \in 1 .. Len(box[v]) : box[v][k] = "ON"

(* A guest executes only on a vCPU that is on.                              *)
OnlyOnRuns == \A v \in VCPU : pc[v] \in {"guest", "suspended"} => state[v] = "ON"

(* A vCPU that was turned on runs, unless its message met a full queue.     *)
TurnedOnRuns ==
    \A v \in VCPU : state[v] = "ON_PENDING" ~> (pc[v] = "guest" \/ v \in dropped)

=============================================================================
