----------------------------- MODULE Interrupts -----------------------------
(***************************************************************************)
(* Who gets an interrupt line (core/interrupts.c and the interrupts.c of    *)
(* the ports): the hypervisor's drivers reserve lines for their handlers    *)
(* while the platform comes up; then the master CPU of every VM assigns it  *)
(* the lines its configuration names (vm_init_dev), all at the same time;   *)
(* and when a line fires, interrupts_handle decides from the bitmaps who it *)
(* is for.  Each of the three is one step: the first two run under          *)
(* irq_reserve_lock, the last one reads only what is settled by then.       *)
(*                                                                          *)
(* Line numbers are cut down: PRIV is the number of lines that every CPU    *)
(* has of its own (GIC_CPU_PRIV, 32, on Arm), IPIR the number of inter-     *)
(* processor channels of the RH850.  RISC-V stands for its PLIC and APLIC   *)
(* configurations; with an IMSIC the handler has a number of its own.       *)
(***************************************************************************)
EXTENDS Integers, FiniteSets, Sequences

CONSTANTS
    VM,        \* the VMs
    Ports,     \* the ports under consideration
    LINES,     \* MAX_INTERRUPT_LINES
    PRIV,      \* Arm: the first line that is not private to a CPU
    IPIR,      \* RH850: IPIR_NUM_CHANNELS
    IPI,       \* the line of the hypervisor's IPI
    Drivers,   \* what the drivers may ask for after the IPI: sequences of lines
    Configs    \* what the VMs may ask for: a sequence of lines per VM

Line == 0 .. LINES - 1

ASSUME InterruptsAssumption ==
    /\ LINES \in Nat
    /\ {PRIV, IPIR, IPI} \subseteq Line
    /\ Ports \subseteq {"armv8", "riscv", "rh850", "tricore"}
    /\ Drivers \subseteq Seq(Nat)
    /\ Configs \subseteq [VM -> Seq(Line)]

VARIABLES
    port,      \* the port the hypervisor is built for
    config,    \* config[v]: the lines VM v has yet to be assigned
    wanted,    \* the lines the drivers have yet to reserve
    global,    \* global_interrupt_bitmap
    handlers,  \* the lines with an entry in interrupt_handlers
    own,       \* own[v]: the VM's interrupt_bitmap
    stopped,   \* the VMs whose master is in ERROR; all of them if a driver is
    got,       \* got[v]: the lines that fired on a CPU of v and reached v
    handled    \* the lines that fired and reached the hypervisor's handler

vars == <<port, config, wanted, global, handlers, own, stopped, got, handled>>

TypeOK ==
    /\ port \in Ports
    /\ config \in [VM -> Seq(Line)]
    /\ wanted \in Seq(Nat)
    /\ global \subseteq Line
    /\ handlers \subseteq Line
    /\ own \in [VM -> SUBSET Line]
    /\ stopped \subseteq VM
    /\ got \in [VM -> SUBSET Line]
    /\ handled \subseteq Line

Init ==
    /\ port \in Ports
    /\ config \in Configs
    /\ wanted \in {<<IPI>> \o more : more \in Drivers}
    /\ global = {}
    /\ handlers = {}
    /\ own = [v \in VM |-> {}]
    /\ stopped = {}
    /\ got = [v \in VM |-> {}]
    /\ handled = {}

(* Mutant: a driver's line is not marked as taken.                          *)
ReserveUnmarked(id) ==
    IF id \in global \/ id \notin Line THEN stopped' = VM /\ UNCHANGED <<global, handlers>>
    ELSE /\ handlers' = handlers \cup {id}
         /\ UNCHANGED <<global, stopped>>

(* interrupts_reserve; the drivers stop in ERROR when it fails.             *)
interrupts_reserve(id) ==
    IF id \in global \/ id \notin Line THEN stopped' = VM /\ UNCHANGED <<global, handlers>>
    ELSE /\ global' = global \cup {id}
         /\ handlers' = handlers \cup {id}
         /\ UNCHANGED stopped

Reserve ==
    /\ wanted # <<>>
    /\ interrupts_reserve(Head(wanted))
    /\ wanted' = Tail(wanted)
    /\ UNCHANGED <<port, config, own, got, handled>>

(* interrupts_arch_conflict of the ports.                                   *)
interrupts_arch_conflict(id) ==
    /\ id \in global
    /\ port = "armv8" => id > PRIV
    /\ port = "rh850" => ~(id < IPIR /\ id # IPI)

(* The drivers are done and none of them stopped the CPU.                   *)
Going(v) == wanted = <<>> /\ v \notin stopped

(* interrupts_vm_assign for the next line of a VM, and the test of its      *)
(* answer in vm_init_dev.                                                   *)
interrupts_vm_assign(v) ==
    LET id == Head(config[v])
    IN  /\ Going(v)
        /\ config[v] # <<>>
        /\ config' = [config EXCEPT ![v] = Tail(@)]
        /\ IF interrupts_arch_conflict(id)
           THEN stopped' = stopped \cup {v} /\ UNCHANGED <<global, own>>
           ELSE /\ own' = [own EXCEPT ![v] = @ \cup {id}]
                /\ global' = global \cup {id}
                /\ UNCHANGED stopped
        /\ UNCHANGED <<port, wanted, handlers, got, handled>>

(* interrupts_arch_irq_is_forwardable.  On the other ports the hardware     *)
(* hands a VM's line to the guest without the hypervisor.                   *)
Forwardable == port \in {"armv8", "riscv"}

(* A line fires on a CPU that runs VM v: one the VM was assigned or one a   *)
(* driver enabled.  interrupts_handle looks at the VM first, then at the    *)
(* handlers.                                                                *)
interrupts_handle(v, id) ==
    /\ Going(v)
    /\ config[v] = <<>>
    /\ IF id \in own[v] /\ (Forwardable \/ id \notin handlers)
       THEN got' = [got EXCEPT ![v] = @ \cup {id}] /\ UNCHANGED handled
       ELSE id \in handlers /\ handled' = handled \cup {id} /\ UNCHANGED got
    /\ UNCHANGED <<port, config, wanted, global, handlers, own, stopped>>

Next ==
    \/ Reserve
    \/ \E v \in VM : interrupts_vm_assign(v) \/ \E id \in Line : interrupts_handle(v, id)

Spec == Init /\ [][Next]_vars

----------------------------------------------------------------------------
(* The lines a port shares between VMs on purpose: on Arm each CPU has its  *)
(* own copy of a private line (gic_is_priv), on the RH850 "IPIR channels    *)
(* not used by the hypervisor are shared between VMs".                      *)
Shared ==
    CASE port = "armv8" -> {id \in Line : id < PRIV}
      [] port = "rh850" -> {id \in Line : id < IPIR} \ {IPI}
      [] OTHER          -> {}

(* A line that is not shared has one owner: a VM, or the hypervisor,        *)
(* whatever the order in which the VMs were initialised.  The conflict is   *)
(* found by interrupt_assigned: "return if this interrupt is already        *)
(* reserved by VMM or any VM".                                              *)
ExclusiveLine ==
    \A id \in Line \ Shared, v \in VM :
        id \in own[v] => /\ id \notin handlers
                         /\ \A w \in VM : id \in own[w] => w = v

(* A line the hypervisor reserved is never delivered to a guest instead.    *)
HypervisorKeepsItsLines == \A v \in VM : got[v] \cap handlers = {}

=============================================================================
