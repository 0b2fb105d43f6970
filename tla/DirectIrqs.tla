----------------------------- MODULE DirectIrqs -----------------------------
(***************************************************************************)
(* The ports on which the hardware delivers a VM's interrupts to the guest  *)
(* itself: RH850 (intc.c, vintc.c, ipir.c, vipir.c) and TriCore (ir.c,      *)
(* vir.c).  A guest configures its interrupts through the hypervisor, which *)
(* reads the physical register, merges and stores it, without a lock: the   *)
(* read and the store are two steps.                                        *)
(*                                                                          *)
(* node[i] is what the registers say of interrupt i: the VM it belongs to   *)
(* (EIBD.GM and GPID, SRC.VM; HYP for the hypervisor), the CPU it goes to   *)
(* (EIBD.PEID, SRC.TOS), en (EIC.EIMK, SRC.SRE), prio and pend (EIC.EIRF,   *)
(* SRC.SRR), and det (EEIC).  The IMR registers hold the en of 32           *)
(* interrupts each, here of IMR_BITS.                                       *)
(***************************************************************************)
EXTENDS Integers, FiniteSets

CONSTANTS
    Accesses,        \* [port -> the stores of the guests]
    IMR_BITS,
    MAX_ACCESSES,    \* bound on the stores of the guests
    MAX_EVENTS       \* bound on the interrupts raised and the IPIs sent

(* The registers that guests store to. Of EIC they store the byte with the  *)
(* pending bit, with or without the other one.                              *)
ASSUME AccessesAssumption ==
    /\ IMR_BITS \in Nat \ {0} /\ MAX_ACCESSES \in Nat /\ MAX_EVENTS \in Nat
    /\ \A w \in Accesses["rh850"] :
        /\ w.reg \in {"EIC", "IMR", "EIBD", "EEIC", "EN", "REQ", "FCLR"}
        /\ w.reg = "EIC" => 1 \in w.bytes /\ w.pend \in {0, 1}
        /\ w.reg \in {"EN", "REQ", "FCLR"} => w.chan \in {"guest", "hyp"}
    /\ \A w \in Accesses["tricore"] : w.reg = "SRC" /\ w.setr \in BOOLEAN /\ w.clrr \in BOOLEAN

HYP == 0
UNASSIGNED == 15     \* SRC_TOS_UNASSIGNED
CHAN == {"guest", "hyp"}

VARIABLES
    board,       \* [port, cpus: CPU -> VM, vcpu: VM -> (vCPU -> CPU), irqs: VM -> set]
    node,        \* interrupt -> its configuration and state
    ipir,        \* CPU -> channel -> [en, flg: sets of CPUs]
    busy,        \* CPU -> the store of the access it emulates
    want,        \* history: interrupt -> en as its guest stored it last
    due,         \* history: interrupts raised and not yet taken
    accesses,
    events

devars == <<board, node, ipir, busy, want, due, accesses, events>>

Rh850 == board.port = "rh850"
CPUS == DOMAIN board.cpus
PLAT_CPU_NUM == Cardinality(CPUS)
VMS == DOMAIN board.irqs
Vm(c) == board.cpus[c]
CpusOf(m) == {c \in CPUS : board.cpus[c] = m}
Owner(i) == IF \E m \in VMS : i \in board.irqs[m]
            THEN CHOOSE m \in VMS : i \in board.irqs[m] ELSE HYP
vm_has_interrupt(m, i) == i \in board.irqs[m]
Irqs == DOMAIN node

(* vm_translate_to_pcpuid, with the first vCPU for one the VM does not have,*)
(* and vm_translate_to_pcpu_mask, which leaves such out.                    *)
Translate(m, v) == board.vcpu[m][IF v \in DOMAIN board.vcpu[m] THEN v ELSE 0]
TranslateMask(m, V) == {board.vcpu[m][v] : v \in V \cap DOMAIN board.vcpu[m]}

(* The store a handler makes: the fields, and the interrupts whose pending  *)
(* bit the guest clears itself.                                             *)
NoStore == [kind |-> "none", upd |-> {}, cleared |-> {}]
Set(i, f, x) == [intp |-> i, field |-> f, val |-> x]

(* A platform and its configuration: every vCPU has a CPU, no interrupt is  *)
(* of two VMs, no IMR register holds interrupts of two VMs, and interrupts  *)
(* the hypervisor injects are of VMs with one vCPU.                         *)
WellFormed(b) ==
    /\ b.port \in {"rh850", "tricore"}
    /\ HYP \notin DOMAIN b.irqs
    /\ \A c \in DOMAIN b.cpus : b.cpus[c] \in DOMAIN b.irqs
    /\ \A m \in DOMAIN b.irqs :
        /\ 0 \in DOMAIN b.vcpu[m]
        /\ \A v \in DOMAIN b.vcpu[m] : b.vcpu[m][v] \in DOMAIN b.cpus /\ b.cpus[b.vcpu[m][v]] = m
        /\ b.irqs[m] \subseteq b.all /\ b.virq[m] \subseteq b.irqs[m]
        /\ b.virq[m] # {} => \A c, d \in DOMAIN b.cpus : b.cpus[c] = m /\ b.cpus[d] = m => c = d
    /\ \A m, n \in DOMAIN b.irqs : \A i \in b.irqs[m], j \in b.irqs[n] :
        i = j \/ (b.port = "rh850" /\ i \div IMR_BITS = j \div IMR_BITS) => m = n

----------------------------------------------------------------------------
(* The hypervisor's start: its own interrupts, intc_vm_assign with the VM's *)
(* first vCPU as the target, or ir_assign_int_to_vm, which leaves the       *)
(* target open; ipir_init and ir_init_ipi.                                  *)
vm_assign(b, m) ==
    [vm |-> m, cpu |-> IF b.port = "rh850" THEN b.vcpu[m][0] ELSE UNASSIGNED,
     en |-> 0, prio |-> 0, pend |-> 0, det |-> 0]
hyp_assign == [vm |-> HYP, cpu |-> 0, en |-> 1, prio |-> 0, pend |-> 0, det |-> 0]

DeInit(b) ==
    /\ board = b
    /\ node = [i \in b.all |->
                  IF \E m \in DOMAIN b.irqs : i \in b.irqs[m]
                  THEN vm_assign(b, CHOOSE m \in DOMAIN b.irqs : i \in b.irqs[m]) ELSE hyp_assign]
    /\ ipir = [c \in DOMAIN b.cpus |->
                  [k \in CHAN |-> [en |-> IF k = "hyp" THEN DOMAIN b.cpus ELSE {}, flg |-> {}]]]
    /\ busy = [c \in DOMAIN b.cpus |-> NoStore]
    /\ want = [i \in b.all |-> node[i].en]
    /\ due = {} /\ accesses = 0 /\ events = 0

----------------------------------------------------------------------------
(* The access handlers: the fields that are stored, after the read.         *)

(* emulate_intc_eic_access: the bytes of the register that are not accessed *)
(* are stored as they were read.  Byte 0 holds en and prio, byte 1 pend.    *)
emulate_intc_eic_access(m, w) ==
    LET n == node[w.intp]
        low == {Set(w.intp, "en", IF 0 \in w.bytes THEN w.en ELSE n.en),
                Set(w.intp, "prio", IF 0 \in w.bytes THEN w.prio ELSE n.prio)}
        high == {Set(w.intp, "pend", IF 1 \in w.bytes THEN w.pend ELSE n.pend)}
    IN  IF vm_has_interrupt(m, w.intp) THEN low \cup high ELSE {}

(* All bits of the register are the guest's.                                *)
ImrUnfiltered(m, w) ==
    {Set(i, "en", IF i \in w.unmasked THEN 1 ELSE 0) : i \in {j \in Irqs : j \div IMR_BITS = w.reg_idx}}

emulate_intc_imr_access(m, w) ==
    {Set(i, "en", IF vm_has_interrupt(m, i) THEN (IF i \in w.unmasked THEN 1 ELSE 0) ELSE node[i].en) :
        i \in {j \in Irqs : j \div IMR_BITS = w.reg_idx}}

emulate_intc_eibd_access(m, w) ==
    IF vm_has_interrupt(m, w.intp)
    THEN {Set(w.intp, "cpu", Translate(m, w.vcpu)), Set(w.intp, "vm", node[w.intp].vm)} ELSE {}

emulate_intc_eeic_access(m, w) ==
    IF vm_has_interrupt(m, w.intp) THEN {Set(w.intp, "det", w.det)} ELSE {}

(* vir_emul_src_access: SETR and CLRR change the pending bit, and a store   *)
(* of neither leaves it to the hardware.                                    *)
vir_emul_src_access(c, w) ==
    LET n == node[w.intp]
    IN  IF w.cpu > PLAT_CPU_NUM \/ (n.cpu # UNASSIGNED /\ w.cpu # c) THEN {}
        ELSE {Set(w.intp, "en", w.en), Set(w.intp, "prio", w.prio), Set(w.intp, "cpu", w.cpu),
              Set(w.intp, "vm", n.vm)}
             \cup (IF w.setr THEN {Set(w.intp, "pend", 1)}
                   ELSE IF w.clrr THEN {Set(w.intp, "pend", 0)} ELSE {})

(* vintc2_emul_handler, vir_src_emul_handler *)
Emulated(c, w) ==
    CASE w.reg = "EIC"  -> emulate_intc_eic_access(Vm(c), w)
      [] w.reg = "IMR"  -> emulate_intc_imr_access(Vm(c), w)
      [] w.reg = "EIBD" -> emulate_intc_eibd_access(Vm(c), w)
      [] w.reg = "EEIC" -> emulate_intc_eeic_access(Vm(c), w)
      [] w.reg = "SRC"  -> vir_emul_src_access(c, w)

Cleared(w) ==
    IF (w.reg = "EIC" /\ 1 \in w.bytes /\ w.pend = 0) \/ (w.reg = "SRC" /\ w.clrr /\ ~w.setr)
    THEN {w.intp} ELSE {}

(* On TriCore an access to an interrupt of others is an ERROR, which guests *)
(* do not make.  A guest stores to the IMR registers that hold interrupts   *)
(* of its own, and no register holds those of two VMs: the handler stores   *)
(* the bits of other VMs as it read them.                                   *)
GuestAccess(c) ==
    /\ busy[c] = NoStore /\ accesses < MAX_ACCESSES
    /\ accesses' = accesses + 1
    /\ \E w \in Accesses[board.port] :
        /\ w.reg \notin {"EN", "REQ", "FCLR"}
        /\ w.reg = "SRC" => vm_has_interrupt(Vm(c), w.intp)
        /\ w.reg = "IMR" => \E i \in board.irqs[Vm(c)] : i \div IMR_BITS = w.reg_idx
        /\ busy' = [busy EXCEPT ![c] = [kind |-> "guest", upd |-> Emulated(c, w), cleared |-> Cleared(w)]]
    /\ UNCHANGED <<board, node, ipir, want, due, events>>

(* vintc_inject, vir_inject: the whole register is stored with the pending  *)
(* bit; the other fields are those that were read.                          *)
DirectInject(c) ==
    /\ busy[c] = NoStore /\ events < MAX_EVENTS
    /\ events' = events + 1
    /\ \E i \in board.virq[Vm(c)] :
        LET old == {Set(i, f, node[i][f]) : f \in {"en", "prio"} \cup IF Rh850 THEN {} ELSE {"cpu"}}
        IN  busy' = [busy EXCEPT ![c] = [kind |-> "inject", upd |-> old \cup {Set(i, "pend", 1)},
                                         cleared |-> {}]]
    /\ UNCHANGED <<board, node, ipir, want, due, accesses>>

Field(upd, i, f, old) ==
    IF \E u \in upd : u.intp = i /\ u.field = f
    THEN (CHOOSE u \in upd : u.intp = i /\ u.field = f).val ELSE old

StoreRegister(c) ==
    LET upd == busy[c].upd
    IN  /\ busy[c] # NoStore
        /\ node' = [i \in Irqs |-> [f \in DOMAIN node[i] |-> Field(upd, i, f, node[i][f])]]
        /\ want' = [i \in Irqs |-> IF busy[c].kind = "guest" /\ vm_has_interrupt(Vm(c), i)
                                   THEN Field(upd, i, "en", want[i]) ELSE want[i]]
        /\ due' = IF busy[c].kind = "inject" THEN due \cup {i \in Irqs : \E u \in upd : u.intp = i}
                  ELSE due \ {i \in busy[c].cleared : Set(i, "pend", 0) \in upd}
        /\ busy' = [busy EXCEPT ![c] = NoStore]
        /\ UNCHANGED <<board, ipir, accesses, events>>

----------------------------------------------------------------------------
(* vipir_emul_handler, under ipir_lock of the channel.  A request sets the  *)
(* flag of the CPUs it names (the hardware).                                *)
Merge(old, val, m) == (old \ CpusOf(m)) \cup (val \cap CpusOf(m))

vipir_emul_handler(c) ==
    /\ Rh850 /\ busy[c] = NoStore /\ accesses < MAX_ACCESSES
    /\ accesses' = accesses + 1
    /\ \E w \in Accesses[board.port] :
        LET m == Vm(c)
            pe == IF w.self THEN c ELSE Translate(m, w.vcpu)
            val == Merge({}, TranslateMask(m, w.mask), m)
        IN  /\ w.reg \in {"EN", "REQ", "FCLR"} /\ w.chan # "hyp"
            /\ ipir' = CASE w.reg = "EN" -> [ipir EXCEPT ![pe][w.chan].en = Merge(@, val, m)]
                         [] w.reg = "FCLR" -> [ipir EXCEPT ![pe][w.chan].flg = @ \ val]
                         [] w.reg = "REQ" ->
                              [t \in CPUS |-> IF t \in val
                                              THEN [ipir[t] EXCEPT ![w.chan].flg = @ \cup {pe}]
                                              ELSE ipir[t]]
    /\ UNCHANGED <<board, node, busy, want, due, events>>

(* ipir_send_ipi and ipir_handle, for the messages of module CpuMsg.        *)
ipir_send_ipi(c) ==
    /\ Rh850 /\ events < MAX_EVENTS
    /\ events' = events + 1
    /\ \E t \in CPUS \ {c} : ipir' = [ipir EXCEPT ![t]["hyp"].flg = @ \cup {c}]
    /\ UNCHANGED <<board, node, busy, want, due, accesses>>

ipir_handle(c) ==
    /\ Rh850 /\ busy[c] = NoStore /\ ipir[c]["hyp"].flg # {}
    /\ ipir' = [ipir EXCEPT ![c]["hyp"].flg = {}]
    /\ UNCHANGED <<board, node, busy, want, due, accesses, events>>

(* A device raises an interrupt, and the hardware gives it to the guest on  *)
(* the CPU it goes to.                                                      *)
DeviceRaise ==
    /\ events < MAX_EVENTS
    /\ events' = events + 1
    /\ \E i \in Irqs : /\ node[i].vm # HYP
                       /\ node' = [node EXCEPT ![i].pend = 1]
                       /\ due' = due \cup {i}
    /\ UNCHANGED <<board, ipir, busy, want, accesses>>

Deliverable(i) == node[i].pend = 1 /\ node[i].en = 1

GuestTakes(c) ==
    /\ busy[c] = NoStore
    /\ \E i \in Irqs : /\ Deliverable(i) /\ node[i].cpu = c /\ node[i].vm = Vm(c)
                       /\ node' = [node EXCEPT ![i].pend = 0]
                       /\ due' = due \ {i}
    /\ UNCHANGED <<board, ipir, busy, want, accesses, events>>

DeNext ==
    \/ DeviceRaise
    \/ \E c \in CPUS : \/ GuestAccess(c) \/ DirectInject(c) \/ StoreRegister(c)
                       \/ vipir_emul_handler(c) \/ ipir_send_ipi(c) \/ ipir_handle(c)
                       \/ GuestTakes(c)

(* A handler ends, and a guest takes what it has enabled.                   *)
DeFairness(C) == \A c \in C : WF_devars(StoreRegister(c)) /\ WF_devars(GuestTakes(c))

----------------------------------------------------------------------------
(* Every interrupt belongs to the VM it was assigned to, or to the          *)
(* hypervisor, whatever the guests store; on RH850 it goes to a CPU of that *)
(* VM, and IPIs stay among the CPUs of one VM and off the channel of the    *)
(* hypervisor.                                                              *)
DirectConfined ==
    /\ \A i \in Irqs :
        /\ node[i].vm = Owner(i)
        /\ Owner(i) = HYP => node[i] = hyp_assign
        /\ Rh850 /\ Owner(i) # HYP => node[i].cpu \in CpusOf(Owner(i))
    /\ \A c \in CPUS : /\ ipir[c]["guest"].en \cup ipir[c]["guest"].flg \subseteq CpusOf(Vm(c))
                       /\ ipir[c]["hyp"].en = CPUS

(* An interrupt raised or injected stays pending until its guest takes it   *)
(* or stores its pending bit itself.                                        *)
DirectNotLost == \A i \in due : node[i].pend = 1

(* When no store is on the way, an interrupt is enabled or masked as the    *)
(* guest that has it stored last: what other guests and the hypervisor      *)
(* write to the registers it shares with them did not undo it.              *)
EnableKept ==
    (\A c \in CPUS : busy[c] = NoStore) => \A i \in Irqs : node[i].en = want[i]

(* Again and again no interrupt that is pending and enabled for a CPU of    *)
(* its VM is left.                                                          *)
DirectDrained ==
    []<>(\A i \in due : Deliverable(i) => node[i].cpu \notin CpusOf(Owner(i)))

=============================================================================
