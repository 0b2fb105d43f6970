----------------------------- MODULE VBootctrl ------------------------------
(***************************************************************************)
(* The BOOTCTRL register of an RH850 guest (vbootctrl.c): a vCPU starts     *)
(* others by setting their bits.  The bits are set first and the CPUs of    *)
(* the vCPUs they belong to get an IPI after that, with no message; a CPU   *)
(* that is woken looks at the bit (vcpu_run).                               *)
(***************************************************************************)
EXTENDS Naturals

CONSTANTS VCPU, Boot

VARIABLES
    started,   \* vCPUs with arch.started
    notify,    \* notify[v]: CPUs the handler on v's CPU has still to notify
    ipi,       \* vCPUs whose CPU has the IPI pending
    pc         \* pc[v]: "guest", "run" (in vcpu_run) or "powerdown"

vars == <<started, notify, ipi, pc>>

(* vcpu_arch_reset, and vcpu_run at the end of vmm_init.                    *)
Init ==
    /\ started = {Boot}
    /\ notify = [v \in VCPU |-> {}]
    /\ ipi = {}
    /\ pc = [v \in VCPU |-> "run"]

(* vcpu_run *)
Run(v) ==
    /\ pc[v] = "run"
    /\ pc' = [pc EXCEPT ![v] = IF v \in started THEN "guest" ELSE "powerdown"]
    /\ UNCHANGED <<started, notify, ipi>>

(* vbootctrl_emul_handler, the loop over the bits that are set.             *)
vbootctrl_emul_handler(v) ==
    /\ pc[v] = "guest" /\ notify[v] = {}
    /\ \E S \in SUBSET VCPU \ {{}} :
        /\ notify' = [notify EXCEPT ![v] = S \ started]
        /\ started' = started \cup S
    /\ UNCHANGED <<ipi, pc>>

NotifyCpus(v) ==
    /\ pc[v] = "guest" /\ notify[v] # {}
    /\ ipi' = ipi \cup notify[v]
    /\ notify' = [notify EXCEPT ![v] = {}]
    /\ UNCHANGED <<started, pc>>

(* cpu_powerdown_wakeup, and the IPI in the guest or in the hypervisor.     *)
Wake(v) ==
    /\ v \in ipi
    /\ ipi' = ipi \ {v}
    /\ pc' = [pc EXCEPT ![v] = IF @ = "powerdown" THEN "run" ELSE @]
    /\ pc[v] # "run"
    /\ UNCHANGED <<started, notify>>

Next == \E v \in VCPU : Run(v) \/ vbootctrl_emul_handler(v) \/ NotifyCpus(v) \/ Wake(v)

Spec == Init /\ [][Next]_vars

(* A vCPU whose bit is set runs.                                            *)
StartedRuns == \A v \in VCPU : v \in started ~> pc[v] = "guest"

=============================================================================
