---------------------------- MODULE MCVcpuPower ----------------------------
(***************************************************************************)
(* The ports of the power-management calls: the vCPUs of an Arm guest       *)
(* (module Psci), the harts of a RISC-V guest (module Sbi, whose variables  *)
(* begin with h) or the vCPUs of an RH850 guest (module VBootctrl, with b), *)
(* as the platform is.  What is not the platform stays in its initial       *)
(* state.                                                                   *)
(***************************************************************************)
EXTENDS Psci

CONSTANTS HARTS, MAX_TIME

VARIABLES port, hstate, hstart_addr, hregs, hbox, hmask, hpc, hhvip, hstie, hcmp, hnow, hcalls,
          hdropped, bstarted, bnotify, bipi, bpc

Rh850 == INSTANCE VBootctrl WITH
    started <- bstarted, notify <- bnotify, ipi <- bipi, pc <- bpc

Riscv == INSTANCE Sbi WITH
    state <- hstate, start_addr <- hstart_addr, regs <- hregs, box <- hbox, mask <- hmask,
    pc <- hpc, hvip <- hhvip, stie <- hstie, cmp <- hcmp, now <- hnow, calls <- hcalls,
    dropped <- hdropped

ASSUME HartsAssumption == HARTS \in Nat \ {0} /\ MAX_TIME \in Nat

hvars == <<hstate, hstart_addr, hregs, hbox, hmask, hpc, hhvip, hstie, hcmp, hnow, hcalls,
           hdropped>>

bvars == <<bstarted, bnotify, bipi, bpc>>

MCInit ==
    /\ port \in {"arm", "riscv", "rh850"}
    /\ Init
    /\ Riscv!Init
    /\ Rh850!Init

MCNext ==
    \/ port = "arm" /\ Next /\ UNCHANGED <<port, hvars, bvars>>
    \/ port = "riscv" /\ Riscv!Next /\ UNCHANGED <<port, vars, bvars>>
    \/ port = "rh850" /\ Rh850!Next /\ UNCHANGED <<port, vars, hvars>>

(* The fairness of Psci!FairSpec and Sbi!FairSpec, for the platform.        *)
MCSpec ==
    /\ MCInit
    /\ [][MCNext]_<<port, vars, hvars, bvars>>
    /\ \A v \in VCPU :
           /\ WF_vars(port = "arm" /\ Hypervisor(v))
           /\ WF_vars(port = "arm" /\ box[v] # <<>> /\ Wake(v))
    /\ \A v \in VCPU : /\ WF_bvars(port = "rh850" /\ (Rh850!Run(v) \/ Rh850!NotifyCpus(v)))
                       /\ WF_bvars(port = "rh850" /\ Rh850!Wake(v))
    /\ WF_hvars(port = "riscv" /\ Riscv!Tick)
    /\ \A h \in Riscv!Hart :
           /\ WF_hvars(port = "riscv" /\ Riscv!Hypervisor(h))
           /\ WF_hvars(port = "riscv" /\ hbox[h] # <<>> /\ Riscv!Wake(h))
           /\ WF_hvars(port = "riscv" /\ Riscv!sbi_timer_irq_handler(h))

----------------------------------------------------------------------------
(* The type invariants of both ports.                                       *)
TypesOK == TypeOK /\ Riscv!TypeOK

(* Both ports give the guest the view of module VcpuPower (psci.c, sbi.c):  *)
(* one caller turns a vCPU on, and it runs from that caller's entry point,  *)
(* however calls, messages and wake-ups interleave.                         *)
PortsImplementVcpuPower == ImplementsVcpuPower /\ Riscv!ImplementsVcpuPower

(* On all ports a vCPU that was turned on runs, unless the message that     *)
(* starts it met a full queue.  RH850 sends no message: the bit, the IPI    *)
(* and the CPU on its way to sleep may come in any order.                   *)
PoweredOnRuns ==
    /\ TurnedOnRuns /\ Riscv!StartedRuns
    /\ port = "rh850" => Rh850!StartedRuns

(* The guest never has a timer interrupt pending before the deadline it set *)
(* last (sbi_time_handler, sbi_timer_irq_handler).                          *)
TimerNotEarly == Riscv!TimerNotEarly

(* A guest that has its timer interrupt does not make the hypervisor take   *)
(* it again and again (sbi_timer_irq_handler).                              *)
TimerNoStorm == Riscv!TimerNoStorm

(* A deadline that was set and not replaced is eventually signalled.        *)
TimerFires == Riscv!TimerFires

=============================================================================
