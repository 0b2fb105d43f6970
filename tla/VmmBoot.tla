------------------------------ MODULE VmmBoot ------------------------------
(***************************************************************************)
(* How the CPUs of the platform become virtual machines at boot: vmm_init,  *)
(* vmm_assign_vcpu and vmm_alloc_install_vm (core/vmm.c) and vm_init        *)
(* (core/vm.c).  Every CPU runs this code at the same time.                 *)
(*                                                                          *)
(* A section under a spinlock is one step (module TicketLock).  A           *)
(* cpu_sync_barrier is an arrival, which counts, and a departure once the   *)
(* counter is high enough (module CpuSync); cpu_sync_and_clear_msgs is here *)
(* the barrier it also is.  What is built of a VM's address space, devices, *)
(* shared memory and Remote I/O is reduced to the fact that it is built.    *)
(***************************************************************************)
EXTENDS Integers, FiniteSets

CONSTANTS
    NCPU,       \* PLAT_CPU_NUM
    NVM,        \* config.vmlist_size
    MASTER,     \* the CPU for which cpu_is_master() holds
    INVALID,    \* INVALID_VMID, and an identifier nobody has yet
    CpuNums,    \* the values of platform.cpu_num ...
    Affinities  \* ... and of cpu_affinity that configurations may have

CPU == 0 .. NCPU - 1

VM == 0 .. NVM - 1

(* core/inc/config.h asserts that there are at most as many VMs as CPUs.    *)
ASSUME BootAssumption ==
    /\ NCPU \in Nat /\ NVM \in Nat
    /\ NVM <= NCPU
    /\ MASTER \in CPU
    /\ INVALID \notin Int
    /\ CpuNums \subseteq Nat \ {0}
    /\ Affinities \subseteq SUBSET CPU

(* The configurations: each VM has any of the CPU numbers, also one that    *)
(* the platform cannot satisfy, and any of the affinities.                  *)
Configs == [VM -> [cpu_num : CpuNums, affinity : Affinities]]

VARIABLES
    config,     \* config.vmlist
    assign,     \* vm_assign: master, ncpus, cpus, install_info_ready
    vm,         \* the VM structures and whether they are built
    vcpu,       \* vcpu[c]: cpu()->vcpu->id
    is_master,  \* is_master[c]: the local variable "master" of vmm_init
    vm_id,      \* vm_id[c]: the local variable of vmm_init
    i,          \* i[c]: the loop variable of vmm_assign_vcpu
    pc,         \* where each CPU is
    ready,      \* ready[t], count[t]: the synchronisation tokens
    count,
    next_count  \* next_count[c]: the count c waits for, 0 outside a barrier

locals == <<is_master, vm_id, i>>

tokens == <<ready, count, next_count>>

vars == <<config, assign, vm, vcpu, locals, pc, tokens>>

(* cpu_glb_sync, and the root_sync and vm->sync of each VM.                 *)
Glb == <<"glb", 0>>

Token == {Glb} \cup ({"root", "vm"} \X VM)

(* The places of vmm_init and vm_init, in order, with the token of the      *)
(* barrier that ends each of them.                                          *)
Phase == {"setup", "affinity", "remaining", "install", "master_init", "cpu_init",
          "vcpu_init", "mem_prot", "build", "done", "run", "powerdown", "error"}

(* The CPUs that reached a place of vm_init or left it behind.              *)
Reached(where) ==
    LET order == <<"install", "master_init", "cpu_init", "vcpu_init", "mem_prot",
                   "build", "done", "run">>
        index(p) == CHOOSE k \in 1 .. 8 : order[k] = p
    IN  {c \in CPU : /\ \E k \in 1 .. 8 : order[k] = pc[c]
                     /\ index(pc[c]) >= index(where)}

NumbersOK ==
    /\ config \in Configs
    /\ assign \in [VM -> [master : BOOLEAN, ncpus : Nat, cpus : SUBSET CPU,
                          install_info_ready : BOOLEAN]]
    /\ vm_id \in [CPU -> VM \cup {INVALID}]
    /\ i \in [CPU -> 0 .. NVM]
    /\ count \in [Token -> Nat]
    /\ next_count \in [CPU -> Nat]

ControlOK ==
    /\ vm \in [VM -> [master : CPU \cup {INVALID}, cpus : SUBSET CPU,
                      prot : BOOLEAN, built : BOOLEAN]]
    /\ vcpu \in [CPU -> CPU \cup {INVALID}]
    /\ is_master \in [CPU -> BOOLEAN]
    /\ pc \in [CPU -> Phase]
    /\ ready \in [Token -> BOOLEAN]

TypeOK == NumbersOK /\ ControlOK

(* cpu_glb_sync is initialised by cpu_init; everything else is zeroed.      *)
Init ==
    /\ config \in Configs
    /\ assign = [v \in VM |-> [master |-> FALSE, ncpus |-> 0, cpus |-> {},
                               install_info_ready |-> FALSE]]
    /\ vm = [v \in VM |-> [master |-> INVALID, cpus |-> {}, prot |-> FALSE, built |-> FALSE]]
    /\ vcpu = [c \in CPU |-> INVALID]
    /\ is_master = [c \in CPU |-> FALSE]
    /\ vm_id = [c \in CPU |-> INVALID]
    /\ i = [c \in CPU |-> 0]
    /\ pc = [c \in CPU |-> "setup"]
    /\ ready = [t \in Token |-> t = Glb]
    /\ count = [t \in Token |-> 0]
    /\ next_count = [c \in CPU |-> 0]

At(c, where) == pc[c] = where /\ next_count[c] = 0

Goto(c, where) == pc' = [pc EXCEPT ![c] = where]

n(t) == IF t[1] = "glb" THEN NCPU ELSE config[t[2]].cpu_num

(* The macro of lib/inc/util.h, for any positive "to".                      *)
ALIGN(val, to) == ((val + to - 1) \div to) * to

(* The section of cpu_sync_barrier under the token's lock.                  *)
Count(c, t) ==
    /\ count' = [count EXCEPT ![t] = @ + 1]
    /\ next_count' = [next_count EXCEPT ![c] = ALIGN(count[t] + 1, n(t))]

(* The first half of cpu_sync_barrier: wait for the token, then count.      *)
Arrive(c, t) ==
    /\ ready[t]
    /\ Count(c, t)
    /\ UNCHANGED ready

(* The end of cpu_sync_barrier.                                             *)
Depart(c, t, where) ==
    /\ next_count[c] > 0
    /\ count[t] >= next_count[c]
    /\ next_count' = [next_count EXCEPT ![c] = 0]
    /\ Goto(c, where)
    /\ UNCHANGED <<config, assign, vm, vcpu, locals, ready, count>>

----------------------------------------------------------------------------
(* vmm_init up to the barrier: the master initialises what the others are   *)
(* about to use.                                                            *)
VmmSetup(c) ==
    /\ At(c, "setup")
    /\ ready' = [t \in Token |-> ready[t] \/ (c = MASTER /\ t[1] = "root")]
    /\ Count(c, Glb)
    /\ UNCHANGED <<config, assign, vm, vcpu, locals, pc>>

SetupDone(c) == pc[c] = "setup" /\ Depart(c, Glb, "affinity")

(* c becomes a CPU of VM v, and its master if it is the first.              *)
Join(c, v) ==
    /\ assign' = [assign EXCEPT ![v] = [master |-> TRUE,
                                        ncpus |-> assign[v].ncpus + 1,
                                        cpus |-> assign[v].cpus \cup {c},
                                        install_info_ready |-> assign[v].install_info_ready]]
    /\ is_master' = [is_master EXCEPT ![c] = ~assign[v].master]
    /\ vm_id' = [vm_id EXCEPT ![c] = v]
    /\ UNCHANGED i

Skip(c) ==
    /\ i' = [i EXCEPT ![c] = @ + 1]
    /\ UNCHANGED <<assign, is_master, vm_id>>

HasRoom(v) == assign[v].ncpus < config[v].cpu_num

Scanning(c) == i[c] < NVM /\ vm_id[c] = INVALID

(* Mutant: the VM's limit is not compared with the CPUs it has.             *)
AffinityNoLimit(c) ==
    /\ At(c, "affinity")
    /\ Scanning(c)
    /\ IF c \in config[i[c]].affinity THEN Join(c, i[c]) ELSE Skip(c)
    /\ UNCHANGED <<config, vm, vcpu, pc, tokens>>

(* One turn of the first loop of vmm_assign_vcpu, under the lock of VM      *)
(* i[c]: a VM that prefers c takes it if it has no master or has room.      *)
Affinity(c) ==
    /\ At(c, "affinity")
    /\ Scanning(c)
    /\ IF /\ c \in config[i[c]].affinity
          /\ ~assign[i[c]].master \/ HasRoom(i[c])
       THEN Join(c, i[c])
       ELSE Skip(c)
    /\ UNCHANGED <<config, vm, vcpu, pc, tokens>>

(* Mutant: the second loop continues where the first one stopped.           *)
AffinityArriveNoReset(c) ==
    /\ At(c, "affinity")
    /\ ~Scanning(c)
    /\ Arrive(c, Glb)
    /\ UNCHANGED <<config, assign, vm, vcpu, locals, pc>>

(* The barrier between the two loops.                                       *)
AffinityArrive(c) ==
    /\ At(c, "affinity")
    /\ ~Scanning(c)
    /\ Arrive(c, Glb)
    /\ i' = [i EXCEPT ![c] = 0]
    /\ UNCHANGED <<config, assign, vm, vcpu, is_master, vm_id, pc>>

AffinityDone(c) == pc[c] = "affinity" /\ Depart(c, Glb, "remaining")

(* One turn of the second loop: a CPU without a VM joins the first one with *)
(* room.                                                                    *)
Remaining(c) ==
    /\ At(c, "remaining")
    /\ Scanning(c)
    /\ IF HasRoom(i[c]) THEN Join(c, i[c]) ELSE Skip(c)
    /\ UNCHANGED <<config, vm, vcpu, pc, tokens>>

(* The test of vmm_assign_vcpu's result in vmm_init.                        *)
Assigned(c) ==
    /\ At(c, "remaining")
    /\ ~Scanning(c)
    /\ Goto(c, IF vm_id[c] = INVALID THEN "powerdown" ELSE "install")
    /\ UNCHANGED <<config, assign, vm, vcpu, locals, tokens>>

----------------------------------------------------------------------------
(* vmm_alloc_install_vm in the VM's master: allocate, publish, and go on to *)
(* vm_master_init, the first step of vm_init.                               *)
Alloc(c) ==
    /\ At(c, "install")
    /\ is_master[c]
    /\ assign' = [assign EXCEPT ![vm_id[c]].install_info_ready = TRUE]
    /\ Goto(c, "master_init")
    /\ UNCHANGED <<config, vm, vcpu, locals, tokens>>

(* No page is left: ERROR stops the CPU.                                    *)
AllocFails(c) ==
    /\ At(c, "install")
    /\ is_master[c]
    /\ Goto(c, "error")
    /\ UNCHANGED <<config, assign, vm, vcpu, locals, tokens>>

(* vmm_alloc_install_vm in the other CPUs, which spin until it is ready.    *)
Install(c) ==
    /\ At(c, "install")
    /\ ~is_master[c]
    /\ assign[vm_id[c]].install_info_ready
    /\ Goto(c, "master_init")
    /\ UNCHANGED <<config, assign, vm, vcpu, locals, tokens>>

(* vm_master_init, in the master only; then the arrival at root_sync.       *)
MasterInit(c) ==
    LET v == vm_id[c]
    IN  /\ At(c, "master_init")
        /\ vm' = IF is_master[c] THEN [vm EXCEPT ![v].master = c] ELSE vm
        /\ ready[<<"root", v>>]
        /\ ready' = IF is_master[c] THEN [ready EXCEPT ![<<"vm", v>>] = TRUE] ELSE ready
        /\ Count(c, <<"root", v>>)
        /\ UNCHANGED <<config, assign, vcpu, locals, pc>>

MasterInitDone(c) ==
    pc[c] = "master_init" /\ Depart(c, <<"root", vm_id[c]>>, "cpu_init")

(* vm_cpu_init.                                                             *)
vm_cpu_init(c) ==
    /\ At(c, "cpu_init")
    /\ vm' = [vm EXCEPT ![vm_id[c]].cpus = @ \cup {c}]
    /\ Arrive(c, <<"vm", vm_id[c]>>)
    /\ UNCHANGED <<config, assign, vcpu, locals, pc>>

(* Mutant: the virtual CPU is initialised without a barrier after           *)
(* vm_cpu_init.                                                             *)
CpuInitDoneEarly(c) ==
    /\ pc[c] = "cpu_init"
    /\ next_count[c] > 0
    /\ next_count' = [next_count EXCEPT ![c] = 0]
    /\ Goto(c, "vcpu_init")
    /\ UNCHANGED <<config, assign, vm, vcpu, locals, ready, count>>

CpuInitDone(c) == pc[c] = "cpu_init" /\ Depart(c, <<"vm", vm_id[c]>>, "vcpu_init")

(* The CPUs of the VM with a smaller number.                                *)
vm_calc_vcpu_id(c) == Cardinality({d \in vm[vm_id[c]].cpus : d < c})

vm_vcpu_init(c) ==
    /\ At(c, "vcpu_init")
    /\ vcpu' = [vcpu EXCEPT ![c] = vm_calc_vcpu_id(c)]
    /\ Arrive(c, <<"vm", vm_id[c]>>)
    /\ UNCHANGED <<config, assign, vm, locals, pc>>

VcpuInitDone(c) == pc[c] = "vcpu_init" /\ Depart(c, <<"vm", vm_id[c]>>, "mem_prot")

(* vm_mem_prot_init, in the master only.                                    *)
MemProt(c) ==
    /\ At(c, "mem_prot")
    /\ vm' = IF is_master[c] THEN [vm EXCEPT ![vm_id[c]].prot = TRUE] ELSE vm
    /\ Arrive(c, <<"vm", vm_id[c]>>)
    /\ UNCHANGED <<config, assign, vcpu, locals, pc>>

MemProtDone(c) == pc[c] = "mem_prot" /\ Depart(c, <<"vm", vm_id[c]>>, "build")

(* vm_arch_init, then in the master memory, devices, IPC and Remote I/O.    *)
Build(c) ==
    /\ At(c, "build")
    /\ vm' = IF is_master[c] THEN [vm EXCEPT ![vm_id[c]].built = TRUE] ELSE vm
    /\ Arrive(c, <<"vm", vm_id[c]>>)
    /\ UNCHANGED <<config, assign, vcpu, locals, pc>>

BuildDone(c) == pc[c] = "build" /\ Depart(c, <<"vm", vm_id[c]>>, "done")

(* The last barrier, of vmm_init, and vcpu_run.                             *)
LastArrive(c) ==
    /\ At(c, "done")
    /\ Arrive(c, <<"vm", vm_id[c]>>)
    /\ UNCHANGED <<config, assign, vm, vcpu, locals, pc>>

RunVcpu(c) == pc[c] = "done" /\ Depart(c, <<"vm", vm_id[c]>>, "run")

(* What a CPU does until it runs its guest, but for a failing allocation.   *)
Step(c) ==
    \/ VmmSetup(c) \/ SetupDone(c)
    \/ Affinity(c) \/ AffinityArrive(c) \/ AffinityDone(c)
    \/ Remaining(c) \/ Assigned(c)
    \/ Alloc(c) \/ Install(c)
    \/ MasterInit(c) \/ MasterInitDone(c)
    \/ vm_cpu_init(c) \/ CpuInitDone(c)
    \/ vm_vcpu_init(c) \/ VcpuInitDone(c)
    \/ MemProt(c) \/ MemProtDone(c)
    \/ Build(c) \/ BuildDone(c)
    \/ LastArrive(c) \/ RunVcpu(c)

Next == \E c \in CPU : Step(c) \/ AllocFails(c)

Spec == Init /\ [][Next]_vars

(* Every CPU executes; its loops end when what they wait for happens.       *)
FairSpec == Spec /\ \A c \in CPU : WF_vars(Step(c))

----------------------------------------------------------------------------
(* A VM's counters are exact and its limit is kept, whatever order the CPUs *)
(* come in: a CPU belongs to one VM, the one it took, every VM with a CPU   *)
(* has exactly one master, and no VM has more CPUs than it asked for.       *)
AssignmentConsistent ==
    \A v \in VM :
        /\ assign[v].cpus = {c \in CPU : vm_id[c] = v}
        /\ assign[v].ncpus = Cardinality(assign[v].cpus)
        /\ assign[v].ncpus <= config[v].cpu_num
        /\ assign[v].cpus # {} => \E c \in assign[v].cpus :
               {d \in assign[v].cpus : is_master[d]} = {c}

(* A CPU is powered down at boot only when no VM has use for it: every VM   *)
(* has all its CPUs by then.                                                *)
PowerdownMeansFull ==
    \A c \in CPU, v \in VM : pc[c] = "powerdown" => assign[v].ncpus = config[v].cpu_num

(* Nothing of a VM is used before it is there: the structure before         *)
(* vm_cpu_init, the complete set of CPUs before identifiers are computed    *)
(* from it, the protection before vm_arch_init, everything before a vCPU    *)
(* runs.                                                                    *)
InitialisedBeforeUse ==
    \A c \in CPU :
        LET v == vm_id[c]
        IN  /\ c \in Reached("cpu_init") => is_master[vm[v].master]
            /\ c \in Reached("vcpu_init") =>
                   vm[v].cpus = assign[v].cpus /\ assign[v].ncpus = config[v].cpu_num
            /\ c \in Reached("build") => vm[v].prot
            /\ c \in Reached("run") => vm[v].built /\ \A d \in assign[v].cpus : vcpu[d] # INVALID

(* The identifiers of a VM's vCPUs are 0 .. cpu_num - 1, in the order of    *)
(* the physical CPUs: no two vCPUs share a structure.                       *)
VcpuIdsExact ==
    \A v \in VM :
        LET mine == {c \in assign[v].cpus : vcpu[c] # INVALID}
        IN  /\ \A c, d \in mine : c < d => vcpu[c] < vcpu[d]
            /\ \A c \in mine : vcpu[c] \in 0 .. config[v].cpu_num - 1

(* config.h: mutually exclusive affinities assign specific CPUs to the VMs. *)
(* A VM that prefers at least as many CPUs as it needs gets none but these. *)
AffinityHonoured ==
    (\A v, w \in VM : v # w => config[v].affinity \cap config[w].affinity = {}) =>
        \A v \in VM :
            Cardinality(config[v].affinity) >= config[v].cpu_num =>
                assign[v].cpus \subseteq config[v].affinity

(* The platform has the CPUs the configuration asks for.                    *)
Fits ==
    \E share \in [VM -> SUBSET CPU] :
        /\ \A v \in VM : Cardinality(share[v]) = config[v].cpu_num
        /\ \A v, w \in VM : v # w => share[v] \cap share[w] = {}

(* When the configuration fits the platform, every VM gets to run on all    *)
(* its CPUs unless its own allocation fails: no VM waits for another.       *)
VmsBoot ==
    \A v \in VM :
        Fits ~> \/ \E c \in CPU : vm_id[c] = v /\ pc[c] = "error"
                \/ Cardinality({c \in CPU : vm_id[c] = v /\ pc[c] = "run"}) = config[v].cpu_num

=============================================================================
