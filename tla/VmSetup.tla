------------------------------ MODULE VmSetup ------------------------------
(***************************************************************************)
(* The set-up of the VMs, in the order of init, vmm_init and vm_init: the   *)
(* platform's master reserves the lines of the drivers (interrupts_init)    *)
(* and links the Remote I/O devices (remio_init); behind a barrier the      *)
(* masters of the VMs, all at the same time, assign the lines of their VM   *)
(* and hand its devices to the IOMMU (vm_init_dev), sign up for its         *)
(* inter-VM communication (vm_init_ipc) and bring up its halves of the      *)
(* Remote I/O devices (vm_init_remio); then the guests run: their lines     *)
(* fire, they ring each other and their accesses trap.  ERROR stops the CPU *)
(* it happens on: the platform's master never reaches the barrier, a VM's   *)
(* master never the next part.                                              *)
(***************************************************************************)
EXTENDS Interrupts

CONSTANTS
    Key, Shmem, NoShmem, RemioConfigs, Cpus,   \* of module RemIOBoot
    Bits, SmeNum, CtxNum, ResetCtx, FqSize,    \* of module Iommu
    Shmems, Event, RINGS,                      \* of module Ipc
    Regions, Registers, DeviceBases, Instructions, \* of module Traps
    Setups                                     \* what is configured

VARIABLES
    vmlist, master, todo, device, phase, pc, at, flag,
    iommu, streams, global_mask, ioat, iopc, iosme, ctx_id, banks, sme_held, sme_bitmap,
    grp_bitmap, smr, s2cr, ddt_bitmap, ddt, fqh, fqt, fqof, fip, fqpc, fqseen,
    ipcs, ipcat, cpu_masters, mail, injected, rung,
    served,
    lined,     \* lined[v]: the IPC objects whose lines vm_init_ipc has turned to
    guest      \* what the guests do: their lines fire, they ring, or they trap

Remio == INSTANCE RemIOBoot WITH Configs <- RemioConfigs

Io == INSTANCE Iommu

Ipc == INSTANCE Ipc

Traps == INSTANCE Traps

remio == <<vmlist, todo, device, phase, pc, at, flag>>

io == <<iommu, streams, global_mask, ioat, iopc, iosme, ctx_id, banks, sme_held, sme_bitmap,
        grp_bitmap, smr, s2cr, ddt_bitmap, ddt, fqh, fqt, fqof, fip, fqpc, fqseen>>

ipc == <<ipcs, ipcat, cpu_masters, mail, injected, rung, lined>>

lines == <<port, config, wanted, global, handlers, own, got, handled>>

ASSUME SetupAssumption ==
    /\ VM \subseteq Nat
    /\ RemioConfigs \subseteq [VM -> Seq(Remio!Entry)]
    /\ \A v \in VM : Cpus[v] \subseteq Nat /\ Cpus[v] # {}
    /\ \A v, w \in VM : v # w => Cpus[v] \cap Cpus[w] = {}
    /\ \E last \in UNION {Cpus[v] : v \in VM} : \A v \in VM : \A c \in Cpus[v] : c <= last
    /\ \A s \in Setups : /\ s.port \in Ports /\ s.drivers \in Drivers
                         /\ s.config \in Configs /\ s.vmlist \in RemioConfigs
                         /\ s.streams \in [VM -> Seq(Io!Request)]
                         /\ s.global_mask \in [VM -> Io!Id]
                         /\ s.iommu = "riscv" => \A v \in VM : Io!Exact(s, v)
                         /\ s.ipcs \in [VM -> Seq([shmem_id : Nat, interrupts : Seq(Line)])]
                         /\ \A v \in VM : Ipc!Distinct(s.ipcs[v])
    /\ Traps!ListsApart
    /\ \A p \in Ports : \A i \in Instructions[p] : Traps!Supported(p, i)
    /\ Shmems \in Nat /\ Event \subseteq Nat
    /\ {SmeNum, CtxNum, FqSize - 1} \subseteq Nat \ {0}
    /\ IsFiniteSet(VM) /\ ResetCtx \subseteq Io!Ctx

SetupInit ==
    /\ \E s \in Setups :
          /\ port = s.port
          /\ wanted = <<IPI>> \o s.drivers
          /\ config = s.config
          /\ vmlist = s.vmlist
          /\ iommu = s.iommu
          /\ streams = s.streams
          /\ global_mask = s.global_mask
          /\ ipcs = s.ipcs
          /\ guest = s.guest
    /\ Init
    /\ Remio!Init
    /\ Io!InitUnit
    /\ Ipc!Init
    /\ Traps!Init
    /\ lined = [v \in VM |-> 0]

(* remio_init, once interrupts_init is over.                                *)
remio_init ==
    /\ wanted = <<>>
    /\ stopped = {}
    /\ Remio!Link \/ Remio!Check
    /\ UNCHANGED <<vars, io, ipc, served, guest>>

LinesDone(v) == phase = "run" /\ wanted = <<>> /\ config[v] = <<>> /\ v \notin stopped

IoDone(v) == LinesDone(v) /\ Io!IoDone(v)

(* vm_init_dev, and what it shares with vm_init_ipc: a line of the VM.      *)
vm_assign_line(v) ==
    /\ phase = "run"
    /\ interrupts_vm_assign(v)
    /\ UNCHANGED <<remio, master, io, ipc, served, guest>>

vm_init_dev(v) ==
    /\ LinesDone(v)
    /\ Io!io_vm_add(v)
    /\ UNCHANGED <<lines, remio, master, ipc, served, guest>>

(* vm_init_ipc: where guests only have physical interrupts (PHYS_IRQS_ONLY) *)
(* the interrupts of an object are assigned first.                          *)
vm_init_ipc(v) ==
    /\ IoDone(v)
    /\ Ipc!Unset(v)
    /\ \/ /\ port \in {"rh850", "tricore"} /\ lined[v] = ipcat[v]
          /\ lined' = [lined EXCEPT ![v] = @ + 1]
          /\ config' = [config EXCEPT ![v] = IF Ipc!NextIpc(v).shmem_id < Shmems
                                             THEN Ipc!NextIpc(v).interrupts ELSE <<>>]
          /\ UNCHANGED <<ipcs, ipcat, cpu_masters, mail, injected, rung, master>>
       \/ /\ port \in {"rh850", "tricore"} => lined[v] > ipcat[v]
          /\ Ipc!vm_init_ipc(v)
          /\ UNCHANGED <<config, lined>>
    /\ UNCHANGED <<port, wanted, global, handlers, own, got, handled, stopped, remio, io,
                   served, guest>>

IpcDone(v) == IoDone(v) /\ ~Ipc!Unset(v)

(* vm_init_remio signs up with the shared memory of the devices as well,    *)
(* before remio_assign_vm_cpus.                                             *)
vm_init_remio(v) ==
    LET first == pc[v] = "mark" /\ at[v] = 1
        used  == {vmlist[v][n].shmem : n \in 1 .. Len(vmlist[v])}
    IN  /\ IpcDone(v)
        /\ Remio!Mark(v) \/ Remio!Load(v) \/ Remio!Store(v)
        /\ cpu_masters' = [s \in DOMAIN cpu_masters |->
                              cpu_masters[s] \cup {c \in {master[v]} : first /\ s \in used}]
        /\ UNCHANGED <<vars, io, ipcs, ipcat, mail, injected, rung, lined, served, guest>>

----------------------------------------------------------------------------
SetUp(v) == IpcDone(v) /\ (vmlist[v] = <<>> \/ pc[v] = "done")

(* A line fires.                                                            *)
Fires(v, id) ==
    /\ guest = "lines"
    /\ SetUp(v)
    /\ interrupts_handle(v, id)
    /\ UNCHANGED <<remio, master, io, ipc, served, guest>>

(* A guest rings; a master takes a message.                                 *)
Rings(v) ==
    /\ guest = "rings"
    /\ SetUp(v)
    /\ \/ \E k \in 0 .. Len(ipcs[v]), e \in Event :
              Ipc!ipc_hypercall(v, k, e, {w \in VM : SetUp(w)})
       \/ Ipc!ipc_notify(v)
    /\ UNCHANGED <<vars, remio, io, lined, served, guest>>

(* An instruction of a guest traps.                                         *)
GuestTraps(v) ==
    /\ guest = "traps"
    /\ SetUp(v)
    /\ \E i \in Instructions[port] : Traps!Trap(v, i)
    /\ UNCHANGED <<lines, remio, master, io, ipc, guest>>

(* Devices fault and the platform's master handles it.                      *)
IoFaults ==
    /\ phase = "run"
    /\ Io!DeviceFault \/ Io!rv_iommu_fq_irq_handler
    /\ UNCHANGED <<lines, remio, master, ipc, served, guest>>

SetupNext ==
    \/ Reserve /\ UNCHANGED <<remio, master, io, ipc, served, guest>>
    \/ remio_init
    \/ IoFaults
    \/ \E v \in VM : \/ vm_assign_line(v) \/ vm_init_dev(v) \/ vm_init_ipc(v) \/ vm_init_remio(v)
                     \/ Rings(v) \/ GuestTraps(v)
                     \/ \E id \in Line : Fires(v, id)

SetupSpec == SetupInit /\ [][SetupNext]_<<vars, remio, master, io, ipc, served, guest>>

----------------------------------------------------------------------------
(* A configuration that remio_init accepts pairs every frontend with one    *)
(* backend of the same key and of the same shared memory.                   *)
AcceptedMeansPaired == Remio!AcceptedMeansPaired

(* A frontend that finds a device ready may send to its backend: both       *)
(* halves have the CPU that interrupts are sent to, which their VM's master *)
(* set in remio_assign_vm_cpus.                                             *)
ReadyMeansAssigned == Remio!ReadyMeansAssigned

(* A device's accesses go to no VM but one that is configured with it, also *)
(* while other VMs add, merge and give up entries of the IOMMU; and a VM    *)
(* that iommu_vm_arch_add served has its devices: none reaches another VM,  *)
(* and one that no other VM is configured with reaches this VM.             *)
DevicesIsolated == Io!DmaConfined /\ Io!DeviceAttached

(* rv_iommu_fq_irq_handler leaves no fault in the queue without a pending   *)
(* interrupt.                                                               *)
FaultsReported == Io!FaultsReported

(* ipc_hypercall reaches every VM that shares the memory and is set up,     *)
(* once and as the interrupt that VM configured.                            *)
RingsReachPeers == Ipc!RingsReachPeers

(* A trapped access is decoded, given to the handler of its address, and    *)
(* the guest goes on behind it.                                             *)
TrapsServed == Traps!TrapsServed

=============================================================================
