# Verification of the Bao hypervisor

TLA+ modules for the parts of the Bao hypervisor that carry its logic, most of
them parts in which several CPUs work on the same state, TLC configurations that
check them on small instances, and proofs, checked by TLAPS, for every value of
the constants. Bao is a static
partitioning hypervisor: each virtual CPU has a physical CPU of its own, there
is no scheduler, and after boot the CPUs meet only through locks, message
queues, interrupts and emulated devices. What can go wrong and is hard to test
is therefore almost always an order of steps of two CPUs, a queue at its limit,
or a wake-up that does not come.

Paths below are relative to the repository.

## 1. Inventory

| component | state | operations | interacts with |
|---|---|---|---|
| spin lock (`src/arch/*/inc/arch/spinlock.h`) | `ticket`, `next` | `spin_lock`, `spin_unlock` | everything shared |
| circular queue (`src/lib/inc/circular_queue.h`) | ring buffer, `front`, `rear` (-1 when empty) | init, push, pop, full, empty | message queues |
| inter-CPU messages, low-power states (`src/core/cpu.c`) | one queue per CPU, pending IPI, the CPU's vCPU and its `active` flag | `cpu_send_msg`, `cpu_msg_handler`, standby, power-down, the two wake-up paths | IPI of the interrupt controller, all message handlers |
| synchronisation tokens (`src/core/inc/cpu.h`) | `count`, `n`, `ready` | `cpu_sync_init`, `cpu_sync_barrier`, `cpu_sync_and_clear_msgs` | boot, messages |
| VM boot (`src/core/vmm.c`, `vm.c`) | `vm_assign[]` under a lock, install information, the VM structures | `vmm_init`, `vmm_assign_vcpu`, `vmm_alloc_install_vm`, `vm_init` | tokens, configuration |
| Remote I/O (`src/core/remio.c`, `objpool.c`, `list.h`) | devices and their `ready` flags, request pool, pending lists | set-up, MMIO emulation of the frontend, the backend's hypercalls, message handler | messages, vCPU pause, guests |
| interrupt lines (`src/core/interrupts.c`, `src/arch/*/interrupts.c`) | two bitmaps, per-VM bitmaps, handlers | reserve, assign, handle | boot, drivers, VMs |
| PSCI (`src/arch/armv8/psci.c`) | per-vCPU power state and entry point under a lock | CPU_ON, CPU_OFF, CPU_SUSPEND, wake-ups | messages, low-power states |
| SBI (`src/arch/riscv/sbi.c`) | per-hart state under a lock, VS interrupt bits, timer | HSM start, IPI, set_timer, timer interrupt | messages, low-power states |
| RH850 boot control (`src/arch/rh850/vbootctrl.c`) | `started` flag of each vCPU | store to BOOTCTRL, IPI, `vcpu_run` | low-power states |
| inter-VM communication (`src/core/ipc.c`, `shmem.c`) | shared-memory objects, the master CPUs signed up with each | `vm_init_ipc`, doorbell hypercall, message handler, `ipc_notify` | messages, memory, injection |
| physical memory (`src/core/mem.c`, `src/lib/bitmap.c`) | page pools with a bitmap, a search position and a free count; colours | alloc, reserve, free | boot |
| address spaces with an MMU (`src/core/mmu/`) | page tables, sections | search for free addresses, map, split, unmap, recolour, copy | page pools, boot of the VMs |
| address spaces with an MPU (`src/core/mpu/`, the three `mpu.c`) | regions of a virtual MPU, entries of the unit of each CPU, shared region nodes | map, merge, split, unmap, broadcast to the other CPUs of the address space | messages, barriers |
| virtual GIC (`src/arch/armv8/vgic*.c`) | per-interrupt owner, state, lock; list registers, spilled lists | injection, register emulation, rerouting, SGIs, maintenance interrupt | messages, spin locks, hardware |
| virtual PLIC, APLIC (`src/arch/riscv/irqc/`) | pending, active, enabled bits, targets, thresholds, lines | claim, complete, register emulation, injection | messages, physical controller |
| RH850 and TriCore interrupt virtualisation (`vintc.c`, `vipir.c`, `vir.c`) | the physical registers themselves | register emulation, injection, inter-processor registers | hardware |
| IOMMU and SMMU drivers (`smmuv2.c`, `riscv/iommu.c`, `core/mmu/io.c`) | context banks, stream match entries, groups, device directory, fault queue | add device, allocate, write entry, fault handler | boot, devices |
| traps (`aborts.c`, `sync_exceptions.c`, `traps.c`, `decode.c`, emulation lists of `vm.c`) | emulated regions and registers of a VM | decode, look up, emulate, step the PC | all emulated devices, Remote I/O |
| hardware drivers, boot assembly, console, platform descriptions | registers | - | hardware |

What makes each of them correct:

* **Lock**: exclusive, first come first served, at every value of the wrapping
  counters, and nobody is left spinning.
* **Queue and messages**: a ring is a FIFO mailbox; a message in a queue always
  has an interrupt, a sender about to raise one or a handler on its way; every
  message is handled; a blocked vCPU resumes when its message comes, also when
  it came before the CPU fell asleep.
* **Tokens**: nobody leaves a round before all have entered it, although the
  counter is never reset; after `cpu_sync_and_clear_msgs` no message of an
  earlier phase is left.
* **Boot**: counts, CPU maps and masters agree in every order of arrival; a CPU
  is parked only when nobody needs it; nothing of a VM is used before it is
  built; a VM boots whatever the others do.
* **Remote I/O**: a request is in one place at a time, gets its own answer
  exactly once, and the vCPU that waits for it runs again; a device whose two
  sides are there becomes ready.
* **Interrupt lines**: a line has one owner, and the hypervisor's lines stay its own.
* **PSCI and SBI**: a vCPU runs from the entry point of exactly one accepted
  call, once for each; a call that returned success is carried out; the timer is
  neither early, lost, nor taken for ever.
* **Virtual interrupt controllers**: an interrupt is not lost and not delivered
  twice when it is spilled, refilled, forwarded or rerouted; one that a vCPU may
  take raises that vCPU's line; what a guest stores changes its own interrupts
  in the physical controller and no others; the vCPU in whose list register an
  interrupt is active owns it.
* **Memory**: no page serves two purposes, however the masters of the VMs
  interleave; a VM finds its regions where they are configured, in its colours,
  and its image in them; CPUs that share an address space agree on it once they
  have handled their messages; a VM reaches its own memory only, and the
  hypervisor keeps no mapping of it.
* **IOMMU**: a device's accesses go to no VM that is not configured with it, also
  while other VMs are still being set up; no fault stays unreported.
* **Inter-VM communication**: a ring injects the right interrupt, once, into every
  VM that was signed up.
* **Traps**: an access is carried out as the instruction says (register, width,
  direction), by the handler of its address, and the guest goes on behind it.

The hazards behind these properties are listed, each at its line, in
`PROJECT.json`.

## 2. Modules

| module | models | refines |
|---|---|---|
| `FifoLock` | abstract: a lock that serves its queue in order | |
| `TicketLock` | ticket lock of Armv8 and RISC-V, counters modulo `TICKETS` | `FifoLock` |
| `CircularQueue` | the ring buffer as operators on a record `buffer, front, rear` | |
| `MsgFifo` | abstract: bounded FIFO mailboxes | |
| `CpuMsg` | `cpu.c`: send, take, wake, drain; uses `CircularQueue` | `MsgFifo` |
| `Barrier` | abstract: a reusable barrier | |
| `CpuSync` | synchronisation tokens, with messages in flight | `Barrier` |
| `VmmBoot` | `vmm_init` and `vm_init` on all CPUs at once | |
| `RemIO` | Remote I/O requests at run time | |
| `RemIOBoot` | Remote I/O device set-up | |
| `Interrupts` | reservation, assignment and dispatch of lines on four ports | |
| `Iommu` | SMMUv2 and RISC-V IOMMU: allocation by several masters, entries, fault queue | |
| `Ipc` | inter-VM communication | |
| `Traps` | what becomes of a trapped instruction on each of the four ports | |
| `VmSetup` | `Interrupts`, `RemIOBoot`, `Iommu`, `Ipc` and `Traps` composed in the order of `vmm_init` and `vm_init` | |
| `VcpuPower` | abstract: what a guest may rely on when it turns vCPUs on and off | |
| `Psci` | PSCI on Armv8 | `VcpuPower` |
| `Sbi` | SBI on RISC-V | `VcpuPower` |
| `VBootctrl` | how an RH850 guest starts its vCPUs | |
| `VGic` | shared and software-generated virtual interrupts of a VM on a GICv3 | |
| `PagePool` | bitmaps, page pools, colours: operators on a pool | |
| `MemInit` | boot of the memory: reservations, check, shared memories; EXTENDS `PagePool` | |
| `AddrSpace` | page tables: operators on the memory record; EXTENDS `PagePool` | |
| `VmMemory` | `MemInit` and `AddrSpace` composed: boot and the masters that build VMs | |
| `Mpu` | the memory protection units of the three ports and their drivers | |
| `VMpu` | the virtual MPUs and the messages between the CPUs; EXTENDS `Mpu` | |
| `MpuMemory` | `MemInit` and `VMpu` composed: boot of all CPUs up to the first guest instruction | |
| `VAplic`, `VPlic` | virtual APLIC (direct and with MSIs) and PLIC: operators on a controller | |
| `RiscvIrqc` | the vCPUs, the devices and messages around one of those controllers | |
| `DirectIrqs` | interrupt registers of RH850 and TriCore guests | |
| `*Proofs` | theorems and proofs of the module they extend (`VIrqProofs` of `MCVIrq`, so of `RiscvIrqc` and `DirectIrqs`) | |
| `MC*` | constants of a TLC instance that a `.cfg` cannot express; `MCVcpuPower` is `Psci`, `Sbi` or `VBootctrl`, `MCVIrq` is `RiscvIrqc` or `DirectIrqs`, as the platform is | |

An action is what one CPU does between two points at which another CPU can
observe or disturb it: a critical section is one action; a fence, a store to a
flag another CPU polls, and the gap between a push and its IPI separate two. The
hypervisor runs with interrupts masked, so a handler is not interrupted, and a
CPU takes an interrupt only in its guest or when it comes out of a low-power
state. TLA+ states are sequentially consistent: the barriers of the code are
taken to do their work, and weak-memory effects are outside the models.

State and code, module by module:

* **TicketLock.** `ticket` and `next` are the fields of `spinlock_t`;
  `GetTicket` is the atomic draw, `Acquire` the end of the spin loop,
  `LoadNext`/`StoreNext` the two halves of the non-atomic increment in
  `spin_unlock`. `TICKETS` stands for 2^32.
* **CpuMsg.** `msgs[c]` is the ring of `cpu_if(c)`, `ipi[c]` the interrupt at the
  controller, `target[c]` the window between push and IPI in `cpu_send_msg`,
  `pc` the place in guest, sleep, wake-up or handler. `ackFirst` tells the ports
  that withdraw the IPI before the handler (Arm: `gic_handle`; RH850:
  `ipir_handle`) from the one that does it afterwards (RISC-V with PLIC or
  APLIC: `interrupts_arch_handle`). A message is reduced to what its handler
  does to the CPU.
* **CpuSync.** `count` never decreases; `next_count` is the value
  `cpu_sync_barrier` computed with `ALIGN`. `entered` and `left` are history
  counters that the refinement needs.
* **VmmBoot.** `assign` is `vm_assign[]`, `vm` the structure the master builds,
  `pc` the phase. The barriers are separate arrive and leave steps on counters.
  `AllocFails` is an allocation that ends in `ERROR`.
* **RemIO.** `pool` and `request` are the object pool, `pending[d]` the device's
  list, `box[c]` the message queue as a bounded sequence, which is what `CpuMsg`
  is shown to provide. The frontend's access is three steps (create, push,
  notify and pause) because the list lock is released in between. `held` is what
  the backend guest was given and has not answered.
* **RemIOBoot.** `Link` is one iteration over the configuration in `remio_init`
  with its error paths, `Check` the count comparison, `Mark`, `Load` and `Store`
  are `remio_assign_vm_cpus` split where two masters can interleave.
* **Interrupts.** The port is chosen in `Init`; `interrupts_arch_conflict` has one
  definition per port.
* **Iommu.** `sme_bitmap`, `grp_bitmap`, `ddt_bitmap` and `banks` are the driver's
  bitmaps, `smr`, `s2cr` and `ddt` the registers and the directory in memory.
  Each function that takes a driver lock is a step, since the code releases the
  lock between the search for a compatible entry, its allocation and its two
  writes. A stream identifier is the set of its bits. `DeviceFault` is the
  hardware, the `Fq*` actions are the interrupt handler.
* **Ipc.** `cpu_masters[s]` is the list of a shared memory, `mail[c]` the messages
  of a CPU, `rung` and `injected` the history the property compares. Messages and
  injections carry the number of the ring they stem from, which the code does not
  have and no step reads.
* **Traps.** `TrapOutcome` follows a trap from what the hardware reports to the
  handler and the new PC. TriCore reports no register and no width, so `decode.c`
  is modelled opcode by opcode as the tables it is.
* **VmSetup.** `ERROR` stops the CPU: after a driver's or `remio_init`'s no VM is
  set up, after a VM's own its later parts never come up.
* **Psci, Sbi.** One power record per vCPU, the queue as a bounded sequence, and
  the sleep states of `CpuMsg` that matter to them. **VBootctrl** has no message:
  the handler sets bits, then raises IPIs, and a woken CPU looks at its bit.
* **PagePool, MemInit, AddrSpace, VmMemory.** Addresses count pages. A pool is a
  record of base, number of pages, bitmap (the set of its bits), search position
  and free count; `bitmap_find_consec` goes word by word as the code does. `mem`
  holds the pools, the address spaces and what every page contains. A walk of
  the page tables is done under the locks of the address space and touches
  entries of one CPU, so it is one step; the pools are what CPUs compete for.
  `todo[v]` is the rest of `vm_init` of VM `v`'s master.
* **Mpu, VMpu, MpuMemory.** `mem.as` are the virtual MPUs with their nodes and the
  ordered list, `mem.mpu[c]` the unit of CPU `c` in the layout of its port,
  `mem.msgs[c]` the MEM_PROT_SYNC messages, `mem.nodes` the shared regions taken
  from the pool. A CPU handles messages only in `cpu_sync_and_clear_msgs`.
* **VAplic, VPlic, RiscvIrqc.** The virtual controller is a record, with the
  physical one inside it (external). What a handler does under the lock is one
  operator; the update of the line after the lock was released, and the store of
  the line in `vaplic_ipi_handler`, are steps of their own in `todo[v]`.
* **DirectIrqs.** The guest's registers are the physical ones. An emulated access
  reads, merges and stores without a lock, so it is two steps, `GuestAccess` and
  `StoreRegister`.
* **VGic.** `irq[i]` is `struct vgic_int`, `lr[c]` the list registers of a CPU as
  the hardware has them, `curr[c]` the hypervisor's `curr_lrs`, `hcr[c]` GICH_HCR
  (enable, maintenance enables, `EOICount`), `run[c]` what the guest acknowledged.
  A private interrupt is an `irq` of its own, reached by `vgic_get_int` with the
  CPU; `bank` holds the locks of the distributor and of the redistributors. The
  operators `vgic_*` with a parameter `s` are the functions of the same name,
  from state to state; an action is a critical section of an interrupt's lock.
  Only where a second interrupt's lock is taken inside (`vgic_spill_lr`,
  `vgic_write_lr`) does a CPU stop, at `Spill` or `WriteLr`, with the first one
  locked. `job[c]` is what the call stack will do afterwards. `Acknowledge` and
  `EndOfInterrupt` are the virtual CPU interface. With `Prompt` the maintenance
  interrupt is taken before anything else happens on the CPU; without it, it may
  be late.

## 3. Runs

| run | instance | shows |
|---|---|---|
| `ticket_lock` | 3 CPUs, 5 tickets | exclusion, the window of tickets, FIFO order and no starvation across wrap-around |
| `cpu_msg` | 2 CPUs, rings of 2, 3 sends, both port kinds | FIFO mailboxes; on ports that acknowledge first no message is stranded, every message is handled, a blocked vCPU resumes |
| `cpu_msg_lost_ipi` | the RISC-V order | **violation**: a message left without an interrupt |
| `cpu_sync` | 3 CPUs, 4 synchronisations (6 rounds), 3 messages | barrier, cleared queues, nobody left behind |
| `vmm_boot` | 3 CPUs, 2 VMs, 36 configurations | assignment, phases, identifiers, affinity, progress |
| `remio` | 2 + 2 CPUs, 2 devices, pool of 2, queues of 1, 3 accesses | accounting of requests, own answers, no `ERROR`, completion |
| `vm_setup` | 2 VMs; all requests for up to 2 of 4 lines each and 1 driver on RISC-V, RH850, TriCore; all Remote I/O configurations with up to 2 devices each; streams and groups on 3 stream match entries and 3 context banks; a fault queue of 4; IPC objects with 2 rings; the trapped instructions of 4 ports | one owner per line; what is accepted is paired; devices reach their VM only; faults are reported; rings reach their peers; accesses are carried out as meant |
| `vcpu_power` | PSCI with 3 vCPUs, SBI with 2 harts and 3 ticks, RH850 with 3 vCPUs; 4 calls, queues of 1 | PSCI and SBI give the guest the view of `VcpuPower`; what was started runs; the timer fires |
| `vgic` | 2 vCPUs, 4 interrupts, 2 list registers, 3 operations, 3 sets of guests | no pending bit is lost or copied; GICD_CTLR takes effect on every CPU |
| `vm_memory` | 64 pages in 2 regions, bitmap words of 4 bits, 4 colours, tables of 4 entries on 2 levels; 2 VMs, placed or not, coloured or not, image copied or in place; configurations to refuse | pages are exclusive, regions mapped, images installed; the word-wise search finds the first run |
| `mpu_memory` | Armv8-R, RH850, TriCore with and without slave-side protection; 3 CPUs, 2 VMs, regions that touch or not, image copied or in place | units agree with the address spaces, global devices are the same everywhere, VMs are confined, nothing is left over |
| `virq` | PLIC, APLIC, AIA with 2 vCPUs and 3 interrupts, 2 stores and 2 raises; RH850, TriCore with 3 CPUs, 2 VMs, 2 accesses, 2 events | no interrupt lost or without its line; others' interrupts untouched; enables kept; what may be taken is taken |

Why the bounds are enough for what is asked:

* `TICKETS = 5` with three CPUs leaves room for the full window and for gaps, and
  every position of the window across the wrap is reached; the counters are
  finite, so no behaviour is cut short.
* `Capacity = 2` reaches the empty, partly filled, full and wrapped ring; three
  sends overflow it. Where the queue is a sequence, one slot is enough to make
  a send fail, and a larger queue only makes it fail later.
* Two CPUs are enough for the message windows, which concern one sender and one
  receiver at a time; the proof removes the bound. Three CPUs (no power of two)
  exercise `ALIGN`, three vCPUs let two callers race for one target.
* The 36 boot configurations are all pairs of CPU counts 1 or 2 with
  affinities that are empty, too small, sufficient, equal or disjoint,
  including pairs that three CPUs cannot satisfy.
* `Dev = {3, 5}` makes keys differ from request identifiers, so that a mix-up of
  the two cannot go unnoticed. `MAX_NOTIFY` bounds the notifications on their
  way to a frontend; they are independent of requests.
* Three interrupts on two list registers are the least that make one of two
  pending ones spill; three injections fill and overflow the registers, and
  leave one operation of any kind for each of two CPUs after the first. The
  guests of the third set write what the others do not: SGIs, active registers,
  GICD_CTLR, beside two shared interrupts. With shared interrupts alone the
  invariants were also checked for five injections with rerouting, as far as ten
  million states.
* Words of 4 bits on pools of 40 and 24 pages make runs that begin and end inside
  a word, cover a word, and cross several; four colours and tables of four entries
  make images, regions and tables that do and do not fit one table, and
  superpages; two masters are enough for a race for pages, of which a third
  would be another instance.
* With three CPUs there is a VM on two CPUs, whose second CPU learns of the
  regions by messages only, and a VM beside it that must not.
* Three stream match entries and context banks for up to three requests of each
  of two VMs run out in some configurations and not in others. All stream
  identifiers of three bits are checked as targets.
* `virq` begins after the guest has set up its controller, so that two stores are
  two changes in the middle of the traffic; two raises are a device's and the
  hypervisor's interrupt at the same time, or one twice.
* `MAX_SEND`, `MAX_CALL`, `MAX_ACCESS` and `MAX_TIME` bound otherwise unbounded
  counters; each is one or two more than the shortest behaviour in which
  every window is open at once.

`CHECK_DEADLOCK FALSE` is said where the modelled activity ends: a boot is over,
the calls of a bounded behaviour are used up, or a guest is off for good.

### What guests are assumed to do

A guest may do what it likes in most runs. Where the code relies on a discipline
of the guest, or does something a property would rightly object to, the inputs of
the passing runs keep to the discipline, and section 5 says what happens without:

* `vm_memory`: a coloured image that is used in place lies in one page table.
* `mpu_memory`: hypervisor devices are not adjacent; the image is not copied on RH850.
* `virq`: `in_clrip` is not written while a physical interrupt is pending; a PLIC
  interrupt is enabled for one vCPU at a time, and a device's is not moved or
  reconfigured while it is pending or in service, and is completed where it was
  claimed; stores to the PLIC are to interrupts and contexts there are; priorities
  are below 255 (the proofs need only the first of these two). RH850 guests store
  only to IMR registers that hold their own interrupts, access EIC by halfwords, and
  name valid PEs; TriCore guests access their own SRC nodes; a VM with interrupts
  injected by the hypervisor has one vCPU.
* `vm_setup`: on an SMMU the configuration is `Reliable`: the earlier requests of its VM
  that a request exceeds (has all streams of, and more) meet in a stream, so that
  they share an entry; an earlier one is exceeded by one later one; what a VM
  asks for after that meets nobody else's requests; and either S2CR after reset
  names banks that no VM will have, or no two VMs ask for the same stream and
  nobody for one that a blank entry matches. TLC evaluates this for every set-up of
  the run (`ReliableSetups`), and `DevicesStayIsolated` has it as its hypothesis. The
  IPC objects of a VM are over different shared memories; its emulated
  regions do not overlap, and no two of its emulated registers are the same;
  instructions are those for which the ports emulate what the instruction means
  (`Traps!Supported`; on TriCore those that `decode.c` decodes as its comments say).

### Fairness

Only weak fairness is used, and only for what the hardware or the code cannot
put off. A CPU in the hypervisor keeps executing (`WF(Hypervisor(c))`,
`WF(Step(c))`): interrupts are masked and no step waits except where its guard
says so. A CPU with a pending IPI wakes from its sleep (`WF(ipi[c] /\ Wake(c))`):
this is what `wfi` promises; no fairness is given to wake-ups without a reason,
nor to anything a guest decides (calls, accesses, turning itself off), with two
kinds of exceptions. In `RemIO` the backend guest takes its interrupts and answers
what it was handed, without which no access can be expected to complete. In
`RiscvIrqc` and `DirectIrqs` a guest leaves its interrupts enabled, so that an
interrupt whose line is up is taken; the CPU takes its IPIs and ends the handler
it is in, and the physical APLIC sends its MSIs. In `Sbi` the clock advances to
its bound. The lock has no fairness for drawing a ticket, only
for the CPU that waits or holds it.

## 4. Proofs

TLAPS checks the following for all values of the constants that satisfy the
named assumptions; TLC evaluates those assumptions in every run.

* **TicketLockProofs** (assumption: finitely many CPUs, fewer than `TICKETS`
  values). `MutualExclusion` is not inductive. `TicketWindow` is, together with
  the types: the tickets held are exactly the values from `next` up to `ticket`,
  all different, and their number is that of the CPUs that hold one; the CPU in
  the critical section holds `next`. `GetTicket` adds a value at the upper end
  (there is room, since CPUs are fewer than values), `StoreNext` removes the
  lower end. Theorems `TypeCorrect`, `WindowInvariant`, `Mutex`.
  `TicketLockIsFifo` is the refinement of `FifoLock`: the queue of the abstract
  lock is the order of the tickets from `next` on, which a wrap-around leaves alone.
* **CpuMsgProofs** (assumption: `Capacity > 0`). Lemmas `PushAppends` and
  `PopRemovesHead` show what the index arithmetic does to the contents of a
  well-formed ring, for any capacity; `QueuesAreMailboxes` is the refinement
  `Spec => Mailbox!Spec` from them. `NoneStranded` is
  proved from `StrandInv`: a CPU with a message has its IPI pending, or is in the
  handler or on its way there, or is the target of a CPU that has pushed and not
  yet raised the IPI; and on a port that acknowledges first nobody is past the
  handler with the IPI still to be withdrawn.
* **CpuSyncProofs** (assumption: a finite set with a master). `TokenConsistent`:
  there is a round `p` such that the counter is `p` times the number of CPUs
  plus those who have entered round `p + 1`, nobody has left that round, and
  the value a waiting CPU compares with is the end of its own. `AlignRound` gives
  the arithmetic, `TokenIsABarrier` the refinement. `NothingLeftOver` states
  `MessagesCleared`: who is past `cpu_sync_and_clear_msgs` has handled every message
  sent before its call.
* **VmmBootProofs** (assumption: `BootAssumption` of the module). `AInv`:
  types, exact counters, the limit and the single master of each VM; `ScanInv`:
  what a CPU has found full on its way through the VMs stays full, since counts
  never decrease. Theorems `Assignment`, `PowerdownOnlyIfFull`. For
  `NothingUsedEarly` the barriers of `vm_init` come in: the one counter of
  `vm->sync` is the sum of the arrivals at all five of its barriers, a CPU waits
  for the end of its own round, and nobody is past a barrier that is not complete
  (`BarrierInv`); `Initialised` says what the CPUs that arrived have filled in, and
  past a barrier those are all CPUs of the VM. From the same invariant
  `IdentifiersExact`: vCPUs are numbered from 0 in the order of the CPUs.
* **RemIOProofs** (assumption: `RemIOAssumption`; message queues may be full and
  drop). `RequestAccounting` and `OwnAnswer` say nothing about a request in a queue
  or in the hands of the backend, so they are not inductive. `IInv` says for each
  of the four places of a request (listed, with the guest, answered, taken by a
  CPU) what holds of it there, that it is in one of them, whose it is, and what
  value it will deliver. Theorems `ProtocolInvariant`, `RequestsAccounted`,
  `AnswersAreOwn`, `NothingFails`.
* **VmSetupProofs** (assumption: `SetupAssumption`: finite sets, a largest CPU
  number, configurations of the shape `config_defs_gen` writes, in which no CPU
  belongs to two VMs and those for RISC-V have no stream masks, which only Arm's
  have, and what section 3 says of IPC objects, regions and instructions). One
  invariant for each part of the set-up, since the parts share no state:
  * `LinesInv`: every line that someone has is in the bitmap the conflict test
    reads; `OneOwner`, `HypervisorKeeps`, on every port but Arm, for which the
    statements are false (section 5).
  * `LinkInv`, `PairInv`: devices have different keys, and the entries that were
    linked and the halves that are filled correspond. `remio_init` only compares
    two counts; `SideFull` and `CheckedPairs` show that this suffices: as many
    entries of a type as devices, no two of one key, hence a half for every device.
    `AcceptedArePaired`.
  * `ReadyInv`: a half that is ready has a CPU of its VM, and a flag that a master
    has read and not yet stored is true only if both halves are. `ReadyAreAssigned`:
    the race of section 5 leaves devices unready for ever, it makes none ready early.
  * `DdtInv`, for RISC-V: the identifiers that were entered for a VM, and the one its
    master has taken in the bitmap, are different for all VMs, and the directory
    holds what was entered.
  * `SmmuInv`, for the SMMU: the driver looks at an entry while other masters allocate,
    write, merge and give up theirs, and sees what the registers held before. The
    invariant says what each entry can hold when it is looked at: it is blank, or
    one of a request of the VM that its context bank belongs to (`SmContent`); one
    that was given up was exceeded by a later request (`SmGivenUp`), stays valid,
    and is among the next to be allocated, by a VM that is about to (`SmHoles`:
    entries are used from the first one up, and there is a different VM for each
    one given up). What a VM has asked for is covered by an entry of its own, or will
    be by the one it is writing (`SmCover`), and no stream matches two of its entries
    (`SmApart`).
  * From both, for any VMs, requests, entries and banks, `DevicesStayIsolated`: on
    RISC-V without a condition, on the SMMU where the configuration is `Reliable`
    (section 3). Section 5 says what TLC finds without each part of that.
  * `FqInv`: the steps of the fault handler, which acknowledges before it reads.
    `FaultsAreReported`.
  * `IpcInv`: on the way of a ring from guest to guest, the messages in a CPU's queue
    and the interrupts it injected are in the order of the rings and come one from
    each; a ring has a message for every other VM that had signed up when it rang,
    until the message is an injection. `RingsReachTheirPeers`.
  * `TrapInv`: a trap of a supported instruction reaches the handler of the region
    or register it names, with the direction, width, register and sign extension of
    the instruction, and the guest goes on behind it: by port, and on TriCore row by
    row of the tables (`Decodes16`, `Decodes32`). `TrapsAreServed`.
* **VcpuPowerProofs** (assumptions `PsciAssumption` and `HartsAssumption`: the
  vCPUs or harts are a set with a first one, and message queues have some capacity;
  calls, messages and the clock are not bounded by anything the proof uses).
  `PsciInv`, `SbiInv` and `BootctrlInv`, one for each port:
  * a vCPU that is pending has its message in the queue of its CPU, or in the hands
    of the caller that is about to send it, or the queue was full and dropped it;
    on RH850 the bit is set first, and the IPI is pending or about to be;
  * a guest executes only on a vCPU that is on, and a CPU that is off for good has
    one that is not (`OnlyOnRuns`, `OffSleeps`, `OnlyStartedRuns`). This is what
    the refinement needs: only the message's handler and the wake-up from a
    suspension reset the registers, and `OnlyOnRuns` tells which of them it is.
  * SBI's timer is not pending before its deadline, and masked while it is.

  Theorems `PowerIsImplemented` (`Psci` and `Sbi` implement `VcpuPower`, by one step
  or stutter for each action), `StartsAreDelivered`, `OnlyStartedExecute`,
  `TimerIsInTime`, `PortsTypes`.
* **VIrqProofs** (assumptions: `VPlicAssumption` and `VAplicAssumption`, numbers of
  interrupts and a least priority; `AccessesAssumption`, by which an access to EIC
  includes the byte with the pending bit; and of the start `RvWellFormed` or
  `WellFormed`, which TLC evaluates for all configurations of the run).
  * RISC-V, for any number of vCPUs and interrupts. `RvWellFormed`: every vCPU has a
    CPU of its own, the guest's stores are to registers there are, and the controller
    has had no interrupt; what the guest has set up before is mirrored in the
    physical one. `CreatedIsWellFormed` shows that a VM as `vplic_init` and
    `vaplic_init` leave it is of this kind. The lines are the difficulty: they are set
    outside the lock, from a scan that may be out of date when its result is stored,
    and on other CPUs by messages. `PlicInv` says for each vCPU that may take an
    interrupt that an update of its line is coming (a message to its CPU, or a
    handler before its scan), or that its line is up, or about to be put up, and no
    store is on the way that takes it down. It holds only together with the claims: a
    claimed interrupt stays active and enabled for the vCPU that claimed it, so its
    completion, which makes it presentable again, is followed by an update of the only
    vCPU it can be for; and an interrupt is enabled for one vCPU at a time (section
    3). `AplicInv` says the same of `topi` and the line of an APLIC, where the target
    names the vCPU, and of an AIA, which has no lines, that nothing is pending and
    enabled while the domain is. Both contain the mirror of the physical controller,
    and that an interrupt still due is pending in one of the controllers or in the
    guest's file. For each register of the APLIC a lemma (`Setip`, `Clrie`,
    `Sourcecfg`, `Target` ...) shows that its handler updates every hart it gives
    something to take; `vaplic_update_topi` and `vplic_next_pending` are characterised
    by what they find, from the existence of a first interrupt (`FirstExists`).
    Theorem `RiscvInterruptsArrive`.
  * RH850 and TriCore. `WellFormed`: every vCPU has a CPU, no interrupt and no IMR
    register belongs to two VMs, and interrupts are injected into VMs of one vCPU;
    section 5 says what happens where registers are shared. The hazard is a store
    made long after the read it merges. `StoreConfined` and `StoreKept` say of a
    store that is still to be made that what it holds for interrupts of others is
    what they have now, and that it clears a pending bit only where the guest asked
    for that. Theorems `DirectStaysConfined`, `EnablesAreKept`, `NoneIsLost`.
  * Both together are the invariants of the run: `InterruptsAreNotLost`,
    `InterruptsAreConfined`.

Only model-checked:

* everything about liveness (`NoStarvation`, `MessagesAreHandled`,
  `BlockedVcpuResumes`, `EveryoneFinishes`, `VmsBoot`, `AccessesComplete`,
  `PoweredOnRuns`, `TimerFires`, `Drained`), which the prover cannot reason about;
* the memory modules, which contain RECURSIVE operators (the walks of bitmaps,
  tables and regions) that the prover does not accept;
* `VGic`, of which only bounded numbers of guest operations are known to be free of
  the situations of section 5.

## 5. What was found

**A message without an interrupt on RISC-V** (run `cpu_msg_lost_ipi`).
`interrupts_arch_handle` clears `SSIP` after `cpu_msg_handler` has emptied the
queue. A message that arrives between the last look and the clear is left until
something else interrupts the CPU.

Three more counterexamples are reproduced by adding a property, or an input, to
the configuration of a passing run:

* *A Remote I/O device that is never ready* (`ReadyWhenBothAre`, an
  invariant stated in `RemIOBoot`). `remio_assign_vm_cpus` (remio.c:420) computes
  `dev->ready` from two flags without a lock; the master of each VM may store the
  value it computed before the other's flag was set, and the frontend then spins
  for ever at remio.c:591.
* *Line 32 for two VMs on Arm* (`ExclusiveLine`, with "armv8" among the ports of
  `LineSetups`). The conflict test exempts private lines with
  `int_id > GIC_CPU_PRIV` (armv8/interrupts.c:53) where `gic_is_priv` says `<`
  (gic.h:453): the first shared line falls on the wrong side.
* *An active virtual interrupt without an owner* (`OwnedWhileActive` of `VGic`, one
  interrupt, three injections). A `VGIC_ROUTE` message may arrive when its
  interrupt has been handled; `vgic_add_lr` then writes a list register with no
  state and the EOI bit. The next raise puts the interrupt into a second list
  register, and the trapped end of the blank one (`vgic_handle_trapped_eoir`,
  vgic.c:1266) clears `in_lr` and gives the ownership up. Another vCPU can then
  take the same interrupt while it is active on the first.

The rest are observations made while translating; those marked TLC were seen as
counterexamples when the passing run's inputs were widened.

*Virtual GIC.*
* Lock order (TLC, four operations): `vgic_write_lr` (vgic.c:227) takes the lock
  of whatever was last in the list register while it holds that of the
  interrupt it writes; two route changes that cross let two CPUs wait for each other.
* A refill that is not asked for (TLC, three interrupts, five operations):
  `vgic_refill_lrs` that finds nothing pending clears `NPIE` and `UIE`; when an
  active interrupt on the list is set pending, `vgic_add_spilled` returns early
  and does not set `NPIE` again. `gic_maintenance_handler` also writes back the
  GICH_HCR it read before `vgic_eoir_highest_spilled_active` (1293).
* `vgic_refill_lrs` takes the spilled interrupt of highest priority whoever its
  target is (1193): an interrupt of the VM's common list can be delivered to a
  vCPU it is not routed to, and one another vCPU owns is picked again and again.
* `GICD_IROUTER_INV` has the IRM bit, so `vgic_broadcast` is true of a private
  interrupt: one that found no list register sends `VGIC_ROUTE` to the other
  vCPUs, whose own interrupt of that number is then written to a list register
  with no state, which may spill another.
* GICv2: `vgic_handle_trapped_eoir` takes the unmasked list register for the
  number; with the EOI bit it is out of range, the loop reads the register again,
  now zero, and works on SGI 0, while the interrupt that ended keeps `in_lr` and
  its owner. `vgic_inject_sgi` of an SGI that is pending in a list register from
  the same source puts the source back into `sgi.pend` and adds nothing to a
  register, so that the SGI waits for another source.

*RISC-V interrupt controllers.*
* PLIC: a device's interrupt signals only the hart it was injected on; claim and
  complete update one context; a change of the enable or the priority of a
  device's interrupt does not update the line; the guest's threshold is mirrored
  to the physical context, where it also holds back other interrupts.
* APLIC: `clrie` updates the harts of `ip & ~new_val`; a changed target leaves the
  old hart's `topi`; `in_clrip` ORs unmasked physical pending bits in without
  updating the line; an interrupt of priority 255 is never delivered; `sourcecfg`
  made inactive updates hart 0. `imsic_get_pend` uses `&&` for `&`.

*RH850 and TriCore interrupts.*
* The emulated IMR store is a lock-free read-modify-write that writes other VMs'
  bits back (TLC: `EnableKept`, two VMs in one register); an EIC byte store
  writes a stale pending bit; bit operations on IMR and EIBD are not filtered;
  injection races with the guest's stores.
* `vintc_vm_reset` is never called, and `vintc_vcpu_reset` runs before interrupts
  are assigned; `vipir` with a PE it cannot translate indexes out of range.
* TriCore: a 16-bit SRC access zeroes the other half; TOS is neither shifted nor
  translated, and compared with `> PLAT_CPU_NUM`.

*Memory with an MMU.*
* `mem_map_reclr` counts bits over the whole word and frees pages beyond the image
  (mmu/mem.c:609, against the comment at 679); `mem_inflate_pt` steps from an
  unaligned address and misses the last table.
* A placed region or shared memory with colours is mapped beyond the contiguous
  reservation (vm.c:67); `mem_map_cpy` uses the level size inside a superpage;
  `mem_unmap` goes one level up only; `mem_alloc_vpage` compares with `n` where
  `n - count` is left.
* A hypervisor colour map always ends in the ERROR of mmu/mem.c:845; a cache
  unified at its first level makes `COLOR_SIZE` zero; `vmm_alloc_vm` compares with
  NULL what is `INVALID_VA`.
* `mem_free_ppages` does not give back to the free count; the aligned search of
  `pp_alloc` (mem.c:79, 110) may miss a run that exists.

*Memory with an MPU.*
* Adjacent `SEC_HYP_GLOBAL` regions: the receiver merges them itself, and the
  following REMOVE takes the second region away (TLC: `GlobalShared`).
* `mem_regions_overlap` tests containment; `mem_map_cpy` maps the start of the
  region, whatever address is asked for; RH850 copies an image through a mapping
  with the VM's flags; `mem_alloc_map` ignores failure; `mem_unmap_range` returns
  early with its lock held; a region refused by a full unit stays behind as an
  INVALID entry; a full message queue drops the message and its node.
* RH850 and TriCore `mpu_update` match by base only; TriCore's shared code entry
  gives no execute permission; Armv8-R `mpu_entry_allocate` returns index -1 when full.

*IOMMUs.*
* `smmu_compatible_sme_exists` and the allocation are separate critical sections:
  two masters that ask for one stream may both pass (a multiple-match fault; the
  comment at smmuv2.c:268 promises an ERROR).
* What `Reliable` excludes, each part with a counterexample of TLC for
  `DevicesIsolated`. An entry given up stays valid, and its S2CR names the VM that
  gave it up, until its next owner has written both. A request that exceeds two
  earlier ones therefore leaves a stale entry behind, which matches beside the new
  one; so does a second one that exceeds the same request. A VM that goes on after
  it has replaced an entry may take an entry that another VM has written and not
  bound for its own, and its device goes to the other VM.
* If S2CR after reset names a bank in use, a VM takes an entry that another one has
  written and not bound for its own where both ask for the same streams. A group
  whose identifier lies in its mask matches entries that are allocated and not
  yet written, frees them, and two VMs use the same entry.
* A group that fails leaves the VM's devices out silently.
* RISC-V: a directory entry is valid before `iohgatp` is written; a device number
  of 64 or more is beyond the bitmap; without an IOMMU the driver stores through
  a null pointer.

*Inter-VM communication and Remote I/O.*
* A ring before the peer signed up reports success and is lost; of two IPC objects
  over one shared memory only the first gets events.
* `remio.h` documents that the CPU with the lowest identifier of a VM is told about
  I/O events, while `remio_assign_vm_cpus` uses the master. A CPU_ON or a Remote
  I/O completion whose message meets a full queue reports success (the properties
  say "unless dropped"). `remio_handle_ask` returns the positive `HC_E_FAILURE`
  (remio.c:440, 447) where other hypercalls return the negative.

*Traps.*
* TriCore: opcodes 0x0C and 0x2C are not marked as decoded, so the access is
  skipped; 0x8C and 0xAC use an uninitialised register; 0x09, 0x29, 0x89 and 0xA9
  give sub-opcodes 1 and 3 the width 8, the comment at decode.c:133 says 1 and 2;
  ST.T is skipped; `hvcall_handler` drops the hypercall's result.
* RH850 and TriCore do not wait for an inactive vCPU, so Remote I/O does not work
  there; RH850's TST1 ends in an ERROR, although emul.h:56 says that it "only
  modifies the PSW.Z flag"; RISC-V compressed loads and stores other than C.LW
  and C.SW end in an ERROR when `htinst` is zero.

Properties that are stated in the modules and belong to no run, because others
imply or overlap them: `TypeOK` of the modules, `VcpuIdsExact`,
`AffinityHonoured`, `HypervisorKeepsItsLines`, `ReadyMeansAssigned`, `NoFailure`,
`PendingHasMessage`, `OnlyOnRuns`, `TimerNotEarly`, `TimerNoStorm`, `ClaimedLr`,
`AcceptedMeansDisjoint`, `NodesAccounted`. They hold on the instances of the runs;
all but `AffinityHonoured` and the last three are theorems, or parts of the
inductive invariants, of section 4. `NoMasterStops` and `NoCpuStops` are
for exploration; the configurations that must be refused violate the first.

## 6. Not modelled

* **GICv2**: its maintenance handler works on SGI 0 whatever ended (section 5); a
  model would show nothing but that. Priority registers and interrupts linked to
  a physical one (`vgic_inject_hw`) are not in `VGic` either.
* **Compare-and-swap locks** of RH850 and TriCore: they promise no order.
* **Bits and bytes of RH850 interrupt registers, TriCore software interrupt
  groups**, and the IMSIC configuration of the hypervisor's own interrupts.
* **`mem_color_hypervisor`**, which stops before it changes anything, and TLB and
  cache maintenance.
* **Hardware drivers, boot assembly, console, platform descriptions, build-time
  generators**: they have no state that a property could tell apart; the number of
  them that matters, the size of the Remote I/O device pool, is in `RemIOBoot`.

## 7. Plan

What is left is to be proved, most important first:

1. `PagePool` and `VmMemory`: what `pp_alloc` returns was free, and `PagesExclusive`
   from it; `MemInit!AcceptedMeansDisjoint`. The recursive operators of `AddrSpace`
   have to become recursive functions first.
2. `Mpu` and `VMpu`: `UnitAgrees` for one unit; the inverse of merging and
   splitting. `VMpu` has recursive operators as well.
3. `VGic`: `ClaimedLr` and `NoSpurious`; an interrupt controller as a guest sees it
   (pending, active on one vCPU, or neither), over `VGic`, `VPlic` and `VAplic`.
