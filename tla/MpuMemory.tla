----------------------------- MODULE MpuMemory -----------------------------
(***************************************************************************)
(* The memory of the system from boot to the first guest instruction, on a  *)
(* platform with an MPU: the boot of module MemInit, done by the platform's *)
(* master, the regions all CPUs map for themselves, the devices the master  *)
(* maps for all, and the VMs, whose masters map for the CPUs of the VM.     *)
(* A CPU handles messages only where it waits in cpu_sync_and_clear_msgs.   *)
(***************************************************************************)
EXTENDS MemInit, VMpu

CONSTANT VM_PAGES      \* pages of struct vm and its vCPUs

VARIABLES
    todo,         \* the steps each CPU has ahead
    stopped       \* CPUs that met an ERROR or an abort

vars == <<bootvars, todo, stopped>>

CPU_MASTER == 0

VmOf(c) == {v \in VMs : c \in cfg.vms[v].cpus}

----------------------------------------------------------------------------
(* config_mem_prot_init: all is placed where the VM expects it.             *)
config_mem_prot_init(g) ==
    LET Placed(r) == [r EXCEPT !.phys = r.base]
    IN  [g EXCEPT !.vms = [v \in DOMAIN @ |->
            [@[v] EXCEPT !.regions = [j \in DOMAIN @ |-> Placed(@[j])]]]]

IpcsIdentity(g) ==
    \A v \in DOMAIN g.vms : \A i \in ToSet(g.vms[v].ipcs) : i.base = g.shmems[i.shmem].phys

(* The boot regions and, on the master, the platform's MMIO regions.        *)
mem_prot_init(m, c) ==
    LET m0 == [as_init(m, Hyp(c), "HYP") EXCEPT !.mpu[c] = mpu_init(m.port)]
        separate == plat.non_unified \/ plat.vm_image > 0
        img == [base |-> plat.img, size |-> IF separate THEN plat.load ELSE plat.load + plat.noload,
                flags |-> IF plat.non_unified THEN "HYP_CODE" ELSE "HYP", sec |-> "HYP_IMAGE"]
        noload == [img EXCEPT !.base = IF plat.non_unified THEN plat.data ELSE image_noload_addr,
                              !.size = IF plat.non_unified THEN plat.data_size ELSE plat.noload,
                              !.flags = "HYP"]
        cpu == [base |-> cpu_base_addr + c * plat.cpu, size |-> plat.cpu,
                flags |-> "HYP", sec |-> "HYP_PRIVATE"]
        own == FoldLeft(LAMBDA x, r : mem_map(x, c, Hyp(c), r, FALSE, TRUE).m, m0,
                        IF separate THEN <<img, noload, cpu>> ELSE <<img, cpu>>)
    IN  IF c = CPU_MASTER /\ plat.slave_side_prot THEN
            FoldLeft(LAMBDA x, r : mem_alloc_map_dev(x, c, Hyp(c), "HYP_GLOBAL", r.base, r.size),
                     own, plat.mmio)
        ELSE own

(* A driver of the platform maps its device, for good or for a while.       *)
PlatformDevice(m, c, d) ==
    LET Use(mapped) == IF d.keep THEN mapped ELSE mem_unmap(mapped, c, Hyp(c), d.base, d.size)
    IN  Use(mem_alloc_map_dev(m, c, Hyp(c), d.sec, d.base, d.size))

MapPages(m, c, n, sec, got) ==
    IF got.pages.num_pages # n THEN Halt(m)
    ELSE mem_alloc_map([m EXCEPT !.pools = got.pools], c, Hyp(c), sec, got.pages.base, n, "HYP")

mem_alloc_page(m, c, n, sec) == MapPages(m, c, n, sec, mem_alloc_ppages(m.pools, {}, n, FALSE))

vmm_alloc_vm(m, c, v) ==
    LET Install(got) ==
            MapPages([m EXCEPT !.install[v] = got.pages.base], c, VM_PAGES, "HYP_VM", got)
    IN  Install(mem_alloc_ppages(m.pools, {}, VM_PAGES, FALSE))

vmm_vm_install(m, c, v) == mem_alloc_map(m, c, Hyp(c), "HYP_VM", m.install[v], VM_PAGES, "HYP")

vm_mem_prot_init(m, c, v) ==
    LET m1 == as_init(m, VmAs(v), "VM")
    IN  IF ~plat.slave_side_prot THEN m1
        ELSE FoldLeft(LAMBDA x, r : mem_alloc_map_dev(x, c, VmAs(v), "VM_ANY", r.base, r.size),
                      m1, plat.mmio)

(* vm_arch_init, by the VM's master: memory for the interrupts of the vGIC, *)
(* and on TriCore the interrupt router is taken from the VM.                *)
vm_arch_init(m, c, v) ==
    CASE m.port = "armv8-r" -> mem_alloc_page(m, c, 1, "HYP_VM")
      [] m.port = "tricore" -> mem_unmap(m, c, VmAs(v), plat.src, 1)
      [] m.port = "rh850" -> m

vm_map_mem_region(m, c, v, base, n) == mem_alloc_map(m, c, VmAs(v), "VM_ANY", base, n, "VM")

(* The pages the hypervisor may touch on CPU c; an access to others aborts. *)
Touch(m, c, pages) == pages \subseteq Readable(m.port, m.mpu[c], m.as[Hyp(c)])

vm_install_image(m, c, v) ==
    LET img == cfg.vms[v].image
        from == Range1(img.load, img.size)
        to == Range1(img.base, img.size)
        src == mem_alloc_map(m, c, Hyp(c), "HYP_PRIVATE", img.load, img.size, "HYP")
        Copy(dst) ==
            IF ~Touch(dst, c, from \cup to) THEN Halt(m)
            ELSE mem_unmap(mem_unmap(dst, c, Hyp(c), img.load, img.size),
                           c, Hyp(c), img.base, img.size)
    IN  IF img.base = img.load THEN m
        ELSE IF from \cap to # {} THEN Halt(m)
        ELSE Copy(mem_map_cpy(src, c, VmAs(v), Hyp(c), "HYP_PRIVATE", img.base, img.size))

(* One round of vm_init_mem_regions.                                        *)
vm_init_mem_region(m, c, v, r) ==
    LET img == cfg.vms[v].image
        Fill(mapped) == IF range_in_range(img.base, img.size, r.base, r.size)
                        THEN vm_install_image(mapped, c, v) ELSE mapped
    IN  Fill(vm_map_mem_region(m, c, v, r.base, r.size))

(* vm_init_dev: with protection on the side of the devices all are mapped.  *)
vm_init_dev(m, c, v, d) ==
    IF plat.slave_side_prot THEN m
    ELSE IF d.va # d.pa THEN Halt(m)
    ELSE mem_alloc_map_dev(m, c, VmAs(v), "VM_ANY", d.pa, d.size)

vm_init_ipc(m, c, v, i) ==
    vm_map_mem_region(m, c, v, i.base, Lesser(i.size, cfg.shmems[i.shmem].size))

----------------------------------------------------------------------------
(* The steps of a CPU.  A barrier is passed when all have come to it; before *)
(* cpu_sync_and_clear_msgs ends each CPU has handled its messages.          *)
Barrier(id, who) == <<[kind |-> "barrier", id |-> id, who |-> who]>>
SyncAndClear(id, who) == <<[kind |-> "clear", id |-> id, who |-> who]>> \o Barrier(id \o <<2>>, who)

Only(cond, steps) == IF cond THEN steps ELSE <<>>
On(kind, seq) == [j \in DOMAIN seq |-> [kind |-> kind, arg |-> seq[j]]]

VmSteps(c, v) ==
    LET g == cfg.vms[v]
        master == c = g.master
    IN  (IF master THEN <<[kind |-> "alloc"]>> ELSE <<[kind |-> "install"]>>)
        \o Barrier(<<v, 1>>, g.cpus)
        \o <<[kind |-> "cpu"]>> \o Barrier(<<v, 2>>, g.cpus)
        \o <<[kind |-> "vcpu"]>> \o Barrier(<<v, 3>>, g.cpus)
        \o Only(master, <<[kind |-> "as"]>>) \o Barrier(<<v, 4>>, g.cpus)
        \o Only(master, <<[kind |-> "arch"]>>)
        \o Only(plat.port # "rh850", SyncAndClear(<<v, 5>>, g.cpus))
        \o Only(master, On("region", g.regions) \o On("dev", g.devs) \o On("ipc", g.ipcs))
        \o SyncAndClear(<<v, 6>>, g.cpus)

Program(c) ==
    LET master == c = CPU_MASTER
        boot == [kind |-> "boot"]
    IN  <<[kind |-> "prot"]>>
        \o Only(master, <<[kind |-> "config"], boot>>) \o SyncAndClear(<<0, 1>>, CPU)
        \o Only(master, <<boot, boot>>) \o SyncAndClear(<<0, 2>>, CPU)
        \o Only(master, On("platform", plat.devs)) \o SyncAndClear(<<0, 3>>, CPU)
        \o Only(master, <<boot>>) \o Barrier(<<0, 4>>, CPU)
        \o (IF VmOf(c) = {} THEN <<>> ELSE VmSteps(c, CHOOSE v \in VmOf(c) : TRUE))

Perform(m, c, s) ==
    LET v == CHOOSE v \in VmOf(c) : TRUE
    IN  CASE s.kind = "prot"     -> mem_prot_init(m, c)
          [] s.kind = "platform" -> PlatformDevice(m, c, s.arg)
          [] s.kind = "alloc"    -> vmm_alloc_vm(m, c, v)
          [] s.kind = "install"  -> vmm_vm_install(m, c, v)
          [] s.kind = "cpu"      -> [m EXCEPT !.cpus[v] = @ \cup {c}]
          [] s.kind = "vcpu"     -> [m EXCEPT !.vcpu[c] = v]
          [] s.kind = "as"       -> vm_mem_prot_init(m, c, v)
          [] s.kind = "arch"     -> vm_arch_init(m, c, v)
          [] s.kind = "region"   -> vm_init_mem_region(m, c, v, s.arg)
          [] s.kind = "dev"      -> vm_init_dev(m, c, v, s.arg)
          [] s.kind = "ipc"      -> vm_init_ipc(m, c, v, s.arg)

At(c, kinds) == c \notin stopped /\ todo[c] # <<>> /\ Head(todo[c]).kind \in kinds

Pop(c) == todo' = [todo EXCEPT ![c] = Tail(@)]

Step(c) ==
    /\ At(c, {"prot", "platform", "alloc", "install", "cpu", "vcpu", "as", "arch", "region", "dev", "ipc"})
    /\ Head(todo[c]).kind = "install" => \A v \in VmOf(c) : mem.install[v] # INVALID_MPID
    /\ \E done \in {Perform(mem, c, Head(todo[c]))} :
           /\ mem' = [done EXCEPT !.err = FALSE]
           /\ stopped' = IF done.err THEN stopped \cup {c} ELSE stopped
    /\ Pop(c)
    /\ UNCHANGED <<plat, cfg, bitmaps, reserved, shmem, phase>>

(* config_init, and with it the check that objects are where their shared   *)
(* memory is.                                                               *)
Config ==
    /\ At(CPU_MASTER, {"config"})
    /\ cfg' = config_mem_prot_init(cfg)
    /\ stopped' = IF IpcsIdentity(cfg) THEN stopped ELSE {CPU_MASTER}
    /\ Pop(CPU_MASTER)
    /\ UNCHANGED <<plat, mem, bitmaps, reserved, shmem, phase>>

Boot == At(CPU_MASTER, {"boot"}) /\ BootNext /\ Pop(CPU_MASTER) /\ UNCHANGED stopped

(* Everyone has come to this barrier, or is beyond it.                      *)
AllThere(s) == \A k \in s.who : s \in ToSet(todo[k]) => Head(todo[k]) = s

Pass(c) ==
    /\ At(c, {"barrier", "clear"})
    /\ AllThere(Head(todo[c]))
    /\ At(c, {"clear"}) => mem.msgs[c] = <<>>
    /\ Pop(c)
    /\ UNCHANGED <<bootvars, stopped>>

mem_msg_handler(c) ==
    /\ At(c, {"clear"}) \/ (c \notin stopped /\ todo[c] = <<>>)
    /\ mem.msgs[c] # <<>>
    /\ \E done \in {mem_handle_broadcast_region([mem EXCEPT !.msgs[c] = Tail(@)], c, Head(mem.msgs[c]))} :
           /\ mem' = [done EXCEPT !.err = FALSE]
           /\ stopped' = IF done.err THEN stopped \cup {c} ELSE stopped
    /\ UNCHANGED <<plat, cfg, bitmaps, reserved, shmem, phase, todo>>

----------------------------------------------------------------------------
Init ==
    /\ BootInit
    /\ mem = [port |-> plat.port, pools |-> <<>>, err |-> FALSE, nodes |-> 0, asid_counter |-> 1,
              as |-> [a \in {Hyp(c) : c \in CPU} \cup {VmAs(v) : v \in VMs} |->
                         EmptyVmpu(IF a[1] = "hyp" THEN "HYP" ELSE "VM", 0)],
              mpu |-> [c \in CPU |-> mpu_init(plat.port)],
              msgs |-> [c \in CPU |-> <<>>], vcpu |-> [c \in CPU |-> 0],
              cpus |-> [v \in VMs |-> {}], install |-> [v \in VMs |-> INVALID_MPID]]
    /\ todo = [c \in CPU |-> Program(c)]
    /\ stopped = {}

Terminated ==
    /\ phase = "error" \/ stopped # {} \/ \A c \in CPU : todo[c] = <<>> /\ mem.msgs[c] = <<>>
    /\ UNCHANGED vars

Next ==
    \/ Config \/ Boot
    \/ \E c \in CPU : Step(c) \/ Pass(c) \/ mem_msg_handler(c)
    \/ Terminated

Spec == Init /\ [][Next]_vars

----------------------------------------------------------------------------
Mapped(a) == UNION {Span(mem.as[a].node[i].region) : i \in Valid(mem.as[a])}

Started(c) == [kind |-> "prot"] \notin ToSet(todo[c])

(* What a CPU's unit lets through is what the vMPU holds, for the address   *)
(* space of the hypervisor and for that of the VM, which other CPUs change, *)
(* whenever the CPU has handled its messages (mpu/mem.c:317-480).           *)
UnitAgrees ==
    \A c \in CPU \ stopped : Started(c) /\ mem.msgs[c] = <<>> =>
        \A a \in {Hyp(c)} \cup {VmAs(v) : v \in {v \in VMs : v = mem.vcpu[c] /\ mem.as[VmAs(v)].id # 0}} :
            Readable(mem.port, mem.mpu[c], mem.as[a]) = Mapped(a)

(* The CPUs map the same devices and the same image of the hypervisor once  *)
(* they have handled their messages, whatever was mapped and unmapped.      *)
Global(c) == UNION {Span(r) : r \in {r \in {mem.as[Hyp(c)].node[i].region : i \in Valid(mem.as[Hyp(c)])} :
                                       r.sec \in {"HYP_GLOBAL", "HYP_IMAGE"}}}
GlobalShared ==
    \A c, k \in CPU : Started(c) /\ Started(k) /\ mem.msgs[c] = <<>> /\ mem.msgs[k] = <<>> =>
        Global(c) = Global(k)

Runs(c) == todo[c] = <<>> /\ c \notin stopped

Configured(v) ==
    LET g == cfg.vms[v]
        Of(seq) == UNION {Span(r) : r \in ToSet(seq)}
        dev == IF plat.slave_side_prot THEN Of(plat.mmio) \ {plat.src}
               ELSE UNION {Range1(d.pa, d.size) : d \in ToSet(g.devs)}
        ipc == UNION {Range1(i.base, Lesser(i.size, cfg.shmems[i.shmem].size)) : i \in ToSet(g.ipcs)}
    IN  [mem |-> Of(g.regions) \cup ipc, dev |-> dev]

(* On each CPU of a VM that runs, the VM may read what the configuration    *)
(* gives it and nothing else, and execute of that the memory: no page of    *)
(* the hypervisor, and none of a VM on another CPU.                         *)
VmConfined ==
    \A c \in CPU : Runs(c) => \A v \in VmOf(c) :
        LET as == mem.as[VmAs(v)]
            want == Configured(v)
        IN  /\ Readable(mem.port, mem.mpu[c], as) = want.mem \cup want.dev
            /\ Executable(mem.port, mem.mpu[c], as) = want.mem
            /\ want.mem \cap HypStatic = {}

(* Of the mappings the hypervisor makes for a while none is left when the   *)
(* VM runs, on any CPU: it cannot reach the memory of the VMs.              *)
NoLeftovers ==
    \A c \in CPU : Runs(c) =>
        Readable(mem.port, mem.mpu[c], mem.as[Hyp(c)]) \cap
            UNION {UNION {Span(r) : r \in ToSet(cfg.vms[v].regions)} : v \in VMs} = {}

(* A shared region is given back when its message has been handled, and     *)
(* only then.                                                               *)
NodesAccounted == mem.nodes = FoldFunction(LAMBDA q, n : Len(q) + n, 0, mem.msgs)

(* No CPU meets an ERROR or an abort.                                       *)
NoCpuStops == stopped = {}

=============================================================================
