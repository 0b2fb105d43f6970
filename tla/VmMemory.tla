----------------------------- MODULE VmMemory -----------------------------
(***************************************************************************)
(* The memory of the system from boot to the first guest instruction, on a  *)
(* platform with an MMU: the boot of module MemInit, and behind a barrier   *)
(* the masters of the VMs, all at the same time, build the address space of *)
(* their VM and install its image (vmm_alloc_vm, vm_init).                  *)
(*                                                                          *)
(* Every page holds at first what a boot loader put there, its own number.  *)
(***************************************************************************)
EXTENDS MemInit, AddrSpace

CONSTANT VM_PAGES      \* pages of struct vm and its vCPUs

VARIABLES
    todo,         \* the steps each VM's master has ahead
    stopped       \* masters that met an ERROR

vars == <<bootvars, todo, stopped>>

Cpu(v) == <<"cpu", v>>
Vm(v) == <<"vm", v>>

----------------------------------------------------------------------------
(* A VM's master.                                                           *)

(* mem_alloc_map must give the address that was asked for.                  *)
PlacedAt(got, base) == IF got.va # base THEN Fail(got.m) ELSE got.m

vm_map_mem_region(m, v, r) ==
    PlacedAt(mem_alloc_map(m, Vm(v), "ANY",
                           IF r.phys = NoPhys THEN NONE
                           ELSE [mem_ppages_get(r.phys, r.size) EXCEPT !.colors = r.colors],
                           r.base, r.size),
             r.base)

(* The image stays where it was loaded, but for its pages of other colours; *)
(* the rest of the region is allocated around it.                           *)
MapAround(m, v, base, top) == mem_alloc_map(m, Vm(v), "ANY", NONE, base, top - base).m

MapImage(m, v, img, pp) ==
    IF all_clrs(m.as[Vm(v)].colors)
    THEN mem_alloc_map(m, Vm(v), "ANY", pp, img.base, img.size).m
    ELSE mem_map_reclr(m, Vm(v), Cpu(v), img.base, pp, img.size)

vm_map_img_rgn_inplace(m, v, r, img) ==
    MapAround(MapImage(MapAround(m, v, r.base, img.base), v, img, mem_ppages_get(img.load, img.size)),
              v, img.base + img.size, r.base + r.size)

range_overlap_range(b1, s1, b2, s2) == b1 < b2 + s2 /\ b2 < b1 + s1

(* The windows: src on the image where it was loaded, dst on the VM's own.  *)
CopyTo(dst, v, src, img) ==
    IF src = INVALID_VA \/ dst.va = INVALID_VA THEN Fail(dst.m)
    ELSE Unwindow(Memcpy(dst.m, Cpu(v), dst.va, src, img.size),
                  Cpu(v), src, img.size, dst.va, img.size)

CopyFrom(src, v, img) ==
    CopyTo(mem_map_cpy(src.m, Vm(v), Cpu(v), "HYP_PRIVATE", img.base, INVALID_VA, img.size),
           v, src.va, img)

vm_install_image(m, v, r, img) ==
    IF m.err \/ (r.phys # NoPhys /\ img.base = img.load) THEN m
    ELSE IF r.phys # NoPhys /\ range_overlap_range(img.base, img.size, img.load, img.size)
    THEN Fail(m)
    ELSE CopyFrom(mem_alloc_map(m, Cpu(v), "HYP_PRIVATE", mem_ppages_get(img.load, img.size),
                                INVALID_VA, img.size),
                  v, img)

(* One round of vm_init_mem_regions.                                        *)
vm_init_mem_region(m, v, r, img) ==
    IF ~range_in_range(img.base, img.size, r.base, r.size) THEN vm_map_mem_region(m, v, r)
    ELSE IF r.phys = NoPhys /\ img.inplace THEN vm_map_img_rgn_inplace(m, v, r, img)
    ELSE vm_install_image(vm_map_mem_region(m, v, r), v, r, img)

(* vm_init_dev: whether the region could be mapped is not looked at.        *)
vm_init_dev(m, v, d) ==
    mem_alloc_map(m, Vm(v), "ANY", mem_ppages_get(d.pa, d.size), d.va, d.size).m

(* vm_init_ipc: an object without a shared memory is left out, one that is  *)
(* larger than its shared memory is cut.                                    *)
IpcRegion(ipc, s) ==
    [base |-> ipc.base, size |-> Lesser(ipc.size, s.size), phys |-> shmem[ipc.shmem],
     colors |-> s.colors]

vm_init_ipc(m, v, ipc) ==
    IF ipc.shmem \notin DOMAIN cfg.shmems THEN m
    ELSE vm_map_mem_region(m, v, IpcRegion(ipc, cfg.shmems[ipc.shmem]))

Steps(c) ==
    LET On(kind, seq) == [j \in DOMAIN seq |-> [kind |-> kind, arg |-> seq[j]]]
    IN  <<[kind |-> "vm"], [kind |-> "as"]>>
        \o On("region", c.regions) \o On("dev", c.devs) \o On("ipc", c.ipcs)

Perform(m, v, s) ==
    CASE s.kind = "vm"     -> mem_alloc_page(m, Cpu(v), VM_PAGES, "HYP_VM", FALSE)
      [] s.kind = "as"     -> as_init(m, Vm(v), Cpu(v), cfg.vms[v].colors)
      [] s.kind = "region" -> vm_init_mem_region(m, v, s.arg, cfg.vms[v].image)
      [] s.kind = "dev"    -> vm_init_dev(m, v, s.arg)
      [] s.kind = "ipc"    -> vm_init_ipc(m, v, s.arg)

vm_init(v) ==
    /\ phase = "vms"
    /\ v \notin stopped
    /\ todo[v] # <<>>
    /\ \E done \in {Perform(mem, v, Head(todo[v]))} :
           /\ mem' = [done EXCEPT !.err = FALSE]
           /\ stopped' = IF done.err THEN stopped \cup {v} ELSE stopped
    /\ todo' = [todo EXCEPT ![v] = Tail(@)]
    /\ UNCHANGED <<plat, cfg, bitmaps, reserved, shmem, phase>>

----------------------------------------------------------------------------
(* A CPU starts with the tables of its boot pages: one of each level below  *)
(* the root in its private section, where struct cpu is mapped.             *)
BootSpace(v) ==
    LET a == EmptySpace("HYP", {})
        beg == Sections["HYP"]["HYP_PRIVATE"].beg
        first == cpu_base_addr + (v - 1) * plat.cpu    \* VM v is on CPU v - 1
        chain == [e \in {Entry(l, beg) : l \in 0 .. LVLS - 2} |-> Table(first + 2 + e[1])]
        below == UNION {Children(e) : e \in DOMAIN chain}
        cpu == [e \in {Entry(LastLvl, beg)} |-> Leaf(first)]
    IN  [a EXCEPT !.pt = cpu @@ chain @@ [e \in below |-> Invalid] @@ @]

Init ==
    /\ BootInit
    /\ mem = [pools |-> <<>>, err |-> FALSE, data |-> [p \in Pages |-> p],
              as |-> [a \in {Cpu(v) : v \in VMs} |-> BootSpace(a[2])]
                     @@ [a \in {Vm(v) : v \in VMs} |-> EmptySpace("VM", {})]]
    /\ todo = [v \in VMs |-> Steps(cfg.vms[v])]
    /\ stopped = {}

(* Every master has built its VM, or has stopped.                           *)
Terminated ==
    /\ phase = "error" \/ (phase = "vms" /\ \A v \in VMs : todo[v] = <<>> \/ v \in stopped)
    /\ UNCHANGED vars

Next ==
    \/ BootNext /\ UNCHANGED <<todo, stopped>>
    \/ \E v \in VMs : vm_init(v)
    \/ Terminated

Spec == Init /\ [][Next]_vars

----------------------------------------------------------------------------
(* Who holds which pages of RAM.                                            *)

MappedVas(a) == {va \in 0 .. SpaceSize(a) - 1 : mem_translate(a, va) # {}}

PagesAt(a, vas) == UNION {mem_translate(a, va) : va \in vas}

SectionVas(s) == Sections["HYP"][s].beg .. Sections["HYP"][s].end

VmPages(v) == (PagesAt(mem.as[Vm(v)], MappedVas(mem.as[Vm(v)])) \cap Pages) \ SharedPages

Image(v) == Range1(cfg.vms[v].image.load, cfg.vms[v].image.size)

(* The image a VM is still to be built from.                                *)
Source(v) ==
    LET img == cfg.vms[v].image
    IN  IF \E s \in ToSet(todo[v]) : /\ s.kind = "region"
                                     /\ range_in_range(img.base, img.size, s.arg.base, s.arg.size)
        THEN Image(v) ELSE {}

(* The pages of v's master: the tables of both address spaces, and what is  *)
(* mapped in its own section for VMs.                                       *)
HypPages(v) ==
    (Tables(mem.as[Cpu(v)]) \ BootPages(v - 1))
    \cup PagesAt(mem.as[Cpu(v)], SectionVas("HYP_VM"))

Holders ==
    {<<<<"hyp", 0>>, HypStatic>>, <<<<"shared", 0>>, SharedPages>>}
    \cup UNION {{<<Vm(v), VmPages(v) \cup Source(v)>>, <<Cpu(v), HypPages(v)>>,
                 <<<<"pt", v>>, Tables(mem.as[Vm(v)])>>} : v \in VMs}

(* No page serves two purposes: the memory of a VM, with the image it is    *)
(* built from, the page tables of the VMs and of the CPUs, the structures   *)
(* of the hypervisor, its image and the shared memories never meet, however *)
(* the masters interleave (mem.c:58-126, mmu/mem.c:99-179, vm.c:59-232).    *)
(* What is in use is marked in the bitmap of its pool, so that no later     *)
(* allocation returns it.                                                   *)
PagesExclusive ==
    phase = "vms" =>
        /\ \A h, k \in Holders : h[1] # k[1] => h[2] \cap k[2] = {}
        /\ \A h \in Holders : \A p \in h[2] :
               \E i \in DOMAIN mem.pools : p - mem.pools[i].base \in mem.pools[i].bitmap

Built(v) == phase = "vms" /\ todo[v] = <<>> /\ v \notin stopped

(* A VM that starts has all of its regions: a page each, different ones,    *)
(* where the configuration places them, of the VM's colours otherwise.      *)
RegionsMapped ==
    \A v \in VMs : Built(v) =>
        LET a == mem.as[Vm(v)]
            vas == UNION {Range1(r.base, r.size) : r \in ToSet(cfg.vms[v].regions)}
        IN  /\ Cardinality(PagesAt(a, vas)) = Cardinality(vas)
            /\ \A r \in ToSet(cfg.vms[v].regions) : \A i \in 0 .. r.size - 1 :
                  IF r.phys # NoPhys THEN mem_translate(a, r.base + i) = {r.phys + i}
                  ELSE all_clrs(a.colors)
                       \/ \A p \in mem_translate(a, r.base + i) : HasColor(a, p)

(* A VM that starts finds its image where it is linked to run, whatever was *)
(* allocated and written between the boot and its installation.             *)
ImageInstalled ==
    \A v \in VMs : Built(v) =>
        \A i \in 0 .. cfg.vms[v].image.size - 1 :
            \A p \in mem_translate(mem.as[Vm(v)], cfg.vms[v].image.base + i) :
                mem.data[p] = cfg.vms[v].image.load + i

(* The search of the bitmaps finds the first run of free pages, in every    *)
(* bitmap the allocations lead to (bitmap.c:29-87).                         *)
FindsFirstRun ==
    \A i \in DOMAIN mem.pools : \A n \in 1 .. 2 * BITMAP_GRANULE_LEN + 1 :
        LET p == mem.pools[i]
        IN  bitmap_find_consec(p.bitmap, p.num_pages, p.last, n)
                = FirstFit(p.bitmap, p.num_pages, p.last, n)

(* No master meets an ERROR or a missing table while there is memory.       *)
NoMasterStops == stopped = {}

=============================================================================
