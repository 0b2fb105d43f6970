------------------------------ MODULE MemInit ------------------------------
(***************************************************************************)
(* mem_init and shmem_init: the platform's master sets up the page pools,   *)
(* reserves in them the hypervisor and all that the configuration places,   *)
(* and allocates the shared memories; the other CPUs wait at a barrier.     *)
(* The same code serves platforms with an MMU (module VmMemory) and with an *)
(* MPU (module MpuMemory).                                                  *)
(***************************************************************************)
EXTENDS PagePool, SequencesExt

CONSTANT
    Systems       \* platforms, with their RAM and the place of the hypervisor
                  \* in it, and configurations of VMs for them

VARIABLES
    plat, cfg,    \* what runs on what
    mem,          \* the memory record, of which mem.pools is used here
    bitmaps,      \* bytes of the bitmap pool in use
    reserved,     \* items of the configuration marked as reserved
    shmem,        \* where each shared memory is
    phase         \* how far the platform's master is

bootvars == <<plat, cfg, mem, bitmaps, reserved, shmem, phase>>

VMs == DOMAIN cfg.vms
NoPhys == -1      \* a region that is not placed

----------------------------------------------------------------------------
(* What is reserved at a fixed place, in the order of the code.             *)

image_noload_addr == plat.img + plat.load + plat.vm_image

cpu_base_addr == IF plat.non_unified THEN plat.data + plat.data_size
                 ELSE image_noload_addr + plat.noload

HypImageLoad == mem_ppages_get(plat.img, plat.load)

(* pp_root_reserve_hyp_mem                                                  *)
HypMemory ==
    LET cpus == mem_ppages_get(cpu_base_addr, plat.cpu_num * plat.cpu)
    IN  IF plat.non_unified THEN <<mem_ppages_get(plat.data, plat.data_size), cpus>>
        ELSE <<HypImageLoad, mem_ppages_get(image_noload_addr, plat.noload), cpus>>

Items ==
    LET Image(v) == [id |-> <<"image", v, 0>>,
                     pp |-> mem_ppages_get(cfg.vms[v].image.load, cfg.vms[v].image.size)]
        Region(v, j) == LET r == cfg.vms[v].regions[j]
                        IN  [id |-> <<"region", v, j>>, pp |-> mem_ppages_get(r.phys, r.size)]
        Placed(v) == SelectSeq([j \in DOMAIN cfg.vms[v].regions |-> Region(v, j)],
                               LAMBDA i : i.pp.base # NoPhys)
        shared == [s \in DOMAIN cfg.shmems |->
                      [id |-> <<"shmem", s, 0>>,
                       pp |-> mem_ppages_get(cfg.shmems[s].phys, cfg.shmems[s].size)]]
    IN  [v \in VMs |-> Image(v)]
        \o FlattenSeq([v \in VMs |-> Placed(v)])
        \o SelectSeq(shared, LAMBDA i : i.pp.base # NoPhys)

mem_vm_img_in_phys_rgn(v) ==
    \E r \in ToSet(cfg.vms[v].regions) :
        /\ r.phys # NoPhys
        /\ range_in_range(cfg.vms[v].image.load, cfg.vms[v].image.size, r.phys, r.size)

mem_init_reserved == {<<"image", v, 0>> : v \in {v \in VMs : mem_vm_img_in_phys_rgn(v)}}

(* The pool and the marks once everything that lies in it is reserved.      *)
mem_reserve_physical_memory(pool, marks) ==
    LET Step(s, item) ==
            IF item.id \in s.marks \/ ~CanReserve(s.pool, item.pp) THEN s
            ELSE [pool |-> mem_reserve_ppool_ppages(s.pool, item.pp),
                  marks |-> s.marks \cup {item.id}]
        hyp == IF plat.non_unified THEN <<[id |-> <<"hyp", 0, 0>>, pp |-> HypImageLoad]>> ELSE <<>>
    IN  FoldLeft(Step, [pool |-> pool, marks |-> marks], hyp \o Items)

mem_check_reserved ==
    /\ \A i \in ToSet(Items) : i.id \in reserved
    /\ plat.non_unified => <<"hyp", 0, 0>> \in reserved

----------------------------------------------------------------------------
(* The platform's master.                                                   *)

mem_find_root_region ==
    LET base == IF plat.non_unified THEN plat.data ELSE plat.img
        size == IF plat.non_unified THEN plat.data_size ELSE plat.load + plat.noload
    IN  {r \in DOMAIN plat.regions :
            range_in_range(base, size, plat.regions[r].base, plat.regions[r].size)}

Pools(r) == pp_init(plat.regions[r].base, plat.regions[r].size)

(* mem_init up to the first barrier.                                        *)
mem_setup_root_pool ==
    /\ phase = "boot"
    /\ LET roots == mem_find_root_region
           r == CHOOSE r \in roots : \A o \in roots : r <= o
           Take(s, pp) == [ok |-> s.ok /\ CanReserve(s.pool, pp),
                           pool |-> mem_reserve_ppool_ppages(s.pool, pp)]
       IN  IF roots = {} \/ ~pp_bitmap_alloc(0, plat.regions[r].size)
           THEN phase' = "error" /\ UNCHANGED <<mem, reserved, bitmaps>>
           ELSE \E root \in {FoldLeft(Take, [ok |-> TRUE, pool |-> Pools(r)], HypMemory)} :
                IF ~root.ok THEN phase' = "error" /\ UNCHANGED <<mem, reserved, bitmaps>>
                ELSE \E rest \in {mem_reserve_physical_memory(root.pool, mem_init_reserved)} :
                     /\ phase' = "pools"
                     /\ mem' = [mem EXCEPT !.pools = <<rest.pool>>]
                     /\ reserved' = rest.marks
                     /\ bitmaps' = BitmapBytes(plat.regions[r].size)
    /\ UNCHANGED <<plat, cfg, shmem>>

(* The other pools, and the check that nothing is left.                     *)
mem_create_ppools ==
    /\ phase = "pools"
    /\ LET root == mem.pools[1].base
           others == SelectSeq([r \in DOMAIN plat.regions |-> r],
                               LAMBDA r : plat.regions[r].base # root)
           Added(s, r, got) ==
               [s EXCEPT !.used = @ + BitmapBytes(plat.regions[r].size),
                         !.pools = Append(@, got.pool), !.marks = got.marks]
           Create(s, r) ==
               IF ~s.ok \/ ~pp_bitmap_alloc(s.used, plat.regions[r].size)
               THEN [s EXCEPT !.ok = FALSE]
               ELSE Added(s, r, mem_reserve_physical_memory(Pools(r), s.marks))
       IN  \E done \in {FoldLeft(Create, [ok |-> TRUE, used |-> bitmaps, pools |-> mem.pools,
                                          marks |-> reserved], others)} :
           /\ phase' = IF done.ok THEN "check" ELSE "error"
           /\ mem' = [mem EXCEPT !.pools = done.pools]
           /\ reserved' = done.marks
           /\ bitmaps' = done.used
    /\ UNCHANGED <<plat, cfg, shmem>>

CheckReserved ==
    /\ phase = "check"
    /\ phase' = IF mem_check_reserved THEN "shmem" ELSE "error"
    /\ UNCHANGED <<plat, cfg, mem, bitmaps, reserved, shmem>>

(* shmem_init: the shared memories that are not placed.                     *)
shmem_init ==
    /\ phase = "shmem"
    /\ LET Given(s, i, got) ==
               IF got.pages.num_pages < cfg.shmems[i].size THEN [s EXCEPT !.ok = FALSE]
               ELSE [s EXCEPT !.pools = got.pools, !.at[i] = got.pages.base]
           Alloc(s, i) ==
               LET c == cfg.shmems[i]
               IN  IF ~s.ok \/ c.phys # NoPhys THEN s
                   ELSE Given(s, i, mem_alloc_ppages(s.pools, c.colors, c.size, FALSE))
       IN  \E done \in {FoldLeft(Alloc, [ok |-> TRUE, pools |-> mem.pools, at |-> shmem],
                                 [i \in DOMAIN cfg.shmems |-> i])} :
           /\ phase' = IF done.ok THEN "vms" ELSE "error"
           /\ mem' = [mem EXCEPT !.pools = done.pools]
           /\ shmem' = done.at
    /\ UNCHANGED <<plat, cfg, bitmaps, reserved>>

----------------------------------------------------------------------------
Pages == UNION {Range1(plat.regions[r].base, plat.regions[r].size) : r \in DOMAIN plat.regions}

(* struct cpu of the CPU with this number, and its boot page tables.        *)
BootPages(id) == Range1(cpu_base_addr + id * plat.cpu, plat.cpu)

BootInit ==
    /\ \E s \in Systems : plat = s.plat /\ cfg = s.cfg
    /\ bitmaps = 0
    /\ reserved = {}
    /\ shmem = [s \in DOMAIN cfg.shmems |-> cfg.shmems[s].phys]
    /\ phase = "boot"

BootNext ==
    \/ mem_setup_root_pool
    \/ mem_create_ppools
    \/ CheckReserved
    \/ shmem_init

----------------------------------------------------------------------------
HypStatic == UNION {PagesOf(pp) : pp \in ToSet(HypMemory) \cup {HypImageLoad}}

SharedPages ==
    UNION {PagesOf([base |-> shmem[s], num_pages |-> cfg.shmems[s].size,
                    colors |-> cfg.shmems[s].colors]) : s \in DOMAIN cfg.shmems}

(* A configuration is only accepted if all it places is disjoint, and apart *)
(* from the hypervisor; an image may lie in a region of its own VM          *)
(* (mem_check_reserved, mem.c:352-392).                                     *)
AcceptedMeansDisjoint ==
    phase \in {"shmem", "vms"} =>
        \A i \in ToSet(Items) :
            /\ PagesOf(i.pp) \cap HypStatic = {}
            /\ \A k \in ToSet(Items) :
                   \/ i.id = k.id
                   \/ {i.id[1], k.id[1]} = {"image", "region"} /\ i.id[2] = k.id[2]
                   \/ PagesOf(i.pp) \cap PagesOf(k.pp) = {}

=============================================================================
