------------------------------- MODULE VMpu -------------------------------
(***************************************************************************)
(* The address spaces of platforms with an MPU (core/mpu/mem.c): each CPU   *)
(* has one for the hypervisor, the CPUs of a VM share one for the VM.  An   *)
(* address space keeps its regions in a vMPU; each CPU that uses it has     *)
(* them in its own unit, and learns of changes by messages.                 *)
(*                                                                          *)
(* m is the memory of the system: m.as, m.mpu[c] the unit of CPU c, m.msgs  *)
(* the MEM_PROT_SYNC messages to each CPU, m.nodes the shared regions that  *)
(* are taken, m.vcpu[c] the VM on CPU c (0 for none), m.cpus[v] the CPUs of *)
(* VM v, m.err a CPU that met an ERROR.  c is the CPU that runs the code.   *)
(***************************************************************************)
EXTENDS Mpu, SequencesExt

CONSTANTS
    CPU,                        \* the CPUs, numbers from 0
    VMPU_NUM_ENTRIES,
    SHARED_REGION_POOL_SIZE,
    IPI_MAX_EVENTS              \* capacity of a CPU's message queue

INVALID_MPID == -1
Hyp(c) == <<"hyp", c>>
VmAs(v) == <<"vm", v>>

Halt(m) == [m EXCEPT !.err = TRUE]

VmAsid(m, c) == IF m.vcpu[c] = 0 THEN INVALID_ASID ELSE m.as[VmAs(m.vcpu[c])].id

FreeNode == [state |-> "FREE", lock |-> FALSE, region |-> NoRegion]

EmptyVmpu(type, id) ==
    [type |-> type, id |-> id, node |-> [i \in Slots(VMPU_NUM_ENTRIES) |-> FreeNode], list |-> <<>>]

(* as_init: the hypervisor's address spaces all have number 0.              *)
as_init(m, a, type) ==
    [m EXCEPT !.as[a] = EmptyVmpu(type, IF type = "HYP" THEN 0 ELSE m.asid_counter),
              !.asid_counter = IF type = "HYP" THEN @ ELSE @ + 1]

Valid(as) == {i \in DOMAIN as.node : as.node[i].state = "VALID"}

(* The list of the regions, by their bases.                                 *)
list_insert_ordered(as, i, base) ==
    InsertAt(as.list, Cardinality({k \in DOMAIN as.list : as.node[as.list[k]].region.base <= base}) + 1, i)

list_rm(list, i) == SelectSeq(list, LAMBDA k : k # i)

mem_vmpu_set_entry(as, i, r, lock) ==
    [as EXCEPT !.node[i] = [state |-> "VALID", lock |-> lock, region |-> r],
               !.list = list_insert_ordered(as, i, r.base)]

mem_vmpu_free_entry(as, i) == [as EXCEPT !.node[i] = FreeNode, !.list = list_rm(@, i)]

mem_vmpu_get_entry_by_addr(as, addr) == {i \in Valid(as) : addr \in Span(as.node[i].region)}

(* Mutant: the region's own base is not in it.                              *)
OverlapInside(r, s) == r.base > s.base /\ r.base + r.size <= s.base + s.size

(* Containment, of r in a region that is mapped.                            *)
mem_regions_overlap(r, s) == r.base >= s.base /\ r.base + r.size <= s.base + s.size

mem_vmpu_find_overlapping_region(as, r) ==
    {i \in Valid(as) : mem_regions_overlap(r, as.node[i].region)}

----------------------------------------------------------------------------
(* Messages.                                                                *)

(* Mutant: what is global goes to the CPUs of the VM.                       *)
SharedByVm(m, c, a, sec) ==
    IF m.as[a].type = "HYP" /\ sec \notin {"HYP_GLOBAL", "HYP_VM"} THEN {}
    ELSE IF m.vcpu[c] = 0 THEN {} ELSE m.cpus[m.vcpu[c]]

mem_section_shared_cpus(m, c, a, sec) ==
    IF m.as[a].type = "HYP" /\ sec \in {"HYP_GLOBAL", "HYP_IMAGE"} THEN CPU
    ELSE IF m.as[a].type = "HYP" /\ sec # "HYP_VM" THEN {}
    ELSE IF m.vcpu[c] = 0 THEN {} ELSE m.cpus[m.vcpu[c]]

(* A message that finds the queue full is dropped, its node stays taken.    *)
mem_region_broadcast(m, c, a, r, op, locked) ==
    LET to == mem_section_shared_cpus(m, c, a, r.sec) \ {c}
        msg == [op |-> op, type |-> m.as[a].type, asid |-> m.as[a].id, region |-> r, lock |-> locked]
    IN  IF m.nodes + Cardinality(to) > SHARED_REGION_POOL_SIZE THEN Halt(m)
        ELSE [m EXCEPT !.nodes = @ + Cardinality(to),
                       !.msgs = [k \in CPU |-> IF k \in to /\ Len(@[k]) < IPI_MAX_EVENTS
                                               THEN Append(@[k], msg) ELSE @[k]]]

mem_broadcast(as, r, broadcast) == broadcast /\ ~(as.type = "HYP" /\ r.sec = "HYP_PRIVATE")

Tell(m, c, a, r, op, locked, broadcast) ==
    IF mem_broadcast(m.as[a], r, broadcast) THEN mem_region_broadcast(m, c, a, r, op, locked) ELSE m

----------------------------------------------------------------------------
(* The vMPU and the unit of the CPU together.                               *)

mem_check_forced_locked(r, locked) == locked \/ r.sec \in {"HYP_PRIVATE", "HYP_VM", "HYP_IMAGE"}

NoEntry(m) == [m |-> Halt(m), ok |-> FALSE]

WithUnit(m, c, got) == [m EXCEPT !.mpu[c] = got.mpu, !.err = @ \/ got.err]

(* An entry is taken first, and stays taken when the unit has none.         *)
InsertIn(m, c, a, i, r, lock, broadcast, ok) ==
    IF ~ok THEN [m |-> [m EXCEPT !.as[a].node[i].state = "INVALID"], ok |-> FALSE]
    ELSE [m |-> Tell([m EXCEPT !.as[a] = mem_vmpu_set_entry(@, i, r, lock)],
                     c, a, r, "INSERT", lock, broadcast),
          ok |-> TRUE]

mem_vmpu_insert_region(m, c, a, r, broadcast, locked) ==
    LET free == {i \in DOMAIN m.as[a].node : m.as[a].node[i].state = "FREE"}
        lock == mem_check_forced_locked(r, locked)
        Place(got) == InsertIn(WithUnit(m, c, got), c, a, Lowest(free), r, lock, broadcast, got.ok)
    IN  IF free = {} THEN NoEntry(m)
        ELSE Place(mpu_map(m.port, m.mpu[c], m.as[a], r, lock, VmAsid(m, c)))

UpdateIn(m, c, a, i, r, broadcast, locked, got) ==
    IF ~got.ok THEN [m |-> m, ok |-> FALSE]
    ELSE [m |-> Tell([m EXCEPT !.mpu[c] = got.mpu, !.as[a].node[i].region = r],
                     c, a, r, "UPDATE", locked, broadcast),
          ok |-> TRUE]

mem_vmpu_update_region(m, c, a, i, r, broadcast, locked) ==
    UpdateIn(m, c, a, i, r, broadcast, locked, mpu_update(m.port, m.mpu[c], m.as[a], r))

mem_vmpu_remove_region(m, c, a, i, broadcast) ==
    LET n == m.as[a].node[i]
    IN  [Tell(m, c, a, n.region, "REMOVE", n.lock, broadcast) EXCEPT
            !.mpu[c] = mpu_unmap(m.port, @, m.as[a], n.region, VmAsid(m, c)).mpu,
            !.as[a] = mem_vmpu_free_entry(@, i)]

CanMerge(m, as, prev, cur) ==
    LET p == as.node[prev] q == as.node[cur]
    IN  /\ p.region.base + p.region.size = q.region.base
        /\ mpu_perms_compatible(m.port, p.region.flags, q.region.flags)
        /\ ~p.lock /\ ~q.lock

(* Regions that touch become one, which has the flags of the second and the *)
(* section with number 0 (HYP_GLOBAL, VM_ANY).                              *)
MergeUp(m, c, a, prev, cur, broadcast) ==
    LET p == m.as[a].node[prev]
        q == m.as[a].node[cur].region
        merged == [base |-> p.region.base, size |-> p.region.size + q.size, flags |-> q.flags,
                   sec |-> IF m.as[a].type = "HYP" THEN "HYP_GLOBAL" ELSE "VM_ANY"]
        Rest(up) == IF up.ok THEN mem_vmpu_remove_region(up.m, c, a, cur, broadcast) ELSE m
    IN  Rest(mem_vmpu_update_region(m, c, a, prev, merged, broadcast, p.lock))

RECURSIVE mem_vmpu_coalesce_contiguous(_, _, _, _)
mem_vmpu_coalesce_contiguous(m, c, a, broadcast) ==
    LET list == m.as[a].list
        at == {k \in 2 .. Len(list) : CanMerge(m, m.as[a], list[k - 1], list[k])}
    IN  IF at = {} THEN m
        ELSE mem_vmpu_coalesce_contiguous(
                 MergeUp(m, c, a, list[Lowest(at) - 1], list[Lowest(at)], broadcast),
                 c, a, broadcast)

Coalesced(in, c, a, broadcast, locked) ==
    IF in.ok /\ ~locked /\ ~in.m.err
    THEN [in EXCEPT !.m = mem_vmpu_coalesce_contiguous(@, c, a, broadcast)]
    ELSE in

mem_map(m, c, a, r, broadcast, locked) ==
    IF r.size = 0 THEN [m |-> m, ok |-> TRUE]
    ELSE IF mem_vmpu_find_overlapping_region(m.as[a], r) # {} THEN [m |-> m, ok |-> FALSE]
    ELSE Coalesced(mem_vmpu_insert_region(m, c, a, r, broadcast, locked), c, a, broadcast, locked)

OkOrHalt(in) == IF in.ok THEN in.m ELSE Halt(in.m)

(* A part of an unmapped region that stays.  When it cannot be mapped the   *)
(* function returns with the lock taken: nobody maps any more.              *)
MapAgain(m, c, a, part, lock, broadcast) ==
    IF part.size <= 0 \/ m.err THEN m
    ELSE OkOrHalt(mem_vmpu_insert_region(m, c, a, part, broadcast, lock))

(* Mutant: what is left above the range is not mapped again.                *)
UnmapLosesTop(m, c, a, r, s, lock, broadcast) ==
    LET bottom == [r EXCEPT !.size = s.base - r.base]
    IN  IF s.base <= r.base THEN m
        ELSE mem_vmpu_insert_region(m, c, a, bottom, broadcast, lock).m

(* What is left of region r above and below the range s.                    *)
Remainders(m, c, a, r, s, lock, broadcast) ==
    LET limit == s.base + s.size
        top == [r EXCEPT !.base = limit, !.size = r.base + r.size - limit]
        bottom == [r EXCEPT !.size = s.base - r.base]
    IN  MapAgain(MapAgain(m, c, a, top, lock, broadcast), c, a, bottom, lock, broadcast)

(* A range is unmapped if one region holds all of it, else it is left.  One *)
(* round does it: the region is then gone, and no other holds the range.    *)
mem_unmap_range(m, c, a, base, size, broadcast) ==
    LET s == [base |-> base, size |-> size]
        hits == mem_vmpu_find_overlapping_region(m.as[a], s)
        n == m.as[a].node[Lowest(hits)]
    IN  IF size = 0 \/ hits = {} THEN m
        ELSE Remainders(mem_vmpu_remove_region(m, c, a, Lowest(hits), broadcast),
                        c, a, n.region, s, n.lock, broadcast)

mem_unmap(m, c, a, at, n) == mem_unmap_range(m, c, a, at, n, TRUE)

(* The destination is the start of the region that holds vas, not vas.      *)
mem_map_cpy(m, c, from, to, sec, vas, n) ==
    LET hits == mem_vmpu_get_entry_by_addr(m.as[from], vas)
        src == m.as[from].node[Lowest(hits)].region
        r == [src EXCEPT !.sec = sec, !.size = n]
    IN  IF hits = {} THEN Halt(m)
        ELSE IF n > src.size THEN m
        ELSE mem_map(m, c, to, r, mem_broadcast(m.as[to], r, TRUE), FALSE).m

(* mem_alloc_map: whether the region could be mapped is not looked at.      *)
mem_alloc_map(m, c, a, sec, base, n, flags) ==
    mem_map(m, c, a, [base |-> base, size |-> n, flags |-> flags, sec |-> sec], TRUE, FALSE).m

mem_alloc_map_dev(m, c, a, sec, pa, n) ==
    mem_alloc_map(m, c, a, sec, pa, n, IF m.as[a].type = "HYP" THEN "HYP_DEV" ELSE "VM_DEV")

----------------------------------------------------------------------------
(* The other side.                                                          *)

mem_update(m, c, a, r, locked) ==
    LET as == m.as[a]
        hits == {k \in DOMAIN as.list : /\ as.node[as.list[k]].region.base = r.base
                                        /\ as.node[as.list[k]].region.size # r.size}
    IN  IF hits = {} THEN m
        ELSE mem_vmpu_update_region(m, c, a, as.list[Lowest(hits)], r, FALSE, locked).m

(* mem_handle_broadcast_region: a region of the hypervisor goes through the *)
(* CPU's own vMPU, one of a VM straight to the unit.                        *)
mem_handle_broadcast_region(m, c, msg) ==
    LET a == Hyp(c)
        r == msg.region
        v == VmAs(m.vcpu[c])
    IN  IF msg.type = "VM" /\ VmAsid(m, c) # msg.asid THEN Halt(m)
        ELSE [CASE msg.type = "HYP" /\ msg.op = "INSERT" -> mem_map(m, c, a, r, FALSE, msg.lock).m
                [] msg.type = "HYP" /\ msg.op = "REMOVE" -> mem_unmap_range(m, c, a, r.base, r.size, FALSE)
                [] msg.type = "HYP" /\ msg.op = "UPDATE" -> mem_update(m, c, a, r, msg.lock)
                [] msg.type = "VM" /\ msg.op = "INSERT" ->
                       WithUnit(m, c, mpu_map(m.port, m.mpu[c], m.as[v], r, msg.lock, VmAsid(m, c)))
                [] msg.type = "VM" /\ msg.op = "REMOVE" ->
                       WithUnit(m, c, mpu_unmap(m.port, m.mpu[c], m.as[v], r, VmAsid(m, c)))
                [] msg.type = "VM" /\ msg.op = "UPDATE" ->
                       WithUnit(m, c, mpu_update(m.port, m.mpu[c], m.as[v], r))
              EXCEPT !.nodes = @ - 1]

=============================================================================
