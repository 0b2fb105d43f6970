-------------------------------- MODULE Mpu --------------------------------
(***************************************************************************)
(* The memory protection units of a CPU and their drivers, for Armv8-R,     *)
(* RH850 and TriCore, as functions of the state p of the unit.              *)
(*                                                                          *)
(* Addresses and sizes count pages, the granularity of all three.  A region *)
(* is [base, size, flags, sec].  A driver's function returns the unit, what *)
(* the function returns, and err where it writes out of its bounds.         *)
(***************************************************************************)
EXTENDS Integers, FiniteSets, Sequences

CONSTANTS
    MPU_ENTRIES,        \* entries of a unit, data entries on TriCore
    MPU_CODE_ENTRIES    \* code entries on TriCore

ASSUME MpuAssumption == MPU_ENTRIES \in Nat \ {0} /\ MPU_CODE_ENTRIES \in Nat \ {0}

Ports == {"armv8-r", "rh850", "tricore"}
INVALID_ASID == -1
NoRegion == [base |-> 0, size |-> 0, flags |-> "INVALID", sec |-> "UNKNOWN"]

Span(r) == r.base .. r.base + r.size - 1
Lowest(S) == CHOOSE i \in S : \A k \in S : i <= k
Highest(S) == CHOOSE i \in S : \A k \in S : i >= k

(* The flags PTE_HYP_FLAGS_CODE, PTE_HYP_FLAGS and so on.                   *)
Owner(f) == IF f \in {"VM", "VM_DEV"} THEN "VM" ELSE "HYP"
Writes(f) == f # "HYP_CODE"
Execs(f) == f \in {"HYP_CODE", "HYP", "VM"}

(* RH850 gives its devices the flags of the hypervisor's data.              *)
Raw(port, f) == IF port = "rh850" /\ f = "HYP_DEV" THEN "HYP" ELSE f

Done(p) == [mpu |-> p, ok |-> TRUE, err |-> FALSE]
Denied(p) == [mpu |-> p, ok |-> FALSE, err |-> FALSE]

Slots(n) == 0 .. n - 1

----------------------------------------------------------------------------
(* Armv8-R: an entry belongs to the address space entry_asid, and a mask    *)
(* for the hypervisor and one for the VM tell which entries to switch on.   *)
(* vm_asid is the address space of the VM on this CPU.                      *)

ArmInit == [allocated |-> {}, locked |-> {}, asid |-> [i \in Slots(MPU_ENTRIES) |-> INVALID_ASID],
            ent |-> [i \in Slots(MPU_ENTRIES) |-> NoRegion], mask |-> [HYP |-> {}, VM |-> {}]]

find_mpu_mask_by_asid(id, vm_asid) == IF id = 0 THEN {"HYP"} ELSE {"VM"} \cap {IF id = vm_asid THEN "VM" ELSE ""}

(* Mutant: the address space of an entry is not looked at.                  *)
FindAnySpace(p, r, id) == {i \in p.allocated : p.ent[i].base = r.base}

ArmFind(p, r, id) == {i \in p.allocated : p.ent[i].base = r.base /\ p.asid[i] = id}

(* A full unit is not noticed: the bit before the bitmap is set.            *)
ArmMap(p, id, r, locked, vm_asid) ==
    LET free == Slots(MPU_ENTRIES) \ p.allocated
        i == Lowest(free)
        mask == find_mpu_mask_by_asid(id, vm_asid)
        taken == [p EXCEPT !.allocated = @ \cup {i}, !.asid[i] = id,
                           !.locked = IF locked THEN @ \cup {i} ELSE @]
    IN  IF r.size = 0 THEN Denied(p)
        ELSE IF free = {} THEN [Done(p) EXCEPT !.err = TRUE]
        ELSE IF mask = {} THEN Denied(taken)
        ELSE Done([taken EXCEPT !.ent[i] = r, !.mask = [k \in DOMAIN @ |-> IF k \in mask THEN @[k] \cup {i} ELSE @[k]]])

ArmUnmap(p, id, r, vm_asid) ==
    LET hits == ArmFind(p, r, id)
        i == Lowest(hits)
        mask == find_mpu_mask_by_asid(id, vm_asid)
        gone == [p EXCEPT !.allocated = @ \ {i}, !.asid[i] = INVALID_ASID,
                          !.locked = @ \ {i}, !.ent[i] = NoRegion]
    IN  IF hits = {} THEN Done(p)
        ELSE IF mask = {} THEN Denied(gone)
        ELSE Done([gone EXCEPT !.mask = [k \in DOMAIN @ |-> IF k \in mask THEN @[k] \ {i} ELSE @[k]]])

ArmUpdate(p, id, r) ==
    LET hits == ArmFind(p, r, id)
    IN  IF hits = {} THEN Denied(p) ELSE Done([p EXCEPT !.ent[Lowest(hits)].size = r.size])

----------------------------------------------------------------------------
(* RH850: entries are taken from the top; those at and above the watermark  *)
(* hbe are the host's.  Whose an entry is shows in its flags.               *)

RhInit == [bitmap |-> {}, ent |-> [i \in Slots(MPU_ENTRIES) |-> NoRegion], hbe |-> MPU_ENTRIES]

update_hbe(p) == [p EXCEPT !.hbe = IF p.bitmap = {} THEN -1 ELSE Lowest(p.bitmap)]

RhMap(p, r) ==
    LET free == Slots(MPU_ENTRIES) \ p.bitmap
        i == Highest(free)
    IN  IF r.size = 0 THEN Denied(p)
        ELSE IF free = {} THEN Denied(update_hbe(p))
        ELSE Done(update_hbe([p EXCEPT !.bitmap = @ \cup {i}, !.ent[i] = r]))

(* Only the first entry with this base and size is looked at.               *)
mpu_entry_get_region_id(p, type, r) ==
    LET hits == {i \in p.bitmap : p.ent[i].base = r.base /\ p.ent[i].size = r.size}
    IN  IF hits = {} THEN {} ELSE {i \in {Lowest(hits)} : Owner(p.ent[i].flags) = type}

RhUnmap(p, type, r) ==
    LET hits == mpu_entry_get_region_id(p, type, r)
        i == Lowest(hits)
    IN  IF r.size = 0 \/ hits = {} THEN Denied(p)
        ELSE Done(update_hbe([p EXCEPT !.bitmap = @ \ {i}, !.ent[i] = NoRegion]))

RhUpdate(p, r) ==
    LET hits == {i \in p.bitmap : p.ent[i].base = r.base}
    IN  IF hits = {} THEN Denied(p) ELSE Done(update_hbe([p EXCEPT !.ent[Lowest(hits)] = r]))

----------------------------------------------------------------------------
(* TriCore: data and code entries, shared by the protection sets (one for   *)
(* each address space), which are allowed to read, write and execute them.  *)

TcInit ==
    LET Side(n) == [bitmap |-> {}, ent |-> [i \in Slots(n) |-> NoRegion], ref |-> [i \in Slots(n) |-> 0]]
    IN  [data |-> Side(MPU_ENTRIES), code |-> Side(MPU_CODE_ENTRIES),
         re |-> {}, we |-> {}, xe |-> {}]      \* pairs of protection set and entry

TcFind(side, r) == {i \in side.bitmap : side.ent[i].base = r.base /\ side.ent[i].size = r.size}

mpu_prs_set_perm(p, prs, i, w, rd, x) ==
    [p EXCEPT !.we = IF w THEN @ \cup {<<prs, i>>} ELSE @,
              !.re = IF rd THEN @ \cup {<<prs, i>>} ELSE @,
              !.xe = IF x THEN @ \cup {<<prs, i>>} ELSE @]

Insert(side, i, r) == [side EXCEPT !.bitmap = @ \cup {i}, !.ent[i] = r, !.ref[i] = @ + 1]

(* An entry that exists is shared: of its permissions those for data are    *)
(* set, and the right to execute goes to the code entry of the same number. *)
TcMapData(p, prs, r) ==
    LET hits == TcFind(p.data, r)
        free == Slots(MPU_ENTRIES) \ p.data.bitmap
        i == IF hits # {} THEN Lowest(hits) ELSE Lowest(free)
    IN  IF hits # {}
        THEN mpu_prs_set_perm([p EXCEPT !.data.ref[i] = @ + 1], prs, i, Writes(r.flags), TRUE,
                              Execs(r.flags))
        ELSE IF free = {} THEN p
        ELSE mpu_prs_set_perm([p EXCEPT !.data = Insert(@, i, r)], prs, i, Writes(r.flags), TRUE, FALSE)

TcMapCode(p, prs, r) ==
    LET hits == TcFind(p.code, r)
        free == Slots(MPU_CODE_ENTRIES) \ p.code.bitmap
        i == IF hits # {} THEN Lowest(hits) ELSE Lowest(free)
    IN  IF ~Execs(r.flags) THEN p
        ELSE IF hits # {} THEN [p EXCEPT !.code.ref[i] = @ + 1]
        ELSE IF free = {} THEN p
        ELSE mpu_prs_set_perm([p EXCEPT !.code = Insert(@, i, r)], prs, i, FALSE, FALSE, TRUE)

TcMap(p, prs, r) ==
    IF r.size = 0 THEN Denied(p) ELSE Done(TcMapCode(TcMapData(p, prs, r), prs, r))

TcUpdate(p, r) ==
    LET Grow(side) ==
            LET hits == {i \in side.bitmap : side.ent[i].base = r.base}
            IN  IF hits = {} THEN side ELSE [side EXCEPT !.ent[Lowest(hits)].size = r.size]
    IN  Done([p EXCEPT !.data = Grow(@), !.code = Grow(@)])

TcUnmap(p, prs, r) ==
    LET data == TcFind(p.data, r)
        code == TcFind(p.code, r)
        Drop(side, i) == IF side.ref[i] = 1
                         THEN [side EXCEPT !.bitmap = @ \ {i}, !.ent[i] = NoRegion, !.ref[i] = 0]
                         ELSE [side EXCEPT !.ref[i] = @ - 1]
        p1 == IF data = {} THEN p
              ELSE [p EXCEPT !.data = Drop(@, Lowest(data)),
                             !.re = @ \ {<<prs, Lowest(data)>>}, !.we = @ \ {<<prs, Lowest(data)>>}]
        p2 == IF code = {} THEN p1
              ELSE [p1 EXCEPT !.code = Drop(@, Lowest(code)), !.xe = @ \ {<<prs, Lowest(code)>>}]
    IN  IF data = {} /\ code = {} THEN Denied(p) ELSE Done(p2)

----------------------------------------------------------------------------
(* What core/mpu/mem.c calls.                                               *)

mpu_init(port) ==
    CASE port = "armv8-r" -> ArmInit [] port = "rh850" -> RhInit [] port = "tricore" -> TcInit

mpu_map(port, p, as, r, locked, vm_asid) ==
    CASE port = "armv8-r" -> ArmMap(p, as.id, r, locked, vm_asid)
      [] port = "rh850"   -> RhMap(p, r)
      [] port = "tricore" -> TcMap(p, as.id, r)

mpu_unmap(port, p, as, r, vm_asid) ==
    CASE port = "armv8-r" -> ArmUnmap(p, as.id, r, vm_asid)
      [] port = "rh850"   -> RhUnmap(p, as.type, r)
      [] port = "tricore" -> TcUnmap(p, as.id, r)

mpu_update(port, p, as, r) ==
    CASE port = "armv8-r" -> ArmUpdate(p, as.id, r)
      [] port = "rh850"   -> RhUpdate(p, r)
      [] port = "tricore" -> TcUpdate(p, r)

mpu_perms_compatible(port, f, g) ==
    IF port = "tricore" THEN TRUE     \* all flags allow to read
    ELSE Raw(port, f) = Raw(port, g)

----------------------------------------------------------------------------
(* The pages the unit lets an address space read, and execute.              *)
Readable(port, p, as) ==
    CASE port = "armv8-r" -> UNION {Span(p.ent[i]) : i \in {i \in p.mask[as.type] : p.asid[i] = as.id}}
      [] port = "rh850"   -> UNION {Span(p.ent[i]) : i \in {i \in p.bitmap : Owner(p.ent[i].flags) = as.type}}
      [] port = "tricore" -> UNION {Span(p.data.ent[i]) : i \in {i \in p.data.bitmap : <<as.id, i>> \in p.re}}

Executable(port, p, as) ==
    CASE port = "armv8-r" -> UNION {Span(p.ent[i]) : i \in {i \in p.mask[as.type] : p.asid[i] = as.id /\ Execs(p.ent[i].flags)}}
      [] port = "rh850"   -> UNION {Span(p.ent[i]) : i \in {i \in p.bitmap : Owner(p.ent[i].flags) = as.type
                                                                            /\ p.ent[i].flags \in {"HYP_CODE", "VM"}}}
      [] port = "tricore" -> UNION {Span(p.code.ent[i]) : i \in {i \in p.code.bitmap : <<as.id, i>> \in p.xe}}

=============================================================================
