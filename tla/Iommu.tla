------------------------------- MODULE Iommu -------------------------------
(***************************************************************************)
(* The IOMMUs (core/mmu/io.c, armv8-a/iommu.c and smmuv2.c, riscv/iommu.c). *)
(* The masters of the VMs, all at the same time, ask that their devices be  *)
(* translated by the VM's own page table (the second half of vm_init_dev);  *)
(* on Arm groups of streams first, then the devices.  Every function that   *)
(* takes a lock of the driver is a step; so are the two stores that make a  *)
(* device directory entry of the RISC-V IOMMU.  ERROR stops the CPU, with   *)
(* the lock it holds.  The RISC-V IOMMU also reports the faults of devices  *)
(* in a queue, which its interrupt handler drains.                          *)
(*                                                                          *)
(* A stream or device identifier is the set of its bits that are one; so is *)
(* a mask.  The code compares masks as numbers only where one of the two    *)
(* includes the other, and then "greater" is "includes and differs".        *)
(* Context banks, entries and queue slots are numbered from 0.              *)
(***************************************************************************)
EXTENDS Integers, FiniteSets, FiniteSetsExt, Sequences

CONSTANTS
    VM,        \* the VMs
    Bits,      \* the bits of a stream identifier
    SmeNum,    \* smmu.sme_num
    CtxNum,    \* smmu.ctx_num
    ResetCtx,  \* the context banks that S2CR may name after reset
    FqSize     \* FQ_N_ENTRIES

Id == SUBSET Bits

Sme == 0 .. SmeNum - 1

Ctx == 0 .. CtxNum - 1

(* No context bank or entry; a device directory entry that is not valid,   *)
(* or valid without a page table.                                           *)
None == -1

Bare == -2

(* kind: an entry of smmu.groups or of devs; a device has the mask {}.      *)
Request == [kind : {"group", "device"}, mask : Id, id : Id]

(* Set-up s has no masks for v: only the configuration of Arm has them.     *)
Exact(s, v) ==
    s.global_mask[v] = {} /\ \A n \in 1 .. Len(s.streams[v]) : s.streams[v][n].mask = {}

(* The stream match entry for the n-th request of v, with the streams and   *)
(* masks of a set-up; a stream that two entries match; an entry that has    *)
(* all streams of another and more.                                         *)
Entry(st, gm, v, n) ==
    [mask |-> st[v][n].mask \cup gm[v], id |-> st[v][n].id, valid |-> TRUE]

Meet(r, t) == SymDiff(r.id, t.id) \subseteq r.mask \cup t.mask

Exceeds(r, t) == t.mask \subseteq r.mask /\ t.mask # r.mask /\ Meet(r, t)

(* A stream match entry after smmu_init.                                    *)
Blank == [mask |-> {}, id |-> {}, valid |-> FALSE]

(* What the driver relies on for a device to reach its VM: a later request  *)
(* replaces at most one earlier entry, and an earlier one is replaced once; *)
(* what a VM asks for after it has replaced an entry is nobody else's.      *)
Disciplined(st, gm) ==
    \A v \in VM : LET E(n) == Entry(st, gm, v, n) IN
        \A a, b, c \in DOMAIN st[v] :
            /\ a < c /\ b < c /\ Exceeds(E(c), E(a)) /\ Exceeds(E(c), E(b)) => Meet(E(a), E(b))
            /\ a < b /\ b < c /\ Exceeds(E(b), E(a)) =>
                   /\ ~Exceeds(E(c), E(a))
                   /\ \A w \in VM \ {v} : \A m \in DOMAIN st[w] : ~Meet(E(c), Entry(st, gm, w, m))

(* S2CR names no context bank after reset that a VM will have; or no two    *)
(* VMs ask for the same stream and nobody for one of a blank entry.         *)
Beyond == ResetCtx \subseteq Cardinality(VM) .. CtxNum - 1

Separate(st, gm) ==
    \A v, w \in VM : \A n \in DOMAIN st[v] :
        /\ ~Meet(Entry(st, gm, v, n), Blank)
        /\ v # w => \A m \in DOMAIN st[w] : ~Meet(Entry(st, gm, v, n), Entry(st, gm, w, m))

VARIABLES
    iommu,     \* "smmu", "riscv" or "none"
    streams,   \* streams[v]: what VM v is configured with
    global_mask, \* global_mask[v]: its stream bits that never count
    ioat,      \* ioat[v]: how many of streams[v] are done
    iopc,      \* iopc[v]: where iommu_vm_arch_add is; "skipped" after a failed group
    iosme,     \* iosme[v]: the stream match entry it allocated
    stopped,   \* the VMs whose master is in ERROR
    ctx_id,    \* ctx_id[v]: vm->io.prot.mmu.ctx_id
    banks,     \* banks[c]: the VM whose page table context bank c has
    sme_held,  \* a CPU is in ERROR with sme_lock
    sme_bitmap,
    grp_bitmap,
    smr,       \* SMR[sme]: mask, id and valid
    s2cr,      \* S2CR[sme]: the context bank
    ddt_bitmap,
    ddt,       \* ddt[d]: None, Bare or the VM
    fqh, fqt,  \* head and tail of the fault queue
    fqof,      \* fqcsr.fqof
    fip,       \* ipsr.fip
    fqpc,      \* where rv_iommu_fq_irq_handler is
    fqseen     \* the tail it has read

setup == <<ioat, iopc, iosme, stopped, ctx_id, banks, sme_held, sme_bitmap, grp_bitmap,
           smr, s2cr, ddt_bitmap, ddt>>

queue == <<fqh, fqt, fqof, fip, fqpc, fqseen>>

configured == <<iommu, streams, global_mask>>

vars == <<configured, setup, queue>>

(* Nothing is allocated and no stream match entry is valid.  S2CR is not    *)
(* initialised: it holds what it had after reset.                           *)
smmu_init ==
    /\ ctx_id = [v \in VM |-> None]
    /\ banks = [c \in Ctx |-> None]
    /\ sme_held = FALSE
    /\ sme_bitmap = {} /\ grp_bitmap = {}
    /\ smr = [k \in Sme |-> Blank]
    /\ \E c \in ResetCtx : s2cr = [k \in Sme |-> c]

(* The device directory and the fault queue are empty, no interrupt is      *)
(* pending.                                                                 *)
rv_iommu_init ==
    /\ ddt_bitmap = {}
    /\ ddt = [d \in Id |-> None]
    /\ fqh = 0 /\ fqt = 0 /\ fqof = FALSE /\ fip = FALSE
    /\ fqpc = "idle" /\ fqseen = 0

(* io_init, and no VM has asked for anything.                               *)
InitUnit ==
    /\ smmu_init
    /\ rv_iommu_init
    /\ ioat = [v \in VM |-> 0]
    /\ iopc = [v \in VM |-> "next"]
    /\ iosme = [v \in VM |-> None]

----------------------------------------------------------------------------
(* What VM v asks for now.                                                  *)
Asked(v) == streams[v][ioat[v] + 1]

Asks(v, at) ==
    /\ v \notin stopped
    /\ iopc[v] = at
    /\ ioat[v] < Len(streams[v])

(* prep_mask *)
PrepMask(v) == Asked(v).mask \cup global_mask[v]

IsGroup(v) == Asked(v).mask # {}

Added(v) == ioat' = [ioat EXCEPT ![v] = @ + 1] /\ iopc' = [iopc EXCEPT ![v] = "next"]

Goto(v, at) == iopc' = [iopc EXCEPT ![v] = at] /\ UNCHANGED ioat

(* iommu_vm_arch_add returned false.  For a group, so does io_vm_init, and  *)
(* vm_init_dev goes on without any device; for a device that is an ERROR.   *)
Failed(v) ==
    IF Asked(v).kind = "group"
    THEN Goto(v, "skipped") /\ UNCHANGED stopped
    ELSE stopped' = stopped \cup {v} /\ UNCHANGED <<ioat, iopc>>

(* An ERROR in a function that has taken sme_lock.                          *)
ErrorInLock(v) ==
    /\ stopped' = stopped \cup {v}
    /\ sme_held' = TRUE
    /\ UNCHANGED <<ioat, iopc>>

----------------------------------------------------------------------------
(* The SMMU.                                                                *)

(* The first context bank that is free, or None.                            *)
smmu_alloc_ctxbnk ==
    LET free == {c \in Ctx : banks[c] = None}
    IN  IF free = {} THEN None ELSE Min(free)

(* The bank gets the page table of the VM.                                  *)
smmu_write_ctxbnk(ctx, v) == banks' = [banks EXCEPT ![ctx] = v]

(* A VM has one context bank, which it allocates once.  Nobody else can     *)
(* name it between smmu_alloc_ctxbnk and smmu_write_ctxbnk.                 *)
iommu_vm_arch_init_ctx(v) ==
    /\ iommu = "smmu"
    /\ Asks(v, "next")
    /\ IF ctx_id[v] # None
       THEN Goto(v, "match") /\ UNCHANGED <<ctx_id, banks, stopped>>
       ELSE IF smmu_alloc_ctxbnk = None
       THEN Failed(v) /\ UNCHANGED <<ctx_id, banks>>
       ELSE /\ ctx_id' = [ctx_id EXCEPT ![v] = smmu_alloc_ctxbnk]
            /\ smmu_write_ctxbnk(smmu_alloc_ctxbnk, v)
            /\ Goto(v, "match")
            /\ UNCHANGED stopped
    /\ UNCHANGED <<iosme, sme_held, sme_bitmap, grp_bitmap, smr, s2cr, ddt_bitmap, ddt>>

(* diff_id = 0: some stream matches both the request of v and entry k.      *)
Overlaps(v, k) ==
    SymDiff(smr[k].id, Asked(v).id) \subseteq PrepMask(v) \cup smr[k].mask

(* Mutant: an entry of another VM's context will do as well.                *)
AnyContext(v, k) ==
    /\ IsGroup(v) \/ k \in grp_bitmap
    /\ PrepMask(v) \subseteq smr[k].mask \/ smr[k].mask \subseteq PrepMask(v)

Compatible(v, k) ==
    /\ IsGroup(v) \/ k \in grp_bitmap
    /\ PrepMask(v) \subseteq smr[k].mask \/ smr[k].mask \subseteq PrepMask(v)
    /\ ctx_id[v] = s2cr[k]

Larger(v, k) == smr[k].mask \subseteq PrepMask(v) /\ smr[k].mask # PrepMask(v)

(* The entries in order: one that is compatible and smaller is given up and *)
(* the search goes on; one that is compatible and as large ends it; one     *)
(* that is not compatible is an ERROR.                                      *)
smmu_compatible_sme_exists(v) ==
    /\ Asks(v, "match")
    /\ ~sme_held
    /\ LET hits == {k \in sme_bitmap : Overlaps(v, k)}
           ends == {k \in hits : ~(Compatible(v, k) /\ Larger(v, k))}
           past == {k \in hits : \A e \in ends : k < e}
       IN  /\ sme_bitmap' = sme_bitmap \ past
           /\ \/ ends = {} /\ Goto(v, "alloc") /\ UNCHANGED <<stopped, sme_held>>
              \/ /\ ends # {}
                 /\ Compatible(v, Min(ends))
                 /\ Added(v)
                 /\ UNCHANGED <<stopped, sme_held>>
              \/ ends # {} /\ ~Compatible(v, Min(ends)) /\ ErrorInLock(v)
    /\ UNCHANGED <<iosme, ctx_id, banks, grp_bitmap, smr, s2cr, ddt_bitmap, ddt>>

smmu_alloc_sme(v) ==
    /\ Asks(v, "alloc")
    /\ ~sme_held
    /\ LET free == Sme \ sme_bitmap
       IN  \/ /\ free # {}
              /\ sme_bitmap' = sme_bitmap \cup {Min(free)}
              /\ iosme' = [iosme EXCEPT ![v] = Min(free)]
              /\ Goto(v, "write")
              /\ UNCHANGED stopped
           \/ free = {} /\ Failed(v) /\ UNCHANGED <<sme_bitmap, iosme>>
    /\ UNCHANGED <<ctx_id, banks, sme_held, grp_bitmap, smr, s2cr, ddt_bitmap, ddt>>

(* A bit of grp_bitmap is never cleared again.                              *)
smmu_write_sme(v) ==
    /\ Asks(v, "write")
    /\ ~sme_held
    /\ IF iosme[v] \in sme_bitmap
       THEN /\ smr' = [smr EXCEPT ![iosme[v]] =
                          [mask |-> PrepMask(v), id |-> Asked(v).id, valid |-> TRUE]]
            /\ grp_bitmap' = grp_bitmap \cup {k \in {iosme[v]} : IsGroup(v)}
            /\ Goto(v, "bind")
            /\ UNCHANGED <<stopped, sme_held>>
       ELSE ErrorInLock(v) /\ UNCHANGED <<smr, grp_bitmap>>
    /\ UNCHANGED <<iosme, ctx_id, banks, sme_bitmap, s2cr, ddt_bitmap, ddt>>

smmu_write_s2c(v) ==
    /\ Asks(v, "bind")
    /\ ~sme_held
    /\ IF iosme[v] \in sme_bitmap
       THEN /\ s2cr' = [s2cr EXCEPT ![iosme[v]] = ctx_id[v]]
            /\ Added(v)
            /\ UNCHANGED <<stopped, sme_held>>
       ELSE ErrorInLock(v) /\ UNCHANGED s2cr
    /\ UNCHANGED <<iosme, ctx_id, banks, sme_bitmap, grp_bitmap, smr, ddt_bitmap, ddt>>

----------------------------------------------------------------------------
(* The RISC-V IOMMU.                                                        *)

(* rv_iommu_alloc_did; a device identifier that is taken is an ERROR.       *)
rv_iommu_alloc_did(v) ==
    /\ iommu = "riscv"
    /\ Asks(v, "next")
    /\ \/ /\ Asked(v).id \notin ddt_bitmap
          /\ ddt_bitmap' = ddt_bitmap \cup {Asked(v).id}
          /\ Goto(v, "enable")
          /\ UNCHANGED stopped
       \/ Asked(v).id \in ddt_bitmap /\ Failed(v) /\ UNCHANGED ddt_bitmap
    /\ UNCHANGED <<iosme, ctx_id, banks, sme_held, sme_bitmap, grp_bitmap, smr, s2cr, ddt>>

(* rv_iommu_write_ddt: the entry is made valid, then given its page table.  *)
rv_iommu_write_ddt(v) ==
    /\ \/ Asks(v, "enable") /\ ddt' = [ddt EXCEPT ![Asked(v).id] = Bare] /\ Goto(v, "root")
       \/ Asks(v, "root") /\ ddt' = [ddt EXCEPT ![Asked(v).id] = v] /\ Added(v)
    /\ UNCHANGED <<iosme, stopped, ctx_id, banks, sme_held, sme_bitmap, grp_bitmap, smr, s2cr,
                   ddt_bitmap>>

(* iommu_vm_arch_add of the two drivers, one step of it.                    *)
smmu_add(v) ==
    \/ iommu_vm_arch_init_ctx(v) \/ smmu_compatible_sme_exists(v) \/ smmu_alloc_sme(v)
    \/ smmu_write_sme(v) \/ smmu_write_s2c(v)

rv_iommu_add(v) == rv_iommu_alloc_did(v) \/ rv_iommu_write_ddt(v)

(* What vm_init_dev does after the lines, one step of it.                   *)
io_vm_add(v) ==
    /\ smmu_add(v) \/ rv_iommu_add(v)
    /\ UNCHANGED <<configured, queue>>

IoDone(v) == ioat[v] = Len(streams[v]) \/ iopc[v] = "skipped"

(* The hardware finds a fault of a device: a full queue drops it and says   *)
(* so, and drops all the others until that flag is cleared.                 *)
DeviceFault ==
    /\ iommu = "riscv"
    /\ ~fqof
    /\ IF (fqt + 1) % FqSize = fqh
       THEN fqof' = TRUE /\ UNCHANGED fqt
       ELSE fqt' = (fqt + 1) % FqSize /\ UNCHANGED fqof
    /\ fip' = TRUE
    /\ UNCHANGED <<configured, setup, fqh, fqpc, fqseen>>

(* rv_iommu_fq_irq_handler on the platform's master: reads and clears the   *)
(* error flags ...                                                          *)
FqErrors ==
    /\ fqpc = "idle" /\ fip
    /\ fqpc' = IF fqof THEN "clear" ELSE "ack"
    /\ UNCHANGED <<configured, setup, fqh, fqt, fqof, fip, fqseen>>

FqClearErrors ==
    /\ fqpc = "clear"
    /\ fqof' = FALSE
    /\ fqpc' = "ack"
    /\ UNCHANGED <<configured, setup, fqh, fqt, fip, fqseen>>

(* ... clears ipsr.fip, which the hardware sets again if the error is       *)
(* still there ...                                                          *)
FqAcknowledge ==
    /\ fqpc = "ack"
    /\ fip' = fqof
    /\ fqpc' = "read"
    /\ UNCHANGED <<configured, setup, fqh, fqt, fqof, fqseen>>

(* ... and reads the tail and reports up to there.                          *)
FqRead ==
    /\ fqpc = "read"
    /\ fqseen' = fqt
    /\ fqpc' = "report"
    /\ UNCHANGED <<configured, setup, fqh, fqt, fqof, fip>>

(* Mutant: the interrupt is acknowledged when the faults are reported.      *)
ReportAndAcknowledge ==
    /\ fqpc = "report"
    /\ fqh' = fqseen
    /\ fip' = fqof
    /\ fqpc' = "idle"
    /\ UNCHANGED <<configured, setup, fqt, fqof, fqseen>>

FqReport ==
    /\ fqpc = "report"
    /\ fqh' = fqseen
    /\ fqpc' = "idle"
    /\ UNCHANGED <<configured, setup, fqt, fqof, fip, fqseen>>

rv_iommu_fq_irq_handler ==
    \/ FqErrors \/ FqClearErrors \/ FqAcknowledge \/ FqRead \/ FqReport

----------------------------------------------------------------------------
(* What is configured keeps to what the driver relies on.                   *)
Reliable ==
    iommu = "smmu" => /\ Disciplined(streams, global_mask)
                      /\ Beyond \/ Separate(streams, global_mask)

(* The streams that a request of v covers.                                  *)
Covers(v, r, s) == SymDiff(s, r.id) \subseteq r.mask \cup global_mask[v]

Wants(v, s) == \E n \in 1 .. Len(streams[v]) : Covers(v, streams[v][n], s)

Hits(s) == {k \in Sme : smr[k].valid /\ SymDiff(s, smr[k].id) \subseteq smr[k].mask}

(* Entry k is valid and not bound yet.                                      *)
InSetup(k) == \E v \in VM : iopc[v] = "bind" /\ iosme[v] = k

(* Where the IOMMU sends an access of stream s: Fault; Unbound in the       *)
(* middle of an entry's set-up; or the VM whose page table translates it.   *)
Fault == -1

Unbound == -2

Target(s) ==
    CASE iommu = "riscv" /\ ddt[s] = None -> Fault
      [] iommu = "riscv" /\ ddt[s] = Bare -> Unbound
      [] iommu = "riscv" /\ ddt[s] \in VM -> ddt[s]
      [] iommu # "riscv" /\ Cardinality(Hits(s)) # 1 -> Fault
      [] OTHER -> LET k == CHOOSE k \in Hits(s) : TRUE
                  IN  IF InSetup(k) THEN Unbound ELSE banks[s2cr[k]]

(* Once an entry is bound, a device's accesses go to no VM but one that     *)
(* is configured with the device, also while the other VMs still add,       *)
(* merge and give up entries.                                               *)
DmaConfined ==
    \A s \in Id : Target(s) \in VM => Wants(Target(s), s)

(* Nobody is about to allocate an entry, or to write one.                   *)
Settled == \A w \in VM : iopc[w] \notin {"alloc", "write", "bind"}

(* A VM whose set-up is over, without an ERROR and without a group that     *)
(* did not fit, has its devices: none of them reaches another VM, and one   *)
(* that no other VM is configured with reaches this VM, as soon as no entry *)
(* is being allocated or written (an entry given up stays valid until its   *)
(* next owner writes it).                                                   *)
DeviceAttached ==
    \A v \in VM : ioat[v] = Len(streams[v]) =>
        \A s \in Id : Wants(v, s) =>
            /\ Target(s) \in {v, Fault, Unbound}
            /\ Settled /\ (\A w \in VM \ {v} : ~Wants(w, s)) => Target(s) = v

(* No fault waits for the next one to be reported: with the handler idle    *)
(* and its interrupt not pending the queue is empty and open.               *)
FaultsReported == fqpc = "idle" /\ ~fip => fqh = fqt /\ ~fqof

=============================================================================
