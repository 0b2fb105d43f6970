------------------------------- MODULE VAplic -------------------------------
(***************************************************************************)
(* The virtual APLIC of a RISC-V VM, in direct delivery (IRQC == APLIC) or  *)
(* with an IMSIC (IRQC == AIA), over the physical one.  The controller is   *)
(* one record a; an operator that a handler of the code is translated to    *)
(* returns the controller after it.  All run under vaplic->lock except the  *)
(* handler of the message UPDATE_HART_LINE.  A register of 32 bits is the   *)
(* set of its interrupts, target a record of its fields, lo the priority or *)
(* in the AIA the EIID.  v and c are vCPUs, a.cpu their physical CPUs.      *)
(***************************************************************************)
EXTENDS Integers, FiniteSets

CONSTANTS
    APLIC_MAX_INTERRUPTS,   \* the interrupts are 1 .. APLIC_MAX_INTERRUPTS - 1
    APLIC_MIN_PRIO

ASSUME VAplicAssumption == {APLIC_MAX_INTERRUPTS, APLIC_MIN_PRIO} \subseteq Nat

INACTIVE == 0               \* APLIC_SOURCECFG_SM_INACTIVE
EDGE_RISE == 4
DELEGATED == 1024           \* APLIC_SRCCFG_D
APLIC_TARGET_MAX_PRIO == 1
VS_FILE_IDX == 1
UPDATE_ALL_HARTS == -1
INVALID_IRQID == -1

Intp == 1 .. APLIC_MAX_INTERRUPTS - 1
vaplic_intp_valid(i) == i \in Intp
NoTarget == [hart |-> 0, lo |-> 0]

Vcpus(a) == DOMAIN a.cpu

----------------------------------------------------------------------------
(* The physical APLIC, external: what a store to one of its registers does. *)
(* An inactive source is neither pending nor enabled.                       *)
aplic_set_sourcecfg(p, i, sm) ==
    IF sm = INACTIVE
    THEN [p EXCEPT !.srccfg[i] = sm, !.pend = @ \ {i}, !.ie = @ \ {i}]
    ELSE [p EXCEPT !.srccfg[i] = sm]
aplic_clr_pend_reg(p, S) == [p EXCEPT !.pend = @ \ S]
aplic_set_enbl_reg(p, S) == [p EXCEPT !.ie = @ \cup {i \in S : p.srccfg[i] # INACTIVE}]
aplic_clr_enbl_reg(p, S) == [p EXCEPT !.ie = @ \ S]
aplic_set_target(p, i, cpu, guest, lo) ==
    [p EXCEPT !.target[i] = [hart |-> cpu, guest |-> guest, lo |-> lo]]

(* aplic_init: all is inactive, and of the lowest priority.                 *)
aplic_init ==
    [srccfg |-> [i \in Intp |-> INACTIVE], pend |-> {}, ie |-> {},
     target |-> [i \in Intp |-> [hart |-> 0, guest |-> 0, lo |-> APLIC_MIN_PRIO]]]

(* vaplic_init and vaplic_set_hw: the VM's struct starts zeroed.            *)
vaplic_init(aia, cpu, hw, phys) ==
    [aia |-> aia, cpu |-> cpu, hw |-> hw, phys |-> phys, domain_ie |-> FALSE,
     srccfg |-> [i \in Intp |-> INACTIVE], active |-> {}, ip |-> {}, ie |-> {},
     target |-> [i \in Intp |-> NoTarget],
     idelivery |-> {}, iforce |-> {}, ithreshold |-> [v \in DOMAIN cpu |-> 0],
     topi |-> [v \in DOMAIN cpu |-> 0],
     line |-> {},                                  \* vCPUs with VSEIP in hvip
     inbox |-> [v \in DOMAIN cpu |-> 0],           \* UPDATE_HART_LINE on the way
     msi |-> {}]                                   \* written to a guest file

(* The states of the controller of a VM whose vCPUs have the CPUs cpu, and  *)
(* what its guest may store.                                                *)
Msis == [cpu : Nat, guest : Nat, eiid : Nat, intp : Intp]
PhysicalAplics ==
    [srccfg : [Intp -> Nat], pend : SUBSET Intp, ie : SUBSET Intp,
     target : [Intp -> [hart : Nat, guest : Nat, lo : Nat]]]
Aplics(cpu) ==
    LET V == DOMAIN cpu
    IN  [aia : BOOLEAN, cpu : {cpu}, hw : SUBSET Intp, domain_ie : BOOLEAN,
         srccfg : [Intp -> Nat], active : SUBSET Intp, ip : SUBSET Intp, ie : SUBSET Intp,
         target : [Intp -> [hart : V, lo : Nat]],
         idelivery : SUBSET V, iforce : SUBSET V, ithreshold : [V -> Nat],
         topi : [V -> Nat], line : SUBSET V, inbox : [V -> Nat], msi : SUBSET Msis,
         phys : PhysicalAplics]

AplicStores ==
    [reg : {"domaincfg"}, en : BOOLEAN]
    \cup [reg : {"sourcecfg"}, intp : Nat, val : Nat]
    \cup [reg : {"setip", "in_clrip", "setie", "clrie"}, set : SUBSET Intp]
    \cup [reg : {"setipnum", "clripnum", "setienum", "clrienum"}, intp : Nat]
    \cup [reg : {"target"}, intp : Nat, hart : Nat, lo : Nat]
    \cup [reg : {"idelivery", "iforce"}, hart : Nat, en : BOOLEAN]
    \cup [reg : {"ithreshold"}, hart : Nat, lo : Nat]

----------------------------------------------------------------------------
(* The interrupts of hart v that are pending and enabled, and the one of    *)
(* them that is delivered: lowest number of priority, then of interrupt.    *)
Candidates(a, v) ==
    {i \in a.ip \cap a.ie : a.target[i].hart = v /\ a.target[i].lo < APLIC_MIN_PRIO}
Best(a, S) ==
    CHOOSE i \in S : \A j \in S : \/ a.target[i].lo < a.target[j].lo
                                  \/ a.target[i].lo = a.target[j].lo /\ i <= j

vaplic_update_topi(a, v) ==
    LET S == Candidates(a, v)
        on == v \in a.idelivery /\ a.domain_ie
        top == /\ S # {} /\ on
               /\ a.ithreshold[v] = 0 \/ a.target[Best(a, S)].lo < a.ithreshold[v]
    IN  [topi |-> IF top THEN Best(a, S) ELSE 0, up |-> top \/ (v \in a.iforce /\ on)]

SetLine(a, v, t) ==
    [a EXCEPT !.topi[v] = t.topi, !.line = IF t.up THEN @ \cup {v} ELSE @ \ {v}]

(* Each hart v is updated times[v] times.  Its own line a CPU sets itself,  *)
(* that of another one by messages.                                         *)
OwnLine(a, c, times) ==
    IF \E v \in Vcpus(a) : times[v] > 0 /\ a.cpu[v] = a.cpu[c]
    THEN SetLine(a, c, vaplic_update_topi(a, c)) ELSE a

vaplic_update_hart_line(a, c, times) ==
    [OwnLine(a, c, times) EXCEPT
        !.inbox = [v \in Vcpus(a) |-> IF a.cpu[v] = a.cpu[c] THEN @[v] ELSE @[v] + times[v]]]

(* The interrupts S, those of them that are pending and enabled.            *)
vaplic_forward_by_msi(a, S) ==
    LET out == S \cap a.ip \cap a.ie
    IN  [a EXCEPT !.ip = @ \ out,
                  !.msi = @ \cup {[cpu |-> a.cpu[a.target[i].hart], guest |-> VS_FILE_IDX,
                                   eiid |-> a.target[i].lo, intp |-> i] : i \in out}]

vaplic_update_hart(a, c, v, irq) ==
    IF a.aia THEN
        IF ~a.domain_ie THEN a
        ELSE vaplic_forward_by_msi(a, IF irq = INVALID_IRQID THEN Intp ELSE {irq})
    ELSE IF v = UPDATE_ALL_HARTS THEN vaplic_update_hart_line(a, c, [u \in Vcpus(a) |-> 1])
    ELSE IF v \in Vcpus(a) THEN
        vaplic_update_hart_line(a, c, [u \in Vcpus(a) |-> IF u = v THEN 1 ELSE 0])
    ELSE a

(* One after the other, for the interrupts S.                               *)
UpdateIntps(a, c, S) ==
    IF a.aia THEN IF a.domain_ie THEN vaplic_forward_by_msi(a, S) ELSE a
    ELSE vaplic_update_hart_line(a, c,
             [u \in Vcpus(a) |-> Cardinality({i \in S : a.target[i].hart = u})])
UpdateIntp(a, c, i) == vaplic_update_hart(a, c, a.target[i].hart, i)

----------------------------------------------------------------------------
(* The registers of the interrupt domain.                                   *)
vaplic_set_domaincfg(a, c, en) ==
    vaplic_update_hart([a EXCEPT !.domain_ie = en], c, UPDATE_ALL_HARTS, INVALID_IRQID)

SourceMode(val) ==
    IF (val \div DELEGATED) % 2 = 1 \/ val % 8 \in {2, 3} THEN INACTIVE ELSE val % 8

(* A source that becomes inactive is reset; the hart that is updated is the *)
(* one its target names after that, which is hart 0.                        *)
vaplic_set_sourcecfg(a, c, i, val) ==
    LET sm == SourceMode(val)
        p == IF i \in a.hw THEN aplic_set_sourcecfg(a.phys, i, sm) ELSE a.phys
        a1 == IF sm = INACTIVE
              THEN [a EXCEPT !.phys = p, !.srccfg[i] = sm, !.active = @ \ {i}, !.ip = @ \ {i},
                             !.ie = @ \ {i}, !.target[i] = NoTarget]
              ELSE [a EXCEPT !.phys = p, !.srccfg[i] = sm, !.active = @ \cup {i}]
    IN  IF vaplic_intp_valid(i) /\ a.srccfg[i] # val THEN UpdateIntp(a1, c, i) ELSE a

(* Only an enabled interrupt becomes pending.                               *)
PendIfEnabled(a, i) == vaplic_intp_valid(i) /\ i \notin a.ip /\ i \in a.active \cap a.ie

CanPend(a, i) == vaplic_intp_valid(i) /\ i \notin a.ip /\ i \in a.active
vaplic_set_pend(a, i) == [a EXCEPT !.ip = @ \cup {i}]

vaplic_set_setip(a, c, S) ==
    LET set == S \cap a.active
    IN  UpdateIntps([a EXCEPT !.ip = @ \cup set], c, set \ a.ip)

vaplic_set_setipnum(a, c, i) ==
    IF CanPend(a, i) THEN UpdateIntp(vaplic_set_pend(a, i), c, i) ELSE a

vaplic_set_in_clrip(a, c, S) ==
    LET clr == S \cap a.active
        p == aplic_clr_pend_reg(a.phys, clr \cap a.hw)
        ip == (a.ip \ clr) \cup p.pend
    IN  UpdateIntps([a EXCEPT !.ip = ip, !.phys = p], c, a.ip \ ip)

(* aplic_clr_pend clears an edge; a level that is still there stays.        *)
vaplic_set_clripnum(a, c, i) ==
    LET p == IF i \in a.hw THEN aplic_clr_pend_reg(a.phys, {i}) ELSE a.phys
    IN  IF i \in a.active /\ i \in a.ip
        THEN UpdateIntp([a EXCEPT !.phys = p, !.ip = @ \ ({i} \ (a.hw \cap p.pend))], c, i)
        ELSE a

vaplic_set_setie(a, c, S) ==
    LET set == S \cap a.active
        a1 == [a EXCEPT !.ie = @ \cup set, !.phys = aplic_set_enbl_reg(@, set \cap a.hw)]
    IN  IF S = a.ie THEN a ELSE UpdateIntps(a1, c, set \ a.ie)

vaplic_set_setienum(a, c, i) ==
    LET p == IF i \in a.hw THEN aplic_set_enbl_reg(a.phys, {i}) ELSE a.phys
    IN  IF i \in a.active /\ i \notin a.ie
        THEN UpdateIntp([a EXCEPT !.phys = p, !.ie = @ \cup {i}], c, i)
        ELSE a

(* The harts updated are those of the pending interrupts that are not       *)
(* disabled.                                                                *)
vaplic_set_clrie(a, c, S) ==
    LET clr == S \cap a.active
        a1 == [a EXCEPT !.ie = @ \ clr, !.phys = aplic_clr_enbl_reg(@, clr \cap a.hw)]
    IN  UpdateIntps(a1, c, a.ip \ clr)

vaplic_set_clrienum(a, c, i) ==
    LET p == IF i \in a.hw THEN aplic_clr_enbl_reg(a.phys, {i}) ELSE a.phys
    IN  IF i \in a.active /\ i \in a.ie
        THEN UpdateIntp([a EXCEPT !.phys = p, !.ie = @ \ {i}], c, i)
        ELSE a

(* A hart the VM does not have is replaced by hart 0, priority 0 by the     *)
(* highest.  The hart the interrupt leaves is updated and so is the new one.*)
vaplic_set_target(a, c, i, hart, low) ==
    LET h == IF hart \in Vcpus(a) THEN hart ELSE 0
        lo == IF ~a.aia /\ low = 0 THEN APLIC_TARGET_MAX_PRIO ELSE low
        guest == IF a.aia THEN VS_FILE_IDX ELSE a.phys.target[i].guest
        p == IF i \in a.hw THEN aplic_set_target(a.phys, i, a.cpu[h], guest, lo) ELSE a.phys
        prev == a.target[i].hart
        a1 == [a EXCEPT !.phys = p, !.target[i] = [hart |-> h, lo |-> lo]]
        a2 == IF prev # h THEN vaplic_update_hart(a1, c, prev, i) ELSE a1
    IN  IF i \in a.active /\ a.target[i] # [hart |-> hart, lo |-> lo]
        THEN UpdateIntp(a2, c, i) ELSE a

(* The registers of the interrupt delivery control of hart v.               *)
UpdateIdc(a, c, v) == vaplic_update_hart(a, c, v, INVALID_IRQID)

vaplic_set_idelivery(a, c, v, en) ==
    UpdateIdc(IF v \notin Vcpus(a) THEN a
              ELSE [a EXCEPT !.idelivery = IF en THEN @ \cup {v} ELSE @ \ {v}], c, v)
vaplic_set_iforce(a, c, v, en) ==
    UpdateIdc(IF v \notin Vcpus(a) THEN a
              ELSE [a EXCEPT !.iforce = IF en THEN @ \cup {v} ELSE @ \ {v}], c, v)
vaplic_set_ithreshold(a, c, v, t) ==
    UpdateIdc(IF v \notin Vcpus(a) THEN a ELSE [a EXCEPT !.ithreshold[v] = t], c, v)

(* The hart is not updated after the claim.                                 *)
ClaimOnly(a, c, v) ==
    IF v \notin Vcpus(a) THEN a
    ELSE [a EXCEPT !.ip = @ \ {a.topi[v]}, !.iforce = IF a.topi[v] = 0 THEN @ \ {v} ELSE @]

(* The value read is a.topi[v].                                             *)
vaplic_get_claimi(a, c, v) ==
    IF v \notin Vcpus(a) THEN a
    ELSE UpdateIdc([a EXCEPT !.ip = @ \ {a.topi[v]},
                             !.iforce = IF a.topi[v] = 0 THEN @ \ {v} ELSE @], c, v)

----------------------------------------------------------------------------
(* A store of the guest on vCPU c.  Loads other than that of claimi change  *)
(* nothing.                                                                 *)
EmulatePend(a, c, w) ==
    CASE w.reg = "setip"    -> vaplic_set_setip(a, c, w.set)
      [] w.reg = "setipnum" -> vaplic_set_setipnum(a, c, w.intp)
      [] w.reg = "in_clrip" -> vaplic_set_in_clrip(a, c, w.set)
      [] w.reg = "clripnum" -> vaplic_set_clripnum(a, c, w.intp)
EmulateEnbl(a, c, w) ==
    CASE w.reg = "setie"    -> vaplic_set_setie(a, c, w.set)
      [] w.reg = "setienum" -> vaplic_set_setienum(a, c, w.intp)
      [] w.reg = "clrie"    -> vaplic_set_clrie(a, c, w.set)
      [] w.reg = "clrienum" -> vaplic_set_clrienum(a, c, w.intp)

vaplic_domain_emul_handler(a, c, w) ==
    CASE w.reg = "domaincfg" -> vaplic_set_domaincfg(a, c, w.en)
      [] w.reg = "sourcecfg" -> vaplic_set_sourcecfg(a, c, w.intp, w.val)
      [] w.reg = "target"    -> vaplic_set_target(a, c, w.intp, w.hart, w.lo)
      [] w.reg \in {"setip", "setipnum", "in_clrip", "clripnum"} -> EmulatePend(a, c, w)
      [] w.reg \in {"setie", "setienum", "clrie", "clrienum"} -> EmulateEnbl(a, c, w)

(* The AIA has no such registers.                                           *)
vaplic_idc_emul_handler(a, c, w) ==
    CASE w.reg = "idelivery"  -> vaplic_set_idelivery(a, c, w.hart, w.en)
      [] w.reg = "iforce"     -> vaplic_set_iforce(a, c, w.hart, w.en)
      [] w.reg = "ithreshold" -> vaplic_set_ithreshold(a, c, w.hart, w.lo)

Emulate(a, c, w) ==
    IF w.reg \notin {"idelivery", "iforce", "ithreshold"} THEN vaplic_domain_emul_handler(a, c, w)
    ELSE IF a.aia THEN a ELSE vaplic_idc_emul_handler(a, c, w)

(* The hypervisor's side: an interrupt for the VM, from vCPU c.             *)
vaplic_inject(a, c, i) ==
    IF CanPend(a, i) THEN UpdateIntp(vaplic_set_pend(a, i), c, i) ELSE a

(* The interrupts the physical APLIC presents to CPU cpu; claimi takes one. *)
aplic_presents(a, cpu) ==
    {i \in a.phys.pend \cap a.phys.ie : a.phys.target[i].hart = cpu}

(* aplic_handle with interrupts_handle, on the CPU of vCPU c.               *)
aplic_handle(a, c, i) == vaplic_inject([a EXCEPT !.phys.pend = @ \ {i}], c, i)

(* The physical APLIC of an AIA forwards an interrupt itself.               *)
aplic_sends(a) == a.phys.pend \cap a.phys.ie
aplic_send(a, i) ==
    [a EXCEPT !.phys.pend = @ \ {i},
              !.msi = @ \cup {[cpu |-> a.phys.target[i].hart, guest |-> a.phys.target[i].guest,
                               eiid |-> a.phys.target[i].lo, intp |-> i]}]

----------------------------------------------------------------------------
(* The physical controller is as the guest left the virtual one, for the    *)
(* VM's interrupts and with the CPUs of its vCPUs; others are as at boot.   *)
AplicMirrors(a) ==
    /\ a.phys.ie = a.ie \cap a.hw
    /\ \A i \in a.hw : /\ a.phys.srccfg[i] = a.srccfg[i]
                       /\ a.target[i] # NoTarget =>
                              /\ a.phys.target[i].hart = a.cpu[a.target[i].hart]
                              /\ a.phys.target[i].lo = a.target[i].lo
    /\ \A i \in Intp \ a.hw : /\ a.phys.srccfg[i] = aplic_init.srccfg[i]
                              /\ a.phys.target[i] = aplic_init.target[i]

(* Active sources have a mode, and only active ones are enabled.            *)
SourcesConsistent(a) ==
    a.ie \subseteq a.active /\ a.active = {i \in Intp : a.srccfg[i] # INACTIVE}

=============================================================================
