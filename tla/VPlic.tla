------------------------------- MODULE VPlic --------------------------------
(***************************************************************************)
(* The virtual PLIC of a RISC-V VM over the physical one.  The controller   *)
(* is one record q.  A context is named by the vCPU whose S-mode context it *)
(* is; those of M-mode are not valid for a guest (vplic_vcntxt_valid).  An  *)
(* operator is the part of a handler under vplic->lock; where the code      *)
(* updates a line after it released the lock, that is an operator of its    *)
(* own.  v and c are vCPUs, q.cpu their physical CPUs.                      *)
(***************************************************************************)
EXTENDS Integers, FiniteSets

CONSTANT PLIC_MAX_INTERRUPTS

ASSUME VPlicAssumption == PLIC_MAX_INTERRUPTS \in Nat

PlicIntp == 1 .. PLIC_MAX_INTERRUPTS - 1

(* The physical PLIC, external.  A context is the CPU whose S-mode context  *)
(* it is; an interrupt in service was claimed and not completed.            *)
plic_set_enbl(p, cpu, i, set) ==
    [p EXCEPT !.enbl[cpu] = IF set THEN @ \cup {i} ELSE @ \ {i}]
plic_set_prio(p, i, prio) == [p EXCEPT !.prio[i] = prio]
plic_set_threshold(p, cpu, t) == [p EXCEPT !.threshold[cpu] = t]
plic_complete(p, cpu, i) == [p EXCEPT !.serv = IF i \in p.enbl[cpu] THEN @ \ {i} ELSE @]

(* plic_init and plic_cpu_init *)
plic_init(cpus) ==
    [enbl |-> [c \in cpus |-> {}], prio |-> [i \in PlicIntp |-> 0],
     threshold |-> [c \in cpus |-> 0], pend |-> {}, serv |-> {}]

(* vplic_init and vplic_set_hw: the VM's struct starts zeroed.              *)
vplic_init(cpu, hw, phys) ==
    [cpu |-> cpu, hw |-> hw, phys |-> phys, pend |-> {}, act |-> {},
     enbl |-> [v \in DOMAIN cpu |-> {}], prio |-> [i \in PlicIntp |-> 0],
     threshold |-> [v \in DOMAIN cpu |-> 0],
     line |-> {},                                  \* vCPUs with VSEIP in hvip
     inbox |-> [v \in DOMAIN cpu |-> 0]]           \* UPDATE_HART_LINE on the way

(* The states of the controller of a VM whose vCPUs have the CPUs cpu, and  *)
(* what its guest may store.                                                *)
Plics(cpu) ==
    LET V == DOMAIN cpu
        Phys == {cpu[v] : v \in V}
    IN  [cpu : {cpu}, hw : SUBSET PlicIntp, pend : SUBSET PlicIntp, act : SUBSET (PlicIntp \cup {0}),
         enbl : [V -> SUBSET PlicIntp], prio : [PlicIntp -> Nat], threshold : [V -> Nat],
         line : SUBSET V, inbox : [V -> Nat],
         phys : [enbl : [Phys -> SUBSET PlicIntp], prio : [PlicIntp -> Nat],
                 threshold : [Phys -> Nat], pend : SUBSET PlicIntp, serv : SUBSET PlicIntp]]

PlicStores(V) ==
    [reg : {"enbl"}, hart : V, intp : PlicIntp, en : BOOLEAN]
    \cup [reg : {"prio"}, intp : PlicIntp, lo : Nat]
    \cup [reg : {"threshold"}, hart : V, lo : Nat]

----------------------------------------------------------------------------
(* The pending interrupt of the highest priority, of the lowest number      *)
(* among equals, if it is above the threshold; else 0.                      *)
vplic_next_pending(q, v) ==
    LET S == {i \in q.pend \ q.act : i \in q.enbl[v] /\ q.prio[i] > 0}
        top == CHOOSE i \in S : \A j \in S : \/ q.prio[i] > q.prio[j]
                                             \/ q.prio[i] = q.prio[j] /\ i <= j
    IN  IF S = {} THEN 0 ELSE IF q.prio[top] > q.threshold[v] THEN top ELSE 0

SetPlicLine(q, v, id) == [q EXCEPT !.line = IF id # 0 THEN @ \cup {v} ELSE @ \ {v}]

(* The lines of the vCPUs V: its own a CPU sets itself, that of another one *)
(* by a message.                                                            *)
UpdateContexts(q, c, V) ==
    LET own == {v \in V : q.cpu[v] = q.cpu[c]}
    IN  [q EXCEPT !.line = (@ \ own) \cup {v \in own : vplic_next_pending(q, v) # 0},
                  !.inbox = [v \in DOMAIN q.cpu |-> IF v \in V \ own THEN @[v] + 1 ELSE @[v]]]

vplic_update_hart_line(q, c, v) == UpdateContexts(q, c, {v})

vplic_set_threshold(q, v, t) ==
    [q EXCEPT !.threshold[v] = t, !.phys = plic_set_threshold(@, q.cpu[v], t)]

(* The context enabled is that of the CPU that stores.                      *)
EnblOwnContext(q, c, v, i, set) ==
    LET q1 == [q EXCEPT !.enbl[v] = IF set THEN @ \cup {i} ELSE @ \ {i}]
    IN  IF i \in q.enbl[v] <=> set THEN q
        ELSE IF i \in q.hw THEN [q1 EXCEPT !.phys = plic_set_enbl(@, q.cpu[c], i, set)]
        ELSE vplic_update_hart_line(q1, c, v)

vplic_set_enbl(q, c, v, i, set) ==
    LET q1 == [q EXCEPT !.enbl[v] = IF set THEN @ \cup {i} ELSE @ \ {i}]
    IN  IF i \in q.enbl[v] <=> set THEN q
        ELSE IF i \in q.hw THEN [q1 EXCEPT !.phys = plic_set_enbl(@, q.cpu[v], i, set)]
        ELSE vplic_update_hart_line(q1, c, v)

vplic_set_prio(q, c, i, prio) ==
    LET q1 == [q EXCEPT !.prio[i] = prio]
    IN  IF q.prio[i] = prio THEN q
        ELSE IF i \in q.hw THEN [q1 EXCEPT !.phys = plic_set_prio(@, i, prio)]
        ELSE UpdateContexts(q1, c, {v \in DOMAIN q.cpu : i \in q.enbl[v]})

(* The interrupt claimed is vplic_next_pending, 0 for none.                 *)
vplic_claim(q, v) ==
    LET i == vplic_next_pending(q, v)
    IN  [q EXCEPT !.pend = @ \ {i}, !.act = @ \cup {i}]

(* The physical completion comes before the lock is taken.                  *)
vplic_complete_hw(q, c, i) ==
    IF i \in q.hw THEN [q EXCEPT !.phys = plic_complete(@, q.cpu[c], i)] ELSE q
vplic_complete(q, i) == [q EXCEPT !.act = @ \ {i}]

vplic_inject(q, c, i) ==
    LET q1 == [q EXCEPT !.pend = @ \cup {i}]
    IN  IF i \notin PlicIntp \/ i \in q.pend THEN q
        ELSE IF i \in q.hw THEN vplic_update_hart_line(q1, c, c)
        ELSE UpdateContexts(q1, c, {v \in DOMAIN q.cpu : i \in q.enbl[v] /\ q.prio[i] > q.threshold[v]})

(* vplic_global_emul_handler: the stores that are done under the lock; an   *)
(* enable register is stored one interrupt at a time.                       *)
EmulateGlobal(q, c, w) ==
    CASE w.reg = "enbl" -> vplic_set_enbl(q, c, w.hart, w.intp, w.en)
      [] w.reg = "prio" -> vplic_set_prio(q, c, w.intp, w.lo)

(* The interrupts the physical PLIC presents to a CPU; plic_handle claims   *)
(* one and interrupts_handle injects it into the vCPU c that runs there.    *)
plic_presents(q, cpu) ==
    {i \in q.phys.pend : i \in q.phys.enbl[cpu] /\ q.phys.prio[i] > q.phys.threshold[cpu]}

plic_handle(q, c, i) ==
    vplic_inject([q EXCEPT !.phys.pend = @ \ {i}, !.phys.serv = @ \cup {i}], c, i)

----------------------------------------------------------------------------
(* The physical controller is as the guest left the virtual one, for the    *)
(* VM's interrupts and for its CPUs; others have priority 0.                *)
PlicMirrors(q) ==
    /\ \A v \in DOMAIN q.cpu : /\ q.phys.enbl[q.cpu[v]] = q.enbl[v] \cap q.hw
                              /\ q.phys.threshold[q.cpu[v]] = q.threshold[v]
    /\ \A i \in PlicIntp : q.phys.prio[i] = IF i \in q.hw THEN q.prio[i] ELSE 0

(* An interrupt is enabled for one vCPU at a time.                          *)
OneEnables(q) == \A v, w \in DOMAIN q.cpu : v # w => q.enbl[v] \cap q.enbl[w] = {}

=============================================================================
