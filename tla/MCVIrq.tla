------------------------------- MODULE MCVIrq -------------------------------
(***************************************************************************)
(* The interrupts of guests on the ports other than Arm: a platform with a  *)
(* controller of RISC-V (module RiscvIrqc) or one whose hardware delivers   *)
(* to guests (module DirectIrqs).  What is not the platform stays in its    *)
(* initial state.                                                           *)
(***************************************************************************)
EXTENDS RiscvIrqc, DirectIrqs, SequencesExt

VARIABLE machine     \* "riscv" or "direct"

(* Two vCPUs, on CPUs numbered the other way round.  Interrupt 1 is of a    *)
(* device of the VM, 2 of the hypervisor, 3 of another VM's device.         *)
Cpus == [v \in {0, 1} |-> 1 - v]
Hw == {1}

En(r, b) == [reg |-> r, en |-> b]
Hart(r, h, b) == [reg |-> r, hart |-> h, en |-> b]
Num(r, i) == [reg |-> r, intp |-> i]
Bits(r, S) == [reg |-> r, set |-> S]
Src(i, v) == [reg |-> "sourcecfg", intp |-> i, val |-> v]
Tgt(i, h, l) == [reg |-> "target", intp |-> i, hart |-> h, lo |-> l]
Thr(r, h, l) == [reg |-> r, hart |-> h, lo |-> l]
Enbl(h, i, b) == [reg |-> "enbl", hart |-> h, intp |-> i, en |-> b]
Prio(i, l) == [reg |-> "prio", intp |-> i, lo |-> l]

(* A guest's start: the controller after its stores, with their messages    *)
(* handled; nothing is pending yet.                                         *)
AtRest(c) == [c EXCEPT !.inbox = [v \in DOMAIN @ |-> 0]]
Started(aia, ws) ==
    AtRest(FoldLeft(LAMBDA a, w : Emulate(a, 0, w), vaplic_init(aia, Cpus, Hw, aplic_init), ws))

Common == <<Src(1, EDGE_RISE), Src(2, EDGE_RISE), Bits("setie", {1, 2}), En("domaincfg", TRUE)>>
Idcs == <<Hart("idelivery", 0, TRUE), Hart("idelivery", 1, TRUE)>>

PlicStarted(ws) ==
    AtRest(FoldLeft(LAMBDA q, w : EmulateGlobal(q, 0, w),
                    vplic_init(Cpus, Hw, plic_init({0, 1})), ws))

MCConfigs ==
    {[port |-> "aplic", irqc |-> Started(FALSE, Common \o Idcs \o t)] :
        t \in {<<Tgt(1, 0, 1), Tgt(2, 0, 2)>>, <<Tgt(1, 1, 2), Tgt(2, 0, 2)>>}}
    \cup {[port |-> "aia", irqc |-> Started(TRUE, Common \o <<Tgt(1, 0, 1), Tgt(2, 1, 2)>>)]}
    \cup {[port |-> "plic", irqc |-> PlicStarted(ws)] :
        ws \in {<<Prio(1, 1), Prio(2, 2), Enbl(0, 1, TRUE), Enbl(0, 2, TRUE)>>,
                <<Prio(1, 2), Prio(2, 1), Enbl(0, 1, TRUE), Enbl(1, 2, TRUE)>>}}

MCAplicStores ==
    {En("domaincfg", b) : b \in BOOLEAN}
    \cup {Src(i, v) : i \in {1, 2}, v \in {DELEGATED, 2, EDGE_RISE}}
    \cup {Bits(r, S) : r \in {"setip", "in_clrip", "clrie"}, S \in {{1}, {2, 3}}}
    \cup {Bits("setie", {1, 2, 3})}
    \cup {Num(r, i) : r \in {"setipnum", "clripnum", "setienum", "clrienum"}, i \in {1, 2}}
    \cup {Tgt(i, h, l) : i \in {1, 2}, h \in {0, 1, 7}, l \in {0, 2}}

IdcStores ==
    {Hart(r, h, b) : r \in {"idelivery", "iforce"}, h \in {0, 1}, b \in BOOLEAN}
    \cup {Thr("ithreshold", h, l) : h \in {0, 1}, l \in {0, 2}}

MCPlicStores ==
    {Enbl(h, i, b) : h \in {0, 1}, i \in {1, 2, 3}, b \in BOOLEAN}
    \cup {Prio(i, l) : i \in {1, 2, 3}, l \in {0, 2}}
    \cup {Thr("threshold", h, l) : h \in {0, 1}, l \in {0, 1}}

MCStores == [p \in {"plic", "aplic", "aia"} |->
                CASE p = "plic" -> MCPlicStores
                  [] p = "aplic" -> MCAplicStores \cup IdcStores
                  [] p = "aia" -> MCAplicStores]

(* VM 1 has the CPUs 2 and 0, in this order, VM 2 has CPU 1; interrupt 0 is *)
(* the hypervisor's.  The registers IMR 0 and 1 are of VM 1, 2 of VM 2.     *)
Board(p) ==
    [port |-> p, all |-> {0, 1, 2, 4}, cpus |-> [c \in 0 .. 2 |-> IF c = 1 THEN 2 ELSE 1],
     vcpu |-> [m \in {1, 2} |-> IF m = 1 THEN [v \in {0, 1} |-> IF v = 0 THEN 2 ELSE 0]
                                ELSE [v \in {0} |-> 1]],
     irqs |-> [m \in {1, 2} |-> IF m = 1 THEN {1, 2} ELSE {4}],
     virq |-> [m \in {1, 2} |-> IF m = 1 THEN {} ELSE {4}]]
MCBoards == {Board("rh850"), Board("tricore")}

ASSUME BoardsAssumption == \A b \in MCBoards : WellFormed(b)

Eic(i, e, p) == [reg |-> "EIC", intp |-> i, bytes |-> {0, 1}, en |-> e, prio |-> 1, pend |-> p]
Imr(r, S) == [reg |-> "IMR", reg_idx |-> r, unmasked |-> S]
Eibd(i, v) == [reg |-> "EIBD", intp |-> i, vcpu |-> v]
Ipir(r, self, v, k, S) == [reg |-> r, self |-> self, vcpu |-> v, chan |-> k, mask |-> S]
SrcReg(i, c, e, s, k) ==
    [reg |-> "SRC", intp |-> i, cpu |-> c, en |-> e, prio |-> 1, setr |-> s, clrr |-> k]

MCAccesses == [p \in {"rh850", "tricore"} |->
    IF p = "rh850" THEN
        {Eic(i, e, q) : i \in {0, 2, 4}, e \in {0, 1}, q \in {0, 1}}
        \cup {Imr(0, {}), Imr(0, {1}), Imr(2, {4})} \cup {Eibd(i, v) : i \in {1, 4}, v \in {1, 5}}
        \cup {[reg |-> "EEIC", intp |-> i, det |-> 1] : i \in {1, 4}}
        \cup {Ipir(r, FALSE, 1, k, {0, 1, 2}) : r \in {"EN", "REQ", "FCLR"}, k \in CHAN}
        \cup {Ipir("REQ", TRUE, 0, "guest", {0})}
    ELSE {SrcReg(i, c, e, s, k) : i \in {1, 4}, c \in {0, 1, 2, 9}, e \in {0, 1},
                                  s \in BOOLEAN, k \in BOOLEAN}]

FirstConfig == [port |-> "plic", irqc |-> PlicStarted(<<>>)]

ASSUME ConfigsAssumption == \A c \in MCConfigs \cup {FirstConfig} : RvWellFormed(c)

MCInit ==
    \/ machine = "riscv" /\ (\E c \in MCConfigs : RvInit(c)) /\ DeInit(Board("rh850"))
    \/ machine = "direct" /\ RvInit(FirstConfig) /\ \E b \in MCBoards : DeInit(b)

MCNext ==
    \/ machine = "riscv" /\ RvNext /\ UNCHANGED <<machine, devars>>
    \/ machine = "direct" /\ DeNext /\ UNCHANGED <<machine, rvvars>>

MCSpec ==
    /\ MCInit
    /\ [][MCNext]_<<machine, rvvars, devars>>
    /\ RvFairness({0, 1})
    /\ DeFairness(0 .. 2)

----------------------------------------------------------------------------
(* An interrupt raised by a device or injected by the hypervisor stays in   *)
(* one of the controllers until a guest takes it or gives it up, and none   *)
(* that a vCPU may take is left without a line or an MSI, however stores,   *)
(* injections and messages of several CPUs interleave (vplic.c, vaplic.c).  *)
NotLost == RiscvNotLost /\ DirectNotLost /\ RiscvSignalled

(* The physical controller does for a VM's interrupts what the VM           *)
(* configured, for the CPUs of the VM, and is as the hypervisor left it for *)
(* all other interrupts.                                                    *)
Confined == RiscvMirrors /\ DirectConfined

(* An interrupt that a guest may take is eventually taken.                  *)
Drained == RiscvDrained /\ DirectDrained
=============================================================================
